SPECIFICATION Spec
CONSTANT Inputs <- MCInputs
INVARIANT QualityIsHonest
INVARIANT NoneIsOutshone
INVARIANT PromptIsHonest
INVARIANT ChartsShowEverySample
INVARIANT TicksAreReadable
INVARIANT CurveStaysBetween
