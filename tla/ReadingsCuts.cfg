SPECIFICATION Spec
CONSTANT Inputs <- MCInputs
INVARIANT EveryCutIsTold
