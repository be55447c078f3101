SPECIFICATION Spec
CONSTANTS
  N = 3
  Systems = {s1, s2}
  NoSystem = NoSystem
  TargetCount = 2
  Times <- MCTimes
  ContextHours = 2
  RecentHours = 1
  MaxRecords = 1
INVARIANT PromptSeesEarlierDiagnoses
INVARIANT TailIsLive
INVARIANT OrderUnlessOneFails
INVARIANT NothingRunsAfterClose
PROPERTY NoSendAfterClose
PROPERTY TurnsImplemented
SYMMETRY MCSymmetry
