SPECIFICATION Spec
CONSTANTS
  N = 3
  Systems = {s1}
  NoSystem = NoSystem
  TargetCount = 1
  Times <- MCEndTimes
  ContextHours = 2
  RecentHours = 1
  MaxRecords = 1
INVARIANT AnalysesInOrder
