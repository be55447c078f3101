SPECIFICATION AlertSpec
CONSTANTS
  N = 3
  Systems = {s1}
  NoSystem = NoSystem
  TargetCount = 1
  Times <- MCTimes
  ContextHours = 2
  RecentHours = 1
  MaxRecords = 1
  Callers <- MCCallers
  NoList = NoList
  TTLs = {0}
  MaxNow = 0
  MaxVersion = 0
INVARIANT FinishInAcceptanceOrder
