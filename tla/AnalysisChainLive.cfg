SPECIFICATION FairSpec
CONSTANTS
  N = 3
  Systems = {s1}
  NoSystem = NoSystem
  TargetCount = 2
  Times <- MCEndTimes
  ContextHours = 2
  RecentHours = 2
  MaxRecords = 2
INVARIANT PromptSeesEarlierDiagnoses
PROPERTY CloseTerminates
PROPERTY EveryAnalysisEnds
