SPECIFICATION FairListSpec
CONSTANTS
  Callers = {c1, c2, c3}
  NoList = NoList
  TTLs = {0, 2}
  MaxNow = 3
  MaxVersion = 2
INVARIANT OneFetchAtATime
PROPERTY EveryCallReturns
PROPERTY ReadsImplemented
