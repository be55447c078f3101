SPECIFICATION FairSpec
CONSTANTS
  Callers = {c1, c2}
  Idlers = {i1, i2}
  Pages = 2
  Workers = 1
INVARIANT IdleMeansDone
PROPERTY ClosedNeverRenders
PROPERTY WaitIdleEnds
