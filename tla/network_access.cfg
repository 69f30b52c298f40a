SPECIFICATION FairSpec
CONSTANTS
  Callers = {c1, c2}
  Owner = c1
  Counts = {0, 1, 2, 9}
  MaxCalls = 3
CHECK_DEADLOCK FALSE
INVARIANT TypeOK
INVARIANT FaultsNeedOverlap
INVARIANT ThreadsEndFirst
INVARIANT AlwaysServed
PROPERTY CallsReturn
