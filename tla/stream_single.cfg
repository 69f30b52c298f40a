SPECIFICATION Spec
CONSTANTS
  Threads = {t1}
  MaxWaits = 3
  NDEBUG = TRUE
CHECK_DEADLOCK FALSE
INVARIANT TypeOK
INVARIANT AtMostOnce
 
 
 
 
INVARIANT SettledIsQuiet
PROPERTY FollowsChain
