SPECIFICATION Spec
CONSTANTS
  Threads = {t1}
  MaxWaits = 3
  NDEBUG = FALSE
CHECK_DEADLOCK FALSE
INVARIANT AssertsHold
