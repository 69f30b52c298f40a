SPECIFICATION DrainSpec
CONSTANTS
  Threads = {t1}
  MaxWaits = 3
  NDEBUG = TRUE
CHECK_DEADLOCK FALSE
PROPERTY Drained
