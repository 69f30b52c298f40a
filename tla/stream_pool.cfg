SPECIFICATION Spec
CONSTANTS
  Threads = {t1, t2}
  MaxWaits = 3
  NDEBUG = TRUE
CHECK_DEADLOCK FALSE
SYMMETRY ThreadSymmetry
INVARIANT NeverUnguarded
INVARIANT ExpiredMeansFinished
INVARIANT OneReadOneWrite
INVARIANT SuccessExclusive
INVARIANT DanglesOnlyAfterError
