SPECIFICATION Spec
CHECK_DEADLOCK FALSE
INVARIANT StaysForClient
INVARIANT FaultNeedsOverlap
PROPERTY TestEnds
