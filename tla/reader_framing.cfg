SPECIFICATION Spec
CONSTANTS
  MaxBody = 3
  HeaderLists <- MCHeaderLists
CHECK_DEADLOCK FALSE
INVARIANT TypeOK
INVARIANT Integrity
INVARIANT ExactContent
INVARIANT SuccessHasBody
PROPERTY FollowsChain
