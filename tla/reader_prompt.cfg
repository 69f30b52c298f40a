SPECIFICATION PromptSpec
CONSTANTS
  MaxBody = 3
  HeaderLists <- MCHeaderLists
CHECK_DEADLOCK FALSE
PROPERTY ClosedResponseSucceeds
