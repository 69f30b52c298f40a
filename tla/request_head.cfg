SPECIFICATION Spec
CONSTANTS
  Methods <- MCMethods
  Paths <- MCPaths
  Names <- MCNames
  Values <- MCValues
  MaxParams = 2
  MaxContent = 2
CHECK_DEADLOCK FALSE
INVARIANT RoundTrip
INVARIANT AnnouncedIsWritten
