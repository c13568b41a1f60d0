SPECIFICATION PagingSpec
CONSTANTS
  DefaultLimit = 2
  MaxRows = 6
  NoCursor = NoCursor
INVARIANT DiagnosticsOnce
CHECK_DEADLOCK FALSE
