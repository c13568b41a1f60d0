SPECIFICATION CacheSpec
CONSTANTS
  Process = {p1}
  Identity = {old, new}
  Faults = {}
PROPERTY OpenReturns
CHECK_DEADLOCK FALSE
