SPECIFICATION CacheSpec
CONSTANTS
  Process = {p1, p2}
  Identity = {old, new}
  Faults = {"cancel"}
PROPERTY CompleteKept
CHECK_DEADLOCK FALSE
