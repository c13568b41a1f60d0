SPECIFICATION ParserSpec
CONSTANTS
  Nobody = Nobody
  SourceLine <- MCSourceLine
INVARIANT KeysDistinct
CHECK_DEADLOCK FALSE
