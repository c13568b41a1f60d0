SPECIFICATION Spec
CONSTANTS
  N = 2
  MaxVersion = 2
  Absent = Absent
INVARIANT Serialized
CHECK_DEADLOCK FALSE
