SPECIFICATION Spec
CONSTANTS
  N = 2
  MaxVersion = 1
  Absent = Absent
  Faults = {"crash"}
INVARIANT RecoveredPreOrPost
CHECK_DEADLOCK FALSE
