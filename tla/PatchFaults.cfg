SPECIFICATION Spec
CONSTANTS
  N = 3
  MaxVersion = 3
  Absent = Absent
  Faults = {"crash", "io", "undo", "cleanup", "edit"}
INVARIANTS TypeOK NoFileLost OriginalsRetained FailedRestores AppliedCompletely RecoverRestores
CHECK_DEADLOCK FALSE
