SPECIFICATION Spec
CONSTANTS
  N = 3
  MaxVersion = 2
  Absent = Absent
  Faults = {"io"}
PROPERTIES AllOrNothing Returns
CHECK_DEADLOCK FALSE
