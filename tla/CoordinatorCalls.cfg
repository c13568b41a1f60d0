SPECIFICATION Spec
CONSTANTS
  select = select
  character = character
  File <- MCFile
  Root <- MCRoot
  Refs <- MCRefs
  Call = {c1, c2}
  MaxVersion = 1
  Absent = Absent
  NoCall = NoCall
  Faults = {"load", "read", "cancel"}
SYMMETRY MCSymmetry
CONSTRAINT FewFailures
INVARIANTS TypeOK DocumentsFresh SeenChangesInvalidate
CHECK_DEADLOCK FALSE
