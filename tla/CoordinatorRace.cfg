SPECIFICATION Spec
CONSTANTS
  select = select
  character = character
  File <- MCFile
  Root <- MCRoot
  Refs <- MCRefs
  Call = {c1, c2}
  MaxVersion = 1
  Absent = Absent
  NoCall = NoCall
  Faults = {"during"}
SYMMETRY MCSymmetry
INVARIANT ServedFresh
CHECK_DEADLOCK FALSE
