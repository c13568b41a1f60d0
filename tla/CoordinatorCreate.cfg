SPECIFICATION Spec
CONSTANTS
  select = select
  character = character
  File <- MCFile
  Root <- MCRoot
  Refs <- MCRefs
  Call = {c1, c2}
  MaxVersion = 2
  Absent = Absent
  NoCall = NoCall
  Faults = {"create", "load"}
SYMMETRY MCSymmetry
INVARIANT ServedFresh
CHECK_DEADLOCK FALSE
