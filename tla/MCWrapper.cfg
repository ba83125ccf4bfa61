SPECIFICATION WrapperSpec
CONSTANTS
  p1 = p1
  p2 = p2
  p3 = p3
  Procs <- ThreeProcs
  Count = 2
  MaxPort = 3
  Port <- OnePort
INVARIANTS Aligned
PROPERTY EndedLeaves
CHECK_DEADLOCK FALSE
