CONSTANTS
  o1 = o1
  o2 = o2
  p1 = p1
  p2 = p2
  Objs = {o1, o2}
  Slots <- MCSlots
  Pids = {p1, p2}
  MaxSpecs = 2
  MaxRefs = 3
  MaxGrabs = 3
  MaxDepth = 2
SPECIFICATION Spec
SYMMETRY MCSymmetry
CHECK_DEADLOCK FALSE
INVARIANTS
  CallbacksReferenced
  LeaksOnlyLost
  VectorHoldsAll
  HeldAreRemembered
PROPERTIES
  ImplementsTraceService
  GoContinuesAll
