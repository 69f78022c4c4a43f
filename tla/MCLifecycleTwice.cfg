CONSTANTS
  i1 = i1
  i2 = i2
  h1 = h1
  h2 = h2
  h3 = h3
  Interps = {i1}
  Handles = {h1, h2, h3}
  Nobody = Nobody
SPECIFICATION Spec
CHECK_DEADLOCK FALSE
INVARIANTS
  TablesFreedOnce
