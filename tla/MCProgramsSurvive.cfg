CONSTANTS
  i1 = i1
  i2 = i2
  a1 = a1
  a2 = a2
  Interps = {i1, i2}
  Addr = {a1, a2}
  Nobody = Nobody
  MaxId = 2
  MaxPid = 2
SPECIFICATION Spec
PROPERTIES
  ProgramsSurviveOtherClose
