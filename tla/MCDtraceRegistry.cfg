CONSTANTS
  i1 = i1
  i2 = i2
  a1 = a1
  a2 = a2
  Interps = {i1, i2}
  Addr = {a1, a2}
  Nobody = Nobody
  MaxId = 3
  MaxPid = 2
SPECIFICATION FairSpec
INVARIANTS
  TypeOK
  IdsUnique
  NoDanglingProgram
  RunsWhereCompiled
  HandlesAreWhole
  NotYetUsed
PROPERTIES
  CommandsReturn
  ImplementsHandleService
