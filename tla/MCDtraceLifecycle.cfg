CONSTANTS
  i1 = i1
  i2 = i2
  h1 = h1
  h2 = h2
  h3 = h3
  Interps = {i1, i2}
  Handles = {h1, h2, h3}
  Nobody = Nobody
SPECIFICATION FairSpec
CHECK_DEADLOCK FALSE
INVARIANTS
  TypeOK
  EveryHandleIsFound
  ExitClosesAll
  OneThreadFreesOnce
PROPERTIES
  DeletionIsLocal
  OnlyCallbacksTakeHandles
  ExitHappens
