CONSTANTS
  e1 = e1
  e2 = e2
  e3 = e3
  a = a
  b = b
  Chars = {a, b, Colon}
  Colon = Colon
  NULL = NULL
  NameSize = 9
  Ecbs = {e1, e2, e3}
  Probes <- MCProbes
  Matches <- MCMatches
  Programs <- MCPrograms
SPECIFICATION FairSpec
CHECK_DEADLOCK FALSE
INVARIANTS
  ListsEachProbeOnce
  NamesTellApart
PROPERTIES
  ListReturns
