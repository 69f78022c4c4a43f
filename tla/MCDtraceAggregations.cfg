CONSTANTS
  a = a
  b = b
  Blank = Blank
  NULL = NULL
  UNSET = UNSET
  TUPLE_STRLEN = 3
  MaxCuts = 2
  Letters = {a, b}
  Texts <- MCTexts
  Tables <- MCTables
  Formats <- MCFormats
CHECK_DEADLOCK FALSE
SPECIFICATION Spec
INVARIANTS
  CutsWhiteSpace
  UnsetOnBlankOnly
  OverrunByOne
  ResultIsTable
  NoHalfTuple
  ResultIsPaired
  PanicsOnlyKeyless
