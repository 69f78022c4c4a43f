CONSTANTS
  Threads = {"t1", "t2"}
  LibOptions = {"-bufsize"}
  Refused = {"-nosuch"}
  Digits <- MCDigits
  Numerals <- MCShort
  Room = 2
  MaxPairs = 1
SPECIFICATION Spec
INVARIANTS
  AnswersAreValues
