CONSTANTS
  Threads = {"t1"}
  LibOptions = {"-bufsize"}
  Refused = {"-nosuch"}
  Digits <- MCDigits
  Numerals <- MCLong
  Room = 2
  MaxPairs = 2
SPECIFICATION Spec
INVARIANTS
  SetUpToRefused
  ShortAnswersAreValues
