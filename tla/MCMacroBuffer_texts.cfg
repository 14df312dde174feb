SPECIFICATION Spec
CONSTANTS
  a = a
  b = b
  Names <- MCNames
  Alphabet <- TextAlphabet
  MaxSize = 5
INVARIANTS
  AcceptedIsWellFormed
  JumpsReachTheirLabel
  InitVarsFirst
  ChainsDecide
\* The player exits on a repeated RepeatStart and crashes on a text without commands.
CHECK_DEADLOCK FALSE
