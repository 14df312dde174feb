SPECIFICATION Spec
CONSTANTS
  a = a
  b = b
  Names <- MCNames
  Alphabet <- ControlAlphabet
  MaxSize = 4
  IntMax = 7
  MaxStack = 2
INVARIANTS
  AcceptedRunsInBounds
  CallersOfThisText
\* The player exits on a repeated RepeatStart or an exhausted stack, and crashes on
\* a text without commands.
CHECK_DEADLOCK FALSE
