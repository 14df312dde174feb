SPECIFICATION Spec
CONSTANTS
  Files <- MCFiles
  MaxExpansions = 6
INVARIANTS
  EnumSetWorks
  RepmacRepeats
CHECK_DEADLOCK FALSE
