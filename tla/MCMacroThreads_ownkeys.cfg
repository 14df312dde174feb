SPECIFICATION Spec
CONSTANTS
  Keys <- TwoKeys
  NumButtons = 0
  KeyStrings = {"a"}
  KeyCodes <- MCKeyCodes
  Script <- OwnScript
  Spurious = FALSE
  MaxQueue = 1
INVARIANTS
  OwnKeysNotSeen
\* The run of the macro ends.
CHECK_DEADLOCK FALSE
