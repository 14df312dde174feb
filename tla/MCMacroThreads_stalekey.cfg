SPECIFICATION Spec
CONSTANTS
  Keys <- TwoKeys
  NumButtons = 0
  KeyStrings = {}
  KeyCodes <- NoKeyCodes
  Script <- OwnScript
  Spurious = FALSE
  MaxQueue = 2
INVARIANTS
  PressedKeysAreHeld
\* The run of the macro ends.
CHECK_DEADLOCK FALSE
