SPECIFICATION Spec
CONSTANTS
  Keys <- AliasedKeys
  NumButtons = 0
  KeyStrings = {}
  KeyCodes <- NoKeyCodes
  Script <- AliasScript
  Spurious = FALSE
  MaxQueue = 1
INVARIANTS
  KeysStayGrabbed
\* The run of the macro ends.
CHECK_DEADLOCK FALSE
