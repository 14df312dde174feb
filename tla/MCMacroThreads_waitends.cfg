SPECIFICATION Spec
CONSTANTS
  Keys <- OneKey
  NumButtons = 1
  KeyStrings = {}
  KeyCodes <- NoKeyCodes
  Script <- WaitScript
  Spurious = FALSE
  MaxQueue = 2
PROPERTIES
  WaitEndsAsDocumented
\* The run of the macro ends.
CHECK_DEADLOCK FALSE
