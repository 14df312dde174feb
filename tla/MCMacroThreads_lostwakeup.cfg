SPECIFICATION FairSpec
CONSTANTS
  Keys <- OneKey
  NumButtons = 1
  KeyStrings = {}
  KeyCodes <- NoKeyCodes
  Script <- WaitScript
  Spurious = FALSE
  MaxQueue = 1
PROPERTIES
  EscapeStopsRun
\* The run of the macro ends.
CHECK_DEADLOCK FALSE
