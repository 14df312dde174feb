SPECIFICATION FairSpec
CONSTANTS
  Keys <- OneKey
  NumButtons = 2
  KeyStrings = {}
  KeyCodes <- NoKeyCodes
  Script <- WaitScript
  Spurious = FALSE
  MaxQueue = 2
PROPERTIES
  EscapeEndsWait
  EscapeStopsOthers
  JoinEnds
\* The run of the macro ends.
CHECK_DEADLOCK FALSE
