SPECIFICATION FairSpec
CONSTANTS
  Keys <- OneKey
  NumButtons = 2
  KeyStrings = {}
  KeyCodes <- NoKeyCodes
  Script <- OthersScript
  Spurious = FALSE
  MaxQueue = 2
INVARIANTS
  OwnClicksNotSeen
  NeverAborts
PROPERTIES
  ClickEndsWait
\* The run of the macro ends.
CHECK_DEADLOCK FALSE
