SPECIFICATION Spec
CONSTANTS
  Keys <- TwoKeys
  NumButtons = 2
  KeyStrings = {"a"}
  KeyCodes <- MCKeyCodes
  Script <- InputScript
  Spurious = TRUE
  MaxQueue = 2
CONSTRAINT
  KeysOrButtons
INVARIANTS
  WaitedKeyIsLast
  PressedKeysAreTold
  PressedButtonsAreHeld
  KeysStayGrabbed
  NothingLeftBehind
PROPERTIES
  OwnKeysNeedAGrab
\* The run of the macro ends.
CHECK_DEADLOCK FALSE
