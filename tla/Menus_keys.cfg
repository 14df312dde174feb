CONSTANT MaxQueue = 2
SPECIFICATION FairSpec
INVARIANTS
  GrabsMatch
  OwnedWhileUsed
  RunWasChosen
PROPERTY
  EndingKeyEnds
CHECK_DEADLOCK FALSE
