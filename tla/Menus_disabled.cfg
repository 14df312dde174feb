CONSTANT MaxQueue = 2
SPECIFICATION Spec
INVARIANT DisabledKeysAreFree
CHECK_DEADLOCK FALSE
