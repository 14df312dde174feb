CONSTANTS
  DirLengths = {3}
  FileLengths = {5}
  MaxPath = 14
SPECIFICATION Spec
PROPERTY DotDotIsParent
CHECK_DEADLOCK FALSE
