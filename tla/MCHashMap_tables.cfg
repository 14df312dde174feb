CONSTANTS
  Keys = {a, b, c, d}
  Values = {1, 2}
  Sizes = {3, 4}
  Hashes = {2, 3}
  NoKey = NoKey
  a = a
  b = b
  c = c
  d = d
SPECIFICATION Spec
SYMMETRY Symmetric
INVARIANTS
  ProbeOrder
PROPERTIES
  Implements
