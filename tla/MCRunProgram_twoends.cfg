SPECIFICATION CountedSpec
CONSTANTS
  a = a
  b = b
  Names <- MCNames
  Programs <- TwoEndsPrograms
  IntMax = 7
  MaxStack = 2
PROPERTIES
  RunsEnd
