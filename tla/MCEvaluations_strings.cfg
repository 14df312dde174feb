CONSTANTS
  Tokens <- SomeTokens
  VarNames <- SomeVarNames
  VarCapacity = 2
  MaxTokens = 4
  InitNumbers <- SomeNumbers
SPECIFICATION Spec
INVARIANTS
  CheckIsEnough
  TypesAsChecked
  FlagsFresh
