SPECIFICATION CountedSpec
CONSTANTS
  a = a
  b = b
  Names <- MCNames
  Programs <- AllPrograms
  IntMax = 7
  MaxStack = 2
INVARIANTS
  IndexInBounds
  StackHoldsCallers
  StackIsPerRun
  CounterBelowMax
PROPERTIES
  NothingAfterError
  StopEndsRun
  RepeatRunsExactly
  CountedRunsEnd
\* The player exits when the stack of indices is exhausted.
CHECK_DEADLOCK FALSE
