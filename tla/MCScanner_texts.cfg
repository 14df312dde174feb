CONSTANTS
  Texts <- AllTexts
  Digits <- AllDigits
  Buttons <- AllButtons
  Letters <- AllLetters
  Words <- AllWords
  KeySyms <- AllKeySyms
  Modifiers <- AllModifiers
SPECIFICATION FairSpec
INVARIANTS NeverPastEnd CommandsTile FlagsFromOwnText ArgumentsWhole
PROPERTY TextConsumed
CHECK_DEADLOCK FALSE
