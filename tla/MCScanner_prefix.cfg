CONSTANTS
  Texts <- PrefixTexts
  Digits <- AllDigits
  Buttons <- AllButtons
  Letters <- AllLetters
  Words <- AllWords
  KeySyms <- AllKeySyms
  Modifiers <- AllModifiers
SPECIFICATION Spec
INVARIANT FlagsFromOwnText
CHECK_DEADLOCK FALSE
