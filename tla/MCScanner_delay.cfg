CONSTANTS
  Texts <- DelayTexts
  Digits <- AllDigits
  Buttons <- AllButtons
  Letters <- AllLetters
  Words <- AllWords
  KeySyms <- AllKeySyms
  Modifiers <- AllModifiers
SPECIFICATION Spec
INVARIANT ArgumentsWhole
CHECK_DEADLOCK FALSE
