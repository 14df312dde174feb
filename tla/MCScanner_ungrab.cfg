CONSTANTS
  Texts <- UngrabTexts
  Digits <- AllDigits
  Buttons <- AllButtons
  Letters <- AllLetters
  Words <- AllWords
  KeySyms <- AllKeySyms
  Modifiers <- AllModifiers
SPECIFICATION Spec
INVARIANT CommandsTile
CHECK_DEADLOCK FALSE
