\* MaxExpansions is 100000 in the code. The player may stop here: a call that crashes
\* it or never ends.
SPECIFICATION Spec
CONSTANTS
  Files <- MCFiles
  MaxExpansions = 6
INVARIANTS ExpandsToMeaning MacrosAreTheText
CHECK_DEADLOCK FALSE
