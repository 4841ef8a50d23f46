SPECIFICATION Spec
CONSTANTS
  KeepRecentTokens = 2
  Sizes = {1, 2}
  MaxLength = 6
INVARIANTS
  NothingForgotten
CHECK_DEADLOCK FALSE
