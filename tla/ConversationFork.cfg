SPECIFICATION MCSpec
CONSTANTS
  Files = {f1, f2}
  Plain = {"user", "assistant"}
  MaxEntries = 4
  MaxLines = 6
  KeepRecentTokens = 2
  Sizes = {1, 2}
  MaxLength = 1
PROPERTIES
  ForkKeepsPath
CHECK_DEADLOCK FALSE
