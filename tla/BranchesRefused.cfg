SPECIFICATION Spec
CONSTANTS
  Kind = {"user", "assistant"}
  MaxEntries = 4
  Budget = 3
  Hasty = FALSE
INVARIANTS
  CompactingMeansBusy
CHECK_DEADLOCK FALSE
