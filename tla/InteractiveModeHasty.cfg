\* A user who types while nobody is prepared for it.
SPECIFICATION Spec
CONSTANTS
  MaxTyped = 3
  MaxRetries = 1
  Hasty = TRUE
INVARIANT NothingTypedIsLost
CHECK_DEADLOCK FALSE
