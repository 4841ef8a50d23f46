SPECIFICATION MCSpec
CONSTANTS
  p1 = p1
  Caller = {p1}
  MaxRetries = 1
  Kinds = {"full", "retryable", "overflow", "toolUse", "aborted"}
  MaxHistory = 5
  MaxFiles = 2
  MaxEvents = 3
  MaxQueued = 1
  MaxCompacts = 0
  Patient = TRUE
INVARIANT FreshSession
CHECK_DEADLOCK FALSE
