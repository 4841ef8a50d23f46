SPECIFICATION MCSpec
CONSTANTS
  p1 = p1
  Caller = {p1}
  MaxRetries = 1
  Kinds = {"full", "retryable", "overflow", "toolUse", "aborted", "thrown", "stopped"}
  MaxHistory = 5
  MaxFiles = 2
  MaxEvents = 3
  MaxQueued = 1
  MaxCompacts = 1
  Patient = TRUE
INVARIANTS
  NoRetryStorm
  RecoveredOnce
  StoredInOrder
  ReloadAgrees
CHECK_DEADLOCK FALSE
