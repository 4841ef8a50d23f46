SPECIFICATION MCSpec
CONSTANTS
  p1 = p1
  Caller = {p1}
  MaxRetries = 1
  Kinds = {"answer", "retryable", "fatal"}
  MaxHistory = 4
  MaxFiles = 1
  MaxEvents = 4
  MaxQueued = 0
  MaxCompacts = 0
  Patient = TRUE
PROPERTY PromptReturns
CHECK_DEADLOCK FALSE
