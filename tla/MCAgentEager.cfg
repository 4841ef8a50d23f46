SPECIFICATION MCSpec
CONSTANTS
  Runs = {r1, r2}
  NoRun = NoRun
  CallersWait = FALSE
  MaxMessages = 2
  MaxTranscript = 6
  MaxToolTurns = 1
  ModesFixed = TRUE
  MaxWaiters = 0
INVARIANTS
  IdleMeansNoLoop
CHECK_DEADLOCK FALSE
