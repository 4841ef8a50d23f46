SPECIFICATION MCSpec
CONSTANTS
  Runs = {r1, r2}
  NoRun = NoRun
  CallersWait = TRUE
  MaxMessages = 3
  MaxTranscript = 6
  MaxToolTurns = 1
  ModesFixed = FALSE
  MaxWaiters = 0
INVARIANTS
  TypeOK
  IdleMeansNoLoop
  ContextIsTranscript
  NeverAnswersItself
  Delivered
SYMMETRY RunSymmetry
CHECK_DEADLOCK FALSE
