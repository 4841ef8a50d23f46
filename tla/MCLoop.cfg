SPECIFICATION MCSpec
CONSTANTS
  Events = {a, b, fin}
  Final = {fin}
  Readers = {rd}
  NoEvent = NoEvent
  MaxSent = 4
  Runs = {r1, r2}
  NoRun = NoRun
  CallersWait = TRUE
  MaxMessages = 2
  MaxTranscript = 6
  MaxToolTurns = 1
  MaxWaiters = 1
  N = 4
  MaxUpdates = 1
  MaxCalls = 2
INVARIANTS
  NothingLost
PROPERTIES
  ReaderReturns
  ImplementsChannel
  RunsEnd
  BeginningsEnd
  RpcPairs
CHECK_DEADLOCK FALSE
