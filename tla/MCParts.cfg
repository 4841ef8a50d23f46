SPECIFICATION MCSpec
CONSTANTS
  P1 = P1
  P2 = P2
  C1 = C1
  C2 = C2
  SettingsProcess = {P1, P2}
  Scope = {Global}
  Key = {"model", "theme"}
  Value = {1}
  Unset = Unset
  BlankLine = BlankLine
  Overlaid = Overlaid
  Base = Base
  O1 = O1
  O2 = O2
  O3 = O3
  Nobody = Nobody
  Document = {1, 2, 3}
  PageSize = 4
  MaxSessions = 2
  MaxSaid = 6
  MaxTitles = 1
  MaxLogins = 3
  Name = {"a", "b"}
  Gpus = 2
  MaxCommands = 3
  EventKind = {"immediate", "one-shot", "periodic"}
  MaxWrites = 5
  MaxStarts = 2
  MaxMessages = 3
  MaxEvents = 2
  MaxQueue = 1
  MaxCrashes = 1
  Request = {1, 2, 3}
  MaxSockets = 4
  MaxResends = 1
  Endpoints = 3
  MaxFetches = 3
  MaxEmptyRetries = 2
  MaxPieces = 2
  N = 4
  MaxUpdates = 1
INVARIANTS
 BatchIsWhole
 TypesOK
 ScreenHolds
 FilesHold
 EditsHold
 HeardOnce
 StreamsTell
 KeysAreWhole
 OutputIsKept
 
 RequestsAnswered
 LoginsHold
 PodsHold
PROPERTIES
 SettingsKept
 TokensKept
 SchoolKeeps
CHECK_DEADLOCK FALSE
