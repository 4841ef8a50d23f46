SPECIFICATION MCSpec
CONSTANTS
  Files = {f1, f2, f3}
  Plain = {"user", "assistant"}
  MaxEntries = 3
  MaxLines = 9
  KeepRecentTokens = 2
  Sizes = {1, 2}
  MaxLength = 6
INVARIANTS
 TypesOK
 Durable
 FilesAreWhole
 CompactionKeeps
 RequestIsWhole
PROPERTIES
 AppendOnly
 ForkKeepsAll
 ContextIsTail
 NavigationKeeps
SYMMETRY FileSymmetry
CHECK_DEADLOCK FALSE
