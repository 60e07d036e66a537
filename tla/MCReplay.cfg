CONSTANTS
  Streams = {s1}
  Bodies = {b1, b2}
  MaxSeq = 3
  NoAck = NoAck
  Faults = {"NONE", "SQLITE_DENY_THIRD"}
  CrashPoints <- PointsOutsideRename
  Cuts = {"OPENING", "ROW"}
  MaxReceives = 3
  MaxCrashes = 2
SYMMETRY Symmetry
SPECIFICATION Spec
INVARIANTS
  JournalMatchesStore
  AckHasEvidence
  CompleteWhenListening
  ReplayAgrees
CHECK_DEADLOCK FALSE
