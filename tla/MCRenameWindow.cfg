CONSTANTS
  Streams = {s1}
  Bodies = {b1, b2}
  MaxSeq = 2
  NoAck = NoAck
  Faults = {"NONE"}
  CrashPoints <- AllPoints
  Cuts = {"OPENING", "KIND", "ROW"}
  MaxReceives = 3
  MaxCrashes = 2
SYMMETRY Symmetry
SPECIFICATION Spec
INVARIANT AckHasEvidence
CHECK_DEADLOCK FALSE
