SPECIFICATION CoherenceSpec
CONSTANTS
  Writers = {w1, w2}
  Streams = {main, extra}
  MainStream = main
  None = None
  LastShock = 3
  LastEpoch = 3
SYMMETRY Symmetry
CHECK_DEADLOCK FALSE
INVARIANTS NothingComesBack PendingAnswersShock
PROPERTY FollowsTable
