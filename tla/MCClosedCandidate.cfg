SPECIFICATION FairSpec
CONSTANTS
  Writers = {w1}
  Streams = {main, extra}
  MainStream = main
  None = None
  LastShock = 2
  LastEpoch = 3
CHECK_DEADLOCK FALSE
PROPERTY ClosedCandidateIsFollowed
