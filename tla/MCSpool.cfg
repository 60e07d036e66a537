CONSTANTS
  Instances = {w1, w2}
  small = small
  other = other
  large = large
  Ids <- MCIds
  Size <- MCSize
  Limit = 2
  MaxSeq = 2
  MaxJobs = 2
SPECIFICATION Spec
SYMMETRY Symmetry
INVARIANTS
  SpoolValid
  ReturnedIsRetained
  StaleOnlyByOthers
  RetainedNeverRefused
PROPERTY SpoolIsLog
