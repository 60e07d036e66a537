CONSTANTS
  Streams = {s1, s2}
  Bodies = {b1, b2}
  MaxSeq = 2
SYMMETRY Symmetry
SPECIFICATION IngestSpec
INVARIANTS
  ChainLinked
  HistoryKept
  ContinuityLossAtomic
  OneActiveGeneration
PROPERTY ClosedGenerationFrozen
