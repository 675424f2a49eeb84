SPECIFICATION Spec
CONSTANTS
  Chunk <- MCChunk
  None = None
  Server = {"s1"}
  Contents <- TwoContents
  Guard = 2
  Tick = 1
  ReadTime = 3
  FineStamps = FALSE
  LateCommits = FALSE
  DeleteAfter = {FALSE}
  MaxRounds = 4
  MaxTime = 5
  MaxEdits = 1
  MaxFaults = 0
INVARIANTS
  NoFalseNegative
