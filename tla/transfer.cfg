SPECIFICATION Spec
CONSTANTS
  Chunk <- MCChunk
  None = None
  Server = {"s1"}
  Contents <- AllContents
  Guard = 2
  Tick = 1
  ReadTime = 1
  FineStamps = FALSE
  LateCommits = TRUE
  DeleteAfter = {FALSE}
  MaxRounds = 4
  MaxTime = 5
  MaxEdits = 2
  MaxFaults = 1
INVARIANTS
  TypeOK
  NoFalseNegative
  BaselineHeld
