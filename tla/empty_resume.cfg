SPECIFICATION FairSpec
CONSTANTS
  Chunk <- MCChunk
  None = None
  Server = {"s1"}
  Contents <- WithEmpty
  Guard = 2
  Tick = 1
  ReadTime = 1
  FineStamps = TRUE
  LateCommits = FALSE
  DeleteAfter = {FALSE}
  MaxRounds = 4
  MaxTime = 5
  MaxEdits = 1
  MaxFaults = 1
PROPERTIES
  Converges
