SPECIFICATION FairSpec
CONSTANTS
  Chunk <- MCChunk
  None = None
  Server = {"s1", "s2"}
  Contents <- TwoContents
  Guard = 1
  Tick = 1
  ReadTime = 3
  FineStamps = TRUE
  LateCommits = FALSE
  DeleteAfter = {TRUE, FALSE}
  MaxRounds = 2
  MaxTime = 2
  MaxEdits = 2
  MaxFaults = 2
INVARIANTS
  ReferencesHeld
  UnchangedIsMirrored
  SyncedWasPublished
  NoTornPublication
  RemovableIsMirrored
PROPERTIES
  ImplementsMirror
  ServersAreStores
  ForgottenWasPublished
  Converges
  CallsReturn
