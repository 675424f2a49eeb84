SPECIFICATION FairSpec
CONSTANTS
  Path = {"a", "b", "c"}
  Dir = {"r", "d"}
  Parent <- MCParent
  Above <- MCAbove
  RootSets <- Narrowed
  Server = {"s1"}
  None = None
  Taken = Taken
  Tombstone = Tombstone
  Odd = {"c"}
  Watched = {"b"}
  Modes = {"ok", "noread"}
  MovesBack = FALSE
  RemovalCrashes = FALSE
  MaxEdits = 2
  MaxFaults = 1
INVARIANTS
  TypeOK
  OnlyRemovedIsRetracted
  LiveHasRow
  UnchangedIsCopied
  TakenKeepsCopy
PROPERTIES
  Propagates
  Retracts
