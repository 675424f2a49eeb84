SPECIFICATION FairSpec
CONSTANTS
  Path = {"a", "b", "c"}
  Dir = {"r", "d"}
  Parent <- MCParent
  Above <- MCAbove
  RootSets <- OneRoot
  Server = {"s1"}
  None = None
  Taken = Taken
  Tombstone = Tombstone
  Odd = {}
  Watched = {}
  Modes = {"ok", "noread"}
  MovesBack = TRUE
  RemovalCrashes = FALSE
  MaxEdits = 2
  MaxFaults = 1
PROPERTIES
  Propagates
