SPECIFICATION Spec
CONSTANTS
  Path = {"a", "b", "c"}
  Dir = {"r", "d"}
  Parent <- MCParent
  Above <- MCAbove
  RootSets <- OneRoot
  Server = {"s1"}
  None = None
  Taken = Taken
  Tombstone = Tombstone
  Odd = {}
  Watched = {}
  Modes = {"ok", "noread"}
  MovesBack = FALSE
  RemovalCrashes = TRUE
  MaxEdits = 0
  MaxFaults = 1
INVARIANTS
  TakenKeepsCopy
