SPECIFICATION Spec
CONSTANTS
  Path = {"a", "b", "c"}
  Dir = {"r", "d"}
  Parent <- MCParent
  Above <- MCAbove
  RootSets <- OneRoot
  Server = {"s1"}
  None = None
  Taken = Taken
  Tombstone = Tombstone
  Odd = {}
  Watched = {}
  Modes = {"ok", "noread", "nosearch"}
  MovesBack = FALSE
  RemovalCrashes = FALSE
  MaxEdits = 1
  MaxFaults = 0
INVARIANTS
  OnlyRemovedIsRetracted
