SPECIFICATION FairSpec
CONSTANTS
  t1 = t1
  t2 = t2
  Thread <- MCThread
  Chunk = {"a", "b"}
  Path = {"p"}
  Manifests <- MCManifests
  None = None
  Partial = Partial
INVARIANTS
  TypeOK
  StoreSound
  ServedWhole
PROPERTIES
  ImplementsStore
  Answered
