CONSTANTS
  a = a
  b = b
  c = c
  Proc = {a, b, c}
  Host <- TwoHosts
  Mortal = {a, b}
  MaxSeconds = 4
  GoneSeconds = 2
  None = None
  Garbage = Garbage
  Dangling = Dangling
SPECIFICATION FairSpec
INVARIANTS
  TypeOK
  OwnerHasLock
PROPERTIES
  LockFree
  OrphanCleared
  WaitEnds
