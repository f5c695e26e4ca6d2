CONSTANTS
  Block <- Blocks
  Value <- Values
  Functions <- SomeFunctions
SPECIFICATION FairSpec
INVARIANTS
  TypeOK
  OverrunNeedsReadAhead
  ReachingExact
  LiveWithinBlocks
PROPERTIES
  LeastReaching
  Terminates
