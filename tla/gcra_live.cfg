CONSTANTS
  Block = {1, 2, 3}
  Reg = {"v", "ax", "al"}
  PReg = {"ax", "al"}
  Alias <- Overlap
  Modules <- MCModules
SPECIFICATION FairSpec
INVARIANTS
  TypeOK
  OffWorklistSolved
  InstrWithinBlock
  LiveIsFound
  FoundIsLive
PROPERTIES
  LeastLiveness
  Terminates
