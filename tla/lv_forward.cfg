CONSTANTS
  Block = {1, 2, 3}
  Reg <- Ids
  PReg = {}
  Alias <- NoAlias
  Modules <- NoModules
  Functions <- MCFunctions
SPECIFICATION FairSpec
INVARIANTS
  RightWithinBlocks
PROPERTY Terminates
