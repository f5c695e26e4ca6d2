CONSTANTS
  Block = {1, 2, 3}
  Reg = {"v", "ax", "al"}
  PReg = {"ax", "al"}
  Alias <- Overlap
  Modules <- EveryPair
SPECIFICATION Spec
INVARIANT KilledIsGone
