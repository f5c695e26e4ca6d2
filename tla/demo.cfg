CONSTANTS
  VReg = {"u", "v", "w"}
  PReg = {"eax", "edx"}
  Functions <- MCFunctions
SPECIFICATION ExecSpec
INVARIANTS
  TypeOK
  AllAllocated
  SlotsApart
  SimpleValuesKept
