CONSTANTS
  VReg = {"u", "v", "w"}
  PReg = {"eax", "edx"}
  Functions <- MCFunctions
SPECIFICATION ExecSpec
INVARIANT OrderedValuesKept
