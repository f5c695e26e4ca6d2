CONSTANTS
  Block = {1, 2}
  Reg = {"v", "w", "p"}
  PReg = {"p"}
  Alias <- NoAlias
  Modules <- MCModules
  Colour = {1, 2}
  Entry = 1
SPECIFICATION ExecSpec
INVARIANTS
  TypeOK
  WantedClashes
  ValuesKept
