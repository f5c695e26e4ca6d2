CONSTANTS
  x = x
  y = y
  z = z
  Thread = {t, u}
  Static = {x, y, z}
  Programs <- SomePrograms
  None = None
SPECIFICATION FairSpec
INVARIANTS
  TypeOK
  OneObject
  GoodReturn
  NeedsOutlive
  NothingLeft
PROPERTIES
  AccessReturns
