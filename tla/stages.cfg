SPECIFICATION StageSpec
CONSTANTS
  b1 = b1
  b2 = b2
  File = {1, 2}
  Content = {b1, b2}
  Stamp = {"s"}
  Meaning = {"m"}
  MaxRevision = 2
  MaxRows = 2
  MaxScan = 2
  Name = {"n"}
  Limit = 1
  MaxSize = 2
  MaxExports = 2
  None = None
SYMMETRY Alike
INVARIANTS StagesInv ExportsInv
PROPERTIES ImportsWhatItClaimed ImplementsClaims
