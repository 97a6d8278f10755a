SPECIFICATION TablesSpec
CONSTANTS
  l1 = l1
  l2 = l2
  a = a
  b = b
  Load = {l1, l2}
  Key = {a, b}
  Inputs <- TwoLoads
  Copies = 3
  Modes = {"replace", "append", "atomic", "upsert", "sync_replace", "sync_append", "sync_upsert"}
  Retry = TRUE
  Watched = {"t"}
  MaxSnapshot = 2
  MaxVersion = 2
  Free = Free
  None = None
INVARIANTS  MartsInv
PROPERTIES AllOrNothing  ChecksAreRight
