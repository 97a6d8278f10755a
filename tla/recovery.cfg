SPECIFICATION Spec
CONSTANTS
  stored = stored
  inner = inner
  outer = outer
  p1 = p1
  p2 = p2
  Proc = {p1, p2}
  Table = {stored}
  View = {inner, outer}
  Needs <- NestedViews
  Chunks <- OneChunk
  MaxWrites = 0
  MaxBackups = 1
  Options <- SomeOptions
  MaxDamage = 2
  None = None
INVARIANTS RecoveryInv
PROPERTIES ArchivesArriveWhole RestoreIsHonest RestoresEnd
CHECK_DEADLOCK FALSE
