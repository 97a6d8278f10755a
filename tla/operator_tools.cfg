SPECIFICATION ToolsSpec
CONSTANTS
  k1 = k1
  k2 = k2
  x = x
  y = y
  z = z
  o1 = o1
  o2 = o2
  Export = {o1, o2}
  KeyOrder <- TwoKeys
  Content = {x, y, z}
  Size <- Sizes
  Forged = Forged
  MaxWrites = 1
  Attempts = 2
  Pod = {"p", "q"}
  Plan = {o1, o2}
  Resources = 1
  MaxHands = 1
  Proc = {o1, o2}
  Namespaces = 2
  Targets = 2
  MaxStarts = 3
  Controllers = {"source-controller", "helm-controller"}
  Clean = {"helm-controller"}
  MaxDays = 2
  Horizon = 2
  MaxEdits = 2
  MaxReviews = 1
  None = None
SYMMETRY Alike
INVARIANTS StorageInv SmokeInv BootstrapInv ExperimentInv LabInv
PROPERTIES RestoreSparesObjects HandsOverInOrder
CHECK_DEADLOCK FALSE
