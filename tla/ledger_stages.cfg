SPECIFICATION Spec
CONSTANTS
  Request = {t1, t2}
  Job = {}
  Stage = {s}
  Mart = {m}
  Key = {k1, k2}
  MaxRuns = 2
  MaxSteps = 2
  MaxClock = 2
  NoJob = NoJob
  NoKey = NoKey
  Free = Free
SYMMETRY StageSymmetry
INVARIANTS HistoryInv
PROPERTIES ImportsOnRequest ImplementsClaims
