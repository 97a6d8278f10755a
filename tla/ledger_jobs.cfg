SPECIFICATION FairSpec
CONSTANTS
  Request = {t1, t2}
  Job = {j}
  Stage = {}
  Mart = {}
  Key = {}
  MaxRuns = 2
  MaxSteps = 2
  MaxClock = 1
  NoJob = NoJob
  NoKey = NoKey
  Free = Free
INVARIANTS OneAtATime
PROPERTIES EndedRunsAreFinal ImplementsSlot WorkersAndRunsEnd
