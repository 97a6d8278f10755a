SPECIFICATION FairSpec
CONSTANTS
  p1 = p1
  p2 = p2
  c1 = c1
  c2 = c2
  Process = {p1, p2}
  Client = {c1, c2}
  Home <- TwoServers
  Idle = 1
  MaxTime = 2
  MaxCalls = 2
  Free = Free
INVARIANTS WarehouseInv
PROPERTIES AutoChillIsDue StopReturns
CHECK_DEADLOCK FALSE
