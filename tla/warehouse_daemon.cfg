SPECIFICATION Spec
CONSTANTS
  p1 = p1
  p2 = p2
  c1 = c1
  c2 = c2
  Process = {p1}
  Client = {c1, c2}
  Home <- OneServer
  Idle = 1
  MaxTime = 0
  MaxCalls = 2
  Free = Free
INVARIANTS SettingOnHasDaemon
CHECK_DEADLOCK FALSE
