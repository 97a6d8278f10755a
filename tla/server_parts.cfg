SPECIFICATION PartsSpec
CONSTANTS
  Position = {1}
  Rule = {"r", "s"}
  Arguments = {"a", "b"}
  Id = {1, 2, 3}
  Hours = 4
  Week = 3
  Year = 8
  Firsts <- Months
  MonthDay = 3
  Zones <- AllZones
  Horizon = 24
  MaxDay = 8
  NoTime = NoTime
  User = {"u", "v"}
  c1 = c1
  c2 = c2
  Conn = {c1, c2}
  Posts = 2
  Pages = 2
  Limit = 2
  Thread = {1}
  Steps = 2
  MaxChanges = 2
  None = None
SYMMETRY Alike
INVARIANTS AlertsInv CalendarInv EndpointInv RolesInv
PROPERTIES ResolvedForGood
CHECK_DEADLOCK FALSE
