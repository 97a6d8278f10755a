SPECIFICATION FairSpec
INVARIANTS ScheduleInv
PROPERTIES NoCatchUp ConsumesTheDueSlot TicksGoOn
CONSTANTS
  Server = {s1, s2}
  Name = {1}
  Kinds = {"interval", "once"}
  Period = 2
  Occurs = {2, 5}
  Outcomes = {"refused", "invalid", "conflict", "raises", "broken"}
  Faults = {"stop", "thread", "abort"}
  MaxTime = 4
  MaxBacks = 1
  Late = 2
  NoTime = NoTime
  Free = Free
  Other = Other
  Worker = Worker
