------------------------------- MODULE Calendar -------------------------------
(***************************************************************************)
(* The search of schedule_resident.py for the next occurrence of a daily,  *)
(* weekly or monthly schedule: _next walks through the days of a zone and  *)
(* _local_time turns a day and a time of day into UTC.  Beside it, what an *)
(* occurrence is: the first instant at which the clock of the zone shows   *)
(* the schedule's time on one of its days.                                 *)
(*                                                                         *)
(* Days have Hours hours, weeks Week days, and the months of a year begin  *)
(* on the days Firsts of a cycle of Year days.  A zone changes its offset  *)
(* twice, at instants of UTC.                                              *)
(***************************************************************************)
EXTENDS Integers, FiniteSetsExt

CONSTANTS
  Hours, Week, Year, Firsts,
  MonthDay,  \* 31, the days of the longest month
  Zones,     \* zones that are checked: [change: <<u1, u2>>, offset: <<o1, o2, o3>>]
  Horizon,   \* 370 days
  MaxDay,    \* bound: days the schedule is followed
  NoTime

VARIABLES
  schedule,  \* kind, time of day and days, as validated
  zone,
  now        \* the clock, in hours of UTC

vars == <<schedule, zone, now>>

Utc == 0..(MaxDay * Hours)

(***************************************************************************)
(* The zone, as zoneinfo has it                                            *)
(***************************************************************************)
\* astimezone(zone): what the clock of the zone shows.
Wall(u) ==
  u + (IF u < zone.change[1] THEN zone.offset[1]
       ELSE IF u < zone.change[2] THEN zone.offset[2] ELSE zone.offset[3])

\* Where the clock shows the time of a change, in the reading of fold=0.
Turn(i) == zone.change[i] + Max({zone.offset[i], zone.offset[i + 1]})

\* astimezone(utc) of a local time with fold=0.
FromWall(w) ==
  w - (IF w < Turn(1) THEN zone.offset[1]
       ELSE IF w < Turn(2) THEN zone.offset[2] ELSE zone.offset[3])

(***************************************************************************)
(* Days                                                                    *)
(***************************************************************************)
IsoWeekday(day) == (day % Week) + 1
DayOfMonth(day) == (day % Year) - Max({ f \in Firsts : f <= day % Year }) + 1
IsLastDay(day)  == (day + 1) % Year \in Firsts

\* Day 0 of a monthly schedule stands for "last".
OnDay(s, day) ==
  CASE s.kind = "daily"   -> TRUE
    [] s.kind = "weekly"  -> IsoWeekday(day) \in s.weekdays
    [] s.kind = "monthly" -> IF s.day = 0 THEN IsLastDay(day) ELSE DayOfMonth(day) = s.day

(***************************************************************************)
(* What is taken of zones and calendars                                    *)
(***************************************************************************)
\* A zone's changes, and the first of them and time 0, lie further apart than any two
\* of its offsets, and none moves the clock by more than a day.
IsZone(z) ==
  /\ z.change \in Int \X Int /\ z.offset \in Int \X Int \X Int
  /\ \A i, j \in 1..3 : /\ z.offset[i] - z.offset[j] <= z.change[1]
                         /\ z.offset[i] - z.offset[j] <= z.change[2] - z.change[1]
  /\ \A i \in 1..2 : z.offset[i + 1] - z.offset[i] \in (-Hours)..Hours

\* From any day on, each weekday and each day of a month comes within a third of the
\* days that are searched: a month that has no 31st comes before one that has.
DaysRecur ==
  /\ 3 * Week < Horizon
  /\ \A day \in 0..MonthDay, x \in 0..(Year - 1) : \E i \in 1..Horizon :
       /\ 3 * i < Horizon
       /\ IF day = 0 THEN IsLastDay(x + i) ELSE DayOfMonth(x + i) = day

(***************************************************************************)
(* _local_time and _next                                                   *)
(***************************************************************************)
\* The round trip rejects a time that the clock skips.
LocalTime(day, hour) ==
  LET w == day * Hours + hour
  IN  IF Wall(FromWall(w)) = w THEN FromWall(w) ELSE NoTime

\* Mutant: the search begins with the day of UTC.
FirstDayUtc(t) == t \div Hours

FirstDay(t) == Wall(t) \div Hours

\* Mutant: an occurrence that is now is found again.
FoundAgain(s, t) ==
  { i \in 0..(Horizon - 1) :
      LET u == LocalTime(FirstDay(t) + i, s.hour)
      IN  OnDay(s, FirstDay(t) + i) /\ u # NoTime /\ u >= t }

\* The days of the search that have an occurrence after t.
Found(s, t) ==
  { i \in 0..(Horizon - 1) :
      LET u == LocalTime(FirstDay(t) + i, s.hour)
      IN  OnDay(s, FirstDay(t) + i) /\ u # NoTime /\ u > t }

NextTime(s, t) ==
  IF Found(s, t) = {} THEN NoTime ELSE LocalTime(FirstDay(t) + Min(Found(s, t)), s.hour)

(***************************************************************************)
(* A schedule that is consumed whenever it is due, from some first time on *)
(***************************************************************************)
Valid ==
  LET daily   == [kind: {"daily"}, hour: 0..(Hours - 1), weekdays: {{}}, day: {0}]
      weekly  == [kind: {"weekly"}, hour: 0..(Hours - 1), weekdays: (SUBSET (1..Week)) \ {{}}, day: {0}]
      monthly == [kind: {"monthly"}, hour: 0..(Hours - 1), weekdays: {{}}, day: 0..MonthDay]
  IN  daily \cup weekly \cup monthly

Init ==
  /\ schedule \in Valid
  /\ zone \in Zones
  /\ now \in 0..Hours

\* The slot is due and consumed, this many hours late.
Consumed(late) ==
  LET u == NextTime(schedule, now)
  IN  /\ u # NoTime /\ u + late \in Utc
      /\ now' = u + late
      /\ UNCHANGED <<schedule, zone>>

Next == \E late \in 0..1 : Consumed(late)

Spec == Init /\ [][Next]_vars

(***************************************************************************)
(* Properties                                                              *)
(***************************************************************************)
\* Instants at which the clock of the zone shows the schedule's time on a day of it,
\* for the first time.
Occurrences(s) ==
  { u \in Utc : /\ Wall(u) % Hours = s.hour /\ OnDay(s, Wall(u) \div Hours)
                /\ \A v \in Utc : v < u => Wall(v) # Wall(u) }

Ahead(s, t) == { u \in Occurrences(s) : u > t }

\* The day-by-day search finds the least occurrence after now, across gaps and folds
\* of the clock, whenever there is one before the bound.
NextIsLeast ==
  Ahead(schedule, now) # {} => NextTime(schedule, now) = Min(Ahead(schedule, now))

\* Every local day has at most one run: the day of the clock grows from one occurrence
\* to the next, also where the clock shows the same time twice.
OnceADay ==
  LET u == NextTime(schedule, now)
  IN  \A late \in 0..1 : Wall(NextTime(schedule, u + late)) \div Hours > Wall(u) \div Hours

\* A valid schedule never runs out of occurrences within the search's horizon.
AlwaysFound == NextTime(schedule, now) # NoTime

\* The search finds the next run, always finds one, and one a day (_next).
CalendarInv == NextIsLeast /\ AlwaysFound /\ OnceADay
=============================================================================
