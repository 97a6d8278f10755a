----------------------------- MODULE MCServerParts -----------------------------
(***************************************************************************)
(* Instances for TLC of four parts of the server that share no state: the   *)
(* alerts of a job, the search for the next occurrence of a schedule, the   *)
(* endpoint's pages, and the roles that things are done under.  A behaviour *)
(* is of one of them, the others being at rest.                             *)
(*                                                                         *)
(* Days of four hours, weeks of three days, and a year of months of three,  *)
(* two and three days.                                                      *)
(***************************************************************************)
EXTENDS Alerts, Integers, TLC

CONSTANTS Hours, Week, Year, Firsts, MonthDay, Zones, Horizon, MaxDay, NoTime,
          User, Conn, c1, c2, Posts, Pages, Limit,
          Thread, Steps, MaxChanges

VARIABLES part,
          schedule, zone, now,
          up, query, owners, conn, after,
          mode, account, ceiling, thread, saved, job, changes

Calendar == INSTANCE Calendar
Endpoint == INSTANCE Endpoint
Roles    == INSTANCE Roles WITH schedule <- saved, run <- job

\* Nothing is no user, no role, no mode, and neither a path nor a set of them.
ASSUME PartsAssumption ==
  /\ Posts \in Nat /\ Pages \in Nat /\ Limit \in Nat \ {0} /\ Steps \in Nat /\ MaxChanges \in Nat
  /\ None \notin User \cup Nat \cup {"local", "shared"} \cup Endpoint!Path
  /\ \A paths \in SUBSET Endpoint!Path : paths # None

\* Of the zones and the calendar: lengths, offsets and changes as zones have them, and
\* days that recur within the days that are searched.
ASSUME ZonesAssumption ==
  /\ {Hours, Week, Year} \subseteq Nat \ {0} /\ {MonthDay, Horizon, MaxDay} \subseteq Nat /\ NoTime \notin Int
  /\ \A z \in Zones : Calendar!IsZone(z)
  /\ Calendar!DaysRecur

calendarVars == <<schedule, zone, now>>
endpointVars == <<up, query, owners, conn, after>>
rolesVars    == <<mode, account, ceiling, thread, saved, job, changes>>

Months == {0, 3, 5}

\* Clocks that go forward and back by an hour, at every hour of a day, east and west
\* of UTC, in both orders; and clocks that skip or repeat half a day, or repeat a whole one.
HourChanges == { [change |-> <<u, u + 12>>, offset |-> <<o, o + d, o>>] :
                   u \in 9..12, o \in {-2, 3}, d \in {-1, 1} }
DayChanges  == { [change |-> <<u, 30>>, offset |-> <<o, o + d, o + d>>] :
                   u \in {9, 11}, o \in {-2, 2}, d \in {-4, -2, 2} }
AllZones    == HourChanges \cup DayChanges

Alike == Permutations({c1, c2})

\* Of a part at rest there is nothing to check.
CalendarInv == part = "calendar" => Calendar!CalendarInv
EndpointInv == part = "endpoint" => Endpoint!EndpointInv
RolesInv    == part = "roles" => Roles!RolesInv

\* What the parts are in that a behaviour is not of.
AlertsRest   == rules = [p \in Position |-> None]
CalendarRest ==
  /\ now = 0 /\ zone = [change |-> <<9, 21>>, offset |-> <<3, 4, 3>>]
  /\ schedule = [kind |-> "daily", hour |-> 0, weekdays |-> {}, day |-> 0]
RolesRest    == mode = "local" /\ account = [u \in User |-> None] /\ ceiling = 0

PartsInit ==
  /\ part \in {"alerts", "calendar", "endpoint", "roles"}
  /\ Init /\ Endpoint!Init
  /\ IF part = "calendar" THEN Calendar!Init ELSE CalendarRest
  /\ IF part = "roles" THEN Roles!Init ELSE Roles!Init /\ RolesRest
  /\ part # "alerts" => AlertsRest

PartsNext ==
  \/ part = "alerts" /\ Next /\ UNCHANGED <<part, calendarVars, endpointVars, rolesVars>>
  \/ part = "calendar" /\ Calendar!Next /\ UNCHANGED <<part, vars, endpointVars, rolesVars>>
  \/ part = "endpoint" /\ Endpoint!Next /\ UNCHANGED <<part, vars, calendarVars, rolesVars>>
  \/ part = "roles" /\ Roles!Next /\ UNCHANGED <<part, vars, calendarVars, endpointVars>>

PartsSpec == PartsInit /\ [][PartsNext]_<<part, vars, calendarVars, endpointVars, rolesVars>>
=============================================================================
