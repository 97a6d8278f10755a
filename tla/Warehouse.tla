------------------------------- MODULE Warehouse -------------------------------
(***************************************************************************)
(* The local Trino warehouse of tools/local_experiment/warehouse_resident: *)
(* requests hold the file lock warehouse.lock shared, everything that may  *)
(* stop the warehouse holds it exclusively.  Each server process has an    *)
(* activity lock, a copy of the auto-chill setting, and at most one daemon *)
(* thread that stops an idle warehouse; the setting and the time of the    *)
(* last activity are shared through two files.                             *)
(***************************************************************************)
EXTENDS Integers, FiniteSets

CONSTANTS
  Process,    \* server processes that use one state directory
  Client,     \* threads that serve requests
  Home,       \* the process of each client thread
  Idle,       \* the idle time of the one setting modelled beside 0 (off)
  MaxTime,    \* bound: the clock
  MaxCalls,   \* bound: calls the clients make
  Free

Thread == Client \cup Process         \* a process names its own daemon thread
Owner(t) == IF t \in Process THEN t ELSE Home[t]
Setting == {0, Idle}
Time == 0..MaxTime

ASSUME WarehouseAssumption ==
  /\ Client \cap Process = {} /\ Free \notin Thread
  /\ Home \in [Client -> Process]
  /\ Idle \in Nat \ {0} /\ MaxTime \in Nat /\ MaxCalls \in Nat

VARIABLES
  now,        \* the clock
  gate,       \* warehouse.lock: the threads that hold it, by mode
  mutex,      \* _ACTIVITY_LOCK of each process
  starter,    \* _AUTO_CHILL_LOCK of each process
  saved,      \* auto_chill.json
  minutes,    \* _AUTO_CHILL_MINUTES of each process
  shared,     \* last_activity.json
  last,       \* _LAST_ACTIVITY of each process
  up,         \* whether deployment/trino-local has a replica
  queries,    \* clients whose statement is running in Trino
  hidden,     \* those of them whose text names system.runtime.queries
  alive,      \* processes that run
  stop,       \* _AUTO_CHILL_STOP of each process
  pc, then,   \* where each thread is, and where it goes after a touch
  local,      \* the value a thread works with: a setting or a last activity
  calls

settings == <<saved, minutes>>
activity == <<shared, last>>
trino    == <<up, queries, hidden>>
locks    == <<gate, mutex, starter>>
control  == <<alive, stop, pc, then, local, calls>>
vars     == <<now, gate, mutex, starter, saved, minutes, shared, last, up, queries, hidden,
              alive, stop, pc, then, local, calls>>

Later(x, y) == IF x >= y THEN x ELSE y
\* Mutant: only the file is read, which another process may have set back.
LastActivityShared(p) == shared

LastActivity(p) == Later(last[p], shared)

\* Idle long enough, under a setting that is on.
Expired(m, activeAt) == m > 0 /\ now - activeAt >= m

At(t, c) == alive[Owner(t)] /\ pc[t] = c
Goto(t, c) == pc' = [pc EXCEPT ![t] = c]
TouchThen(t, c) == pc' = [pc EXCEPT ![t] = "touch"] /\ then' = [then EXCEPT ![t] = c]

\* What a thread does after its call: a client is idle, a daemon waits.
Done(t) == IF t \in Process THEN "waiting" ELSE "idle"

Init ==
  /\ now = 0
  /\ gate = [shared |-> {}, exclusive |-> {}]
  /\ mutex = [p \in Process |-> Free]
  /\ starter = [p \in Process |-> Free]
  /\ saved = 0 /\ minutes = [p \in Process |-> 0]
  /\ shared = 0 /\ last = [p \in Process |-> 0]
  /\ up \in BOOLEAN /\ queries = {} /\ hidden = {}
  /\ alive = [p \in Process |-> TRUE]
  /\ stop = [p \in Process |-> FALSE]
  /\ pc = [t \in Thread |-> IF t \in Process THEN "none" ELSE "idle"]
  /\ then = [t \in Thread |-> "idle"]
  /\ local = [t \in Thread |-> 0]
  /\ calls = 0

(***************************************************************************)
(* The gate and the record of activity                                     *)
(***************************************************************************)
AcquireShared(t) ==
  /\ gate.exclusive = {}
  /\ gate' = [gate EXCEPT !.shared = @ \cup {t}]

\* Mutant: the exclusive lock does not wait for the shared ones.
AcquireExclusiveAtOnce(t) ==
  /\ gate.exclusive = {}
  /\ gate' = [gate EXCEPT !.exclusive = {t}]

AcquireExclusive(t) ==
  /\ gate.exclusive = {} /\ gate.shared = {}
  /\ gate' = [gate EXCEPT !.exclusive = {t}]

Release(t) ==
  gate' = [shared |-> gate.shared \ {t}, exclusive |-> gate.exclusive \ {t}]

\* touch_activity under the activity lock: the time first, then the file.
Stamp(t) ==
  /\ At(t, "touch") /\ mutex[Owner(t)] = Free
  /\ mutex' = [mutex EXCEPT ![Owner(t)] = t]
  /\ last' = [last EXCEPT ![Owner(t)] = now]
  /\ Goto(t, "write")
  /\ UNCHANGED <<now, gate, starter, settings, shared, trino, alive, stop, then, local, calls>>

Write(t) ==
  /\ At(t, "write")
  /\ shared' = last[Owner(t)]
  /\ mutex' = [mutex EXCEPT ![Owner(t)] = Free]
  /\ Goto(t, then[t])
  /\ UNCHANGED <<now, gate, starter, settings, last, trino, alive, stop, then, local, calls>>

(***************************************************************************)
(* Requests: query, execute, and the statements of the endpoint, which may *)
(* leave their query running in Trino between two calls of the client.     *)
(***************************************************************************)
\* A client calls at most MaxCalls times in all.
Call(t) ==
  /\ At(t, "idle") /\ calls < MaxCalls
  /\ calls' = calls + 1

Enter(t) ==
  /\ Call(t) /\ AcquireShared(t)
  /\ TouchThen(t, IF t \in queries THEN "serving" ELSE "wake")
  /\ UNCHANGED <<now, mutex, starter, settings, activity, trino, alive, stop, local>>

\* A statement finds no replica: transition("wake") inside the same activity.
Wake(t) ==
  /\ At(t, "wake")
  /\ up' = TRUE
  /\ IF up THEN Goto(t, "submit") /\ UNCHANGED then ELSE TouchThen(t, "submit")
  /\ UNCHANGED <<now, locks, settings, activity, queries, hidden, alive, stop, local, calls>>

\* A statement of any text: a client may watch Trino's own list of statements.
Submit(t) ==
  /\ At(t, "submit")
  /\ queries' = queries \cup {t}
  /\ hidden' \in {hidden, hidden \cup {t}}
  /\ Goto(t, "serving")
  /\ UNCHANGED <<now, locks, settings, activity, up, alive, stop, then, local, calls>>

\* The last page, an error, or, at the endpoint, a page that is not the last.
Answer(t) ==
  /\ At(t, "serving")
  /\ queries' \in {queries, queries \ {t}}
  /\ hidden' = hidden \cap queries'
  /\ TouchThen(t, "leave")
  /\ UNCHANGED <<now, locks, settings, activity, up, alive, stop, local, calls>>

\* Whatever raises before the statement is submitted.
Fails(t) ==
  /\ pc[t] \in {"wake", "submit"} /\ alive[Owner(t)]
  /\ TouchThen(t, "leave")
  /\ UNCHANGED <<now, locks, settings, activity, trino, alive, stop, local, calls>>

Leave(t) ==
  /\ At(t, "leave")
  /\ Release(t)
  /\ Goto(t, Done(t))
  /\ UNCHANGED <<now, mutex, starter, settings, activity, trino, alive, stop, then, local, calls>>

\* Trino drops a statement whose client asks no more, or the pod is gone.
QueryEnds ==
  /\ \E t \in queries : queries' = queries \ {t} /\ hidden' = hidden \ {t}
  /\ UNCHANGED <<now, locks, settings, activity, up, control>>

(***************************************************************************)
(* transition("chill") by hand: whoever asks for it accepts that running   *)
(* statements of the endpoint are lost.                                    *)
(***************************************************************************)
\* Mutant: a stop by hand without the gate.
AskChillUngated(t) ==
  /\ Call(t)
  /\ Goto(t, "chill")
  /\ UNCHANGED <<now, locks, settings, activity, trino, alive, stop, then, local>>

AskChill(t) ==
  /\ Call(t) /\ AcquireExclusive(t)
  /\ Goto(t, "chill")
  /\ UNCHANGED <<now, mutex, starter, settings, activity, trino, alive, stop, then, local>>

Chill(t) ==
  /\ At(t, "chill")
  /\ up' = FALSE
  /\ Goto(t, "leave")
  /\ UNCHANGED <<now, locks, settings, activity, queries, hidden, alive, stop, then, local, calls>>

(***************************************************************************)
(* configure_auto_chill                                                    *)
(***************************************************************************)
AskConfigure(t) ==
  /\ Call(t) /\ AcquireExclusive(t)
  /\ \E m \in Setting : local' = [local EXCEPT ![t] = m]
  /\ Goto(t, "configure")
  /\ UNCHANGED <<now, mutex, starter, settings, activity, trino, alive, stop, then>>

\* Both locks held: the file, then the copy; a failed write leaves both.
Configure(t) ==
  /\ At(t, "configure") /\ mutex[Owner(t)] = Free
  /\ Release(t)
  /\ \/ /\ saved' = local[t]
        /\ minutes' = [minutes EXCEPT ![Owner(t)] = local[t]]
        /\ TouchThen(t, IF local[t] > 0 THEN "start" ELSE "stop")
     \/ /\ Goto(t, "idle")
        /\ UNCHANGED <<settings, then>>
  /\ UNCHANGED <<now, mutex, starter, activity, trino, alive, stop, local, calls>>

\* start_auto_chill_daemon: nothing to do while the thread lives.
StartDaemon(t) ==
  /\ At(t, "start") /\ starter[Owner(t)] = Free
  /\ IF pc[Owner(t)] = "none"
       THEN /\ pc' = [pc EXCEPT ![t] = "idle", ![Owner(t)] = "waiting"]
            /\ stop' = [stop EXCEPT ![Owner(t)] = FALSE]
       ELSE Goto(t, "idle") /\ UNCHANGED stop
  /\ UNCHANGED <<now, locks, settings, activity, trino, alive, then, local, calls>>

\* Mutant: the stop flag is never set.
StopDaemonUnsaid(t) ==
  /\ At(t, "stop") /\ starter[Owner(t)] = Free
  /\ starter' = [starter EXCEPT ![Owner(t)] = t]
  /\ Goto(t, "join")
  /\ UNCHANGED <<now, gate, mutex, settings, activity, trino, alive, stop, then, local, calls>>

\* stop_auto_chill_daemon waits for the thread with its lock held.
StopDaemon(t) ==
  /\ At(t, "stop") /\ starter[Owner(t)] = Free
  /\ starter' = [starter EXCEPT ![Owner(t)] = t]
  /\ stop' = [stop EXCEPT ![Owner(t)] = TRUE]
  /\ Goto(t, "join")
  /\ UNCHANGED <<now, gate, mutex, settings, activity, trino, alive, then, local, calls>>

Joined(t) ==
  /\ At(t, "join") /\ pc[Owner(t)] = "none"
  /\ starter' = [starter EXCEPT ![Owner(t)] = Free]
  /\ Goto(t, "idle")
  /\ UNCHANGED <<now, gate, mutex, settings, activity, trino, alive, stop, then, local, calls>>

(***************************************************************************)
(* check_auto_chill, by the daemon or asked for over HTTP                  *)
(***************************************************************************)
\* The loop of the daemon ends when it finds the stop flag.
DaemonEnds(p) ==
  /\ At(p, "waiting") /\ stop[p]
  /\ Goto(p, "none")
  /\ UNCHANGED <<now, locks, settings, activity, trino, alive, stop, then, local, calls>>

\* The first look, without any lock.
Check(t) ==
  /\ \/ Call(t)
     \/ At(t, "waiting") /\ ~stop[Owner(t)] /\ UNCHANGED calls
  /\ minutes' = [minutes EXCEPT ![Owner(t)] = saved]
  /\ Goto(t, IF Expired(saved, LastActivity(Owner(t))) THEN "checking" ELSE Done(t))
  /\ UNCHANGED <<now, locks, saved, activity, trino, alive, stop, then, local>>

CheckGate(t) ==
  /\ At(t, "checking") /\ AcquireExclusive(t)
  /\ Goto(t, "recheck")
  /\ UNCHANGED <<now, mutex, starter, settings, activity, trino, alive, stop, then, local, calls>>

\* The setting, the activity and the replicas again, under the gate.
Recheck(t) ==
  /\ At(t, "recheck")
  /\ minutes' = [minutes EXCEPT ![Owner(t)] = saved]
  /\ local' = [local EXCEPT ![t] = LastActivity(Owner(t))]
  /\ Goto(t, IF Expired(saved, LastActivity(Owner(t))) /\ up THEN "poll" ELSE "leave")
  /\ UNCHANGED <<now, locks, saved, activity, trino, alive, stop, then, calls>>

\* system.runtime.queries: running statements count as activity, but the poll, which
\* must not count itself, leaves out every statement whose text names that table.  It
\* runs inside the gate, and records no activity of its own.
Poll(t) ==
  /\ At(t, "poll")
  /\ IF queries \ hidden # {} THEN TouchThen(t, "leave") ELSE Goto(t, "decide") /\ UNCHANGED then
  /\ UNCHANGED <<now, locks, settings, activity, trino, alive, stop, local, calls>>

\* Trino cannot be asked: no decision.
PollFails(t) ==
  /\ At(t, "poll")
  /\ Goto(t, "leave")
  /\ UNCHANGED <<now, locks, settings, activity, trino, alive, stop, then, local, calls>>

\* The last look holds the activity lock through the scale.
Decide(t) ==
  /\ At(t, "decide") /\ mutex[Owner(t)] = Free
  /\ minutes' = [minutes EXCEPT ![Owner(t)] = saved]
  /\ IF Expired(saved, LastActivity(Owner(t))) /\ LastActivity(Owner(t)) = local[t]
       THEN mutex' = [mutex EXCEPT ![Owner(t)] = t] /\ Goto(t, "scale")
       ELSE UNCHANGED mutex /\ Goto(t, "leave")
  /\ UNCHANGED <<now, gate, starter, saved, activity, trino, alive, stop, then, local, calls>>

AutoChill(t) ==
  /\ At(t, "scale")
  /\ up' = FALSE
  /\ mutex' = [mutex EXCEPT ![Owner(t)] = Free]
  /\ Goto(t, "leave")
  /\ UNCHANGED <<now, gate, starter, settings, activity, queries, hidden, alive, stop, then, local, calls>>

(***************************************************************************)
(* The environment: time, and processes that die and start again.  Locks   *)
(* end with their process; statements in Trino do not.                     *)
(***************************************************************************)
Tick ==
  /\ now < MaxTime
  /\ now' = now + 1
  /\ UNCHANGED <<locks, settings, activity, trino, control>>

Dies(p) ==
  /\ alive[p]
  /\ alive' = [alive EXCEPT ![p] = FALSE]
  /\ LET gone == { t \in Thread : Owner(t) = p }
     IN  /\ gate' = [shared |-> gate.shared \ gone, exclusive |-> gate.exclusive \ gone]
         /\ pc' = [t \in Thread |-> IF t \notin gone THEN pc[t] ELSE IF t = p THEN "none" ELSE "idle"]
         /\ then' = [t \in Thread |-> IF t \in gone THEN "idle" ELSE then[t]]
         /\ local' = [t \in Thread |-> IF t \in gone THEN 0 ELSE local[t]]
  /\ mutex' = [mutex EXCEPT ![p] = Free]
  /\ starter' = [starter EXCEPT ![p] = Free]
  /\ UNCHANGED <<now, settings, activity, trino, stop, calls>>

\* A server starts: initialize_auto_chill.
Starts(p) ==
  /\ ~alive[p]
  /\ alive' = [alive EXCEPT ![p] = TRUE]
  /\ last' = [last EXCEPT ![p] = now]
  /\ minutes' = [minutes EXCEPT ![p] = saved]
  /\ stop' = [stop EXCEPT ![p] = saved = 0]
  /\ pc' = [pc EXCEPT ![p] = IF saved > 0 THEN "waiting" ELSE "none"]
  /\ UNCHANGED <<now, locks, saved, shared, trino, then, local, calls>>

ClientStep(t) ==
  \/ Enter(t) \/ Wake(t) \/ Submit(t) \/ Answer(t) \/ Fails(t)
  \/ AskChill(t) \/ Chill(t)
  \/ AskConfigure(t) \/ Configure(t) \/ StartDaemon(t) \/ StopDaemon(t) \/ Joined(t)

CheckStep(t) ==
  \/ Stamp(t) \/ Write(t) \/ Leave(t)
  \/ Check(t) \/ CheckGate(t) \/ Recheck(t) \/ Poll(t) \/ PollFails(t) \/ Decide(t) \/ AutoChill(t)

Next ==
  \/ \E t \in Client : ClientStep(t)
  \/ \E t \in Thread : CheckStep(t)
  \/ \E p \in Process : DaemonEnds(p) \/ Dies(p) \/ Starts(p)
  \/ QueryEnds \/ Tick

Spec == Init /\ [][Next]_vars

\* The interpreter schedules every thread of a living process.  A thread that waits
\* for a lock gets it once nobody else holds it; clients call MaxCalls times, so no
\* stream of shared holders can keep the gate for ever.
Fairness ==
  /\ \A t \in Client : WF_vars(Wake(t) \/ Submit(t) \/ Answer(t) \/ Chill(t) \/ Configure(t)
                                \/ StartDaemon(t) \/ StopDaemon(t) \/ Joined(t))
  /\ \A t \in Thread : WF_vars(Stamp(t) \/ Write(t) \/ Leave(t) \/ CheckGate(t) \/ Recheck(t)
                                \/ Poll(t) \/ Decide(t) \/ AutoChill(t))
  /\ \A p \in Process : WF_vars(DaemonEnds(p))

FairSpec == Spec /\ Fairness

(***************************************************************************)
(* Properties                                                              *)
(***************************************************************************)
ThreadPC ==
  {"idle", "none", "waiting", "touch", "write", "wake", "submit", "serving", "leave", "chill",
   "configure", "start", "stop", "join", "checking", "recheck", "poll", "decide", "scale"}

TypeOK ==
  /\ now \in Time
  /\ gate \in [shared: SUBSET Thread, exclusive: SUBSET Thread]
  /\ mutex \in [Process -> Thread \cup {Free}] /\ starter \in [Process -> Thread \cup {Free}]
  /\ saved \in Setting /\ minutes \in [Process -> Setting]
  /\ shared \in Time /\ last \in [Process -> Time]
  /\ up \in BOOLEAN /\ queries \subseteq Client /\ hidden \subseteq queries
  /\ alive \in [Process -> BOOLEAN] /\ stop \in [Process -> BOOLEAN]
  /\ pc \in [Thread -> ThreadPC] /\ then \in [Thread -> ThreadPC]
  /\ local \in [Thread -> Setting \cup Time]
  /\ calls \in 0..MaxCalls

\* A statement that was admitted finds the warehouse up when it is submitted: no stop,
\* by hand or by a daemon of any process, comes between the wake and the statement.
AdmittedFindsItUp ==
  \A t \in Client :
    At(t, "submit") \/ (pc[t] \in {"touch", "write"} /\ then[t] = "submit") => up

\* Requests and whatever may stop the warehouse never hold the gate together, and
\* nobody works past the gate without it.
GateExcludes ==
  /\ gate.exclusive # {} => gate.shared = {} /\ \E t \in Thread : gate.exclusive = {t}
  /\ \A t \in Thread : pc[t] \in {"wake", "submit", "serving"} => t \in gate.shared
  /\ \A t \in Thread : pc[t] \in {"chill", "configure", "recheck", "poll", "decide", "scale"} =>
                          t \in gate.exclusive

\* Nobody stops the warehouse, by hand, for a setting or when idle, beside a request: the
\* gate keeps them apart, so that no request finds it stopped between its wake and its
\* statement.
WarehouseInv == TypeOK /\ GateExcludes /\ AdmittedFindsItUp

\* Auto-chill never stops a warehouse under a statement that has left the gate and
\* still runs, of whatever process, unless its text names system.runtime.queries: the
\* poll cannot tell a client that watches Trino from itself (lines 233-236).
AutoChillSparesQueries == [][\A t \in Thread : AutoChill(t) => queries \subseteq hidden]_vars

\* Auto-chill stops the warehouse only while the shared setting is on, and only when
\* the process that stops it has been idle for that time.
AutoChillOnlyWhenIdle ==
  [][\A t \in Thread : AutoChill(t) => Expired(saved, last[Owner(t)])]_vars

\* Auto-chill stops only what is idle (check_auto_chill).
AutoChillIsDue == AutoChillSparesQueries /\ AutoChillOnlyWhenIdle

\* Turning auto-chill off returns: the daemon it waits for is never waiting for it.
StopReturns == \A t \in Client : pc[t] = "join" ~> pc[t] # "join"

\* Unless a call that changes the setting is under way, a server process whose setting
\* is on has a daemon that checks it.
SettingOnHasDaemon ==
  \A p \in Process :
    /\ alive[p] /\ minutes[p] > 0
    /\ \A t \in Client : Owner(t) = p => pc[t] \notin {"touch", "write", "start", "stop", "join"}
    => pc[p] # "none"
=============================================================================
