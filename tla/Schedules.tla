------------------------------- MODULE Schedules -------------------------------
(***************************************************************************)
(* The tick of tools/local_experiment/schedule_resident.py: which due slot *)
(* of a schedule is started, skipped, deferred or paused, against a clock  *)
(* that may be set back, schedules that are saved and paused meanwhile, a  *)
(* jobs lock that others hold, and the SQLite transaction that a slot      *)
(* keeps open from reading its schedule to consuming it.                   *)
(*                                                                         *)
(* Time is counted in half minutes.  JobsLedger has the ledger's side of   *)
(* the same steps: here it is one bit, whether a run is unfinished.        *)
(***************************************************************************)
EXTENDS Integers

CONSTANTS
  Server,    \* threads that tick: one of each server process
  Name,      \* schedules, numbered in the order of their names
  Kinds,     \* kinds of schedule that are saved: "interval", "once", "calendar"
  Period,    \* every_minutes of an interval schedule
  Occurs,    \* times of day, week or month of the others
  Late,      \* 60 seconds
  Outcomes,  \* what may come of a slot's checks: see Outcome
  Faults,    \* what may happen to a tick: see Fault
  MaxTime,   \* bound: the clock
  MaxBacks,  \* bound: times the clock is set back
  NoTime, Free, Other, Worker

Time    == 0..MaxTime
Outcome == {"refused", "invalid", "raises", "broken", "conflict"}
Fault   == {"stop", "thread", "abort"}

ASSUME ScheduleAssumption ==
  /\ Name \subseteq Int /\ Occurs \subseteq Int
  /\ Period \in Nat \ {0} /\ Late \in Nat \ {0} /\ MaxTime \in Nat /\ MaxBacks \in Nat
  /\ Kinds \subseteq {"interval", "once", "calendar"}
  /\ Outcomes \subseteq Outcome /\ Faults \subseteq Fault
  /\ NoTime \notin Int
  /\ Free \notin Server /\ Other \notin Server /\ Worker \notin Server
  /\ Free # Other /\ Free # Worker /\ Other # Worker

\* Every calendar goes on after the clock's bound.
ASSUME CalendarAssumption ==
  \A t \in Time : \E o \in Occurs : o > t /\ \A q \in Occurs : q > t => o <= q

VARIABLES
  now, backs,  \* the clock, and how often it was set back
  sched,       \* table schedules: kind, enabled, next_run_at
  last,        \* history: the last slot consumed since the schedule was saved
  unfinished,  \* a run is queued or running in the ledger
  lock,        \* jobs-active.lock: Free, a ticking server, a run's worker, or another
  claim,       \* jobs-scheduler-tick.lock
  txn,         \* the server whose BEGIN IMMEDIATE is open
  tick,        \* where each server's _tick is, with its local variables
  stop         \* _STOP of each server

rows  == <<sched, last, unfinished>>
clock == <<now, backs>>
vars  == <<now, backs, sched, last, unfinished, lock, claim, txn, tick, stop>>

NoSlot == [due |-> NoTime, at |-> NoTime, started |-> FALSE]
Resting == [pc |-> "idle", at |-> 0, todo |-> {}, name |-> 0, due |-> 0, why |-> "none"]

Init ==
  /\ now = 0 /\ backs = 0
  /\ sched = [n \in Name |-> [kind |-> "interval", enabled |-> FALSE, next |-> NoTime]]
  /\ last = [n \in Name |-> NoSlot]
  /\ unfinished = FALSE
  /\ lock = Free /\ claim = Free /\ txn = Free
  /\ tick = [p \in Server |-> Resting]
  /\ stop = [p \in Server |-> FALSE]

(***************************************************************************)
(* _next.  A slot's occurrence lies after now; module Calendar has the     *)
(* search through days and local times.                                    *)
(***************************************************************************)
Soonest(t) == CHOOSE o \in Occurs : o > t /\ \A q \in Occurs : q > t => o <= q

\* Mutant: the next period, even if it is over as well.
NextOfCatchingUp(kind, t, due) ==
  CASE kind = "interval" -> due + Period
    [] kind = "once"     -> NoTime
    [] kind = "calendar" -> Soonest(due)

NextOf(kind, t, due) ==
  CASE kind = "interval" -> due + Period * ((t - due) \div Period + 1)
    [] kind = "once"     -> IF due > t THEN due ELSE NoTime
    [] kind = "calendar" -> Soonest(t)

IsDue(n, t) == sched[n].enabled /\ sched[n].next # NoTime /\ sched[n].next <= t

(***************************************************************************)
(* One tick                                                                *)
(***************************************************************************)
At(p, c) == tick[p].pc = c

Slot(p)  == tick[p].name
May(o)   == {FALSE} \cup {(o \in Outcomes)}

\* Names go in the order of next_run_at, name, as they were when they were listed.
IsFirst(s, todo) == \A q \in todo : s[1] < q[1] \/ (s[1] = q[1] /\ s[2] <= q[2])

NextName(p) ==
  tick' = [tick EXCEPT ![p] = [Resting EXCEPT !.pc = "pick", !.todo = tick[p].todo]]

GiveBackLock(p) == lock' = IF lock = p THEN Free ELSE lock

\* The claim is not waited for: another server's tick does for both.
Begin(p) ==
  /\ At(p, "idle") /\ ~stop[p] /\ claim = Free
  /\ claim' = p
  /\ tick' = [tick EXCEPT ![p].pc = "scan", ![p].at = now]
  /\ UNCHANGED <<clock, rows, lock, txn, stop>>

Scan(p) ==
  /\ At(p, "scan")
  /\ tick' = [tick EXCEPT ![p].pc = "pick",
               ![p].todo = { <<sched[n].next, n>> : n \in { x \in Name : IsDue(x, tick[p].at) } }]
  /\ UNCHANGED <<clock, rows, lock, claim, txn, stop>>

\* _lock, then the clock.
TryLock(p) ==
  /\ At(p, "pick") /\ ~stop[p]
  /\ \E s \in tick[p].todo :
       /\ IsFirst(s, tick[p].todo)
       /\ tick' = [tick EXCEPT ![p].pc = "open", ![p].at = now, ![p].name = s[2], ![p].todo = @ \ {s}]
  /\ UNCHANGED <<clock, rows, claim, txn, stop>>

TakeLock(p)    == TryLock(p) /\ lock = Free /\ lock' = p
LockRefused(p) == TryLock(p) /\ lock # Free /\ UNCHANGED lock

\* Paused or moved since it was listed, or the lock belongs to somebody's recovery
\* or admission: the slot stays as it is.
PassOver(p) ==
  /\ At(p, "open") /\ txn = Free
  /\ \/ ~IsDue(Slot(p), tick[p].at)
     \/ lock # p /\ ~unfinished
  /\ NextName(p) /\ GiveBackLock(p)
  /\ UNCHANGED <<clock, rows, claim, txn, stop>>

\* Mutant: only a slot that passes its preflight is found late.
ObjectionLateAfter(p, refused) ==
  IF refused THEN "paused" ELSE IF lock # p THEN "busy" ELSE "none"

\* What stands against the slot before its input is looked at.
Objection(p, refused) ==
  IF refused THEN "paused"
  ELSE IF tick[p].at - sched[Slot(p)].next >= Late THEN "late"
  ELSE IF lock # p THEN "busy" ELSE "none"

\* Mutant: the schedule is read and checked before the transaction.
OpenOutside(p) ==
  /\ At(p, "open") /\ txn = Free
  /\ IsDue(Slot(p), tick[p].at) /\ (lock = p \/ unfinished)
  /\ \E refused \in May("refused") :
       LET why == Objection(p, refused)
       IN  tick' = [tick EXCEPT ![p].pc = IF why = "none" THEN "preflight" ELSE "commit",
                                ![p].due = sched[Slot(p)].next, ![p].why = why]
  /\ UNCHANGED <<clock, rows, lock, claim, txn, stop>>

\* BEGIN IMMEDIATE, the row again, the account and the definition.
Open(p) ==
  /\ At(p, "open") /\ txn = Free
  /\ IsDue(Slot(p), tick[p].at) /\ (lock = p \/ unfinished)
  /\ txn' = p
  /\ \E refused \in May("refused") :
       LET why == Objection(p, refused)
       IN  tick' = [tick EXCEPT ![p].pc = IF why = "none" THEN "preflight" ELSE "commit",
                                ![p].due = sched[Slot(p)].next, ![p].why = why]
  /\ UNCHANGED <<clock, rows, lock, claim, stop>>

\* Files are read: this takes time.
Preflight(p) ==
  /\ At(p, "preflight")
  /\ \E invalid \in May("invalid") :
       tick' = [tick EXCEPT ![p].pc = "commit", ![p].why = IF invalid THEN "paused" ELSE "none"]
  /\ UNCHANGED <<clock, rows, lock, claim, txn, stop>>

\* The tick is over: its transaction is rolled back, its descriptors are closed.
Drop(p) ==
  /\ txn' = IF txn = p THEN Free ELSE txn
  /\ claim' = IF claim = p THEN Free ELSE claim
  /\ GiveBackLock(p)
  /\ tick' = [tick EXCEPT ![p] = Resting]

\* An exception of a kind the tick does not list.
PreflightRaises(p) ==
  /\ "raises" \in Outcomes
  /\ At(p, "preflight") /\ Drop(p)
  /\ UNCHANGED <<clock, rows, stop>>

\* The database fails, or the server dies and is started again.
Aborts(p) ==
  /\ "abort" \in Faults
  /\ ~At(p, "idle") /\ Drop(p)
  /\ UNCHANGED <<clock, rows, stop>>

\* The clock was set back under the slot: only the recovery is committed.
TimeSetBack(p) ==
  /\ At(p, "commit") /\ tick[p].due > now
  /\ txn' = Free
  /\ unfinished' = (unfinished /\ lock # p)
  /\ NextName(p) /\ GiveBackLock(p)
  /\ UNCHANGED <<clock, sched, last, claim, stop>>

\* Mutant: the time read before the preflight decides.
LateNowStale(p) == tick[p].at - tick[p].due >= Late

LateNow(p) == now - tick[p].due >= Late

\* The slot is consumed in one transaction with its row in runs.  A conflict of
\* claims skips it; a calendar that cannot be computed pauses it.
Consume(p) ==
  /\ At(p, "commit") /\ tick[p].due <= now
  /\ \E conflict \in May("conflict"), broken \in May("broken") :
       LET n     == Slot(p)
           clear == tick[p].why = "none" /\ ~LateNow(p)
           start == clear /\ ~conflict /\ ~broken
           off   == tick[p].why = "paused" \/ broken
       IN  /\ sched' = [sched EXCEPT ![n].enabled = ~off /\ sched[n].kind # "once",
                          ![n].next = IF off THEN NoTime ELSE NextOf(sched[n].kind, now, tick[p].due)]
           /\ last' = [last EXCEPT ![n] = [due |-> tick[p].due, at |-> now, started |-> start]]
           /\ unfinished' = (start \/ (unfinished /\ lock # p))
           /\ txn' = Free
           /\ IF start THEN tick' = [tick EXCEPT ![p].pc = "start"] /\ UNCHANGED lock
                       ELSE NextName(p) /\ GiveBackLock(p)
  /\ UNCHANGED <<clock, claim, stop>>

Start(p) ==
  /\ At(p, "start")
  /\ lock' = Worker
  /\ NextName(p)
  /\ UNCHANGED <<clock, rows, claim, txn, stop>>

StartFails(p) ==
  /\ "thread" \in Faults
  /\ At(p, "start") /\ txn = Free
  /\ unfinished' = FALSE
  /\ NextName(p) /\ GiveBackLock(p)
  /\ UNCHANGED <<clock, sched, last, claim, txn, stop>>

EndTick(p) ==
  /\ At(p, "pick") /\ (tick[p].todo = {} \/ stop[p])
  /\ claim' = Free
  /\ tick' = [tick EXCEPT ![p] = Resting]
  /\ UNCHANGED <<clock, rows, lock, txn, stop>>

\* stop_scheduler is seen between two names; start_scheduler clears it.
Stops(p) ==
  /\ "stop" \in Faults
  /\ stop' = [stop EXCEPT ![p] = ~@]
  /\ stop[p] => At(p, "idle")
  /\ UNCHANGED <<clock, rows, lock, claim, txn, tick>>

(***************************************************************************)
(* Everybody else: the worker, recoveries and admissions by request, the   *)
(* owners of schedules, the clock.  A writer waits for the transaction.    *)
(***************************************************************************)
\* The run's end is written, if it can be, before the lock is given back.
WorkerRecords ==
  /\ lock = Worker /\ txn = Free
  /\ unfinished' = FALSE
  /\ UNCHANGED <<clock, sched, last, lock, claim, txn, tick, stop>>

WorkerCloses ==
  /\ lock = Worker /\ (unfinished => "abort" \in Faults)
  /\ lock' = Free
  /\ UNCHANGED <<clock, rows, claim, txn, tick, stop>>

OtherTakes ==
  /\ lock = Free
  /\ lock' = Other
  /\ UNCHANGED <<clock, rows, claim, txn, tick, stop>>

\* A recovery, an admission, or a refusal.
OtherLeaves ==
  /\ lock = Other /\ txn = Free
  /\ \/ lock' = Free /\ unfinished' \in {FALSE, unfinished}
     \/ lock' = Worker /\ unfinished' = TRUE
  /\ UNCHANGED <<clock, sched, last, claim, txn, tick, stop>>

FirstOf(kind) ==
  CASE kind = "interval" -> {now + Period}
    [] kind = "once"     -> { o \in Occurs : o > now }
    [] kind = "calendar" -> {Soonest(now)}

Save(n) ==
  /\ txn = Free
  /\ \E kind \in Kinds : \E next \in FirstOf(kind) :
       sched' = [sched EXCEPT ![n] = [kind |-> kind, enabled |-> TRUE, next |-> next]]
  /\ last' = [last EXCEPT ![n] = NoSlot]
  /\ UNCHANGED <<clock, unfinished, lock, claim, txn, tick, stop>>

\* A pause, or a schedule saved disabled.
Pause(n) ==
  /\ txn = Free
  /\ sched' = [sched EXCEPT ![n].enabled = FALSE, ![n].next = NoTime]
  /\ UNCHANGED <<clock, last, unfinished, lock, claim, txn, tick, stop>>

Passes ==
  /\ now < MaxTime
  /\ now' = now + 1
  /\ UNCHANGED <<backs, rows, lock, claim, txn, tick, stop>>

SetBack ==
  /\ backs < MaxBacks
  /\ now' \in { t \in Time : t < now }
  /\ backs' = backs + 1
  /\ UNCHANGED <<rows, lock, claim, txn, tick, stop>>

\* What a tick does while nothing happens to it.
TickStep(p) ==
  \/ Scan(p) \/ TakeLock(p) \/ LockRefused(p) \/ PassOver(p) \/ Open(p) \/ Preflight(p)
  \/ PreflightRaises(p) \/ TimeSetBack(p) \/ Consume(p) \/ Start(p) \/ StartFails(p) \/ EndTick(p)

Next ==
  \/ \E p \in Server : Begin(p) \/ TickStep(p) \/ Aborts(p) \/ Stops(p)
  \/ \E n \in Name : Save(n) \/ Pause(n)
  \/ WorkerRecords \/ WorkerCloses \/ OtherTakes \/ OtherLeaves \/ Passes \/ SetBack

Spec == Init /\ [][Next]_vars

\* A server ticks every 10 seconds and its thread is scheduled; runs, requests and
\* time go on.
Fairness ==
  /\ \A p \in Server : WF_vars(Begin(p)) /\ WF_vars(TickStep(p))
  /\ WF_vars(WorkerRecords) /\ WF_vars(WorkerCloses) /\ WF_vars(OtherLeaves) /\ WF_vars(Passes)

FairSpec == Spec /\ Fairness

(***************************************************************************)
(* Properties                                                              *)
(***************************************************************************)
Holder == Server \cup {Free, Other, Worker}
SlotTime == Int \cup {NoTime}

TypeOK ==
  /\ now \in Time /\ backs \in 0..MaxBacks
  /\ sched \in [Name -> [kind: {"interval", "once", "calendar"}, enabled: BOOLEAN, next: SlotTime]]
  /\ last \in [Name -> [due: SlotTime, at: SlotTime, started: BOOLEAN]]
  /\ unfinished \in BOOLEAN
  /\ lock \in Holder /\ claim \in Server \cup {Free} /\ txn \in Server \cup {Free}
  /\ tick \in [Server -> [pc: {"idle", "scan", "pick", "open", "preflight", "commit", "start"},
                          at: Time, todo: SUBSET (Int \X Name), name: Int, due: Int,
                          why: {"none", "paused", "late", "busy"}]]
  /\ stop \in [Server -> BOOLEAN]

\* A schedule that is on has a next slot: it cannot be on and never run.
OnHasNext == \A n \in Name : sched[n].enabled => sched[n].next # NoTime

\* A run that is started by schedule is started less than 60 seconds after its time
\* and never before it, however long the preflight took and whatever the clock did.
StartedInTime ==
  \A n \in Name : last[n].started => last[n].at - last[n].due \in 0..(Late - 1)

\* Types, a next slot for every schedule that is on, and starts in their minute (_tick).
ScheduleInv == TypeOK /\ OnHasNext /\ StartedInTime

\* Slots of one schedule follow each other: a slot is consumed only once, and the
\* next one lies after the time at which it was consumed, so what was missed
\* meanwhile is not made up for.
NoCatchUp ==
  [][\A n \in Name : last'[n] # last[n] /\ last[n] # NoSlot /\ last'[n] # NoSlot =>
       last'[n].due > last[n].at]_vars

\* What is consumed is what the schedule says when it is consumed: a pause or a change
\* under a running preflight is not overwritten, nor is a paused schedule run.
ConsumesTheDueSlot ==
  [][\A n \in Name : last'[n] # last[n] /\ last'[n] # NoSlot =>
       sched[n].enabled /\ last'[n].due = sched[n].next]_vars

\* A tick gives back the claim, and the jobs lock as well.
LocksGivenBack ==
  \A p \in Server : (claim = p ~> claim # p) /\ (lock = p ~> lock # p)

\* Once the page and the command line leave the jobs lock alone, and the servers run and
\* can write their ledger, a slot that is due is consumed, moved or paused, even when the
\* preflight of its schedule ends every tick: a minute late, it is skipped without one.
DueSlotConsumed ==
  /\ <>[](lock # Other /\ \A p \in Server : ~stop[p])
  /\ <>[][\A p \in Server : Aborts(p) => At(p, "preflight")]_vars
  => \A n \in Name, d \in { t \in Time : t + Late <= MaxTime } :
       sched[n].enabled /\ sched[n].next = d ~> ~sched[n].enabled \/ sched[n].next # d

\* Ticks neither keep what they took nor leave a slot behind (_tick).
TicksGoOn == LocksGivenBack /\ DueSlotConsumed
=============================================================================
