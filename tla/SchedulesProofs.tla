---------------------------- MODULE SchedulesProofs ----------------------------
(***************************************************************************)
(* Theorems about Schedules, for every set of servers and schedules, every *)
(* period, calendar and bound.                                             *)
(***************************************************************************)
EXTENDS Schedules, TLAPS

InTxn == {"preflight", "commit"}
HasName == {"open", "preflight", "commit"}

TickRec == [pc: {"idle", "scan", "pick", "open", "preflight", "commit", "start"},
            at: Time, todo: SUBSET (Int \X Name), name: Int, due: Int,
            why: {"none", "paused", "late", "busy"}]

\* While a slot is checked its transaction is open, so its schedule is as it was read.
SlotInv ==
  \A p \in Server :
    /\ tick[p].pc \in HasName => tick[p].name \in Name
    /\ tick[p].pc \in InTxn =>
         /\ txn = p
         /\ sched[tick[p].name].enabled
         /\ sched[tick[p].name].next = tick[p].due

\* The next slot lies after the time at which the last one was consumed.
OrderInv ==
  \A n \in Name : last[n] # NoSlot =>
    /\ last[n].at \in Int
    /\ sched[n].enabled => sched[n].next > last[n].at

Inv == TypeOK /\ OnHasNext /\ StartedInTime /\ SlotInv /\ OrderInv

(***************************************************************************)
(* Arithmetic of _next                                                     *)
(***************************************************************************)
LEMMA NextPeriod ==
  ASSUME NEW n \in Nat \ {0}, NEW due \in Int, NEW t \in Int, due <= t
  PROVE  due + n * ((t - due) \div n + 1) \in Int /\ due + n * ((t - due) \div n + 1) > t
OBVIOUS

LEMMA SoonestLater ==
  ASSUME NEW t \in Time
  PROVE  Soonest(t) \in Int /\ Soonest(t) > t
BY ScheduleAssumption, CalendarAssumption DEF Soonest

\* The next slot of a schedule that stays on is after the time at which it is computed.
LEMMA NextOfLater ==
  ASSUME NEW kind \in {"interval", "once", "calendar"}, NEW t \in Time, NEW due \in Int, due <= t
  PROVE  /\ NextOf(kind, t, due) \in SlotTime
         /\ kind # "once" => NextOf(kind, t, due) \in Int /\ NextOf(kind, t, due) > t
<1>1. t \in Int
  BY ScheduleAssumption DEF Time
<1>2. CASE kind = "interval"
  BY <1>1, <1>2, NextPeriod, ScheduleAssumption DEF NextOf, SlotTime
<1>3. CASE kind = "once"
  BY <1>3 DEF NextOf, SlotTime
<1>4. CASE kind = "calendar"
  BY <1>4, SoonestLater DEF NextOf, SlotTime
<1>5. QED
  BY <1>2, <1>3, <1>4

LEMMA FirstOfTimes ==
  ASSUME NEW kind \in {"interval", "once", "calendar"}, now \in Time, NEW next \in FirstOf(kind)
  PROVE  next \in Int
<1>1. now \in Int /\ Period \in Int /\ Occurs \subseteq Int
  BY ScheduleAssumption DEF Time
<1>2. CASE kind = "interval"
  BY <1>1, <1>2 DEF FirstOf
<1>3. CASE kind = "once"
  BY <1>1, <1>3 DEF FirstOf
<1>4. CASE kind = "calendar"
  BY <1>4, SoonestLater DEF FirstOf
<1>5. QED
  BY <1>2, <1>3, <1>4

(***************************************************************************)
(* Steps that leave the schedules alone                                    *)
(***************************************************************************)
LEMMA InvInit == Init => Inv
<1> SUFFICES ASSUME Init PROVE Inv
  OBVIOUS
<1>1. 0 \in Time
  BY ScheduleAssumption DEF Time
<1>2. NoSlot \in [due: SlotTime, at: SlotTime, started: BOOLEAN]
  BY DEF NoSlot, SlotTime
<1>3. Resting \in TickRec /\ Resting.pc \notin HasName \cup InTxn
  BY <1>1 DEF Resting, TickRec, HasName, InTxn
<1>4. TypeOK
  <2>0. 0 \in 0..MaxBacks
    BY ScheduleAssumption
  <2>1. now \in Time /\ backs \in 0..MaxBacks /\ unfinished \in BOOLEAN
    BY <1>1, <2>0, Zenon DEF Init
  <2>2. /\ sched \in [Name -> [kind: {"interval", "once", "calendar"}, enabled: BOOLEAN, next: SlotTime]]
        /\ last \in [Name -> [due: SlotTime, at: SlotTime, started: BOOLEAN]]
    BY <1>2 DEF Init, SlotTime
  <2>3. lock \in Holder /\ claim \in Server \cup {Free} /\ txn \in Server \cup {Free}
    BY DEF Init, Holder
  <2>4. tick \in [Server -> TickRec] /\ stop \in [Server -> BOOLEAN]
    BY <1>3 DEF Init
  <2>5. QED
    BY <2>1, <2>2, <2>3, <2>4 DEF TypeOK, TickRec
<1>5. OnHasNext /\ OrderInv
  BY DEF Init, OnHasNext, OrderInv
<1>6. StartedInTime
  BY DEF Init, StartedInTime, NoSlot
<1>7. SlotInv
  BY <1>3 DEF Init, SlotInv
<1>8. QED
  BY <1>4, <1>5, <1>6, <1>7 DEF Inv

Row == [kind: {"interval", "once", "calendar"}, enabled: BOOLEAN, next: SlotTime]

LEMMA RowUpdate ==
  ASSUME sched \in [Name -> Row], NEW n \in Name, NEW on \in BOOLEAN, NEW next \in SlotTime,
         sched' = [sched EXCEPT ![n].enabled = on, ![n].next = next]
  PROVE  /\ sched' \in [Name -> Row] /\ sched'[n].enabled = on /\ sched'[n].next = next
         /\ \A x \in Name \ {n} : sched'[x] = sched[x]
BY DEF Row

\* One server moves while schedules and history stay: it may be at a slot only with
\* its transaction, and nobody else's transaction is closed.
LEMMA InvMove ==
  ASSUME Inv, NEW p \in Server, NEW m \in TickRec,
         tick' = [tick EXCEPT ![p] = m], UNCHANGED <<clock, sched, last>>,
         unfinished' \in BOOLEAN, lock' \in Holder, claim' \in Server \cup {Free},
         txn' \in Server \cup {Free}, stop' \in [Server -> BOOLEAN],
         m.pc \in HasName => m.name \in Name,
         m.pc \in InTxn =>
           txn' = p /\ sched[m.name].enabled /\ sched[m.name].next = m.due,
         txn' # txn => txn \in {p, Free}
  PROVE  Inv'
<1>1. TypeOK'
  BY DEF Inv, TypeOK, TickRec, clock
<1>2. OnHasNext' /\ StartedInTime' /\ OrderInv'
  BY DEF Inv, OnHasNext, StartedInTime, OrderInv
<1>3. SlotInv'
  <2> SUFFICES ASSUME NEW q \in Server
               PROVE  /\ tick'[q].pc \in HasName => tick'[q].name \in Name
                      /\ tick'[q].pc \in InTxn =>
                           /\ txn' = q
                           /\ sched'[tick'[q].name].enabled
                           /\ sched'[tick'[q].name].next = tick'[q].due
    BY DEF SlotInv
  <2>1. CASE q = p
    BY <2>1 DEF Inv, TypeOK
  <2>2. CASE q # p
    BY <2>2, ScheduleAssumption DEF Inv, TypeOK, SlotInv
  <2>3. QED
    BY <2>1, <2>2
<1>4. QED
  BY <1>1, <1>2, <1>3 DEF Inv

\* What a tick keeps between two names.
LEMMA PickRec ==
  ASSUME NEW todo \in SUBSET (Int \X Name), 0 \in Time
  PROVE  /\ [Resting EXCEPT !.pc = "pick", !.todo = todo] \in TickRec
         /\ [Resting EXCEPT !.pc = "pick", !.todo = todo].pc \notin HasName \cup InTxn
<1>1. Resting \in TickRec
  BY DEF Resting, TickRec
<1>2. QED
  BY <1>1 DEF TickRec, HasName, InTxn

LEMMA InvTickMoves ==
  ASSUME Inv, NEW p \in Server,
         \/ Begin(p) \/ Scan(p) \/ TakeLock(p) \/ LockRefused(p) \/ PassOver(p) \/ Open(p)
         \/ Preflight(p) \/ PreflightRaises(p) \/ TimeSetBack(p) \/ Start(p) \/ StartFails(p)
         \/ EndTick(p) \/ Aborts(p)
  PROVE  Inv'
<1>t. /\ now \in Time /\ 0 \in Time /\ tick \in [Server -> TickRec] /\ tick[p] \in TickRec
      /\ lock \in Holder /\ claim \in Server \cup {Free} /\ txn \in Server \cup {Free}
      /\ unfinished \in BOOLEAN /\ stop \in [Server -> BOOLEAN]
      /\ Free \in Holder /\ Worker \in Holder /\ p \in Holder
      /\ p # Free
  BY ScheduleAssumption DEF Inv, TypeOK, TickRec, Holder, Time
<1>r. Resting \in TickRec /\ Resting.pc \notin HasName \cup InTxn
  BY <1>t DEF Resting, TickRec, HasName, InTxn
<1>n. [Resting EXCEPT !.pc = "pick", !.todo = tick[p].todo] \in TickRec
  <2>1. tick[p].todo \in SUBSET (Int \X Name)
    BY <1>t DEF TickRec
  <2>2. QED
    BY <1>t, <2>1, PickRec
<1>s. SlotInv!(p)
  BY DEF Inv, SlotInv
<1>1. CASE Begin(p)
  <2> DEFINE m == [tick[p] EXCEPT !.pc = "scan", !.at = now]
  <2>1. m \in TickRec /\ m.pc \notin HasName \cup InTxn
    BY <1>t DEF TickRec, HasName, InTxn
  <2>2. tick' = [tick EXCEPT ![p] = m] /\ claim' = p /\ UNCHANGED <<clock, rows, lock, txn, stop>>
    BY <1>1, <1>t DEF Begin
  <2>3. QED
    BY <1>t, <2>1, <2>2, InvMove DEF rows
<1>2. CASE Scan(p)
  <2> DEFINE todo == { <<sched[n].next, n>> : n \in { x \in Name : IsDue(x, tick[p].at) } }
             m == [tick[p] EXCEPT !.pc = "pick", !.todo = todo]
  <2>1. todo \in SUBSET (Int \X Name)
    BY DEF IsDue, Inv, TypeOK, SlotTime
  <2>2. m \in TickRec /\ m.pc \notin HasName \cup InTxn
    BY <1>t, <2>1 DEF TickRec, HasName, InTxn
  <2>3. tick' = [tick EXCEPT ![p] = m] /\ UNCHANGED <<clock, rows, lock, claim, txn, stop>>
    BY <1>2, <1>t DEF Scan
  <2>4. QED
    BY <1>t, <2>2, <2>3, InvMove DEF rows
<1>3. CASE TakeLock(p) \/ LockRefused(p)
  <2>1. PICK s \in tick[p].todo :
          tick' = [tick EXCEPT ![p].pc = "open", ![p].at = now, ![p].name = s[2], ![p].todo = @ \ {s}]
    BY <1>3 DEF TakeLock, LockRefused, TryLock
  <2> DEFINE m == [tick[p] EXCEPT !.pc = "open", !.at = now, !.name = s[2], !.todo = @ \ {s}]
  <2>2. s[2] \in Name /\ s[2] \in Int
    BY <1>t, ScheduleAssumption DEF TickRec
  <2>3. m \in TickRec /\ m.pc \notin InTxn /\ m.name \in Name
    BY <1>t, <2>2 DEF TickRec, InTxn
  <2>4. tick' = [tick EXCEPT ![p] = m] /\ lock' \in Holder /\ UNCHANGED <<clock, rows, claim, txn, stop>>
    BY <1>3, <1>t, <2>1 DEF TakeLock, LockRefused, TryLock
  <2>5. QED
    BY <1>t, <2>3, <2>4, InvMove DEF rows
<1>4. CASE PassOver(p) \/ TimeSetBack(p) \/ Start(p) \/ StartFails(p)
  <2> DEFINE m == [Resting EXCEPT !.pc = "pick", !.todo = tick[p].todo]
  <2>1. /\ tick' = [tick EXCEPT ![p] = m] /\ lock' \in Holder /\ unfinished' \in BOOLEAN
        /\ UNCHANGED <<clock, sched, last, claim, stop>>
    BY <1>4, <1>t DEF PassOver, TimeSetBack, Start, StartFails, NextName, GiveBackLock, rows
  <2>2. txn' \in {txn, Free} /\ (txn' # txn => txn = p)
    BY <1>4, <1>s DEF PassOver, TimeSetBack, Start, StartFails, At, InTxn
  <2>3. m.pc \notin HasName \cup InTxn
    BY DEF HasName, InTxn, Resting
  <2>4. QED
    BY <1>t, <1>n, <2>1, <2>2, <2>3, InvMove
<1>5. CASE Open(p)
  <2>1. PICK why \in {"none", "paused", "late", "busy"} :
          tick' = [tick EXCEPT ![p].pc = IF why = "none" THEN "preflight" ELSE "commit",
                               ![p].due = sched[Slot(p)].next, ![p].why = why]
    BY <1>5 DEF Open, Objection
  <2> DEFINE m == [tick[p] EXCEPT !.pc = IF why = "none" THEN "preflight" ELSE "commit",
                                  !.due = sched[Slot(p)].next, !.why = why]
  <2>2. Slot(p) \in Name /\ sched[Slot(p)].enabled /\ sched[Slot(p)].next \in Int
    BY <1>5, <1>s DEF Open, At, HasName, Slot, IsDue, Inv, TypeOK, SlotTime
  <2>3. m \in TickRec /\ m.name = Slot(p) /\ m.due = sched[Slot(p)].next
    BY <1>t, <2>2 DEF TickRec, Slot
  <2>4. /\ tick' = [tick EXCEPT ![p] = m] /\ txn = Free /\ txn' = p
        /\ UNCHANGED <<clock, rows, lock, claim, stop>>
    BY <1>5, <1>t, <2>1 DEF Open
  <2>5. QED
    BY <1>t, <2>2, <2>3, <2>4, InvMove DEF rows
<1>6. CASE Preflight(p)
  <2>1. PICK why \in {"none", "paused"} :
          tick' = [tick EXCEPT ![p].pc = "commit", ![p].why = why]
    BY <1>6 DEF Preflight
  <2> DEFINE m == [tick[p] EXCEPT !.pc = "commit", !.why = why]
  <2>2. m \in TickRec /\ m.name = tick[p].name /\ m.due = tick[p].due
    BY <1>t DEF TickRec
  <2>3. /\ txn = p /\ tick[p].name \in Name
        /\ sched[tick[p].name].enabled /\ sched[tick[p].name].next = tick[p].due
    BY <1>6, <1>s DEF Preflight, At, InTxn, HasName
  <2>4. tick' = [tick EXCEPT ![p] = m] /\ UNCHANGED <<clock, rows, lock, claim, txn, stop>>
    BY <1>6, <1>t, <2>1 DEF Preflight
  <2>5. QED
    BY <1>t, <2>2, <2>3, <2>4, InvMove DEF rows
<1>7. CASE PreflightRaises(p) \/ Aborts(p)
  <2>1. Drop(p) /\ UNCHANGED <<clock, rows, stop>>
    BY <1>7 DEF PreflightRaises, Aborts
  <2>2. QED
    BY <1>t, <1>r, <2>1, InvMove DEF Drop, GiveBackLock, rows
<1>8. CASE EndTick(p)
  BY <1>t, <1>r, <1>8, InvMove DEF EndTick, rows
<1>9. QED
  BY <1>1, <1>2, <1>3, <1>4, <1>5, <1>6, <1>7, <1>8

(***************************************************************************)
(* The step that consumes a slot                                           *)
(***************************************************************************)
LEMMA InvConsume ==
  ASSUME Inv, NEW p \in Server, Consume(p)
  PROVE  /\ Inv'
         /\ LET n == Slot(p)
            IN  /\ n \in Name /\ sched[n].enabled /\ tick[p].due = sched[n].next
                /\ \E b \in BOOLEAN : last' = [last EXCEPT ![n] = [due |-> tick[p].due, at |-> now, started |-> b]]
<1> DEFINE n == Slot(p)
<1>1. PICK conflict \in BOOLEAN, broken \in BOOLEAN :
        LET clear == tick[p].why = "none" /\ ~LateNow(p)
            start == clear /\ ~conflict /\ ~broken
            off   == tick[p].why = "paused" \/ broken
        IN  /\ sched' = [sched EXCEPT ![n].enabled = ~off /\ sched[n].kind # "once",
                           ![n].next = IF off THEN NoTime ELSE NextOf(sched[n].kind, now, tick[p].due)]
            /\ last' = [last EXCEPT ![n] = [due |-> tick[p].due, at |-> now, started |-> start]]
            /\ unfinished' = (start \/ (unfinished /\ lock # p))
            /\ IF start THEN tick' = [tick EXCEPT ![p].pc = "start"] /\ UNCHANGED lock
                        ELSE NextName(p) /\ GiveBackLock(p)
  BY DEF Consume, May
<1> DEFINE start == tick[p].why = "none" /\ ~LateNow(p) /\ ~conflict /\ ~broken
           off   == tick[p].why = "paused" \/ broken
           next  == IF off THEN NoTime ELSE NextOf(sched[n].kind, now, tick[p].due)
           on    == ~off /\ sched[n].kind # "once"
<1>2. /\ n \in Name /\ txn = p /\ sched[n].enabled /\ sched[n].next = tick[p].due
      /\ tick[p].due <= now /\ txn' = Free /\ UNCHANGED <<now, backs, claim, stop>>
  BY DEF Consume, Inv, SlotInv, At, Slot, HasName, InTxn, clock
<1>3. /\ tick \in [Server -> TickRec] /\ tick[p] \in TickRec /\ now \in Time /\ now \in Int /\ 0 \in Time
      /\ tick[p].due \in Int /\ lock \in Holder /\ Free \in Holder /\ unfinished \in BOOLEAN
      /\ sched \in [Name -> [kind: {"interval", "once", "calendar"}, enabled: BOOLEAN, next: SlotTime]]
      /\ last \in [Name -> [due: SlotTime, at: SlotTime, started: BOOLEAN]]
      /\ Late \in Nat /\ NoTime \notin Int
  BY ScheduleAssumption DEF Inv, TypeOK, TickRec, Holder, Time
<1>4. /\ next \in SlotTime
      /\ on => next \in Int /\ next > now
  <2>1. sched[n].kind \in {"interval", "once", "calendar"}
    BY <1>2, <1>3
  <2>2. QED
    BY <1>2, <1>3, <2>1, NextOfLater DEF SlotTime
<1>5. /\ sched' \in [Name -> Row] /\ sched'[n].enabled = on /\ sched'[n].next = next
      /\ \A x \in Name \ {n} : sched'[x] = sched[x]
      /\ last' = [last EXCEPT ![n] = [due |-> tick[p].due, at |-> now, started |-> start]]
  <2>1. sched' = [sched EXCEPT ![n].enabled = on, ![n].next = next]
    BY <1>1
  <2>2. last' = [last EXCEPT ![n] = [due |-> tick[p].due, at |-> now, started |-> start]]
    BY <1>1
  <2>3. on \in BOOLEAN /\ sched \in [Name -> Row] /\ next \in SlotTime
    BY <1>3, <1>4 DEF Row
  <2>4. QED
    <3> HIDE DEF n, on, next
    <3>1. QED
      BY <1>2, <2>1, <2>2, <2>3, RowUpdate, Zenon
<1>6. PICK m \in TickRec : tick' = [tick EXCEPT ![p] = m] /\ m.pc \notin HasName \cup InTxn
  <2>1. CASE start
    <3>1. tick' = [tick EXCEPT ![p] = [tick[p] EXCEPT !.pc = "start"]]
      BY <1>1, <1>3, <2>1
    <3>2. [tick[p] EXCEPT !.pc = "start"] \in TickRec
      BY <1>3 DEF TickRec
    <3>3. QED
      BY <1>3, <3>1, <3>2 DEF HasName, InTxn, TickRec
  <2>2. CASE ~start
    <3>1. tick' = [tick EXCEPT ![p] = [Resting EXCEPT !.pc = "pick", !.todo = tick[p].todo]]
      BY <1>1, <2>2 DEF NextName
    <3>2. tick[p].todo \in SUBSET (Int \X Name)
      BY <1>3 DEF TickRec
    <3>3. QED
      BY <1>3, <3>1, <3>2, PickRec
  <2>3. QED
    BY <2>1, <2>2
<1>7. unfinished' \in BOOLEAN /\ lock' \in Holder
  BY <1>1, <1>3 DEF GiveBackLock
<1>8. TypeOK'
  <2>2. [due |-> tick[p].due, at |-> now, started |-> start] \in [due: SlotTime, at: SlotTime, started: BOOLEAN]
    BY <1>3 DEF SlotTime
  <2>3. sched' \in [Name -> Row] /\ last' \in [Name -> [due: SlotTime, at: SlotTime, started: BOOLEAN]]
    BY <1>3, <1>5, <2>2
  <2>4. tick' \in [Server -> TickRec]
    BY <1>3, <1>6
  <2>5. QED
    BY <1>2, <1>7, <2>3, <2>4 DEF Inv, TypeOK, TickRec, Row
<1>9. OnHasNext'
  BY <1>2, <1>3, <1>4, <1>5 DEF Inv, OnHasNext
<1>10. StartedInTime'
  <2>1. start => now - tick[p].due \in 0..(Late - 1)
    BY <1>2, <1>3 DEF LateNow
  <2>2. QED
    BY <1>2, <1>3, <1>5, <2>1 DEF Inv, StartedInTime
<1>11. OrderInv'
  BY <1>2, <1>3, <1>4, <1>5 DEF Inv, OrderInv
<1>12. SlotInv'
  BY <1>2, <1>3, <1>6 DEF Inv, SlotInv
<1>13. QED
  BY <1>2, <1>5, <1>8, <1>9, <1>10, <1>11, <1>12 DEF Inv

(***************************************************************************)
(* Everybody else                                                          *)
(***************************************************************************)
\* A writer that waits for the transaction finds nobody at a slot.
LEMMA NobodyInTxn ==
  ASSUME Inv, txn = Free
  PROVE  \A p \in Server : tick[p].pc \notin InTxn
BY ScheduleAssumption DEF Inv, SlotInv

LEMMA InvSave ==
  ASSUME Inv, NEW n \in Name, Save(n) \/ Pause(n)
  PROVE  Inv' /\ last' \in {last, [last EXCEPT ![n] = NoSlot]}
<1>1. \A p \in Server : tick[p].pc \notin InTxn
  BY NobodyInTxn DEF Save, Pause
<1>2. now \in Time /\ NoTime \notin Int
  BY ScheduleAssumption DEF Inv, TypeOK
<1>3. CASE Save(n)
  <2>1. PICK kind \in {"interval", "once", "calendar"}, next \in Int :
          sched' = [sched EXCEPT ![n] = [kind |-> kind, enabled |-> TRUE, next |-> next]]
    BY <1>2, <1>3, FirstOfTimes, ScheduleAssumption DEF Save
  <2>2. last' = [last EXCEPT ![n] = NoSlot] /\ UNCHANGED <<clock, unfinished, lock, claim, txn, tick, stop>>
    BY <1>3 DEF Save
  <2>3. NoSlot \in [due: SlotTime, at: SlotTime, started: BOOLEAN] /\ ~NoSlot.started
    BY DEF NoSlot, SlotTime
  <2>4. TypeOK'
    BY <2>1, <2>2, <2>3 DEF Inv, TypeOK, SlotTime, clock
  <2>5. OnHasNext' /\ StartedInTime' /\ OrderInv'
    BY <1>2, <2>1, <2>2, <2>3 DEF Inv, TypeOK, OnHasNext, StartedInTime, OrderInv
  <2>6. SlotInv'
    BY <1>1, <2>2 DEF Inv, SlotInv
  <2>7. QED
    BY <2>2, <2>4, <2>5, <2>6 DEF Inv
<1>4. CASE Pause(n)
  <2>1. /\ sched' \in [Name -> Row] /\ sched'[n].enabled = FALSE
        /\ \A x \in Name \ {n} : sched'[x] = sched[x]
        /\ UNCHANGED <<clock, last, unfinished, lock, claim, txn, tick, stop>>
    <3>1. sched \in [Name -> Row] /\ NoTime \in SlotTime
      BY DEF Inv, TypeOK, Row, SlotTime
    <3>2. sched' = [sched EXCEPT ![n].enabled = FALSE, ![n].next = NoTime]
      BY <1>4 DEF Pause
    <3>3. QED
      BY <1>4, <3>1, <3>2, RowUpdate, Zenon DEF Pause
  <2>2. TypeOK'
    BY <2>1 DEF Inv, TypeOK, Row, clock
  <2>3. OnHasNext' /\ StartedInTime' /\ OrderInv'
    BY <2>1 DEF Inv, TypeOK, OnHasNext, StartedInTime, OrderInv
  <2>4. SlotInv'
    BY <1>1, <2>1 DEF Inv, SlotInv
  <2>5. QED
    BY <2>1, <2>2, <2>3, <2>4 DEF Inv
<1>5. QED
  BY <1>3, <1>4

LEMMA InvOther ==
  ASSUME Inv,
         \/ \E p \in Server : Stops(p)
         \/ WorkerRecords \/ WorkerCloses \/ OtherTakes \/ OtherLeaves \/ Passes \/ SetBack
         \/ UNCHANGED vars
  PROVE  Inv' /\ last' = last
<1>1. /\ UNCHANGED <<sched, last, txn, tick>>
      /\ now' \in Time /\ backs' \in 0..MaxBacks
      /\ unfinished' \in BOOLEAN /\ lock' \in Holder /\ claim' = claim /\ stop' \in [Server -> BOOLEAN]
  <2>t. now \in Time /\ backs \in 0..MaxBacks /\ unfinished \in BOOLEAN /\ lock \in Holder
        /\ stop \in [Server -> BOOLEAN] /\ Free \in Holder /\ Other \in Holder /\ Worker \in Holder
    BY DEF Inv, TypeOK, Holder
  <2>1. CASE \E p \in Server : Stops(p)
    BY <2>t, <2>1 DEF Stops, rows, clock
  <2>2. CASE WorkerRecords \/ WorkerCloses \/ OtherTakes \/ UNCHANGED vars
    BY <2>t, <2>2 DEF WorkerRecords, WorkerCloses, OtherTakes, rows, clock, vars
  <2>3. CASE OtherLeaves
    BY <2>t, <2>3, Zenon DEF OtherLeaves, clock
  <2>4. CASE Passes \/ SetBack
    <3>1. now' \in Time /\ backs' \in 0..MaxBacks
      BY <2>t, <2>4, ScheduleAssumption DEF Passes, SetBack, Time
    <3>2. QED
      BY <2>t, <2>4, <3>1 DEF Passes, SetBack, rows
  <2>5. QED
    BY <2>1, <2>2, <2>3, <2>4
<1>2. TypeOK'
  BY <1>1 DEF Inv, TypeOK
<1>3. QED
  BY <1>1, <1>2 DEF Inv, OnHasNext, StartedInTime, SlotInv, OrderInv

LEMMA InvNext == Inv /\ [Next]_vars => Inv'
BY InvTickMoves, InvConsume, InvSave, InvOther DEF Next, TickStep

\* The invariant of the specification, and that each step keeps it.
LEMMA InvAlways == Spec => []Inv
BY InvInit, InvNext, PTL DEF Spec

(***************************************************************************)
(* Theorems                                                                *)
(***************************************************************************)
\* Every variable keeps its type, with the slot of a tick that is under way.
THEOREM TypesKept == Spec => []TypeOK
BY InvAlways, PTL DEF Inv

\* A schedule that is on has a next slot.
THEOREM OnHasNextAlways == Spec => []OnHasNext
BY InvAlways, PTL DEF Inv

\* Whatever the preflight took and the clock did, a scheduled run starts in its minute.
THEOREM StartsInTime == Spec => []StartedInTime
BY InvAlways, PTL DEF Inv

\* The three together, for every calendar, period, clock and number of servers.
THEOREM ScheduleInvAlways == Spec => []ScheduleInv
<1>1. TypeOK /\ OnHasNext /\ StartedInTime => ScheduleInv
  BY DEF ScheduleInv
<1>2. QED
  BY <1>1, TypesKept, OnHasNextAlways, StartsInTime, PTL

\* The history of a schedule changes when a slot of it is consumed or it is saved.
LEMMA HistoryStep ==
  ASSUME Inv, [Next]_vars, NEW n \in Name, last'[n] # last[n], last'[n] # NoSlot
  PROVE  sched[n].enabled /\ last'[n].due = sched[n].next
<1>1. last \in [Name -> [due: SlotTime, at: SlotTime, started: BOOLEAN]]
  BY DEF Inv, TypeOK
<1>2. PICK p \in Server : Consume(p)
  <2>1. CASE \E p \in Server : Begin(p) \/ Scan(p) \/ TakeLock(p) \/ LockRefused(p) \/ PassOver(p)
              \/ Open(p) \/ Preflight(p) \/ PreflightRaises(p) \/ TimeSetBack(p) \/ Start(p)
              \/ StartFails(p) \/ EndTick(p) \/ Aborts(p)
    BY <2>1 DEF Begin, Scan, TakeLock, LockRefused, TryLock, PassOver, Open, Preflight, PreflightRaises,
                TimeSetBack, Start, StartFails, EndTick, Aborts, rows
  <2>2. CASE \E x \in Name : Save(x) \/ Pause(x)
    BY <1>1, <2>2, InvSave
  <2>3. CASE \/ \E p \in Server : Stops(p)
             \/ WorkerRecords \/ WorkerCloses \/ OtherTakes \/ OtherLeaves \/ Passes \/ SetBack
             \/ UNCHANGED vars
    BY <2>3, InvOther
  <2>4. QED
    BY <2>1, <2>2, <2>3 DEF Next, TickStep
<1>3. QED
  BY <1>1, <1>2, InvConsume

\* What is consumed is what the schedule says at that moment.
THEOREM ConsumesTheDueSlotAlways == Spec => ConsumesTheDueSlot
<1>1. Inv /\ [Next]_vars =>
        [\A n \in Name : last'[n] # last[n] /\ last'[n] # NoSlot =>
           sched[n].enabled /\ last'[n].due = sched[n].next]_vars
  BY HistoryStep
<1>2. QED
  BY <1>1, InvAlways, PTL DEF Spec, ConsumesTheDueSlot

\* Nothing that was missed is made up for, and no slot is consumed twice.
THEOREM NeverCatchesUp == Spec => NoCatchUp
<1>1. Inv /\ [Next]_vars =>
        [\A n \in Name : last'[n] # last[n] /\ last[n] # NoSlot /\ last'[n] # NoSlot =>
           last'[n].due > last[n].at]_vars
  BY HistoryStep DEF Inv, OrderInv
<1>2. QED
  BY <1>1, InvAlways, PTL DEF Spec, NoCatchUp
=============================================================================
