---------------------------- MODULE WarehouseProofs ----------------------------
(***************************************************************************)
(* Theorems about Warehouse, for every set of processes and clients.       *)
(***************************************************************************)
EXTENDS Warehouse, TLAPS

SharedPC    == {"wake", "submit", "serving"}
ExclusivePC == {"chill", "configure", "recheck", "poll", "decide", "scale"}
TouchPC     == {"touch", "write"}

\* GateExcludes speaks of threads past the gate; a thread that records activity is
\* past it too when it goes on to serve, and never goes on to stop anything.
GateInv ==
  /\ gate \in [shared: SUBSET Thread, exclusive: SUBSET Thread]
  /\ pc \in [Thread -> ThreadPC] /\ then \in [Thread -> ThreadPC \ (ExclusivePC \cup TouchPC)]
  /\ GateExcludes
  /\ \A t \in Thread : pc[t] \in TouchPC /\ then[t] \in SharedPC => t \in gate.shared

LEMMA GateInit == Init => GateInv
BY DEF Init, GateInv, GateExcludes, SharedPC, ExclusivePC, TouchPC, ThreadPC

\* A thread moves on, to a place it may be at under the gate as it is.
LEMMA GateMove ==
  ASSUME GateInv, NEW t \in Thread, NEW c \in ThreadPC \ TouchPC,
         pc' = [pc EXCEPT ![t] = c], UNCHANGED <<gate, then>>,
         c \in SharedPC => t \in gate.shared, c \in ExclusivePC => t \in gate.exclusive
  PROVE  GateInv'
BY DEF GateInv, GateExcludes, SharedPC, ExclusivePC, TouchPC

LEMMA GateTouch ==
  ASSUME GateInv, NEW t \in Thread, NEW c \in ThreadPC \ (ExclusivePC \cup TouchPC),
         TouchThen(t, c), UNCHANGED gate, c \in SharedPC => t \in gate.shared
  PROVE  GateInv'
BY DEF GateInv, GateExcludes, TouchThen, SharedPC, ExclusivePC, TouchPC, ThreadPC

LEMMA GateClient ==
  ASSUME GateInv, NEW t \in Client, ClientStep(t)
  PROVE  GateInv'
<1> USE DEF At, Goto, locks
<1>1. t \in Thread /\ (pc[t] \in SharedPC => t \in gate.shared)
      /\ (pc[t] \in ExclusivePC => t \in gate.exclusive)
  BY DEF Thread, GateInv, GateExcludes, SharedPC, ExclusivePC
<1>2. CASE Enter(t)
  BY <1>1, <1>2 DEF Enter, AcquireShared, TouchThen, GateInv, GateExcludes,
                    SharedPC, ExclusivePC, TouchPC, ThreadPC
<1>3. CASE Wake(t)
  <2>1. CASE up
    BY <1>1, <1>3, <2>1, GateMove DEF Wake, SharedPC, ExclusivePC, TouchPC, ThreadPC
  <2>2. CASE ~up
    BY <1>1, <1>3, <2>2, GateTouch DEF Wake, SharedPC, ExclusivePC, TouchPC, ThreadPC
  <2>3. QED
    BY <2>1, <2>2
<1>4. CASE Submit(t)
  BY <1>1, <1>4, GateMove DEF Submit, SharedPC, ExclusivePC, TouchPC, ThreadPC
<1>5. CASE Answer(t) \/ Fails(t)
  BY <1>1, <1>5, GateTouch DEF Answer, Fails, SharedPC, ExclusivePC, TouchPC, ThreadPC
<1>6. CASE AskChill(t)
  BY <1>1, <1>6 DEF AskChill, AcquireExclusive, GateInv, GateExcludes,
                    SharedPC, ExclusivePC, TouchPC, ThreadPC
<1>7. CASE Chill(t)
  BY <1>1, <1>7, GateMove DEF Chill, SharedPC, ExclusivePC, TouchPC, ThreadPC
<1>8. CASE AskConfigure(t)
  BY <1>1, <1>8 DEF AskConfigure, AcquireExclusive, GateInv, GateExcludes,
                    SharedPC, ExclusivePC, TouchPC, ThreadPC
<1>9. CASE Configure(t)
  <2>1. Release(t) /\ (TouchThen(t, "start") \/ TouchThen(t, "stop")
                       \/ (Goto(t, "idle") /\ UNCHANGED then))
    BY <1>9 DEF Configure
  <2>2. QED
    BY <1>1, <2>1 DEF Release, TouchThen, GateInv, GateExcludes,
                      SharedPC, ExclusivePC, TouchPC, ThreadPC
<1>10. CASE StartDaemon(t)
  BY <1>1, <1>10 DEF StartDaemon, GateInv, GateExcludes, SharedPC, ExclusivePC, TouchPC, ThreadPC
<1>11. CASE StopDaemon(t)
  BY <1>1, <1>11, GateMove DEF StopDaemon, SharedPC, ExclusivePC, TouchPC, ThreadPC
<1>12. CASE Joined(t)
  BY <1>1, <1>12, GateMove DEF Joined, SharedPC, ExclusivePC, TouchPC, ThreadPC
<1>13. QED
  BY <1>2, <1>3, <1>4, <1>5, <1>6, <1>7, <1>8, <1>9, <1>10, <1>11, <1>12 DEF ClientStep

LEMMA GateCheck ==
  ASSUME GateInv, NEW t \in Thread, CheckStep(t)
  PROVE  GateInv'
<1> USE DEF At, Goto, locks
<1>1. /\ pc[t] \in SharedPC => t \in gate.shared
      /\ pc[t] \in ExclusivePC => t \in gate.exclusive
      /\ Done(t) \in {"idle", "waiting"}
  BY DEF GateInv, GateExcludes, SharedPC, ExclusivePC, Done
<1>2. CASE Stamp(t)
  BY <1>2 DEF Stamp, GateInv, GateExcludes, SharedPC, ExclusivePC, TouchPC, ThreadPC
<1>3. CASE Write(t)
  BY <1>3, GateMove DEF Write, GateInv, TouchPC
<1>4. CASE Leave(t)
  BY <1>1, <1>4 DEF Leave, Release, GateInv, GateExcludes, SharedPC, ExclusivePC, TouchPC, ThreadPC
<1>5. CASE Check(t)
  <2>1. PICK c \in {"checking", "idle", "waiting"} : Goto(t, c)
    BY <1>1, <1>5 DEF Check
  <2>2. QED
    BY <1>5, <2>1, GateMove DEF Check, SharedPC, ExclusivePC, TouchPC, ThreadPC
<1>6. CASE CheckGate(t)
  BY <1>1, <1>6 DEF CheckGate, AcquireExclusive, GateInv, GateExcludes,
                    SharedPC, ExclusivePC, TouchPC, ThreadPC
<1>7. CASE Recheck(t)
  <2>1. PICK c \in {"poll", "leave"} : Goto(t, c)
    BY <1>7 DEF Recheck
  <2>2. QED
    BY <1>1, <1>7, <2>1, GateMove DEF Recheck, SharedPC, ExclusivePC, TouchPC, ThreadPC
<1>8. CASE Poll(t)
  <2>1. CASE queries \ hidden # {}
    BY <1>8, <2>1, GateTouch DEF Poll, SharedPC, ExclusivePC, TouchPC, ThreadPC
  <2>2. CASE queries \ hidden = {}
    BY <1>1, <1>8, <2>2, GateMove DEF Poll, SharedPC, ExclusivePC, TouchPC, ThreadPC
  <2>3. QED
    BY <2>1, <2>2
<1>9. CASE PollFails(t)
  BY <1>1, <1>9, GateMove DEF PollFails, SharedPC, ExclusivePC, TouchPC, ThreadPC
<1>10. CASE Decide(t)
  <2>1. PICK c \in {"scale", "leave"} : Goto(t, c)
    BY <1>10 DEF Decide
  <2>2. QED
    BY <1>1, <1>10, <2>1, GateMove DEF Decide, SharedPC, ExclusivePC, TouchPC, ThreadPC
<1>11. CASE AutoChill(t)
  BY <1>1, <1>11, GateMove DEF AutoChill, SharedPC, ExclusivePC, TouchPC, ThreadPC
<1>12. QED
  BY <1>2, <1>3, <1>4, <1>5, <1>6, <1>7, <1>8, <1>9, <1>10, <1>11 DEF CheckStep

LEMMA GateProcess ==
  ASSUME GateInv, NEW p \in Process, DaemonEnds(p) \/ Dies(p) \/ Starts(p)
  PROVE  GateInv'
<1>1. p \in Thread
  BY DEF Thread
<1>2. CASE DaemonEnds(p)
  BY <1>1, <1>2, GateMove DEF DaemonEnds, Goto, locks, SharedPC, ExclusivePC, TouchPC, ThreadPC
<1>3. CASE Dies(p)
  <2> DEFINE gone == { t \in Thread : Owner(t) = p }
  <2>1. /\ gate' = [shared |-> gate.shared \ gone, exclusive |-> gate.exclusive \ gone]
        /\ \A t \in Thread : pc'[t] = IF t \notin gone THEN pc[t] ELSE IF t = p THEN "none" ELSE "idle"
        /\ \A t \in Thread : then'[t] = IF t \in gone THEN "idle" ELSE then[t]
        /\ pc' \in [Thread -> ThreadPC] /\ then' \in [Thread -> ThreadPC \ (ExclusivePC \cup TouchPC)]
    BY <1>3 DEF Dies, GateInv, ThreadPC, ExclusivePC, TouchPC
  <2> HIDE DEF gone
  <2>2. QED
    BY <2>1 DEF GateInv, GateExcludes, SharedPC, ExclusivePC, TouchPC
<1>4. CASE Starts(p)
  <2>1. PICK c \in {"waiting", "none"} : pc' = [pc EXCEPT ![p] = c]
    BY <1>4 DEF Starts
  <2>2. QED
    BY <1>1, <1>4, <2>1, GateMove DEF Starts, locks, SharedPC, ExclusivePC, TouchPC, ThreadPC
<1>5. QED
  BY <1>2, <1>3, <1>4

LEMMA GateNext == GateInv /\ [Next]_vars => GateInv'
<1> SUFFICES ASSUME GateInv, [Next]_vars PROVE GateInv'
  OBVIOUS
<1>1. CASE \E t \in Client : ClientStep(t)
  BY <1>1, GateClient
<1>2. CASE \E t \in Thread : CheckStep(t)
  BY <1>2, GateCheck
<1>3. CASE \E p \in Process : DaemonEnds(p) \/ Dies(p) \/ Starts(p)
  BY <1>3, GateProcess
<1>4. CASE QueryEnds \/ Tick \/ UNCHANGED vars
  BY <1>4 DEF QueryEnds, Tick, vars, locks, control, GateInv, GateExcludes
<1>5. QED
  BY <1>1, <1>2, <1>3, <1>4 DEF Next

\* Admitted requests and whatever may stop the warehouse exclude each other, in any
\* number of processes and through the death of any of them.
THEOREM GateExclusion == Spec => []GateExcludes
<1>1. GateInv => GateExcludes
  BY DEF GateInv
<1>2. QED
  BY <1>1, GateInit, GateNext, PTL DEF Spec

-----------------------------------------------------------------------------
(***************************************************************************)
(* Types, that an admitted request finds the warehouse up, and when        *)
(* auto-chill stops it.  They rest on the exclusion of the gate (GateInv). *)
(***************************************************************************)

LEMMA OwnerType == ASSUME NEW t \in Thread PROVE Owner(t) \in Process
BY WarehouseAssumption DEF Owner, Thread

(***************************************************************************)
(* Types.  The value that a thread carries to Configure is a setting.       *)
(***************************************************************************)
TypeRest ==
  /\ now \in Time
  /\ mutex \in [Process -> Thread \cup {Free}] /\ starter \in [Process -> Thread \cup {Free}]
  /\ saved \in Setting /\ minutes \in [Process -> Setting]
  /\ shared \in Time /\ last \in [Process -> Time]
  /\ up \in BOOLEAN /\ queries \subseteq Client /\ hidden \subseteq queries
  /\ alive \in [Process -> BOOLEAN] /\ stop \in [Process -> BOOLEAN]
  /\ local \in [Thread -> Setting \cup Time]
  /\ calls \in 0..MaxCalls
  /\ \A t \in Thread : pc[t] = "configure" => local[t] \in Setting

LEMMA TypesGiven == GateInv /\ TypeRest => TypeOK
BY DEF GateInv, TypeRest, TypeOK

LEMMA TypeInit == Init => TypeRest
BY WarehouseAssumption DEF Init, TypeRest, Time, Setting, Thread

LEMMA ActivityType == ASSUME TypeRest, NEW p \in Process PROVE LastActivity(p) \in Time
BY DEF TypeRest, LastActivity, Later

LEMMA CallType == ASSUME TypeRest, NEW t, Call(t) PROVE calls' \in 0..MaxCalls
BY WarehouseAssumption DEF TypeRest, Call

LEMMA TypeClient ==
  ASSUME GateInv, TypeRest, NEW t \in Client, ClientStep(t)
  PROVE  TypeRest'
<1> USE DEF At, Goto, locks, settings, activity, trino, TypeRest
<1>1. t \in Thread /\ Owner(t) \in Process /\ pc \in [Thread -> ThreadPC]
  BY OwnerType DEF Thread, GateInv
<1>2. CASE Enter(t)
  BY <1>1, <1>2, CallType DEF Enter, TouchThen
<1>3. CASE Wake(t)
  BY <1>1, <1>3 DEF Wake, TouchThen
<1>4. CASE Submit(t)
  BY <1>1, <1>4 DEF Submit
<1>5. CASE Answer(t) \/ Fails(t)
  BY <1>1, <1>5 DEF Answer, Fails, TouchThen
<1>6. CASE AskChill(t)
  BY <1>1, <1>6, CallType DEF AskChill
<1>7. CASE Chill(t)
  BY <1>1, <1>7 DEF Chill
<1>8. CASE AskConfigure(t)
  BY <1>1, <1>8, CallType DEF AskConfigure
<1>9. CASE Configure(t)
  <2>1. local[t] \in Setting
    BY <1>1, <1>9 DEF Configure
  <2>2. QED
    BY <1>1, <1>9, <2>1 DEF Configure, TouchThen
<1>10. CASE StartDaemon(t)
  BY <1>1, <1>10 DEF StartDaemon
<1>11. CASE StopDaemon(t) \/ Joined(t)
  BY <1>1, <1>11 DEF StopDaemon, Joined
<1>12. QED
  BY <1>2, <1>3, <1>4, <1>5, <1>6, <1>7, <1>8, <1>9, <1>10, <1>11 DEF ClientStep

LEMMA TypeCheck ==
  ASSUME GateInv, TypeRest, NEW t \in Thread, CheckStep(t)
  PROVE  TypeRest'
<1> USE DEF At, Goto, locks, settings, activity, trino, TypeRest
<1>1. /\ Owner(t) \in Process /\ pc \in [Thread -> ThreadPC]
      /\ LastActivity(Owner(t)) \in Time
      /\ Done(t) # "configure" /\ then[t] # "configure"
  BY OwnerType, ActivityType DEF GateInv, Done, ExclusivePC
<1>2. CASE Stamp(t) \/ Write(t)
  BY <1>1, <1>2 DEF Stamp, Write
<1>3. CASE Leave(t)
  BY <1>1, <1>3 DEF Leave
<1>4. CASE Check(t)
  <2>1. calls' \in 0..MaxCalls
    BY <1>4, CallType DEF Check
  <2>2. QED
    BY <1>1, <1>4, <2>1 DEF Check
<1>5. CASE CheckGate(t)
  BY <1>1, <1>5 DEF CheckGate
<1>6. CASE Recheck(t)
  BY <1>1, <1>6 DEF Recheck
<1>7. CASE Poll(t) \/ PollFails(t)
  BY <1>1, <1>7 DEF Poll, PollFails, TouchThen
<1>8. CASE Decide(t)
  BY <1>1, <1>8 DEF Decide
<1>9. CASE AutoChill(t)
  BY <1>1, <1>9 DEF AutoChill
<1>10. QED
  BY <1>2, <1>3, <1>4, <1>5, <1>6, <1>7, <1>8, <1>9 DEF CheckStep

LEMMA TypeProcess ==
  ASSUME GateInv, TypeRest, NEW p \in Process, DaemonEnds(p) \/ Dies(p) \/ Starts(p)
  PROVE  TypeRest'
<1> USE DEF At, Goto, locks, settings, activity, trino, TypeRest
<1>1. p \in Thread /\ pc \in [Thread -> ThreadPC]
  BY DEF Thread, GateInv
<1>2. CASE DaemonEnds(p)
  BY <1>1, <1>2 DEF DaemonEnds
<1>3. CASE Dies(p)
  BY <1>1, <1>3 DEF Dies, Setting
<1>4. CASE Starts(p)
  BY <1>1, <1>4 DEF Starts
<1>5. QED
  BY <1>2, <1>3, <1>4

LEMMA TypeNext == GateInv /\ TypeRest /\ [Next]_vars => TypeRest'
<1> SUFFICES ASSUME GateInv, TypeRest, [Next]_vars PROVE TypeRest'
  OBVIOUS
<1>1. CASE \E t \in Client : ClientStep(t)
  BY <1>1, TypeClient
<1>2. CASE \E t \in Thread : CheckStep(t)
  BY <1>2, TypeCheck
<1>3. CASE \E p \in Process : DaemonEnds(p) \/ Dies(p) \/ Starts(p)
  BY <1>3, TypeProcess
<1>4. CASE QueryEnds
  BY <1>4 DEF QueryEnds, locks, settings, activity, control, TypeRest
<1>5. CASE Tick
  BY <1>5, WarehouseAssumption DEF Tick, Time, locks, settings, activity, trino, control, TypeRest
<1>6. CASE UNCHANGED vars
  BY <1>6 DEF vars, TypeRest
<1>7. QED
  BY <1>1, <1>2, <1>3, <1>4, <1>5, <1>6 DEF Next

(***************************************************************************)
(* What a thread knows that is about to stop an idle warehouse.  It has the *)
(* gate, so nobody submits a statement or saves a setting; and from its     *)
(* last look on it has the activity lock, so the time of its process does   *)
(* not move.  A server process that is dead has no thread anywhere.         *)
(***************************************************************************)
Admitted(t) == At(t, "submit") \/ (pc[t] \in TouchPC /\ then[t] = "submit")

ChillInv ==
  /\ \A t \in Thread : pc[t] \in {"write", "scale"} => mutex[Owner(t)] = t
  /\ \A t \in Thread : ~alive[Owner(t)] => pc[t] \in {"idle", "none"}
  /\ \A t \in Thread : pc[t] \in {"decide", "scale"} => queries \subseteq hidden
  /\ \A t \in Thread : pc[t] = "scale" => Expired(saved, last[Owner(t)])
  /\ \A t \in Client : Admitted(t) => up

SafetyInv == GateInv /\ TypeRest /\ ChillInv

LEMMA SafetyInit == Init => SafetyInv
<1> SUFFICES ASSUME Init PROVE SafetyInv
  OBVIOUS
<1>1. ChillInv
  BY OwnerType DEF Init, ChillInv, Admitted, At, TouchPC, Thread
<1>2. QED
  BY <1>1, GateInit, TypeInit DEF SafetyInv

\* Whoever has the gate to himself has nobody beside him past it.
LEMMA Alone ==
  ASSUME GateInv, NEW t \in Thread, pc[t] \in ExclusivePC
  PROVE  /\ \A s \in Thread : pc[s] \in ExclusivePC => s = t
         /\ \A s \in Thread : pc[s] \notin SharedPC
         /\ \A s \in Thread : pc[s] \in TouchPC => then[s] \notin SharedPC
BY DEF GateInv, GateExcludes, SharedPC, ExclusivePC, TouchPC

LEMMA ChillClient ==
  ASSUME SafetyInv, NEW t \in Client, ClientStep(t)
  PROVE  ChillInv'
<1> USE DEF At, Goto, locks, settings, activity, trino, SharedPC, ExclusivePC, TouchPC
<1>1. /\ t \in Thread /\ Owner(t) \in Process /\ \A s \in Thread : Owner(s) \in Process
      /\ Client \subseteq Thread /\ t \notin Process
      /\ pc \in [Thread -> ThreadPC] /\ then \in [Thread -> ThreadPC \ (ExclusivePC \cup TouchPC)]
      /\ mutex \in [Process -> Thread \cup {Free}] /\ alive \in [Process -> BOOLEAN]
  BY OwnerType, WarehouseAssumption DEF Thread, SafetyInv, GateInv, TypeRest
<1> USE DEF ChillInv, Admitted, Expired
<1>2. ChillInv /\ GateInv /\ TypeRest
  BY DEF SafetyInv
<1>3. CASE Enter(t)
  BY <1>1, <1>2, <1>3 DEF Enter, Call, TouchThen
<1>4. CASE Wake(t)
  BY <1>1, <1>2, <1>4 DEF Wake, TouchThen
<1>5. CASE Submit(t)
  <2>1. \A s \in Thread : pc[s] \notin ExclusivePC
    BY <1>1, <1>2, <1>5, Alone DEF Submit
  <2>2. QED
    BY <1>1, <1>2, <1>5, <2>1 DEF Submit
<1>6. CASE Answer(t) \/ Fails(t)
  BY <1>1, <1>2, <1>6 DEF Answer, Fails, TouchThen
<1>7. CASE AskChill(t) \/ AskConfigure(t)
  BY <1>1, <1>2, <1>7 DEF AskChill, AskConfigure, Call
<1>8. CASE Chill(t)
  <2>1. \A s \in Thread : pc[s] \notin SharedPC /\ (pc[s] \in TouchPC => then[s] \notin SharedPC)
    BY <1>1, <1>2, <1>8, Alone DEF Chill
  <2>2. QED
    BY <1>1, <1>2, <1>8, <2>1 DEF Chill
<1>9. CASE Configure(t)
  <2>1. \A s \in Thread \ {t} : pc[s] \notin ExclusivePC
    BY <1>1, <1>2, <1>9, Alone DEF Configure
  <2>2. QED
    BY <1>1, <1>2, <1>9, <2>1 DEF Configure, TouchThen
<1>10. CASE StartDaemon(t)
  <2> DEFINE d == Owner(t)
  <2>1. d \in Thread /\ Owner(d) = d /\ alive[d] /\ d # t
    BY <1>1, <1>10 DEF StartDaemon, Thread, Owner
  <2> HIDE DEF d
  <2>2. /\ pc'[t] = "idle" /\ pc'[d] \in {pc[d], "waiting"}
        /\ \A s \in Thread : s # t /\ s # d => pc'[s] = pc[s]
    BY <1>1, <1>10, <2>1 DEF StartDaemon, d
  <2>3. QED
    BY <1>1, <1>2, <1>10, <2>1, <2>2 DEF StartDaemon
<1>11. CASE StopDaemon(t) \/ Joined(t)
  BY <1>1, <1>2, <1>11 DEF StopDaemon, Joined
<1>12. QED
  BY <1>3, <1>4, <1>5, <1>6, <1>7, <1>8, <1>9, <1>10, <1>11 DEF ClientStep

LEMMA ChillCheck ==
  ASSUME SafetyInv, NEW t \in Thread, CheckStep(t)
  PROVE  ChillInv'
<1> USE DEF At, Goto, locks, settings, activity, trino, SharedPC, ExclusivePC, TouchPC
<1>1. /\ Owner(t) \in Process /\ \A s \in Thread : Owner(s) \in Process
      /\ Client \subseteq Thread
      /\ pc \in [Thread -> ThreadPC] /\ then \in [Thread -> ThreadPC \ (ExclusivePC \cup TouchPC)]
      /\ mutex \in [Process -> Thread \cup {Free}] /\ alive \in [Process -> BOOLEAN]
      /\ last \in [Process -> Time]
      /\ Done(t) \in {"idle", "waiting"} /\ Free \notin Thread
  BY OwnerType, WarehouseAssumption DEF Thread, SafetyInv, GateInv, TypeRest, Done
<1>2. ChillInv /\ GateInv /\ TypeRest
  BY DEF SafetyInv
<1> USE DEF ChillInv, Admitted, Expired
<1>3. CASE Stamp(t)
  BY <1>1, <1>2, <1>3 DEF Stamp
<1>4. CASE Write(t)
  BY <1>1, <1>2, <1>4 DEF Write
<1>5. CASE Leave(t)
  BY <1>1, <1>2, <1>5 DEF Leave
<1>6. CASE Check(t)
  BY <1>1, <1>2, <1>6 DEF Check, Call
<1>7. CASE CheckGate(t) \/ Recheck(t) \/ PollFails(t)
  BY <1>1, <1>2, <1>7 DEF CheckGate, Recheck, PollFails
<1>8. CASE Poll(t)
  BY <1>1, <1>2, <1>8 DEF Poll, TouchThen
<1>9. CASE Decide(t)
  <2>1. CASE pc'[t] = "leave"
    BY <1>1, <1>2, <1>9, <2>1 DEF Decide
  <2>2. CASE pc'[t] = "scale"
    <3>1. Expired(saved, LastActivity(Owner(t))) /\ mutex' = [mutex EXCEPT ![Owner(t)] = t]
      BY <1>1, <1>9, <2>2 DEF Decide
    <3>2. Expired(saved, last[Owner(t)])
      BY <1>1, <1>2, <3>1, WarehouseAssumption
         DEF Expired, LastActivity, Later, TypeRest, Time, Setting
    <3>3. QED
      BY <1>1, <1>2, <1>9, <2>2, <3>1, <3>2 DEF Decide, Expired
  <2>3. pc'[t] \in {"leave", "scale"}
    BY <1>1, <1>9 DEF Decide
  <2>4. QED
    BY <2>1, <2>2, <2>3
<1>10. CASE AutoChill(t)
  <2>1. \A s \in Thread : /\ pc[s] \notin SharedPC /\ (pc[s] \in TouchPC => then[s] \notin SharedPC)
                          /\ s # t => pc[s] # "scale"
    BY <1>1, <1>2, <1>10, Alone DEF AutoChill
  <2>2. \A s \in Thread : pc[s] = "write" => Owner(s) # Owner(t)
    BY <1>1, <1>2, <1>10 DEF AutoChill
  <2>3. QED
    BY <1>1, <1>2, <1>10, <2>1, <2>2 DEF AutoChill
<1>11. QED
  BY <1>3, <1>4, <1>5, <1>6, <1>7, <1>8, <1>9, <1>10 DEF CheckStep

LEMMA ChillProcess ==
  ASSUME SafetyInv, NEW p \in Process, DaemonEnds(p) \/ Dies(p) \/ Starts(p)
  PROVE  ChillInv'
<1> USE DEF At, Goto, locks, settings, activity, trino, TouchPC
<1>1. /\ p \in Thread /\ Owner(p) = p /\ \A s \in Thread : Owner(s) \in Process
      /\ Client \subseteq Thread /\ Client \cap Process = {}
      /\ pc \in [Thread -> ThreadPC]
      /\ mutex \in [Process -> Thread \cup {Free}] /\ alive \in [Process -> BOOLEAN]
      /\ last \in [Process -> Time] /\ then \in [Thread -> ThreadPC \ (ExclusivePC \cup TouchPC)]
  BY OwnerType, WarehouseAssumption DEF Thread, Owner, SafetyInv, GateInv, TypeRest
<1>2. ChillInv /\ GateInv /\ TypeRest
  BY DEF SafetyInv
<1> USE DEF ChillInv, Admitted, Expired
<1>3. CASE DaemonEnds(p)
  BY <1>1, <1>2, <1>3 DEF DaemonEnds
<1>4. CASE Dies(p)
  <2>1. \A s \in Thread : /\ Owner(s) # p => pc'[s] = pc[s] /\ then'[s] = then[s]
                          /\ Owner(s) = p => pc'[s] \in {"idle", "none"}
    BY <1>1, <1>4 DEF Dies
  <2>2. QED
    BY <1>1, <1>2, <1>4, <2>1 DEF Dies, Expired
<1>5. CASE Starts(p)
  <2>1. \A s \in Thread : Owner(s) = p => pc'[s] \in {"idle", "none", "waiting"}
    BY <1>1, <1>2, <1>5 DEF Starts
  <2>2. \A s \in Thread : Owner(s) # p => pc'[s] = pc[s] /\ last'[Owner(s)] = last[Owner(s)]
    BY <1>1, <1>5 DEF Starts
  <2>3. QED
    BY <1>1, <1>2, <1>5, <2>1, <2>2 DEF Starts, Expired
<1>6. QED
  BY <1>3, <1>4, <1>5

LEMMA ChillTick ==
  ASSUME SafetyInv, Tick
  PROVE  ChillInv'
<1>1. \A t \in Thread : Expired(saved, last[Owner(t)]) => Expired(saved, last[Owner(t)])'
  BY OwnerType, WarehouseAssumption DEF Tick, Expired, SafetyInv, TypeRest, Time, Setting, settings, activity
<1>2. QED
  BY <1>1 DEF Tick, SafetyInv, ChillInv, Admitted, At, locks, settings, activity, trino, control

LEMMA SafetyNext == SafetyInv /\ [Next]_vars => SafetyInv'
<1> SUFFICES ASSUME SafetyInv, [Next]_vars PROVE SafetyInv'
  OBVIOUS
<1>1. GateInv' /\ TypeRest'
  BY GateNext, TypeNext DEF SafetyInv
<1>2. ChillInv'
  <2>1. CASE \E t \in Client : ClientStep(t)
    BY <2>1, ChillClient
  <2>2. CASE \E t \in Thread : CheckStep(t)
    BY <2>2, ChillCheck
  <2>3. CASE \E p \in Process : DaemonEnds(p) \/ Dies(p) \/ Starts(p)
    BY <2>3, ChillProcess
  <2>4. CASE QueryEnds
    BY <2>4 DEF QueryEnds, SafetyInv, ChillInv, Admitted, At, Expired, locks, settings, activity, control
  <2>5. CASE Tick
    BY <2>5, ChillTick
  <2>6. CASE UNCHANGED vars
    BY <2>6 DEF vars, SafetyInv, ChillInv, Admitted, At, Expired
  <2>7. QED
    BY <2>1, <2>2, <2>3, <2>4, <2>5, <2>6 DEF Next
<1>3. QED
  BY <1>1, <1>2 DEF SafetyInv

\* A statement that was admitted finds the warehouse up, in any number of processes and
\* through the death of any of them (warehouse_activity, _query).
THEOREM WarehouseInvAlways == Spec => []WarehouseInv
<1>1. SafetyInv => WarehouseInv
  BY TypesGiven DEF SafetyInv, GateInv, ChillInv, Admitted, WarehouseInv, AdmittedFindsItUp, TouchPC
<1>2. QED
  BY <1>1, SafetyInit, SafetyNext, PTL DEF Spec

\* Auto-chill stops a warehouse only while no statement runs in it, the setting is on and
\* the process that stops it has been idle long enough (check_auto_chill).
THEOREM AutoChillDue == Spec => AutoChillIsDue
<1> DEFINE Spares == \A t \in Thread : AutoChill(t) => queries \subseteq hidden
           WhenIdle == \A t \in Thread : AutoChill(t) => Expired(saved, last[Owner(t)])
<1>1. SafetyInv => Spares /\ WhenIdle
  BY DEF SafetyInv, ChillInv, AutoChill, At
<1> HIDE DEF Spares, WhenIdle
<1>2. Spec => [][Spares]_vars /\ [][WhenIdle]_vars
  BY <1>1, SafetyInit, SafetyNext, PTL DEF Spec
<1>3. QED
  BY <1>2 DEF AutoChillIsDue, AutoChillSparesQueries, AutoChillOnlyWhenIdle, Spares, WhenIdle
=============================================================================
