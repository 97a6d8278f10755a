-------------------------- MODULE JobsLedgerProofs --------------------------
(***************************************************************************)
(* Theorems about JobsLedger, for every set of requests, jobs, stages,     *)
(* marts and content keys and every bound on runs and steps.               *)
(***************************************************************************)
EXTENDS JobsLedger, SequenceTheorems, TLAPS

(***************************************************************************)
(* Control: the lock file, the request threads and the worker threads.     *)
(***************************************************************************)
ControlOK ==
  /\ lock \in Request \cup Run \cup {Free}
  /\ pc \in [Request -> PC]
  /\ reg \in [Request -> Run \cup {0}]
  /\ worker \in [Run -> [pc: WorkerPC, pos: Int, outcome: Outcome]]
  /\ \A t \in Request : pc[t] = "admitted" => reg[t] \in Run

ControlInv == ControlOK /\ OneActor

LEMMA ControlInit == Init => ControlInv
BY LedgerAssumption DEF Init, ControlInv, ControlOK, OneActor, At, NoWorker, HoldsLock, PC, WorkerPC, Outcome

\* Every step of a request thread keeps the lock with whoever is past taking it.
LEMMA ControlRequest ==
  ASSUME NEW t \in Request, ControlInv, RequestStep(t)
  PROVE  ControlInv'
<1> USE LedgerAssumption DEF ControlInv, ControlOK, OneActor, At, HoldsLock, PC, WorkerPC, Outcome, ledger, history
<1>1. CASE TakeLock(t)
  BY <1>1 DEF TakeLock
<1>2. ASSUME NEW r \in Run, NEW j, NEW trigger, NEW p, NEW once, Admit(t, r, j, trigger, p, once)
      PROVE ControlInv'
  BY <1>2 DEF Admit
<1>3. CASE Submit(t)
  BY <1>2, <1>3 DEF Submit, SubmitRun, SubmitRefresh, SubmitImport, SubmitExport
<1>4. CASE TickAdmit(t)
  BY <1>2, <1>4 DEF TickAdmit
<1>5. CASE TickSkip(t)
  BY <1>5 DEF TickSkip
<1>6. CASE Recover(t)
  BY <1>6 DEF Recover
<1>7. CASE SaveMartSchedule(t)
  BY <1>7 DEF SaveMartSchedule
<1>8. CASE EditMart(t)
  BY <1>8 DEF EditMart
<1>9. CASE Refuse(t)
  BY <1>9 DEF Refuse
<1>10. CASE StartWorker(t)
  BY <1>10 DEF StartWorker
<1>11. CASE StartFails(t)
  BY <1>11 DEF StartFails
<1>12. CASE Close(t)
  BY <1>12 DEF Close
<1>13. CASE RequestDies(t)
  BY <1>13 DEF RequestDies
<1>14. CASE TickRefused(t)
  BY <1>14 DEF TickRefused
<1>15. CASE TickSkipBusy(t)
  BY <1>15 DEF TickSkipBusy
<1>16. CASE TickDefers(t)
  BY <1>16 DEF TickDefers
<1>17. QED
  BY <1>1, <1>3, <1>4, <1>5, <1>6, <1>7, <1>8, <1>9, <1>10, <1>11, <1>12, <1>13, <1>14, <1>15,
     <1>16 DEF RequestStep

\* A worker that moves on keeps the lock it runs under.
LEMMA WorkerMoves ==
  ASSUME NEW r \in Run, ControlInv, ~At(r, "none"),
         NEW w \in [pc: WorkerPC, pos: Int, outcome: Outcome],
         worker' = [worker EXCEPT ![r] = w], UNCHANGED <<lock, pc, reg>>
  PROVE  ControlInv'
BY DEF ControlInv, ControlOK, OneActor, At

LEMMA GotoMoves ==
  ASSUME NEW r \in Run, ControlInv, ~At(r, "none"), NEW c \in WorkerPC, Goto(r, c),
         UNCHANGED <<lock, pc, reg>>
  PROVE  ControlInv'
<1> DEFINE w == [worker[r] EXCEPT !.pc = c]
<1>1. w \in [pc: WorkerPC, pos: Int, outcome: Outcome]
  BY DEF ControlInv, ControlOK
<1>2. worker' = [worker EXCEPT ![r] = w]
  BY DEF Goto, ControlInv, ControlOK
<1>3. QED
  BY <1>1, <1>2, WorkerMoves

LEMMA FailMoves ==
  ASSUME NEW r \in Run, ControlInv, ~At(r, "none"), NEW o \in Outcome, Fail(r, o),
         UNCHANGED <<lock, pc, reg>>
  PROVE  ControlInv'
<1> DEFINE w == [worker[r] EXCEPT !.pc = "handle", !.outcome = o]
<1>1. w \in [pc: WorkerPC, pos: Int, outcome: Outcome]
  BY DEF ControlInv, ControlOK, WorkerPC
<1>2. worker' = [worker EXCEPT ![r] = w]
  BY DEF Fail, ControlInv, ControlOK
<1>3. QED
  BY <1>1, <1>2, WorkerMoves

\* Every step of a worker keeps the lock, or closes it together with the thread.
LEMMA ControlWorker ==
  ASSUME NEW r \in Run, ControlInv, WorkerStep(r) \/ WorkerDies(r)
  PROVE  ControlInv'
<1> USE DEF At, WorkerPC, Outcome
<1>1. CASE WorkerStart(r)    BY <1>1, GotoMoves DEF WorkerStart
<1>2. CASE Gate(r)           BY <1>2, GotoMoves DEF Gate
<1>3. CASE Refused(r)        BY <1>3, FailMoves DEF Refused, ledger
<1>4. CASE ClaimContent(r)   BY <1>4, GotoMoves DEF ClaimContent
<1>5. CASE Begin(r)          BY <1>5, GotoMoves DEF Begin, ledger
<1>6. CASE Return(r)         BY <1>6, GotoMoves DEF Return, ledger
<1>7. CASE Raise(r)          BY <1>7, FailMoves DEF Raise, ledger
<1>8. CASE Record(r)
  <2> DEFINE w == [worker[r] EXCEPT !.pc = "gate", !.pos = worker[r].pos + 1]
  <2>1. w \in [pc: WorkerPC, pos: Int, outcome: Outcome]
    <3>1. worker[r] \in [pc: WorkerPC, pos: Int, outcome: Outcome]
      BY DEF ControlInv, ControlOK
    <3>2. worker[r].pos \in Int /\ worker[r].pos + 1 \in Int
      BY <3>1
    <3>3. QED
      BY <3>1, <3>2
  <2>2. worker' = [worker EXCEPT ![r] = w]
    BY <1>8 DEF Record, ControlInv, ControlOK
  <2>3. QED
    BY <1>8, <2>1, <2>2, WorkerMoves DEF Record
<1>9. CASE RecordFails(r)    BY <1>9, FailMoves DEF RecordFails, ledger
<1>10. CASE HandleFailure(r) BY <1>10, GotoMoves DEF HandleFailure
<1>11. CASE Finish(r)        BY <1>11, GotoMoves DEF Finish
<1>12. ASSUME ~At(r, "none"), lock' = Free, worker' = [worker EXCEPT ![r] = NoWorker],
              UNCHANGED <<pc, reg>>
       PROVE  ControlInv'
  BY <1>12, LedgerAssumption DEF ControlInv, ControlOK, OneActor, NoWorker, HoldsLock, PC
<1>13. CASE WorkerCloses(r)  BY <1>12, <1>13 DEF WorkerCloses, ledger
<1>14. CASE WorkerDies(r)    BY <1>12, <1>14 DEF WorkerDies, ledger
<1>15. QED
  BY <1>1, <1>2, <1>3, <1>4, <1>5, <1>6, <1>7, <1>8, <1>9, <1>10, <1>11, <1>13, <1>14 DEF WorkerStep

LEMMA ControlNext == ControlInv /\ [Next]_vars => ControlInv'
<1> SUFFICES ASSUME ControlInv, [Next]_vars PROVE ControlInv'
  OBVIOUS
<1>1. CASE \E t \in Request : RequestStep(t)
  BY <1>1, ControlRequest
<1>2. CASE \E r \in Run : WorkerStep(r) \/ WorkerDies(r)
  BY <1>2, ControlWorker
<1>3. CASE SaveSchedule
  BY <1>3 DEF SaveSchedule, threads, ControlInv, ControlOK, OneActor, At
<1>4. CASE UNCHANGED vars
  BY <1>4 DEF vars, ControlInv, ControlOK, OneActor, At
<1>5. QED
  BY <1>1, <1>2, <1>3, <1>4 DEF Next

\* One thread at a time is between taking jobs-active.lock and closing it.
THEOREM Exclusion == Spec => []OneActor
<1>1. ControlInv => OneActor
  BY DEF ControlInv
<1>2. QED
  BY <1>1, ControlInit, ControlNext, PTL DEF Spec

(***************************************************************************)
(* Rows: types, and the run that the lock protects.                        *)
(***************************************************************************)

\* Whatever is submitted is a sequence of at most MaxSteps steps.
LEMMA PlansAreTyped ==
  /\ JobPlans \cup MartPlans \cup ScanPlans \cup FilePlans \cup ExportPlans \subseteq Plan
  /\ \A j \in JobName : SchedulePlans(j) \cup {<< >>} \subseteq Plan
<1>1. /\ Plain("sql") \in Step /\ Plain("mart_refresh") \in Step /\ Plain("stage_export") \in Step
      /\ \A k \in Key, b \in BOOLEAN : Import(k, b) \in Step
  BY DEF Step, Action, Plain, Import
<1>2. << >> \in Plan /\ \A s \in Step : <<s>> \in Plan
  BY LedgerAssumption DEF Plan
<1>3. JobPlans \subseteq Plan
  <2>1. ASSUME NEW n \in Pos PROVE [i \in 1..n |-> Plain("sql")] \in Plan
    <3>1. [i \in 1..n |-> Plain("sql")] \in Seq(Step)
      BY <1>1, SeqDef, LedgerAssumption DEF Pos
    <3>2. QED
      BY <3>1, LenProperties, LedgerAssumption DEF Plan, Pos
  <2>2. QED
    BY <2>1 DEF JobPlans
<1>4. ScanPlans \subseteq Plan
  <2>1. ASSUME NEW n \in Pos, NEW ks \in [1..n -> Key]
        PROVE  [i \in 1..n |-> Import(ks[i], FALSE)] \in Plan
    <3> DEFINE q == [i \in 1..n |-> Import(ks[i], FALSE)]
    <3>1. n \in Nat /\ n <= MaxSteps
      BY LedgerAssumption DEF Pos
    <3>2. \A i \in 1..n : ks[i] \in Key
      OBVIOUS
    <3>3. \A i \in 1..n : Import(ks[i], FALSE) \in Step
      BY <1>1, <3>2
    <3>4. q \in [1..n -> Step]
      BY <3>3
    <3>5. DOMAIN q = 1..n
      OBVIOUS
    <3> HIDE DEF q
    <3>6. q \in Seq(Step)
      BY <3>1, <3>4, SeqDef
    <3>7. Len(q) = n
      BY <3>1, <3>5, <3>6, LenProperties
    <3>8. q \in Plan
      BY <3>1, <3>6, <3>7, LedgerAssumption DEF Plan
    <3>9. QED
      BY <3>8 DEF q
  <2>2. ASSUME NEW p, p \in ScanPlans PROVE p \in Plan
    <3>1. CASE p \in { <<Plain("sql")>> }
      BY <1>1, <1>2, <3>1
    <3>2. CASE p \notin { <<Plain("sql")>> }
      <4>1. PICK n \in Pos : p \in { [i \in 1..n |-> Import(ks[i], FALSE)] :
              ks \in { f \in [1..n -> Key] : \A i, j1 \in 1..n : f[i] = f[j1] => i = j1 } }
        BY <2>2, <3>2 DEF ScanPlans
      <4>2. PICK ks \in [1..n -> Key] : p = [i \in 1..n |-> Import(ks[i], FALSE)]
        BY <4>1
      <4>3. QED
        BY <2>1, <4>2
    <3>3. QED
      BY <3>1, <3>2
  <2>3. QED
    BY <2>2
<1>5. FilePlans \subseteq Plan /\ ExportPlans \subseteq Plan /\ MartPlans \subseteq Plan
  BY <1>1, <1>2 DEF FilePlans, ExportPlans, MartPlans
<1>6. QED
  BY <1>2, <1>3, <1>4, <1>5 DEF SchedulePlans, JobName

TypeRows ==
  /\ runs \in [Run -> RunRow]
  /\ steps \in [Run -> [Pos -> StepStatus]]
  /\ files \in [Key -> FileRow]
  /\ enabled \in [JobName -> BOOLEAN]

LEMMA LostIsTyped ==
  ASSUME TypeRows
  PROVE  /\ LostRuns(runs) \in [Run -> RunRow]
         /\ LostSteps(runs, steps) \in [Run -> [Pos -> StepStatus]]
         /\ LostFiles(runs, files) \in [Key -> FileRow]
         /\ LostEnabled(runs, enabled) \in [JobName -> BOOLEAN]
<1>1. LostRuns(runs) \in [Run -> RunRow]
  BY DEF TypeRows, LostRuns, RunRow, RunStatus, Terminal
<1>2. LostSteps(runs, steps) \in [Run -> [Pos -> StepStatus]]
  BY DEF TypeRows, LostSteps, LostStep, StepStatus, Terminal
<1>3. LostFiles(runs, files) \in [Key -> FileRow]
  BY DEF TypeRows, LostFiles, FileRow, FileStatus
<1>4. LostEnabled(runs, enabled) \in [JobName -> BOOLEAN]
  BY DEF TypeRows, LostEnabled
<1>5. QED
  BY <1>1, <1>2, <1>3, <1>4

LEMMA NewStepsAreTyped ==
  ASSUME NEW p, NEW s \in {"pending", "skipped"}
  PROVE  NewSteps(p, s) \in [Pos -> StepStatus]
BY DEF NewSteps, StepStatus, Terminal

LEMMA AdmitRows ==
  ASSUME TypeRows, NEW t \in Request, NEW r \in Run, NEW j \in JobName,
         NEW trigger \in Trigger, NEW p \in Plan, NEW once \in BOOLEAN,
         Admit(t, r, j, trigger, p, once)
  PROVE  TypeRows'
<1>1. runs' \in [Run -> RunRow]
  <2>1. PICK now \in Created(j) :
          runs' = [LostRuns(runs) EXCEPT
                     ![r] = [job |-> j, trigger |-> trigger, plan |-> p, status |-> "queued", created |-> now]]
    BY DEF Admit
  <2>2. now \in 0..MaxClock
    BY LedgerAssumption DEF Created
  <2>3. [job |-> j, trigger |-> trigger, plan |-> p, status |-> "queued", created |-> now] \in RunRow
    BY <2>2 DEF RunRow, RunStatus, Active
  <2>4. QED
    BY <2>1, <2>3, LostIsTyped
<1>2. steps' \in [Run -> [Pos -> StepStatus]]
  BY LostIsTyped, NewStepsAreTyped DEF Admit
<1>3. files' \in [Key -> FileRow]
  <2>1. [status |-> "queued", run |-> r] \in FileRow
    BY DEF FileRow, FileStatus
  <2>2. QED
    BY <2>1, LostIsTyped DEF Admit, Claimed
<1>4. enabled' \in [JobName -> BOOLEAN]
  BY LostIsTyped DEF Admit
<1>5. QED
  BY <1>1, <1>2, <1>3, <1>4 DEF TypeRows

LEMMA SkippedRows ==
  ASSUME NEW rs \in [Run -> RunRow], NEW ss \in [Run -> [Pos -> StepStatus]],
         NEW en \in [JobName -> BOOLEAN], NEW r \in Run, NEW j \in JobName,
         NEW p \in Plan, NEW off \in BOOLEAN, SkippedRow(rs, ss, en, r, j, p, off)
  PROVE  /\ runs' \in [Run -> RunRow]
         /\ steps' \in [Run -> [Pos -> StepStatus]]
         /\ enabled' \in [JobName -> BOOLEAN]
<1>1. [job |-> j, trigger |-> "schedule", plan |-> p, status |-> "skipped", created |-> 0] \in RunRow
  BY LedgerAssumption DEF RunRow, RunStatus, Terminal, Trigger
<1>2. QED
  BY <1>1, NewStepsAreTyped DEF SkippedRow

LEMMA RequestRows ==
  ASSUME TypeRows, NEW t \in Request, RequestStep(t)
  PROVE  TypeRows'
<1>1. CASE Submit(t)
  BY <1>1, AdmitRows, PlansAreTyped DEF Submit, SubmitRun, SubmitRefresh, SubmitImport, SubmitExport,
     JobName, Trigger
<1>2. CASE TickAdmit(t)
  BY <1>2, AdmitRows, PlansAreTyped DEF TickAdmit, Trigger
<1>3. CASE TickSkip(t)
  <2>1. PICK r \in Run, j \in JobName, off \in BOOLEAN :
          \E p \in SchedulePlans(j) \cup {<< >>} :
            SkippedRow(LostRuns(runs), LostSteps(runs, steps), LostEnabled(runs, enabled), r, j, p, off)
    BY <1>3 DEF TickSkip
  <2>2. PICK p \in SchedulePlans(j) \cup {<< >>} :
          SkippedRow(LostRuns(runs), LostSteps(runs, steps), LostEnabled(runs, enabled), r, j, p, off)
    BY <2>1
  <2>3. p \in Plan
    BY PlansAreTyped
  <2>4. files' \in [Key -> FileRow]
    BY <1>3, LostIsTyped DEF TickSkip
  <2>5. /\ runs' \in [Run -> RunRow]
        /\ steps' \in [Run -> [Pos -> StepStatus]]
        /\ enabled' \in [JobName -> BOOLEAN]
    <3> DEFINE rs == LostRuns(runs)
               ss == LostSteps(runs, steps)
               en == LostEnabled(runs, enabled)
    <3>1. /\ rs \in [Run -> RunRow]
          /\ ss \in [Run -> [Pos -> StepStatus]]
          /\ en \in [JobName -> BOOLEAN]
          /\ SkippedRow(rs, ss, en, r, j, p, off)
      BY <2>2, LostIsTyped
    <3> HIDE DEF rs, ss, en
    <3>2. QED
      BY <2>3, <3>1, SkippedRows
  <2>6. QED
    BY <2>4, <2>5 DEF TypeRows
<1>4. CASE TickSkipBusy(t)
  <2>1. PICK r \in Run, j \in JobName, off \in BOOLEAN :
          \E p \in SchedulePlans(j) \cup {<< >>} : SkippedRow(runs, steps, enabled, r, j, p, off)
    BY <1>4 DEF TickSkipBusy
  <2>2. PICK p \in SchedulePlans(j) \cup {<< >>} : SkippedRow(runs, steps, enabled, r, j, p, off)
    BY <2>1
  <2>3. p \in Plan
    BY PlansAreTyped
  <2>4. /\ runs' \in [Run -> RunRow]
        /\ steps' \in [Run -> [Pos -> StepStatus]]
        /\ enabled' \in [JobName -> BOOLEAN]
    BY <2>2, <2>3, SkippedRows DEF TypeRows
  <2>5. QED
    BY <1>4, <2>4 DEF TypeRows, TickSkipBusy
<1>5. CASE Recover(t)
  BY <1>5, LostIsTyped DEF Recover, TypeRows
<1>6. CASE SaveMartSchedule(t)
  BY <1>6, LostIsTyped DEF SaveMartSchedule, TypeRows
<1>7. CASE EditMart(t)
  BY <1>7 DEF EditMart, TypeRows
<1>8. CASE \/ TakeLock(t) \/ TickRefused(t) \/ TickDefers(t) \/ Refuse(t) \/ StartWorker(t)
           \/ StartFails(t) \/ Close(t) \/ RequestDies(t)
  BY <1>8 DEF TakeLock, TickRefused, TickDefers, Refuse, StartWorker, StartFails, Close,
              RequestDies, ledger, TypeRows
<1>9. QED
  BY <1>1, <1>2, <1>3, <1>4, <1>5, <1>6, <1>7, <1>8 DEF RequestStep

LEMMA WorkerRows ==
  ASSUME TypeRows, NEW r \in Run, WorkerStep(r) \/ WorkerDies(r)
  PROVE  TypeRows'
<1>1. CASE WorkerStart(r)
  BY <1>1 DEF WorkerStart, TypeRows, RunRow, RunStatus, Active
<1>2. CASE Gate(r)
  BY <1>2 DEF Gate, TypeRows, StepStatus
<1>3. CASE ClaimContent(r)
  BY <1>3 DEF ClaimContent, TypeRows, FileRow, FileStatus
<1>4. CASE Record(r)
  BY <1>4 DEF Record, TypeRows, StepStatus, Terminal, FileRow, FileStatus
<1>5. CASE HandleFailure(r)
  <2> DEFINE s == IF Uncertain(r) THEN "unknown" ELSE "failed"
  <2>1. s \in {"unknown", "failed"}
    OBVIOUS
  <2>2. /\ runs' = [runs EXCEPT ![r].status = s]
        /\ steps' = [steps EXCEPT ![r] =
              [i \in Pos |-> IF i = worker[r].pos THEN s
                             ELSE IF steps[r][i] = "pending" THEN "skipped" ELSE steps[r][i]]]
        /\ files' = FilesAfterFailure(r, s)
        /\ enabled' = IF Current(r).action = "mart_refresh"
                         THEN [enabled EXCEPT ![runs[r].job] = FALSE] ELSE enabled
    BY <1>5 DEF HandleFailure
  <2> HIDE DEF s
  <2>3. runs' \in [Run -> RunRow]
    BY <2>1, <2>2 DEF TypeRows, RunRow, RunStatus, Terminal
  <2>4. steps' \in [Run -> [Pos -> StepStatus]]
    BY <2>1, <2>2 DEF TypeRows, StepStatus, Terminal
  <2>5. files' \in [Key -> FileRow]
    BY <2>1, <2>2 DEF TypeRows, FilesAfterFailure, FileRow, FileStatus, NoFile
  <2>6. enabled' \in [JobName -> BOOLEAN]
    BY <2>2 DEF TypeRows
  <2>7. QED
    BY <2>3, <2>4, <2>5, <2>6 DEF TypeRows
<1>6. CASE Finish(r)
  BY <1>6 DEF Finish, TypeRows, RunRow, RunStatus, Terminal
<1>7. CASE \/ Refused(r) \/ Begin(r) \/ Return(r) \/ Raise(r) \/ RecordFails(r)
           \/ WorkerCloses(r) \/ WorkerDies(r)
  BY <1>7 DEF Refused, Begin, Return, Raise, RecordFails, WorkerCloses, WorkerDies, ledger, TypeRows
<1>8. QED
  BY <1>1, <1>2, <1>3, <1>4, <1>5, <1>6, <1>7 DEF WorkerStep

(***************************************************************************)
(* The run under the lock: an admitted run waits, a worker works on the    *)
(* unfinished run it was started for and stays inside its plan.  A worker  *)
(* finds its row unchanged because every recovery needs the lock, and a    *)
(* refused tick only adds a row.                                           *)
(***************************************************************************)
Admitted == \A t \in Request : pc[t] = "admitted" => runs[reg[t]].status = "queued"

InStep == {"ready", "claimed", "calling", "record", "handle"}

InsidePlan ==
  \A r \in Run :
    /\ worker[r].pos \in 0..(MaxSteps + 1)
    /\ ~At(r, "none") => worker[r].pos >= 1
    /\ worker[r].pc \in InStep => worker[r].pos <= Len(runs[r].plan)

PlaceInv == OneActive /\ WorkerKeepsItsRun /\ Admitted /\ InsidePlan

LEMMA PlaceInit == Init => TypeRows /\ PlaceInv
BY LedgerAssumption DEF Init, TypeRows, PlaceInv, OneActive, WorkerKeepsItsRun, Admitted, InsidePlan,
   InStep, Unfinished, Active, NoRun, NoFile, NoWorker, At, RunRow, FileRow, FileStatus, StepStatus,
   RunStatus, Trigger, Plan

\* A request that holds the lock works alone.
LEMMA HolderIsAlone ==
  ASSUME ControlInv, NEW t \in Request, pc[t] \in HoldsLock
  PROVE  /\ \A s \in Run : At(s, "none")
         /\ \A u \in Request \ {t} : pc[u] \notin HoldsLock
BY LedgerAssumption DEF ControlInv, ControlOK, OneActor

\* After _lost no run is unfinished.
LEMMA LostSettles ==
  ASSUME TypeRows
  PROVE  \A s \in Run : LostRuns(runs)[s].status \notin Active
BY DEF TypeRows, LostRuns, RunRow, Unfinished, Active

LEMMA SettledPlace ==
  ASSUME ControlInv, PlaceInv, NEW t \in Request, pc[t] \in HoldsLock,
         \A s \in Run : runs'[s].status \notin Active,
         pc' = [pc EXCEPT ![t] = "closing"], UNCHANGED <<reg, worker>>
  PROVE  PlaceInv'
<1> USE HolderIsAlone
<1>1. OneActive'
  BY DEF OneActive, Unfinished
<1>2. WorkerKeepsItsRun'
  BY DEF WorkerKeepsItsRun, At
<1>3. Admitted'
  BY DEF Admitted, HoldsLock, ControlInv, ControlOK
<1>4. InsidePlan'
  BY DEF InsidePlan, InStep, At, PlaceInv
<1>5. QED
  BY <1>1, <1>2, <1>3, <1>4 DEF PlaceInv

LEMMA AdmitPlace ==
  ASSUME ControlInv, TypeRows, PlaceInv, NEW t \in Request, NEW r \in Run, NEW j, NEW trigger,
         NEW p, NEW once, Admit(t, r, j, trigger, p, once)
  PROVE  PlaceInv'
<1>1. pc[t] \in HoldsLock
  BY DEF Admit, HoldsLock
<1>2. /\ runs'[r].status = "queued"
      /\ \A s \in Run \ {r} : runs'[s].status \notin Active
  BY LostIsTyped, LostSettles DEF Admit
<1>3. /\ pc' = [pc EXCEPT ![t] = "admitted"]
      /\ reg' = [reg EXCEPT ![t] = r]
      /\ UNCHANGED worker
  BY DEF Admit
<1>4. OneActive'
  BY <1>2 DEF OneActive, Unfinished
<1>5. WorkerKeepsItsRun'
  BY <1>1, <1>3, HolderIsAlone DEF WorkerKeepsItsRun, At
<1>6. Admitted'
  BY <1>1, <1>2, <1>3, HolderIsAlone DEF Admitted, HoldsLock, ControlInv, ControlOK
<1>7. InsidePlan'
  BY <1>1, <1>3, HolderIsAlone DEF InsidePlan, InStep, At, PlaceInv
<1>8. QED
  BY <1>4, <1>5, <1>6, <1>7 DEF PlaceInv

\* A step that neither admits nor touches the rows of runs.
LEMMA QuietPlace ==
  ASSUME ControlInv, PlaceInv, NEW t \in Request, NEW c \in PC \ {"admitted"},
         pc' = [pc EXCEPT ![t] = c], \A u \in Request \ {t} : reg'[u] = reg[u],
         UNCHANGED <<runs, worker>>
  PROVE  PlaceInv'
BY DEF PlaceInv, OneActive, Unfinished, WorkerKeepsItsRun, Admitted, InsidePlan, At,
       ControlInv, ControlOK

LEMMA SkipBusyPlace ==
  ASSUME ControlInv, TypeRows, PlaceInv, NEW t \in Request, TickSkipBusy(t)
  PROVE  PlaceInv'
<1>1. PICK r \in Run, j \in JobName, off \in BOOLEAN :
        \E p \in SchedulePlans(j) \cup {<< >>} : SkippedRow(runs, steps, enabled, r, j, p, off)
  BY DEF TickSkipBusy
<1>2. PICK p : SkippedRow(runs, steps, enabled, r, j, p, off)
  BY <1>1
<1>3. /\ runs[r].status = "absent" /\ runs'[r].status = "skipped"
      /\ \A s \in Run \ {r} : runs'[s] = runs[s]
  BY <1>2 DEF SkippedRow, Fresh, TypeRows
<1>4. /\ pc' = [pc EXCEPT ![t] = "idle"]
      /\ UNCHANGED <<reg, worker>>
  BY DEF TickSkipBusy
<1>5. OneActive'
  BY <1>3 DEF PlaceInv, OneActive, Unfinished, Active
<1>6. WorkerKeepsItsRun'
  BY <1>3, <1>4 DEF PlaceInv, WorkerKeepsItsRun, At
<1>7. Admitted'
  BY <1>3, <1>4 DEF PlaceInv, Admitted, ControlInv, ControlOK
<1>8. \A s \in Run : worker[s].pc \in InStep => runs'[s] = runs[s]
  BY <1>3 DEF PlaceInv, WorkerKeepsItsRun, InStep, WorkerPC
<1>9. InsidePlan'
  BY <1>4, <1>8 DEF PlaceInv, InsidePlan, At
<1>10. QED
  BY <1>5, <1>6, <1>7, <1>9 DEF PlaceInv

LEMMA RequestPlace ==
  ASSUME ControlInv, TypeRows, PlaceInv, NEW t \in Request, RequestStep(t)
  PROVE  PlaceInv'
<1>1. CASE Submit(t) \/ TickAdmit(t)
  BY <1>1, AdmitPlace DEF Submit, SubmitRun, SubmitRefresh, SubmitImport, SubmitExport,
     TickAdmit, JobName
<1>2. CASE TickSkip(t)
  <2>1. PICK r \in Run : runs'[r].status = "skipped"
                         /\ \A s \in Run \ {r} : runs'[s] = LostRuns(runs)[s]
    BY <1>2, LostIsTyped DEF TickSkip, SkippedRow
  <2>2. \A s \in Run : runs'[s].status \notin Active
    BY <2>1, LostSettles DEF Active
  <2>3. QED
    BY <1>2, <2>2, SettledPlace DEF TickSkip, HoldsLock
<1>3. CASE Recover(t) \/ SaveMartSchedule(t)
  BY <1>3, LostSettles, SettledPlace DEF Recover, SaveMartSchedule, HoldsLock
<1>4. CASE TickSkipBusy(t)
  BY <1>4, SkipBusyPlace
<1>5. CASE \/ TakeLock(t) \/ TickRefused(t) \/ TickDefers(t) \/ EditMart(t) \/ Refuse(t)
           \/ Close(t) \/ RequestDies(t)
  <2>1. PICK c \in {"holding", "refused", "idle", "closing"} : pc' = [pc EXCEPT ![t] = c]
    BY <1>5 DEF TakeLock, TickRefused, TickDefers, EditMart, Refuse, Close, RequestDies
  <2>2. UNCHANGED <<runs, worker>> /\ \A u \in Request \ {t} : reg'[u] = reg[u]
    BY <1>5 DEF TakeLock, TickRefused, TickDefers, EditMart, Refuse, Close, RequestDies, ledger,
                ControlInv, ControlOK
  <2>3. QED
    BY <2>1, <2>2, QuietPlace DEF PC
<1>6. CASE StartFails(t)
  <2>1. PICK c \in {"recovering", "closing"} : pc' = [pc EXCEPT ![t] = c]
    BY <1>6 DEF StartFails
  <2>2. UNCHANGED <<runs, worker>> /\ \A u \in Request \ {t} : reg'[u] = reg[u]
    BY <1>6 DEF StartFails, ledger, ControlInv, ControlOK
  <2>3. QED
    BY <2>1, <2>2, QuietPlace DEF PC
<1>7. CASE StartWorker(t)
  <2>1. reg[t] \in Run /\ runs[reg[t]].status = "queued"
    BY <1>7 DEF StartWorker, PlaceInv, Admitted, ControlInv, ControlOK
  <2>2. /\ worker' = [worker EXCEPT ![reg[t]] = [pc |-> "start", pos |-> 1, outcome |-> "none"]]
        /\ pc' = [pc EXCEPT ![t] = "idle"]
        /\ reg' = [reg EXCEPT ![t] = 0]
        /\ UNCHANGED runs
    BY <1>7 DEF StartWorker, ledger
  <2>3. OneActive'
    BY <2>2 DEF PlaceInv, OneActive, Unfinished
  <2>4. WorkerKeepsItsRun'
    BY <2>1, <2>2 DEF PlaceInv, WorkerKeepsItsRun, At, ControlInv, ControlOK
  <2>5. Admitted'
    BY <2>2 DEF PlaceInv, Admitted, ControlInv, ControlOK
  <2>6. InsidePlan'
    BY <2>1, <2>2, LedgerAssumption DEF PlaceInv, InsidePlan, InStep, At, ControlInv, ControlOK
  <2>7. QED
    BY <2>3, <2>4, <2>5, <2>6 DEF PlaceInv
<1>8. QED
  BY <1>1, <1>2, <1>3, <1>4, <1>5, <1>6, <1>7 DEF RequestStep

\* A worker at r moves to w and leaves its run with status x.
LEMMA MovedPlace ==
  ASSUME ControlInv, TypeRows, PlaceInv, NEW r \in Run, ~At(r, "none"), NEW w, NEW x \in RunStatus,
         worker' = [worker EXCEPT ![r] = w], runs' = [runs EXCEPT ![r].status = x],
         UNCHANGED <<pc, reg>>,
         x \in Active => runs[r].status \in Active,
         w.pc # "start", w.pc \in WorkerPC \ {"none", "closing"} => x = "running",
         w.pos \in 0..(MaxSteps + 1), w.pc # "none" => w.pos >= 1,
         w.pc \in InStep => w.pos <= Len(runs[r].plan)
  PROVE  PlaceInv'
<1>1. /\ \A s \in Run \ {r} : worker'[s] = worker[s] /\ runs'[s] = runs[s]
      /\ worker'[r] = w /\ runs'[r].status = x /\ runs'[r].plan = runs[r].plan
  BY DEF ControlInv, ControlOK, TypeRows, RunRow
<1>2. OneActive'
  BY <1>1 DEF PlaceInv, OneActive, Unfinished
<1>3. WorkerKeepsItsRun'
  BY <1>1 DEF PlaceInv, WorkerKeepsItsRun, At
<1>4. \A t \in Request : pc[t] # "admitted"
  BY LedgerAssumption DEF ControlInv, OneActor, HoldsLock
<1>5. Admitted'
  BY <1>4 DEF Admitted
<1>6. InsidePlan'
  BY <1>1 DEF PlaceInv, InsidePlan, At
<1>7. QED
  BY <1>2, <1>3, <1>5, <1>6 DEF PlaceInv

LEMMA GotoPlace ==
  ASSUME ControlInv, TypeRows, PlaceInv, NEW r \in Run, ~At(r, "none"),
         NEW c \in WorkerPC \ {"none", "start"}, Goto(r, c), NEW x \in RunStatus, runs' = [runs EXCEPT ![r].status = x],
         UNCHANGED <<pc, reg>>, x \in Active => runs[r].status \in Active,
         c # "closing" => x = "running",
         c \in InStep => worker[r].pos <= Len(runs[r].plan)
  PROVE  PlaceInv'
<1> DEFINE w == [worker[r] EXCEPT !.pc = c]
<1>1. worker' = [worker EXCEPT ![r] = w] /\ w.pc = c /\ w.pos = worker[r].pos
  BY DEF Goto, ControlInv, ControlOK
<1>2. w.pos \in 0..(MaxSteps + 1) /\ w.pos >= 1
  BY <1>1 DEF PlaceInv, InsidePlan
<1> HIDE DEF w
<1>3. QED
  BY <1>1, <1>2, MovedPlace

LEMMA FailPlace ==
  ASSUME ControlInv, TypeRows, PlaceInv, NEW r \in Run, ~At(r, "none"), NEW o, Fail(r, o),
         UNCHANGED <<runs, pc, reg>>, runs[r].status = "running",
         worker[r].pos <= Len(runs[r].plan)
  PROVE  PlaceInv'
<1> DEFINE w == [worker[r] EXCEPT !.pc = "handle", !.outcome = o]
<1>1. worker' = [worker EXCEPT ![r] = w] /\ w.pc = "handle" /\ w.pos = worker[r].pos
  BY DEF Fail, ControlInv, ControlOK
<1>2. w.pos \in 0..(MaxSteps + 1) /\ w.pos >= 1
  BY <1>1 DEF PlaceInv, InsidePlan
<1>3. runs' = [runs EXCEPT ![r].status = "running"] /\ "running" \in RunStatus
  BY DEF TypeRows, RunRow, RunStatus, Active
<1> HIDE DEF w
<1>4. QED
  BY <1>1, <1>2, <1>3, MovedPlace

LEMMA WorkerPlace ==
  ASSUME ControlInv, TypeRows, PlaceInv, NEW r \in Run, WorkerStep(r) \/ WorkerDies(r)
  PROVE  PlaceInv'
<1>1. runs = [runs EXCEPT ![r].status = runs[r].status] /\ runs[r].status \in RunStatus
  BY DEF TypeRows, RunRow
<1>2. /\ At(r, "start") => runs[r].status = "queued"
      /\ worker[r].pc \in {"gate", "ready", "claimed", "calling", "record", "handle"} =>
           runs[r].status = "running"
  BY DEF PlaceInv, WorkerKeepsItsRun, WorkerPC
<1>3. worker[r].pc \in InStep => worker[r].pos <= Len(runs[r].plan)
  BY DEF PlaceInv, InsidePlan
<1>4. CASE WorkerStart(r)
  <2>1. /\ ~At(r, "none") /\ runs[r].status \in Active
        /\ Goto(r, "gate") /\ UNCHANGED <<pc, reg>>
        /\ runs' = [runs EXCEPT ![r].status = "running"]
    BY <1>2, <1>4 DEF WorkerStart, At, Active
  <2>2. "gate" \in WorkerPC \ {"none", "start"} /\ "gate" \notin InStep /\ "running" \in RunStatus
    BY DEF WorkerPC, InStep, RunStatus, Active
  <2>3. QED
    BY <2>1, <2>2, GotoPlace
<1>5. CASE Gate(r)
  <2>1. /\ At(r, "gate") /\ worker[r].pos <= Len(runs[r].plan) /\ Goto(r, "ready")
        /\ UNCHANGED <<runs, pc, reg>>
    BY <1>5 DEF Gate
  <2>2. QED
    BY <1>1, <1>2, <2>1, GotoPlace DEF At, Active, WorkerPC
<1>6. CASE ClaimContent(r)
  BY <1>1, <1>2, <1>3, <1>6, GotoPlace DEF ClaimContent, At, Active, WorkerPC, InStep
<1>7. CASE Begin(r)
  BY <1>1, <1>2, <1>3, <1>7, GotoPlace DEF Begin, At, Active, WorkerPC, InStep, ledger
<1>8. CASE Return(r)
  BY <1>1, <1>2, <1>3, <1>8, GotoPlace DEF Return, At, Active, WorkerPC, InStep, ledger
<1>9. CASE Refused(r) \/ Raise(r) \/ RecordFails(r)
  BY <1>2, <1>3, <1>9, FailPlace DEF Refused, Raise, RecordFails, At, InStep, ledger
<1>10. CASE Record(r)
  <2> DEFINE w == [worker[r] EXCEPT !.pc = "gate", !.pos = worker[r].pos + 1]
  <2>1. worker[r].pos \in 1..Len(runs[r].plan) /\ Len(runs[r].plan) \in 0..MaxSteps
    <3>1. runs[r].plan \in Plan
      BY DEF TypeRows, RunRow
    <3>2. Len(runs[r].plan) \in 0..MaxSteps
      BY <3>1, LenProperties, LedgerAssumption DEF Plan
    <3>3. QED
      BY <1>3, <1>10, <3>2 DEF Record, At, InStep, PlaceInv, InsidePlan
  <2>2. worker' = [worker EXCEPT ![r] = w] /\ w.pc = "gate" /\ w.pos = worker[r].pos + 1
    BY <1>10 DEF Record, ControlInv, ControlOK
  <2> HIDE DEF w
  <2>3. w.pos \in 0..(MaxSteps + 1) /\ w.pos >= 1
    BY <2>1, <2>2, LedgerAssumption
  <2>4. QED
    BY <1>1, <1>2, <1>10, <2>2, <2>3, MovedPlace DEF Record, At, InStep, Active
<1>11. CASE HandleFailure(r)
  <2>1. PICK x \in {"unknown", "failed"} : runs' = [runs EXCEPT ![r].status = x]
    BY <1>11 DEF HandleFailure
  <2>2. ~At(r, "none") /\ Goto(r, "closing") /\ UNCHANGED <<pc, reg>>
    BY <1>11 DEF HandleFailure, At
  <2>3. x \in RunStatus \ Active /\ "closing" \in WorkerPC \ {"none", "start"} /\ "closing" \notin InStep
    BY DEF WorkerPC, InStep, RunStatus, Active, Terminal
  <2>4. QED
    BY <2>1, <2>2, <2>3, GotoPlace
<1>12. CASE Finish(r)
  BY <1>12, GotoPlace DEF Finish, At, Active, Terminal, RunStatus, WorkerPC, InStep
<1>13. CASE WorkerCloses(r) \/ WorkerDies(r)
  <2>1. /\ ~At(r, "none") /\ worker' = [worker EXCEPT ![r] = NoWorker]
        /\ UNCHANGED <<runs, pc, reg>>
    BY <1>13 DEF WorkerCloses, WorkerDies, At, ledger
  <2>2. NoWorker.pc = "none" /\ NoWorker.pos = 0 /\ 0 \in 0..(MaxSteps + 1)
    BY LedgerAssumption DEF NoWorker
  <2>3. QED
    BY <1>1, <2>1, <2>2, MovedPlace DEF InStep
<1>14. QED
  BY <1>4, <1>5, <1>6, <1>7, <1>8, <1>9, <1>10, <1>11, <1>12, <1>13 DEF WorkerStep

LedgerInv == ControlInv /\ TypeRows /\ PlaceInv

LEMMA LedgerNext == LedgerInv /\ [Next]_vars => LedgerInv'
<1> SUFFICES ASSUME LedgerInv, [Next]_vars PROVE LedgerInv'
  OBVIOUS
<1>1. ControlInv'
  BY ControlNext DEF LedgerInv
<1>2. CASE \E t \in Request : RequestStep(t)
  BY <1>1, <1>2, RequestRows, RequestPlace DEF LedgerInv
<1>3. CASE \E r \in Run : WorkerStep(r) \/ WorkerDies(r)
  BY <1>1, <1>3, WorkerRows, WorkerPlace DEF LedgerInv
<1>4. CASE SaveSchedule
  <2>1. TypeRows'
    BY <1>4 DEF SaveSchedule, threads, LedgerInv, TypeRows
  <2>2. PlaceInv'
    BY <1>4 DEF SaveSchedule, threads, LedgerInv, PlaceInv, OneActive, Unfinished,
                WorkerKeepsItsRun, Admitted, InsidePlan, At
  <2>3. QED
    BY <1>1, <2>1, <2>2 DEF LedgerInv
<1>5. CASE UNCHANGED vars
  <2>1. TypeRows'
    BY <1>5 DEF vars, LedgerInv, TypeRows
  <2>2. PlaceInv'
    BY <1>5 DEF vars, LedgerInv, PlaceInv, OneActive, Unfinished,
                WorkerKeepsItsRun, Admitted, InsidePlan, At
  <2>3. QED
    BY <1>1, <2>1, <2>2 DEF LedgerInv
<1>6. QED
  BY <1>2, <1>3, <1>4, <1>5 DEF Next

LEMMA LedgerInvariant == Spec => []LedgerInv
<1>1. Init => LedgerInv
  BY ControlInit, PlaceInit DEF LedgerInv
<1>2. QED
  BY <1>1, LedgerNext, PTL DEF Spec

\* At most one run is queued or running, through every crash and recovery.
THEOREM AtMostOneActive == Spec => []OneActive
<1>1. LedgerInv => OneActive
  BY DEF LedgerInv, PlaceInv
<1>2. QED
  BY <1>1, LedgerInvariant, PTL

\* No recovery and no other request ends a run under its live worker.
THEOREM WorkerUndisturbed == Spec => []WorkerKeepsItsRun
<1>1. LedgerInv => WorkerKeepsItsRun
  BY DEF LedgerInv, PlaceInv
<1>2. QED
  BY <1>1, LedgerInvariant, PTL

(***************************************************************************)
(* The history variables, and with them the type invariant.                *)
(***************************************************************************)
TypeHistory ==
  /\ begun \in [Run -> SUBSET Pos]
  /\ reported \in [Run -> SUBSET Pos]
  /\ ingests \in [Key -> Nat]

LEMMA CurrentPosition ==
  ASSUME LedgerInv, NEW r \in Run, worker[r].pc \in InStep
  PROVE  worker[r].pos \in Pos
<1>1. runs[r].plan \in Plan
  BY DEF LedgerInv, TypeRows, RunRow
<1>2. Len(runs[r].plan) \in 0..MaxSteps
  BY <1>1, LenProperties, LedgerAssumption DEF Plan
<1>3. ~At(r, "none")
  BY DEF InStep, At
<1>4. QED
  BY <1>2, <1>3, LedgerAssumption DEF LedgerInv, PlaceInv, InsidePlan, Pos

LEMMA HistoryNext == LedgerInv /\ TypeHistory /\ [Next]_vars => TypeHistory'
<1> SUFFICES ASSUME LedgerInv, TypeHistory, [Next]_vars PROVE TypeHistory'
  OBVIOUS
<1>1. ASSUME NEW r \in Run, Begin(r) PROVE TypeHistory'
  <2>1. worker[r].pos \in Pos
    BY <1>1, CurrentPosition DEF Begin, At, InStep
  <2>2. begun' \in [Run -> SUBSET Pos]
    BY <1>1, <2>1 DEF Begin, TypeHistory
  <2>3. ingests' \in [Key -> Nat]
    BY <1>1 DEF Begin, TypeHistory
  <2>4. QED
    BY <1>1, <2>2, <2>3 DEF Begin, TypeHistory
<1>2. ASSUME NEW r \in Run, Return(r) PROVE TypeHistory'
  <2>1. worker[r].pos \in Pos
    BY <1>2, CurrentPosition DEF Return, At, InStep
  <2>2. QED
    BY <1>2, <2>1 DEF Return, TypeHistory
<1>3. ASSUME UNCHANGED history PROVE TypeHistory'
  BY <1>3 DEF history, TypeHistory
<1>4. ASSUME NEW t \in Request, RequestStep(t) PROVE UNCHANGED history
  BY <1>4 DEF RequestStep, TakeLock, TickRefused, Submit, SubmitRun, SubmitRefresh, SubmitImport, SubmitExport, TickAdmit, Admit, TickSkip, TickSkipBusy,
     TickDefers, Recover, SaveMartSchedule, EditMart, Refuse, StartWorker, StartFails, Close, RequestDies
<1>5. ASSUME NEW r \in Run, WorkerStep(r) \/ WorkerDies(r), ~Begin(r), ~Return(r)
      PROVE  UNCHANGED history
  BY <1>5 DEF WorkerStep, WorkerStart, Gate, Refused, ClaimContent, Raise, Record, RecordFails,
     HandleFailure, Finish, WorkerCloses, WorkerDies
<1>6. SaveSchedule => UNCHANGED history
  BY DEF SaveSchedule
<1>7. UNCHANGED vars => UNCHANGED history
  BY DEF vars, history
<1>8. QED
  BY <1>1, <1>2, <1>3, <1>4, <1>5, <1>6, <1>7 DEF Next

\* Every variable keeps its type; the worker never leaves the plan of its run.
THEOREM TypeCorrect == Spec => []TypeOK
<1>1. Init => TypeHistory
  BY DEF Init, TypeHistory
<1>2. LedgerInv /\ TypeHistory => TypeOK
  <2> SUFFICES ASSUME LedgerInv, TypeHistory PROVE TypeOK
    OBVIOUS
  <2>1. worker \in [Run -> Thread]
    BY DEF LedgerInv, ControlInv, ControlOK, PlaceInv, InsidePlan, Thread
  <2>2. QED
    BY <2>1 DEF LedgerInv, TypeHistory, TypeOK, TypeRows, ControlInv, ControlOK
<1>3. QED
  BY <1>1, <1>2, LedgerInvariant, HistoryNext, PTL DEF Spec

\* For any number of threads, jobs and runs: one run, one actor and one lock at a
\* time, and no run is ended beside the worker that is at it.
THEOREM OneAtATimeAlways == Spec => []OneAtATime
<1>1. TypeOK /\ OneActive /\ OneActor /\ WorkerKeepsItsRun => OneAtATime
  BY DEF OneAtATime
<1>2. QED
  BY <1>1, TypeCorrect, AtMostOneActive, Exclusion, WorkerUndisturbed, PTL

-----------------------------------------------------------------------------
(***************************************************************************)
(* What a step may do: it leaves runs that ended alone, and it is a step of *)
(* JobSlot or changes nothing there.                                       *)
(***************************************************************************)

(***************************************************************************)
(* Ended runs                                                              *)
(***************************************************************************)
Kept(r) == runs'[r] = runs[r] /\ steps'[r] = steps[r]

EndedKept == \A r \in Run : runs[r].status \in Terminal => Kept(r)

\* _lost writes to unfinished runs only.
LEMMA LostSparesEnded ==
  ASSUME TypeRows, NEW r \in Run, runs[r].status \notin Active
  PROVE  LostRuns(runs)[r] = runs[r] /\ LostSteps(runs, steps)[r] = steps[r]
BY DEF TypeRows, LostRuns, LostSteps, Unfinished

\* A row is inserted under a new number.
LEMMA InsertSparesEnded ==
  ASSUME TypeRows, NEW r \in Run, Fresh(r), NEW row, NEW ss,
         \/ /\ runs' = [LostRuns(runs) EXCEPT ![r] = row]
            /\ steps' = [LostSteps(runs, steps) EXCEPT ![r] = ss]
         \/ /\ runs' = [runs EXCEPT ![r] = row]
            /\ steps' = [steps EXCEPT ![r] = ss]
  PROVE  EndedKept
<1> SUFFICES ASSUME NEW s \in Run, runs[s].status \in Terminal PROVE Kept(s)
  BY DEF EndedKept
<1>1. s # r
  BY DEF Fresh, Terminal
<1>2. runs[s].status \notin Active
  BY DEF Terminal, Active
<1>3. LostRuns(runs) \in [Run -> RunRow] /\ LostSteps(runs, steps) \in [Run -> [Pos -> StepStatus]]
  BY LostIsTyped
<1>4. QED
  BY <1>1, <1>2, <1>3, LostSparesEnded DEF Kept, TypeRows

LEMMA RequestSparesEnded ==
  ASSUME TypeRows, NEW t \in Request, RequestStep(t)
  PROVE  EndedKept
<1>1. ASSUME NEW r \in Run, NEW j, NEW trigger, NEW p, NEW once, Admit(t, r, j, trigger, p, once)
      PROVE  EndedKept
  <2>1. Fresh(r)
    BY <1>1 DEF Admit
  <2>2. PICK now \in Created(j) :
          /\ runs' = [LostRuns(runs) EXCEPT
                        ![r] = [job |-> j, trigger |-> trigger, plan |-> p, status |-> "queued", created |-> now]]
          /\ steps' = [LostSteps(runs, steps) EXCEPT ![r] = NewSteps(p, "pending")]
    BY <1>1 DEF Admit
  <2>3. QED
    BY <2>1, <2>2, InsertSparesEnded
<1>2. CASE Submit(t) \/ TickAdmit(t)
  BY <1>1, <1>2 DEF Submit, SubmitRun, SubmitRefresh, SubmitImport, SubmitExport, TickAdmit
<1>3. CASE TickSkip(t)
  <2>1. PICK r \in Run, j \in JobName, off \in BOOLEAN :
          \E p \in SchedulePlans(j) \cup {<< >>} :
            SkippedRow(LostRuns(runs), LostSteps(runs, steps), LostEnabled(runs, enabled), r, j, p, off)
    BY <1>3 DEF TickSkip
  <2>2. PICK p :
          SkippedRow(LostRuns(runs), LostSteps(runs, steps), LostEnabled(runs, enabled), r, j, p, off)
    BY <2>1
  <2>3. QED
    BY <2>2, InsertSparesEnded DEF SkippedRow
<1>4. CASE TickSkipBusy(t)
  <2>1. PICK r \in Run, j \in JobName, off \in BOOLEAN :
          \E p \in SchedulePlans(j) \cup {<< >>} : SkippedRow(runs, steps, enabled, r, j, p, off)
    BY <1>4 DEF TickSkipBusy
  <2>2. PICK p : SkippedRow(runs, steps, enabled, r, j, p, off)
    BY <2>1
  <2>3. QED
    BY <2>2, InsertSparesEnded DEF SkippedRow
<1>5. CASE Recover(t) \/ SaveMartSchedule(t)
  <2>1. runs' = LostRuns(runs) /\ steps' = LostSteps(runs, steps)
    BY <1>5 DEF Recover, SaveMartSchedule
  <2>2. QED
    BY <2>1, LostSparesEnded DEF EndedKept, Kept, Terminal, Active
<1>6. CASE \/ TakeLock(t) \/ TickRefused(t) \/ TickDefers(t) \/ EditMart(t) \/ Refuse(t)
           \/ StartWorker(t) \/ StartFails(t) \/ Close(t) \/ RequestDies(t)
  BY <1>6 DEF TakeLock, TickRefused, TickDefers, EditMart, Refuse, StartWorker, StartFails, Close,
              RequestDies, ledger, EndedKept, Kept
<1>7. QED
  BY <1>2, <1>3, <1>5, <1>6, <1>4 DEF RequestStep

\* A worker writes to its own run, which is unfinished.
LEMMA WorkerSparesEnded ==
  ASSUME LedgerInv, NEW r \in Run, WorkerStep(r) \/ WorkerDies(r)
  PROVE  EndedKept
<1>1. \/ UNCHANGED <<runs, steps>>
      \/ /\ worker[r].pc \in WorkerPC \ {"none", "closing"}
         /\ \A s \in Run \ {r} : Kept(s)
  BY DEF WorkerStep, WorkerStart, Gate, Refused, ClaimContent, Begin, Return, Raise, Record, RecordFails,
     HandleFailure, Finish, WorkerCloses, WorkerDies, ledger, At, WorkerPC, Kept, LedgerInv, TypeRows
<1>2. worker[r].pc \in WorkerPC \ {"none", "closing"} => runs[r].status \notin Terminal
  BY DEF LedgerInv, PlaceInv, WorkerKeepsItsRun, At, Terminal
<1>3. QED
  BY <1>1, <1>2 DEF EndedKept, Kept

\* A run that ended is final: no recovery, retry, skip or late worker rewrites it.
THEOREM EndedStayEnded == Spec => EndedRunsAreFinal
<1>1. LedgerInv /\ [Next]_vars => [EndedKept]_vars
  <2> SUFFICES ASSUME LedgerInv, [Next]_vars PROVE EndedKept \/ UNCHANGED vars
    OBVIOUS
  <2>1. TypeRows
    BY DEF LedgerInv
  <2>2. SaveSchedule => EndedKept
    BY DEF SaveSchedule, EndedKept, Kept
  <2>3. QED
    BY <2>1, <2>2, RequestSparesEnded, WorkerSparesEnded DEF Next
<1>2. Spec => [][EndedKept]_vars
  BY <1>1, LedgerInvariant, PTL DEF Spec
<1>3. QED
  BY <1>2 DEF EndedRunsAreFinal, EndedKept, Kept

(***************************************************************************)
(* The ledger implements JobSlot.  The place is taken by the run of an     *)
(* admission before its worker exists, so the argument needs reg: a        *)
(* request that has not admitted names no run.                             *)
(***************************************************************************)
RegInv == \A t \in Request : pc[t] # "admitted" => reg[t] = 0

LEMMA RegNext == LedgerInv /\ RegInv /\ [Next]_vars => RegInv'
<1> SUFFICES ASSUME LedgerInv, RegInv, [Next]_vars PROVE RegInv'
  OBVIOUS
<1>1. pc \in [Request -> PC] /\ reg \in [Request -> Run \cup {0}]
  BY DEF LedgerInv, ControlInv, ControlOK
<1>2. ASSUME NEW t \in Request, RequestStep(t) PROVE RegInv'
  <2>1. ASSUME NEW r, NEW j, NEW trigger, NEW p, NEW once, Admit(t, r, j, trigger, p, once)
        PROVE  RegInv'
    BY <1>1, <2>1 DEF Admit, RegInv
  <2>2. CASE Submit(t) \/ TickAdmit(t)
    BY <2>1, <2>2 DEF Submit, SubmitRun, SubmitRefresh, SubmitImport, SubmitExport, TickAdmit
  <2>3. CASE \/ TakeLock(t) \/ TickRefused(t) \/ TickSkip(t) \/ TickSkipBusy(t) \/ TickDefers(t)
             \/ Recover(t) \/ SaveMartSchedule(t) \/ EditMart(t) \/ Refuse(t) \/ Close(t)
    <3>1. reg' = reg /\ \A u \in Request \ {t} : pc'[u] = pc[u]
      BY <1>1, <2>3 DEF TakeLock, TickRefused, TickSkip, TickSkipBusy, TickDefers, Recover,
         SaveMartSchedule, EditMart, Refuse, Close
    <3>2. pc[t] # "admitted"
      BY <2>3 DEF TakeLock, TickRefused, TickSkip, TickSkipBusy, TickDefers, Recover,
         SaveMartSchedule, EditMart, Refuse, Close
    <3>3. QED
      BY <3>1, <3>2 DEF RegInv
  <2>4. CASE StartWorker(t) \/ StartFails(t) \/ RequestDies(t)
    BY <1>1, <2>4 DEF StartWorker, StartFails, RequestDies, RegInv
  <2>5. QED
    BY <1>2, <2>2, <2>3, <2>4 DEF RequestStep
<1>3. ASSUME UNCHANGED <<pc, reg>> PROVE RegInv'
  BY <1>3 DEF RegInv
<1>4. ASSUME NEW r \in Run, WorkerStep(r) \/ WorkerDies(r) PROVE UNCHANGED <<pc, reg>>
  BY <1>4 DEF WorkerStep, WorkerStart, Gate, Refused, ClaimContent, Begin, Return, Raise, Record,
     RecordFails, HandleFailure, Finish, WorkerCloses, WorkerDies
<1>5. SaveSchedule \/ UNCHANGED vars => UNCHANGED <<pc, reg>>
  BY DEF SaveSchedule, threads, vars
<1>6. QED
  BY <1>2, <1>3, <1>4, <1>5 DEF Next

Statuses(rs) == [r \in Run |-> rs[r].status]

SlotStep == Slot!Next \/ UNCHANGED <<Statuses(runs), CurrentRun>>

LEMMA LostIsLost ==
  ASSUME TypeRows
  PROVE  Statuses(LostRuns(runs)) = Slot!Lost(Statuses(runs))
BY DEF TypeRows, LostRuns, Unfinished, Active, Statuses, Slot!Lost, Slot!Active

LEMMA Places ==
  ASSUME LedgerInv, RegInv
  PROVE  /\ \A t \in Request : pc[t] \in HoldsLock => lock = t /\ CurrentRun = reg[t]
         /\ \A t \in Request : pc[t] \in HoldsLock \ {"admitted"} => CurrentRun = 0
         /\ \A r \in Run : ~At(r, "none") => lock = r /\ CurrentRun = r
BY LedgerAssumption DEF LedgerInv, ControlInv, ControlOK, OneActor, RegInv, CurrentRun

LEMMA AdmitIsAdmit ==
  ASSUME LedgerInv, RegInv, NEW t \in Request, NEW r \in Run, NEW j, NEW trigger, NEW p, NEW once,
         Admit(t, r, j, trigger, p, once)
  PROVE  SlotStep
<1>1. pc[t] = "holding" /\ Fresh(r)
  BY DEF Admit
<1>2. lock = t /\ CurrentRun = 0
  BY <1>1, Places DEF HoldsLock
<1>3. Statuses(runs)[r] = "absent"
  BY <1>1 DEF Fresh, Statuses
<1>4. TypeRows
  BY DEF LedgerInv
<1>5. Statuses(runs)' = [Slot!Lost(Statuses(runs)) EXCEPT ![r] = "queued"]
  <2> DEFINE row(now) == [job |-> j, trigger |-> trigger, plan |-> p, status |-> "queued", created |-> now]
  <2>1. PICK now \in Created(j) :
          runs' = [LostRuns(runs) EXCEPT ![r] = row(now)] /\ row(now).status = "queued"
    BY DEF Admit
  <2> HIDE DEF row
  <2>2. LostRuns(runs) \in [Run -> RunRow]
    BY <1>4, LostIsTyped
  <2>3. Statuses(runs') = [Statuses(LostRuns(runs)) EXCEPT ![r] = "queued"]
    BY <2>1, <2>2 DEF Statuses
  <2>4. QED
    BY <1>4, <2>3, LostIsLost DEF Statuses
<1>6. CurrentRun' = r
  <2>1. lock' = t /\ reg'[t] = r
    BY <1>2 DEF Admit, LedgerInv, ControlInv, ControlOK
  <2>2. t \notin Run
    BY LedgerAssumption
  <2>3. QED
    BY <2>1, <2>2 DEF CurrentRun
<1>7. Slot!Admit(r)
  BY <1>2, <1>3, <1>5, <1>6 DEF Slot!Admit, Statuses
<1>8. QED
  BY <1>7 DEF SlotStep, Slot!Next

\* A request that fails, closes or dies leaves the place empty, or to whoever has it.
LEMMA LeavingFrees ==
  ASSUME LedgerInv, RegInv, NEW t \in Request, StartFails(t) \/ Close(t) \/ RequestDies(t)
  PROVE  CurrentRun' = 0 \/ CurrentRun' = CurrentRun
<1>1. reg \in [Request -> Run \cup {0}]
  BY DEF LedgerInv, ControlInv, ControlOK
<1>2. CASE StartFails(t)
  <2>1. lock' = lock /\ lock = t /\ reg'[t] = 0
    BY <1>1, <1>2, Places DEF StartFails, HoldsLock
  <2>2. QED
    BY <2>1 DEF CurrentRun
<1>3. CASE Close(t)
  BY <1>3, LedgerAssumption DEF Close, CurrentRun
<1>4. CASE RequestDies(t)
  <2>1. CASE lock = t
    BY <1>4, <2>1, LedgerAssumption DEF RequestDies, CurrentRun
  <2>2. CASE lock # t
    <3>1. lock' = lock /\ \A u \in Request \ {t} : reg'[u] = reg[u]
      BY <1>1, <1>4, <2>2 DEF RequestDies
    <3>2. QED
      BY <2>2, <3>1 DEF CurrentRun
  <2>3. QED
    BY <2>1, <2>2
<1>5. QED
  BY <1>2, <1>3, <1>4

LEMMA RequestIsSlotStep ==
  ASSUME LedgerInv, RegInv, NEW t \in Request, RequestStep(t)
  PROVE  SlotStep
<1> USE DEF SlotStep
<1>1. TypeRows /\ LostRuns(runs) \in [Run -> RunRow]
  BY LostIsTyped DEF LedgerInv
<1>2. pc \in [Request -> PC] /\ reg \in [Request -> Run \cup {0}] /\ 0 \notin Run
  BY DEF LedgerInv, ControlInv, ControlOK, Run
<1>3. CASE Submit(t) \/ TickAdmit(t)
  BY <1>3, AdmitIsAdmit DEF Submit, SubmitRun, SubmitRefresh, SubmitImport, SubmitExport, TickAdmit
<1>4. CASE TickSkip(t)
  <2>1. PICK r \in Run, j \in JobName, off \in BOOLEAN :
          \E p \in SchedulePlans(j) \cup {<< >>} :
            SkippedRow(LostRuns(runs), LostSteps(runs, steps), LostEnabled(runs, enabled), r, j, p, off)
    BY <1>4 DEF TickSkip
  <2>2. PICK p :
          SkippedRow(LostRuns(runs), LostSteps(runs, steps), LostEnabled(runs, enabled), r, j, p, off)
    BY <2>1
  <2>3. Statuses(runs)[r] = "absent"
    BY <2>2 DEF SkippedRow, Fresh, Statuses
  <2>4. Statuses(runs') = [Statuses(LostRuns(runs)) EXCEPT ![r] = "skipped"]
    BY <1>1, <2>2 DEF SkippedRow, Statuses
  <2>5. CurrentRun = 0 /\ UNCHANGED CurrentRun
    BY <1>4, Places DEF TickSkip, HoldsLock, CurrentRun
  <2>6. Slot!Skip(r)
    BY <1>1, <2>3, <2>4, <2>5, LostIsLost DEF Slot!Skip, Statuses
  <2>7. QED
    BY <2>6 DEF Slot!Next
<1>5. CASE TickSkipBusy(t)
  <2>1. PICK r \in Run, j \in JobName, off \in BOOLEAN :
          \E p \in SchedulePlans(j) \cup {<< >>} : SkippedRow(runs, steps, enabled, r, j, p, off)
    BY <1>5 DEF TickSkipBusy
  <2>2. PICK p : SkippedRow(runs, steps, enabled, r, j, p, off)
    BY <2>1
  <2>3. Statuses(runs)[r] = "absent"
    BY <2>2 DEF SkippedRow, Fresh, Statuses
  <2>4. Statuses(runs') = [Statuses(runs) EXCEPT ![r] = "skipped"]
    BY <1>1, <2>2 DEF SkippedRow, Statuses, TypeRows
  <2>5. UNCHANGED CurrentRun
    BY <1>5 DEF TickSkipBusy, CurrentRun
  <2>6. Slot!Skip(r)
    BY <2>3, <2>4, <2>5 DEF Slot!Skip, Statuses
  <2>7. QED
    BY <2>6 DEF Slot!Next
<1>6. CASE Recover(t) \/ SaveMartSchedule(t)
  <2>1. /\ pc[t] \in {"holding", "recovering"}
        /\ runs' = LostRuns(runs) /\ UNCHANGED <<lock, reg>>
    BY <1>6 DEF Recover, SaveMartSchedule
  <2>2. CurrentRun = 0 /\ UNCHANGED CurrentRun
    BY <2>1, Places DEF HoldsLock, CurrentRun
  <2>3. Slot!Recover
    BY <1>1, <2>1, <2>2, LostIsLost DEF Slot!Recover, Statuses
  <2>4. QED
    BY <2>3 DEF Slot!Next
<1>7. CASE TickRefused(t) \/ TickDefers(t) \/ EditMart(t) \/ Refuse(t)
  BY <1>7 DEF TickRefused, TickDefers, EditMart, Refuse, ledger, CurrentRun, Statuses
<1>8. CASE TakeLock(t)
  <2>1. runs' = runs /\ lock = Free /\ lock' = t /\ reg'[t] = 0 /\ reg[t] = 0
    BY <1>8 DEF TakeLock, ledger, RegInv
  <2>2. CurrentRun = 0 /\ CurrentRun' = 0
    BY <2>1, LedgerAssumption DEF CurrentRun
  <2>3. QED
    BY <2>1, <2>2 DEF Statuses
<1>9. CASE StartWorker(t)
  <2>1. lock = t /\ reg[t] \in Run /\ runs' = runs /\ lock' = reg[t]
    BY <1>2, <1>9, Places DEF StartWorker, ledger, HoldsLock, LedgerInv, ControlInv, ControlOK
  <2>2. CurrentRun = reg[t] /\ CurrentRun' = reg[t]
    BY <2>1, LedgerAssumption DEF CurrentRun
  <2>3. QED
    BY <2>1, <2>2 DEF Statuses
<1>10. CASE StartFails(t) \/ Close(t) \/ RequestDies(t)
  <2>1. runs' = runs
    BY <1>10 DEF StartFails, Close, RequestDies, ledger
  <2>2. CurrentRun' = 0 \/ CurrentRun' = CurrentRun
    BY <1>10, LeavingFrees
  <2>3. Statuses(runs') = Statuses(runs)
    BY <2>1
  <2>4. CASE CurrentRun' = CurrentRun
    BY <2>1, <2>4 DEF Statuses
  <2>5. CASE CurrentRun' # CurrentRun
    <3>1. Slot!Leave
      BY <2>1, <2>2, <2>5 DEF Slot!Leave, Statuses
    <3>2. QED
      BY <3>1 DEF Slot!Next
  <2>6. QED
    BY <2>4, <2>5
<1>11. QED
  BY <1>3, <1>4, <1>5, <1>6, <1>7, <1>8, <1>9, <1>10 DEF RequestStep

LEMMA StatusSet ==
  ASSUME runs \in [Run -> RunRow], NEW r \in Run, NEW s, runs' = [runs EXCEPT ![r].status = s]
  PROVE  Statuses(runs') = [Statuses(runs) EXCEPT ![r] = s]
<1>1. \A q \in Run : runs[q] \in RunRow
  OBVIOUS
<1>2. runs'[r].status = s
  BY <1>1 DEF RunRow
<1>3. \A q \in Run \ {r} : runs'[q] = runs[q]
  OBVIOUS
<1>4. QED
  BY <1>2, <1>3 DEF Statuses

LEMMA WorkerIsSlotStep ==
  ASSUME LedgerInv, RegInv, NEW r \in Run, WorkerStep(r) \/ WorkerDies(r)
  PROVE  SlotStep
<1> USE DEF SlotStep
<1>1. ~At(r, "none")
  BY DEF WorkerStep, WorkerStart, Gate, Refused, ClaimContent, Begin, Return, Raise, Record, RecordFails,
     HandleFailure, Finish, WorkerCloses, WorkerDies, At
<1>2. lock = r /\ CurrentRun = r
  BY <1>1, Places
<1>3. runs \in [Run -> RunRow] /\ WorkerKeepsItsRun
  BY DEF LedgerInv, TypeRows, PlaceInv
<1>4. UNCHANGED <<lock, reg>> => UNCHANGED CurrentRun
  BY DEF CurrentRun
<1>5. CASE WorkerStart(r)
  <2>1. runs[r].status = "queued"
    BY <1>3, <1>5 DEF WorkerStart, WorkerKeepsItsRun
  <2>2. Statuses(runs)[r] = "queued"
    BY <2>1 DEF Statuses
  <2>3. Statuses(runs') = [Statuses(runs) EXCEPT ![r] = "running"]
    BY <1>3, <1>5, StatusSet DEF WorkerStart
  <2>4. Slot!Begin(r)
    BY <1>2, <1>4, <1>5, <2>2, <2>3 DEF WorkerStart, Slot!Begin, Statuses
  <2>5. QED
    BY <2>4 DEF Slot!Next
<1>6. CASE HandleFailure(r) \/ Finish(r)
  <2>1. PICK s \in {"success", "failed", "unknown"} : runs' = [runs EXCEPT ![r].status = s]
    BY <1>6 DEF HandleFailure, Finish
  <2>2. runs[r].status = "running"
    BY <1>3, <1>6 DEF HandleFailure, Finish, WorkerKeepsItsRun, At, WorkerPC
  <2>3. Statuses(runs)[r] = "running"
    BY <2>2 DEF Statuses
  <2>4. Statuses(runs') = [Statuses(runs) EXCEPT ![r] = s]
    BY <1>3, <2>1, StatusSet
  <2>5. UNCHANGED CurrentRun
    BY <1>4, <1>6 DEF HandleFailure, Finish
  <2>6. Slot!End(r)
    BY <1>2, <2>3, <2>4, <2>5 DEF Slot!End, Statuses
  <2>7. QED
    BY <2>6 DEF Slot!Next
<1>7. CASE \/ Gate(r) \/ Refused(r) \/ ClaimContent(r) \/ Begin(r) \/ Return(r) \/ Raise(r)
           \/ Record(r) \/ RecordFails(r)
  <2>1. UNCHANGED <<runs, lock, reg>>
    BY <1>7 DEF Gate, Refused, ClaimContent, Begin, Return, Raise, Record, RecordFails, ledger
  <2>2. QED
    BY <1>4, <2>1 DEF Statuses
<1>8. CASE WorkerCloses(r) \/ WorkerDies(r)
  <2>1. runs' = runs /\ lock' = Free
    BY <1>8 DEF WorkerCloses, WorkerDies, ledger
  <2>2. CurrentRun' = 0 /\ CurrentRun # 0
    BY <1>2, <2>1, LedgerAssumption DEF CurrentRun, Run
  <2>3. Slot!Leave
    BY <2>1, <2>2 DEF Slot!Leave, Statuses
  <2>4. QED
    BY <2>3 DEF Slot!Next
<1>9. QED
  BY <1>5, <1>6, <1>7, <1>8 DEF WorkerStep

\* The ledger with its lock file, threads, deaths and recoveries is a place for one run
\* with no queue, where a run is declared lost only when the place is empty.
THEOREM LedgerImplementsSlot == Spec => ImplementsSlot
<1>1. Init => RegInv
  BY DEF Init, RegInv
<1>2. Spec => [](LedgerInv /\ RegInv)
  BY <1>1, RegNext, LedgerInvariant, PTL DEF Spec
<1>3. Init => Slot!Init
  BY LedgerAssumption DEF Init, NoRun, CurrentRun, Slot!Init
<1>4. LedgerInv /\ RegInv /\ [Next]_vars => [Slot!Next]_(Slot!slotVars)
  <2> SUFFICES ASSUME LedgerInv, RegInv, [Next]_vars PROVE SlotStep
    BY DEF SlotStep, Slot!slotVars, Statuses
  <2>1. SaveSchedule \/ UNCHANGED vars => SlotStep
    BY DEF SaveSchedule, threads, vars, SlotStep, Statuses, CurrentRun
  <2>2. QED
    BY <2>1, RequestIsSlotStep, WorkerIsSlotStep DEF Next
<1>5. QED
  BY <1>2, <1>3, <1>4, PTL DEF Spec, ImplementsSlot, Slot!Spec

-----------------------------------------------------------------------------
(***************************************************************************)
(* What the rows of JobsLedger tell of a run is true, through every failure, *)
(* death and recovery: the steps, the claims on content and the schedules of *)
(* marts.  The invariant follows the one run that is unfinished, step by   *)
(* step, beside its worker.                                                *)
(***************************************************************************)

(***************************************************************************)
(* The steps of a run                                                      *)
(***************************************************************************)
Working == {"gate"} \cup InStep
Span(r) == 1..Len(runs[r].plan)

NotStarted(r, i) == i \notin begun[r] /\ i \notin reported[r]
Published(r, i)  == i \in reported[r] /\ runs[r].plan[i].action \in {"stage_export", "mart_refresh"}

\* The row of step i while a worker is at its run: the worker has succeeded at the
\* earlier steps, is at one, and has started none of the later ones.
StepAsLeft(r, i) ==
  LET n == worker[r].pos
      c == worker[r].pc
  IN  /\ i < n => steps[r][i] = "success"
      /\ i > n => steps[r][i] = "pending" /\ NotStarted(r, i)
      /\ i = n =>
           /\ c = "gate" => steps[r][i] = "pending"
           /\ c \in {"ready", "claimed", "calling", "record"} => steps[r][i] = "running"
           /\ c \in {"gate", "ready", "claimed"} => NotStarted(r, i)
           /\ c = "calling" => i \notin reported[r]
           /\ c = "record" => i \in reported[r]
           /\ c = "handle" =>
                /\ steps[r][i] \in {"pending", "running"}
                /\ Published(r, i) => worker[r].outcome = "unknown"

BeforeWork(r) ==
  /\ runs[r].status \in {"absent", "queued"} => begun[r] = {} /\ reported[r] = {}
  /\ runs[r].status = "queued" => \A i \in Span(r) : steps[r][i] = "pending"
  /\ At(r, "start") => worker[r].pos = 1

AtWork(r) == worker[r].pc \in Working => \A i \in Span(r) : StepAsLeft(r, i)

StepTold(r, i) ==
  /\ steps[r][i] \in {"none", "pending", "skipped"} => i \notin begun[r]
  /\ steps[r][i] = "success" => i \in reported[r]
  /\ steps[r][i] = "failed" => i \in Span(r) /\ ~Published(r, i)

RunFailsFast(r) ==
  /\ \A i \in begun[r] : \A j \in 1..(i - 1) : steps[r][j] = "success"
  /\ runs[r].status = "success" => \A i \in Span(r) : steps[r][i] = "success"

StepOK(r) == BeforeWork(r) /\ AtWork(r) /\ RunFailsFast(r) /\ \A i \in Pos : StepTold(r, i)

StepInv == \A r \in Run : StepOK(r)

LEMMA PlanFacts ==
  ASSUME TypeRows, NEW r \in Run
  PROVE  /\ Len(runs[r].plan) \in Nat /\ Len(runs[r].plan) <= MaxSteps
         /\ DOMAIN runs[r].plan = Span(r) /\ Span(r) \subseteq Pos
         /\ \A i \in Span(r) : runs[r].plan[i] \in Step
<1>1. runs[r].plan \in Seq(Step) /\ Len(runs[r].plan) <= MaxSteps
  BY DEF TypeRows, RunRow, Plan
<1>2. Len(runs[r].plan) \in Nat /\ DOMAIN runs[r].plan = 1..Len(runs[r].plan)
  BY <1>1, LenProperties
<1>3. \A i \in 1..Len(runs[r].plan) : runs[r].plan[i] \in Step
  BY <1>1, <1>2, ElementOfSeq
<1>4. QED
  BY <1>1, <1>2, <1>3, LedgerAssumption DEF Span, Pos

LEMMA StepInit == Init => StepInv
BY DEF Init, StepInv, StepOK, BeforeWork, AtWork, RunFailsFast, StepTold, NoRun, NoWorker, Working,
       InStep, At

\* Nothing of the run moved.
LEMMA SameSteps ==
  ASSUME StepInv, NEW r \in Run, runs'[r] = runs[r], steps'[r] = steps[r], worker'[r] = worker[r],
         begun'[r] = begun[r], reported'[r] = reported[r]
  PROVE  StepOK(r)'
BY DEF StepInv, StepOK, BeforeWork, AtWork, RunFailsFast, StepTold, StepAsLeft, NotStarted, Published,
       Span, At

\* The history of a run stays inside its positions.
LEMMA HistoryFacts ==
  ASSUME TypeHistory, NEW r \in Run
  PROVE  /\ begun[r] \subseteq Pos
         /\ \A i \in begun[r] : 1..(i - 1) \subseteq Pos
<1>1. begun[r] \subseteq Pos
  BY DEF TypeHistory
<1>2. \A i \in Pos : 1..(i - 1) \subseteq Pos
  BY LedgerAssumption DEF Pos
<1>3. QED
  BY <1>1, <1>2

\* _lost: what was running may or may not have happened, what was pending did not.
LEMMA LostStepsTell ==
  ASSUME TypeRows, TypeHistory, StepInv, NEW r \in Run, At(r, "none"), worker'[r] = worker[r],
         runs'[r] = LostRuns(runs)[r], steps'[r] = LostSteps(runs, steps)[r],
         begun'[r] = begun[r], reported'[r] = reported[r]
  PROVE  StepOK(r)'
<1>1. CASE r \notin Unfinished(runs)
  BY <1>1, SameSteps DEF LostRuns, LostSteps
<1>2. CASE r \in Unfinished(runs)
  <2>1. runs'[r] = [runs[r] EXCEPT !.status = "unknown"]
    BY <1>2 DEF LostRuns
  <2>2. runs'[r].status = "unknown" /\ runs'[r].plan = runs[r].plan
    BY <2>1 DEF TypeRows, RunRow
  <2>3. \A i \in Pos : steps'[r][i] = LostStep(steps[r][i])
    BY <1>2 DEF LostSteps
  <2>4. StepOK(r)
    BY DEF StepInv
  <2>5. \A i \in Pos : StepTold(r, i)'
    BY <2>2, <2>3, <2>4 DEF StepOK, StepTold, LostStep, Span, Published
  <2>6. \A j \in Pos : steps[r][j] = "success" => steps'[r][j] = "success"
    BY <2>3 DEF LostStep
  <2>7. RunFailsFast(r)'
    BY <2>2, <2>4, <2>6, HistoryFacts DEF StepOK, RunFailsFast
  <2>8. QED
    BY <2>2, <2>5, <2>7 DEF StepOK, BeforeWork, AtWork, Working, InStep, At
<1>3. QED
  BY <1>1, <1>2

\* A row just inserted, pending or skipped.
LEMMA InsertedStepsTell ==
  ASSUME TypeRows, StepInv, NEW r \in Run, runs[r].status = "absent",
         worker[r].pc \in {"none", "closing"}, worker'[r] = worker[r], begun'[r] = begun[r], reported'[r] = reported[r],
         NEW p \in Plan, NEW s \in {"pending", "skipped"}, runs'[r].plan = p,
         runs'[r].status = (IF s = "pending" THEN "queued" ELSE "skipped"),
         steps'[r] = NewSteps(p, s)
  PROVE  StepOK(r)'
<1>1. begun'[r] = {} /\ reported'[r] = {}
  BY DEF StepInv, StepOK, BeforeWork
<1>2. Span(r)' = 1..Len(p) /\ Span(r)' \subseteq Pos
  BY LenProperties, LedgerAssumption DEF Span, Plan, Pos
<1>3. \A i \in Pos : steps'[r][i] = (IF i <= Len(p) THEN s ELSE "none")
  BY DEF NewSteps
<1>4. \A i \in Span(r)' : steps'[r][i] = s
  BY <1>2, <1>3, LenProperties DEF Plan
<1>5. BeforeWork(r)'
  BY <1>1, <1>4 DEF BeforeWork, At
<1>6. AtWork(r)' /\ RunFailsFast(r)'
  BY <1>1 DEF AtWork, Working, InStep, RunFailsFast, At
<1>7. \A i \in Pos : StepTold(r, i)'
  BY <1>1, <1>3 DEF StepTold
<1>8. QED
  BY <1>5, <1>6, <1>7 DEF StepOK

LEMMA AdmitStepsTell ==
  ASSUME LedgerInv, TypeHistory, StepInv, NEW t \in Request, NEW r \in Run, NEW j, NEW trigger,
         NEW p \in Plan, NEW once, Admit(t, r, j, trigger, p, once)
  PROVE  StepInv'
<1>1. TypeRows /\ ControlInv
  BY DEF LedgerInv
<1>2. \A s \in Run : At(s, "none")
  BY <1>1, HolderIsAlone DEF Admit, HoldsLock
<1>3. runs[r].status = "absent" /\ UNCHANGED <<worker, begun, reported>>
  BY DEF Admit, Fresh, history
<1>4. LostRuns(runs) \in [Run -> RunRow] /\ LostSteps(runs, steps) \in [Run -> [Pos -> StepStatus]]
  BY <1>1, LostIsTyped
<1>5. \A s \in Run \ {r} : runs'[s] = LostRuns(runs)[s] /\ steps'[s] = LostSteps(runs, steps)[s]
  BY <1>4 DEF Admit
<1>6. runs'[r].plan = p /\ runs'[r].status = "queued" /\ steps'[r] = NewSteps(p, "pending")
  BY <1>4 DEF Admit
<1>7. StepOK(r)'
  BY <1>1, <1>2, <1>3, <1>6, InsertedStepsTell DEF At
<1>8. \A s \in Run \ {r} : StepOK(s)'
  BY <1>1, <1>2, <1>3, <1>5, LostStepsTell
<1>9. QED
  BY <1>7, <1>8 DEF StepInv

\* A skipped slot, after a recovery or beside a worker.
LEMMA SkipStepsTell ==
  ASSUME LedgerInv, TypeHistory, StepInv, NEW t \in Request, TickSkip(t) \/ TickSkipBusy(t)
  PROVE  StepInv'
<1>1. TypeRows /\ ControlInv
  BY DEF LedgerInv
<1>2. UNCHANGED <<worker, begun, reported>>
  BY DEF TickSkip, TickSkipBusy, history
<1>3. LostRuns(runs) \in [Run -> RunRow] /\ LostSteps(runs, steps) \in [Run -> [Pos -> StepStatus]]
  BY <1>1, LostIsTyped
<1>4. PICK r \in Run, p \in Plan :
        /\ runs[r].status = "absent"
        /\ runs'[r].plan = p /\ runs'[r].status = "skipped" /\ steps'[r] = NewSteps(p, "skipped")
        /\ \/ TickSkip(t) /\ \A s \in Run \ {r} :
                runs'[s] = LostRuns(runs)[s] /\ steps'[s] = LostSteps(runs, steps)[s]
           \/ \A s \in Run \ {r} : runs'[s] = runs[s] /\ steps'[s] = steps[s]
  <2>1. CASE TickSkip(t)
    <3>1. PICK r \in Run, j \in JobName, off \in BOOLEAN : \E p \in SchedulePlans(j) \cup {<< >>} :
            SkippedRow(LostRuns(runs), LostSteps(runs, steps), LostEnabled(runs, enabled), r, j, p, off)
      BY <2>1 DEF TickSkip
    <3>2. PICK p \in SchedulePlans(j) \cup {<< >>} :
            SkippedRow(LostRuns(runs), LostSteps(runs, steps), LostEnabled(runs, enabled), r, j, p, off)
      BY <3>1
    <3>3. p \in Plan
      BY PlansAreTyped
    <3>4. QED
      BY <1>3, <2>1, <3>2, <3>3 DEF SkippedRow, Fresh
  <2>2. CASE TickSkipBusy(t)
    <3>1. PICK r \in Run, j \in JobName, off \in BOOLEAN : \E p \in SchedulePlans(j) \cup {<< >>} :
            SkippedRow(runs, steps, enabled, r, j, p, off)
      BY <2>2 DEF TickSkipBusy
    <3>2. PICK p \in SchedulePlans(j) \cup {<< >>} : SkippedRow(runs, steps, enabled, r, j, p, off)
      BY <3>1
    <3>3. p \in Plan
      BY PlansAreTyped
    <3>4. QED
      BY <1>1, <3>2, <3>3 DEF SkippedRow, Fresh, TypeRows
  <2>3. QED
    BY <2>1, <2>2
<1>5. worker[r].pc \in {"none", "closing"}
  BY <1>1, <1>4 DEF LedgerInv, PlaceInv, WorkerKeepsItsRun, At, WorkerPC, ControlInv, ControlOK
<1>6. StepOK(r)'
  BY <1>1, <1>2, <1>4, <1>5, InsertedStepsTell
<1>7. ASSUME NEW s \in Run \ {r} PROVE StepOK(s)'
  <2>1. CASE runs'[s] = runs[s] /\ steps'[s] = steps[s]
    BY <1>2, <2>1, SameSteps
  <2>2. CASE TickSkip(t) /\ runs'[s] = LostRuns(runs)[s] /\ steps'[s] = LostSteps(runs, steps)[s]
    <3>1. At(s, "none")
      BY <1>1, <2>2, HolderIsAlone DEF TickSkip, HoldsLock
    <3>2. QED
      BY <1>1, <1>2, <2>2, <3>1, LostStepsTell
  <2>3. QED
    BY <1>4, <2>1, <2>2
<1>8. QED
  BY <1>6, <1>7 DEF StepInv

LEMMA RequestStepsTell ==
  ASSUME LedgerInv, TypeHistory, StepInv, NEW t \in Request, RequestStep(t)
  PROVE  StepInv'
<1>1. TypeRows /\ ControlInv
  BY DEF LedgerInv
<1>2. CASE Submit(t) \/ TickAdmit(t)
  BY <1>2, AdmitStepsTell, PlansAreTyped DEF Submit, SubmitRun, SubmitRefresh, SubmitImport,
     SubmitExport, TickAdmit
<1>3. CASE TickSkip(t) \/ TickSkipBusy(t)
  BY <1>3, SkipStepsTell
<1>4. CASE Recover(t) \/ SaveMartSchedule(t)
  <2>1. /\ runs' = LostRuns(runs) /\ steps' = LostSteps(runs, steps)
        /\ UNCHANGED <<worker, begun, reported>>
    BY <1>4 DEF Recover, SaveMartSchedule, history
  <2>2. \A s \in Run : At(s, "none")
    BY <1>1, <1>4, HolderIsAlone DEF Recover, SaveMartSchedule, HoldsLock
  <2>3. QED
    BY <1>1, <2>1, <2>2, LostStepsTell DEF StepInv
<1>5. CASE StartWorker(t)
  <2>1. PICK r \in Run : r = reg[t] /\ runs[r].status = "queued"
    BY <1>1, <1>5 DEF StartWorker, LedgerInv, PlaceInv, Admitted, ControlInv, ControlOK
  <2>2. /\ worker'[r].pc = "start" /\ worker'[r].pos = 1
        /\ \A s \in Run \ {r} : worker'[s] = worker[s]
        /\ UNCHANGED <<runs, steps, begun, reported>>
    BY <1>1, <1>5, <2>1 DEF StartWorker, ledger, history, ControlInv, ControlOK
  <2>3. StepOK(r)'
    BY <2>1, <2>2 DEF StepInv, StepOK, BeforeWork, AtWork, Working, InStep, RunFailsFast, StepTold,
                      NotStarted, Published, Span, At
  <2>4. \A s \in Run \ {r} : StepOK(s)'
    BY <2>2, SameSteps
  <2>5. QED
    BY <2>3, <2>4 DEF StepInv
<1>6. CASE \/ TakeLock(t) \/ TickRefused(t) \/ TickDefers(t) \/ EditMart(t) \/ Refuse(t)
           \/ StartFails(t) \/ Close(t) \/ RequestDies(t)
  <2>1. UNCHANGED <<runs, steps, worker, begun, reported>>
    BY <1>6 DEF TakeLock, TickRefused, TickDefers, EditMart, Refuse, StartFails, Close, RequestDies,
                ledger, history
  <2>2. QED
    BY <2>1, SameSteps DEF StepInv
<1>7. QED
  BY <1>2, <1>3, <1>4, <1>5, <1>6 DEF RequestStep

\* A worker touches the rows and the history of its own run.
LEMMA WorkerElsewhere ==
  ASSUME LedgerInv, TypeHistory, NEW r \in Run, WorkerStep(r) \/ WorkerDies(r), NEW s \in Run \ {r}
  PROVE  /\ runs'[s] = runs[s] /\ steps'[s] = steps[s] /\ worker'[s] = worker[s]
         /\ begun'[s] = begun[s] /\ reported'[s] = reported[s]
BY DEF WorkerStep, WorkerStart, Gate, Refused, ClaimContent, Begin, Return, Raise, Record, RecordFails,
       HandleFailure, Finish, WorkerCloses, WorkerDies, ledger, history, Goto, Fail, LedgerInv, TypeRows,
       ControlInv, ControlOK, TypeHistory

\* The worker moves to c and may have failed with o; rows and history stay.
LEMMA MovedStepsTell ==
  ASSUME LedgerInv, TypeHistory, StepInv, NEW r \in Run, worker[r].pc \in Working,
         runs'[r] = runs[r], steps'[r] = steps[r], begun'[r] = begun[r], reported'[r] = reported[r],
         worker'[r].pos = worker[r].pos, worker'[r].pc \in InStep,
         \A i \in Span(r) : i = worker[r].pos => StepAsLeft(r, i)'
  PROVE  StepOK(r)'
<1>1. StepOK(r)
  BY DEF StepInv
<1>2. Span(r)' = Span(r)
  BY DEF Span
<1>3. \A i \in Span(r) : StepAsLeft(r, i)
  BY <1>1 DEF StepOK, AtWork
<1>4. worker[r].pos \in Int /\ Span(r) \subseteq Int
  BY DEF LedgerInv, ControlInv, ControlOK, Span
<1>5. AtWork(r)'
  BY <1>2, <1>3, <1>4 DEF AtWork, StepAsLeft, NotStarted
<1>6. RunFailsFast(r)' /\ \A i \in Pos : StepTold(r, i)'
  BY <1>1, <1>2 DEF StepOK, RunFailsFast, StepTold, Published, Span
<1>7. BeforeWork(r)'
  BY <1>1 DEF StepOK, BeforeWork, Working, InStep, At, Span
<1>8. QED
  BY <1>5, <1>6, <1>7 DEF StepOK

LEMMA OwnStepsTell ==
  ASSUME LedgerInv, TypeHistory, StepInv, NEW r \in Run, WorkerStep(r) \/ WorkerDies(r)
  PROVE  StepOK(r)'
<1>1. StepOK(r) /\ TypeRows
  BY DEF StepInv, LedgerInv
<1> DEFINE n == worker[r].pos
<1>2. /\ n \in Int /\ worker[r] \in [pc: WorkerPC, pos: Int, outcome: Outcome]
      /\ worker[r].pc \in InStep => n \in Span(r)
      /\ worker[r].pc \in Working => runs[r].status = "running"
      /\ At(r, "start") => runs[r].status = "queued"
      /\ ~At(r, "none") => n >= 1
  BY PlanFacts DEF LedgerInv, ControlInv, ControlOK, PlaceInv, InsidePlan, WorkerKeepsItsRun, Span, InStep,
                   Working, WorkerPC, At
<1>3. /\ DOMAIN runs[r].plan = Span(r) /\ Span(r) \subseteq Pos /\ Span(r) \subseteq Int
      /\ Len(runs[r].plan) \in Nat
  BY <1>1, PlanFacts DEF Span
<1>4. worker[r].pc \in Working => \A i \in Span(r) : StepAsLeft(r, i)
  BY <1>1 DEF StepOK, AtWork
<1> HIDE DEF n
<1>5. CASE WorkerStart(r)
  <2>1. /\ At(r, "start") /\ UNCHANGED <<steps, begun, reported>>
        /\ runs'[r].status = "running" /\ runs'[r].plan = runs[r].plan
        /\ worker'[r].pc = "gate" /\ worker'[r].pos = n
    BY <1>1, <1>2, <1>5 DEF WorkerStart, Goto, history, TypeRows, RunRow, LedgerInv, ControlInv, ControlOK, n
  <2>2. n = 1 /\ begun[r] = {} /\ reported[r] = {} /\ \A i \in Span(r) : steps[r][i] = "pending"
    BY <1>1, <1>2, <2>1 DEF StepOK, BeforeWork, n
  <2>3. Span(r)' = Span(r)
    BY <2>1 DEF Span
  <2>4. AtWork(r)'
    BY <1>3, <2>1, <2>2, <2>3 DEF AtWork, StepAsLeft, NotStarted, Span
  <2>5. BeforeWork(r)' /\ RunFailsFast(r)'
    BY <2>1, <2>2 DEF BeforeWork, RunFailsFast, At
  <2>6. \A i \in Pos : StepTold(r, i)'
    BY <1>1, <2>1, <2>2, <2>3 DEF StepOK, StepTold, Published
  <2>7. QED
    BY <2>4, <2>5, <2>6 DEF StepOK
<1>6. CASE Refused(r) \/ ClaimContent(r) \/ Raise(r) \/ RecordFails(r)
  <2>1. /\ UNCHANGED <<runs, steps, begun, reported>> /\ worker[r].pc \in Working
        /\ worker'[r].pos = n /\ worker'[r].pc \in InStep /\ n \in Span(r)
        /\ \/ At(r, "ready") /\ worker'[r].pc = "claimed"
           \/ worker[r].pc \in {"gate", "ready", "calling"} /\ worker'[r].pc = "handle"
           \/ /\ At(r, "record") /\ worker'[r].pc = "handle"
              /\ Current(r).action \in {"stage_export", "mart_refresh"} => worker'[r].outcome = "unknown"
    BY <1>2, <1>3, <1>6 DEF Refused, ClaimContent, Raise, RecordFails, ledger, history, Goto, Fail, At, Working,
             InStep, LedgerInv, ControlInv, ControlOK, n, Span
  <2>2. StepAsLeft(r, n)
    BY <1>4, <2>1
  <2>3. StepAsLeft(r, n)'
    BY <2>1, <2>2 DEF StepAsLeft, NotStarted, Published, Current, At, n
  <2>4. QED
    BY <2>1, <2>3, MovedStepsTell DEF n
<1>7. CASE Gate(r)
  <2>1. /\ At(r, "gate") /\ n \in Span(r) /\ UNCHANGED <<runs, begun, reported>>
        /\ worker'[r].pc = "ready" /\ worker'[r].pos = n
        /\ steps'[r][n] = "running" /\ \A i \in Pos \ {n} : steps'[r][i] = steps[r][i]
    BY <1>1, <1>2, <1>3, <1>7 DEF Gate, Goto, history, At, TypeRows, LedgerInv, ControlInv, ControlOK, n, Span
  <2>2. steps[r][n] = "pending" /\ NotStarted(r, n)
    BY <1>4, <2>1 DEF StepAsLeft, Working, At, n
  <2>3. AtWork(r)'
    BY <1>3, <1>4, <2>1, <2>2 DEF AtWork, StepAsLeft, NotStarted, Working, At, Span, n
  <2>4. BeforeWork(r)'
    BY <1>2, <2>1 DEF BeforeWork, At, Working
  <2>5. RunFailsFast(r)'
    BY <1>1, <1>2, <2>1, <2>2, HistoryFacts DEF StepOK, RunFailsFast, Working, At
  <2>6. \A i \in Pos : StepTold(r, i)'
    BY <1>1, <2>1, <2>2 DEF StepOK, StepTold, Published, Span
  <2>7. QED
    BY <2>3, <2>4, <2>5, <2>6 DEF StepOK
<1>8. CASE Begin(r)
  <2>1. /\ worker[r].pc \in {"ready", "claimed"} /\ n \in Span(r) /\ UNCHANGED <<runs, steps, reported>>
        /\ worker'[r].pc = "calling" /\ worker'[r].pos = n /\ begun'[r] = begun[r] \cup {n}
    BY <1>2, <1>8 DEF Begin, Goto, ledger, At, InStep, TypeHistory, LedgerInv, ControlInv, ControlOK, n
  <2>2. steps[r][n] = "running" /\ NotStarted(r, n)
    BY <1>4, <2>1 DEF StepAsLeft, Working, InStep, n
  <2>3. AtWork(r)'
    BY <1>3, <1>4, <2>1, <2>2 DEF AtWork, StepAsLeft, NotStarted, Working, InStep, Span, n
  <2>4. BeforeWork(r)'
    BY <1>2, <2>1 DEF BeforeWork, At, Working, InStep
  <2>5. \A j \in 1..(n - 1) : j \in Span(r) /\ steps[r][j] = "success"
    <3>1. ASSUME NEW j \in 1..(n - 1) PROVE j \in Span(r) /\ j < n
      BY <1>2, <1>3, <2>1 DEF Span
    <3>2. QED
      BY <1>4, <2>1, <3>1 DEF StepAsLeft, Working, InStep, n
  <2>6. RunFailsFast(r)'
    BY <1>1, <1>2, <2>1, <2>5 DEF StepOK, RunFailsFast, Working, InStep, Span
  <2>7. \A i \in Pos : StepTold(r, i)'
    BY <1>1, <2>1, <2>2 DEF StepOK, StepTold, Published, Span
  <2>8. QED
    BY <2>3, <2>4, <2>6, <2>7 DEF StepOK
<1>9. CASE Return(r)
  <2>1. /\ At(r, "calling") /\ n \in Span(r) /\ UNCHANGED <<runs, steps, begun>>
        /\ worker'[r].pc = "record" /\ worker'[r].pos = n /\ reported'[r] = reported[r] \cup {n}
    BY <1>2, <1>9 DEF Return, Goto, ledger, At, InStep, TypeHistory, LedgerInv, ControlInv, ControlOK, n
  <2>2. steps[r][n] = "running"
    BY <1>4, <2>1 DEF StepAsLeft, Working, InStep, n, At
  <2>3. AtWork(r)'
    BY <1>3, <1>4, <2>1, <2>2 DEF AtWork, StepAsLeft, NotStarted, Working, InStep, Span, n, At
  <2>4. BeforeWork(r)'
    BY <1>2, <2>1 DEF BeforeWork, At, Working, InStep
  <2>5. RunFailsFast(r)'
    BY <1>1, <2>1 DEF StepOK, RunFailsFast, Span
  <2>6. \A i \in Pos : StepTold(r, i)'
    BY <1>1, <2>1, <2>2 DEF StepOK, StepTold, Published, Span
  <2>7. QED
    BY <2>3, <2>4, <2>5, <2>6 DEF StepOK
<1>10. CASE Record(r)
  <2>1. /\ At(r, "record") /\ n \in Span(r) /\ UNCHANGED <<runs, begun, reported>>
        /\ worker'[r].pc = "gate" /\ worker'[r].pos = n + 1
        /\ steps'[r][n] = "success" /\ \A i \in Pos \ {n} : steps'[r][i] = steps[r][i]
    BY <1>1, <1>2, <1>3, <1>10 DEF Record, history, At, InStep, TypeRows, LedgerInv, ControlInv, ControlOK, n
  <2>2. steps[r][n] = "running" /\ n \in reported[r]
    BY <1>4, <2>1 DEF StepAsLeft, Working, InStep, At, n
  <2>3. AtWork(r)'
    <3>1. ASSUME NEW i \in Span(r) PROVE StepAsLeft(r, i)'
      BY <1>2, <1>3, <1>4, <2>1, <3>1 DEF StepAsLeft, NotStarted, Working, InStep, At, n
    <3>2. QED
      BY <2>1, <3>1 DEF AtWork, Span
  <2>4. BeforeWork(r)'
    BY <1>2, <2>1 DEF BeforeWork, At, Working, InStep
  <2>5. RunFailsFast(r)'
    BY <1>1, <1>2, <2>1, <2>2, HistoryFacts DEF StepOK, RunFailsFast, Working, InStep, At
  <2>6. \A i \in Pos : StepTold(r, i)'
    BY <1>1, <2>1, <2>2 DEF StepOK, StepTold, Published, Span
  <2>7. QED
    BY <2>3, <2>4, <2>5, <2>6 DEF StepOK
<1>11. CASE HandleFailure(r)
  <2>1. PICK s \in {"unknown", "failed"} :
          /\ worker[r].outcome = "unknown" => s = "unknown"
          /\ runs' = [runs EXCEPT ![r].status = s]
          /\ steps' = [steps EXCEPT ![r] =
               [i \in Pos |-> IF i = n THEN s
                              ELSE IF steps[r][i] = "pending" THEN "skipped" ELSE steps[r][i]]]
    BY <1>11 DEF HandleFailure, Uncertain, n
  <2>2. /\ At(r, "handle") /\ n \in Span(r) /\ UNCHANGED <<begun, reported>>
        /\ runs'[r].status = s /\ runs'[r].plan = runs[r].plan
        /\ worker'[r].pc = "closing"
    BY <1>1, <1>2, <1>11, <2>1 DEF HandleFailure, Goto, history, At, InStep, TypeRows, RunRow, LedgerInv,
       ControlInv, ControlOK
  <2>3. \A i \in Pos : steps'[r][i] = (IF i = n THEN s
                              ELSE IF steps[r][i] = "pending" THEN "skipped" ELSE steps[r][i])
    BY <1>1, <2>1 DEF TypeRows
  <2>4. /\ steps[r][n] \in {"pending", "running"}
        /\ Published(r, n) => s = "unknown"
    BY <1>4, <2>1, <2>2 DEF StepAsLeft, Working, InStep, At, n
  <2>5. Span(r)' = Span(r) /\ BeforeWork(r)' /\ AtWork(r)'
    BY <2>1, <2>2 DEF Span, BeforeWork, AtWork, Working, InStep, At
  <2>6. \A j \in Pos : steps[r][j] = "success" => steps'[r][j] = "success"
    BY <2>3, <2>4
  <2>7. RunFailsFast(r)'
    BY <1>1, <2>1, <2>2, <2>6, HistoryFacts DEF StepOK, RunFailsFast
  <2>8. \A i \in Pos : StepTold(r, i)'
    BY <1>1, <2>1, <2>2, <2>3, <2>4, <2>5 DEF StepOK, StepTold, Published
  <2>9. QED
    BY <2>5, <2>7, <2>8 DEF StepOK
<1>12. CASE Finish(r)
  <2>1. /\ At(r, "gate") /\ n > Len(runs[r].plan) /\ UNCHANGED <<steps, begun, reported>>
        /\ runs'[r].status = "success" /\ runs'[r].plan = runs[r].plan
        /\ worker'[r].pc = "closing"
    BY <1>1, <1>2, <1>12 DEF Finish, Goto, history, At, TypeRows, RunRow, LedgerInv, ControlInv, ControlOK, n
  <2>2. Span(r)' = Span(r) /\ BeforeWork(r)' /\ AtWork(r)'
    BY <2>1 DEF Span, BeforeWork, AtWork, Working, InStep, At
  <2>3. \A i \in Span(r) : steps[r][i] = "success"
    BY <1>2, <1>3, <1>4, <2>1 DEF StepAsLeft, Working, Span, At, n
  <2>4. RunFailsFast(r)'
    BY <1>1, <2>1, <2>2, <2>3 DEF StepOK, RunFailsFast
  <2>5. \A i \in Pos : StepTold(r, i)'
    BY <1>1, <2>1, <2>2 DEF StepOK, StepTold, Published
  <2>6. QED
    BY <2>2, <2>4, <2>5 DEF StepOK
<1>13. CASE WorkerCloses(r) \/ WorkerDies(r)
  <2>1. UNCHANGED <<runs, steps, begun, reported>> /\ worker'[r].pc = "none"
    BY <1>13 DEF WorkerCloses, WorkerDies, ledger, history, NoWorker, LedgerInv, ControlInv, ControlOK
  <2>2. QED
    BY <1>1, <2>1 DEF StepOK, BeforeWork, AtWork, RunFailsFast, StepTold, Published, Span, Working,
                      InStep, At
<1>14. QED
  BY <1>5, <1>6, <1>7, <1>8, <1>9, <1>10, <1>11, <1>12, <1>13 DEF WorkerStep

LEMMA StepNext == LedgerInv /\ TypeHistory /\ StepInv /\ [Next]_vars => StepInv'
<1> SUFFICES ASSUME LedgerInv, TypeHistory, StepInv, [Next]_vars PROVE StepInv'
  OBVIOUS
<1>1. ASSUME NEW r \in Run, WorkerStep(r) \/ WorkerDies(r) PROVE StepInv'
  BY <1>1, OwnStepsTell, WorkerElsewhere, SameSteps DEF StepInv
<1>2. CASE SaveSchedule \/ UNCHANGED vars
  <2>1. UNCHANGED <<runs, steps, worker, begun, reported>>
    BY <1>2 DEF SaveSchedule, threads, history, vars
  <2>2. QED
    BY <2>1, SameSteps DEF StepInv
<1>3. QED
  BY <1>1, <1>2, RequestStepsTell DEF Next

(***************************************************************************)
(* The plans: a scan never repeats a content key, only one file can be     *)
(* retried, imports stand alone, and a mart is only ever refreshed.        *)
(***************************************************************************)
Shapely(p) ==
  /\ \A i, n \in DOMAIN p : p[i].action = "stage_import" =>
       p[n].action = "stage_import" /\ (p[i].key = p[n].key => i = n)
  /\ \A i \in DOMAIN p : p[i].action = "stage_import" => p[i].key \in Key
  /\ \A i \in DOMAIN p : p[i].retry => DOMAIN p = {i}

Refreshes(p) == \A i \in DOMAIN p : p[i].action = "mart_refresh"

PlanInv == \A r \in Run : Shapely(runs[r].plan) /\ (runs[r].job \in Mart => Refreshes(runs[r].plan))

LEMMA PlansAreShaped ==
  /\ \A p \in JobPlans \cup MartPlans \cup ScanPlans \cup FilePlans \cup ExportPlans : Shapely(p)
  /\ \A p \in MartPlans : Refreshes(p)
  /\ Shapely(<< >>) /\ Refreshes(<< >>)
<1>1. \A p \in JobPlans : Shapely(p)
  <2>1. Plain("sql").action = "sql" /\ Plain("sql").retry = FALSE
    BY DEF Plain
  <2>2. \A n \in Pos : Shapely([i \in 1..n |-> Plain("sql")])
    BY <2>1 DEF Shapely
  <2>3. QED
    BY <2>2 DEF JobPlans
<1>2. \A p \in ScanPlans : Shapely(p)
  <2>1. Shapely(<<Plain("sql")>>)
    BY DEF Shapely, Plain
  <2>2. ASSUME NEW n \in Pos, NEW ks \in [1..n -> Key], \A i, j \in 1..n : ks[i] = ks[j] => i = j
        PROVE  Shapely([i \in 1..n |-> Import(ks[i], FALSE)])
    BY <2>2 DEF Shapely, Import
  <2>3. ASSUME NEW p \in ScanPlans, p # <<Plain("sql")>> PROVE Shapely(p)
    <3>1. PICK n \in Pos : p \in { [i \in 1..n |-> Import(ks[i], FALSE)] :
             ks \in { f \in [1..n -> Key] : \A i, j \in 1..n : f[i] = f[j] => i = j } }
      BY <2>3 DEF ScanPlans
    <3>2. PICK ks \in [1..n -> Key] : /\ \A i, j \in 1..n : ks[i] = ks[j] => i = j
                                      /\ p = [i \in 1..n |-> Import(ks[i], FALSE)]
      BY <3>1
    <3>3. QED
      BY <2>2, <3>2
  <2>4. QED
    BY <2>1, <2>3
<1>3. \A p \in FilePlans : Shapely(p)
  BY DEF FilePlans, Shapely, Import
<1>4. \A p \in MartPlans \cup ExportPlans : Shapely(p)
  BY DEF MartPlans, ExportPlans, Shapely, Plain
<1>5. \A p \in MartPlans : Refreshes(p)
  BY DEF MartPlans, Refreshes, Plain
<1>6. Shapely(<< >>) /\ Refreshes(<< >>)
  BY DEF Shapely, Refreshes
<1>7. QED
  BY <1>1, <1>2, <1>3, <1>4, <1>5, <1>6

LEMMA SchedulesAreShaped ==
  ASSUME NEW j \in JobName, NEW p \in SchedulePlans(j) \cup {<< >>}
  PROVE  p \in Plan /\ Shapely(p) /\ (j \in Mart => Refreshes(p))
<1>1. p \in JobPlans \cup MartPlans \cup ScanPlans \cup {<< >>} /\ (j \in Mart => p \in MartPlans \cup {<< >>})
  BY LedgerAssumption DEF SchedulePlans, JobName
<1>2. QED
  BY <1>1, PlansAreTyped, PlansAreShaped

\* A request inserts a row with such a plan under a new number; nothing else has a
\* plan or a job of its own to write.
Inserts(r, p) ==
  /\ r \in Run /\ p \in Plan /\ runs[r].status = "absent"
  /\ Shapely(p) /\ runs'[r].plan = p /\ (runs'[r].job \in Mart => Refreshes(p))

LEMMA RequestPlans ==
  ASSUME TypeRows, NEW t \in Request, RequestStep(t)
  PROVE  \A s \in Run : \/ runs'[s].plan = runs[s].plan /\ runs'[s].job = runs[s].job
                        \/ Inserts(s, runs'[s].plan)
<1>1. \A s \in Run : LostRuns(runs)[s].plan = runs[s].plan /\ LostRuns(runs)[s].job = runs[s].job
  BY DEF TypeRows, RunRow, LostRuns
<1>2. LostRuns(runs) \in [Run -> RunRow] /\ runs \in [Run -> RunRow]
  BY LostIsTyped DEF TypeRows
<1>3. ASSUME NEW r \in Run, NEW j \in JobName, NEW trigger, NEW p \in Plan, NEW once, Shapely(p),
             j \in Mart => Refreshes(p), Admit(t, r, j, trigger, p, once)
      PROVE  \A s \in Run : \/ runs'[s].plan = runs[s].plan /\ runs'[s].job = runs[s].job
                            \/ Inserts(s, runs'[s].plan)
  BY <1>1, <1>2, <1>3 DEF Admit, Fresh, Inserts
<1>4. ASSUME NEW rs \in {runs, LostRuns(runs)}, NEW ss, NEW en, NEW r \in Run, NEW j \in JobName,
             NEW p \in SchedulePlans(j) \cup {<< >>}, NEW off, SkippedRow(rs, ss, en, r, j, p, off)
      PROVE  \A s \in Run : \/ runs'[s].plan = runs[s].plan /\ runs'[s].job = runs[s].job
                            \/ Inserts(s, runs'[s].plan)
  <2>1. p \in Plan /\ Shapely(p) /\ (j \in Mart => Refreshes(p))
    BY SchedulesAreShaped
  <2>2. runs[r].status = "absent" /\ rs \in [Run -> RunRow]
        /\ runs' = [rs EXCEPT ![r] = [job |-> j, trigger |-> "schedule", plan |-> p, status |-> "skipped", created |-> 0]]
        /\ \A s \in Run : rs[s].plan = runs[s].plan /\ rs[s].job = runs[s].job
    BY <1>1, <1>2, <1>4 DEF SkippedRow, Fresh
  <2>3. runs'[r].plan = p /\ runs'[r].job = j /\ \A s \in Run \ {r} : runs'[s] = rs[s]
    BY <2>2
  <2>4. QED
    BY <2>1, <2>2, <2>3 DEF Inserts
<1>5. CASE SubmitRun(t)
  <2>1. PICK r \in Run, j \in Job, p \in JobPlans : Admit(t, r, j, "manual", p, FALSE)
    BY <1>5 DEF SubmitRun
  <2>2. QED
    BY <1>3, <2>1, PlansAreTyped, PlansAreShaped, LedgerAssumption DEF JobName
<1>6. CASE SubmitRefresh(t)
  <2>1. PICK r \in Run, j \in Mart, p \in MartPlans : Admit(t, r, j, "manual", p, FALSE)
    BY <1>6 DEF SubmitRefresh
  <2>2. QED
    BY <1>3, <2>1, PlansAreTyped, PlansAreShaped DEF JobName
<1>7. CASE SubmitImport(t) \/ SubmitExport(t)
  <2>1. PICK r \in Run, j \in Stage, p \in ScanPlans \cup FilePlans \cup ExportPlans :
          Admit(t, r, j, "stage", p, FALSE)
    BY <1>7 DEF SubmitImport, SubmitExport
  <2>2. QED
    BY <1>3, <2>1, PlansAreTyped, PlansAreShaped, LedgerAssumption DEF JobName
<1>8. CASE TickAdmit(t)
  <2>1. PICK r \in Run, j \in JobName, once \in BOOLEAN :
          \E p \in SchedulePlans(j) : Admit(t, r, j, "schedule", p, once)
    BY <1>8 DEF TickAdmit
  <2>2. PICK p \in SchedulePlans(j) : Admit(t, r, j, "schedule", p, once)
    BY <2>1
  <2>3. QED
    BY <1>3, <2>2, SchedulesAreShaped
<1>9. CASE TickSkip(t)
  <2>1. PICK r \in Run, j \in JobName, off \in BOOLEAN : \E p \in SchedulePlans(j) \cup {<< >>} :
          SkippedRow(LostRuns(runs), LostSteps(runs, steps), LostEnabled(runs, enabled), r, j, p, off)
    BY <1>9 DEF TickSkip
  <2>2. QED
    BY <1>4, <2>1
<1>10. CASE TickSkipBusy(t)
  <2>1. PICK r \in Run, j \in JobName, off \in BOOLEAN : \E p \in SchedulePlans(j) \cup {<< >>} :
          SkippedRow(runs, steps, enabled, r, j, p, off)
    BY <1>10 DEF TickSkipBusy
  <2>2. QED
    BY <1>4, <2>1
<1>11. CASE Recover(t) \/ SaveMartSchedule(t)
  BY <1>1, <1>11 DEF Recover, SaveMartSchedule
<1>12. CASE \/ TakeLock(t) \/ TickRefused(t) \/ TickDefers(t) \/ EditMart(t) \/ Refuse(t)
            \/ StartWorker(t) \/ StartFails(t) \/ Close(t) \/ RequestDies(t)
  BY <1>12 DEF TakeLock, TickRefused, TickDefers, EditMart, Refuse, StartWorker, StartFails, Close,
               RequestDies, ledger
<1>13. QED
  BY <1>5, <1>6, <1>7, <1>8, <1>9, <1>10, <1>11, <1>12 DEF RequestStep, Submit

LEMMA PlanNext == LedgerInv /\ PlanInv /\ [Next]_vars => PlanInv'
<1> SUFFICES ASSUME LedgerInv, PlanInv, [Next]_vars PROVE PlanInv'
  OBVIOUS
<1>1. TypeRows
  BY DEF LedgerInv
<1>2. ASSUME NEW t \in Request, RequestStep(t) PROVE PlanInv'
  <2>1. ASSUME NEW s \in Run
        PROVE  Shapely(runs'[s].plan) /\ (runs'[s].job \in Mart => Refreshes(runs'[s].plan))
    <3>1. CASE runs'[s].plan = runs[s].plan /\ runs'[s].job = runs[s].job
      BY <3>1 DEF PlanInv
    <3>2. CASE Inserts(s, runs'[s].plan)
      BY <3>2 DEF Inserts
    <3>3. QED
      BY <1>1, <1>2, <3>1, <3>2, RequestPlans
  <2>2. QED
    BY <2>1 DEF PlanInv
<1>3. ASSUME NEW r \in Run, WorkerStep(r) \/ WorkerDies(r) PROVE PlanInv'
  <2>1. runs' = runs \/ \E x \in RunStatus : runs' = [runs EXCEPT ![r].status = x]
    BY <1>3 DEF WorkerStep, WorkerStart, Gate, Refused, ClaimContent, Begin, Return, Raise, Record,
       RecordFails, HandleFailure, Finish, WorkerCloses, WorkerDies, ledger, RunStatus, Active, Terminal
  <2>2. \A s \in Run : runs'[s].plan = runs[s].plan /\ runs'[s].job = runs[s].job
    BY <1>1, <2>1 DEF TypeRows, RunRow
  <2>3. QED
    BY <2>2 DEF PlanInv
<1>4. CASE SaveSchedule \/ UNCHANGED vars
  BY <1>4 DEF SaveSchedule, vars, PlanInv
<1>5. QED
  BY <1>2, <1>3, <1>4 DEF Next

(***************************************************************************)
(* The claims on content                                                   *)
(***************************************************************************)
IsImport(r, i) == runs[r].plan[i].action = "stage_import"
KeyOf(r, i)    == runs[r].plan[i].key

ClaimIs(r, i, s)  == files[KeyOf(r, i)].status = s /\ files[KeyOf(r, i)].run = r
FirstTime(r, i)   == ~runs[r].plan[i].retry => ingests[KeyOf(r, i)] = 0
ClaimWaits(r, i)  == ClaimIs(r, i, "queued") /\ FirstTime(r, i)
ClaimClosed(r, i) == ~(files[KeyOf(r, i)].status \in Active /\ files[KeyOf(r, i)].run = r)

\* The row of the content of step i while a worker is at its run.
ClaimAsLeft(r, i) ==
  LET n == worker[r].pos
      c == worker[r].pc
  IN  /\ i < n => ClaimClosed(r, i)
      /\ i > n => ClaimWaits(r, i)
      /\ i = n =>
           /\ c \in {"gate", "ready"} => ClaimWaits(r, i)
           /\ c = "claimed" => ClaimIs(r, i, "running") /\ FirstTime(r, i)
           /\ c \in {"calling", "record"} => ClaimIs(r, i, "running")
           /\ c = "handle" => \/ ClaimIs(r, i, "running")
                              \/ ClaimIs(r, i, "queued") /\ i \notin begun[r]

ClaimOK(r) ==
  /\ runs[r].status = "queued" => \A i \in Span(r) : IsImport(r, i) => ClaimWaits(r, i)
  /\ worker[r].pc \in Working => \A i \in Span(r) : IsImport(r, i) => ClaimAsLeft(r, i)
  /\ At(r, "claimed") => IsImport(r, worker[r].pos)

FailedImport(r, i) == IsImport(r, i) /\ steps[r][i] = "failed" => i \notin begun[r]

NewIsNew == \A k \in Key : files[k].status = "new" => ingests[k] = 0

ClaimInv ==
  /\ \A r \in Run : ClaimOK(r)
  /\ \A r \in Run : \A i \in Span(r) : FailedImport(r, i)
  /\ OpenClaimsHaveARun
  /\ NewIsNew

LEMMA ClaimInit == Init => ClaimInv
BY DEF Init, ClaimInv, ClaimOK, FailedImport, OpenClaimsHaveARun, NewIsNew, NoRun, NoWorker, NoFile,
       Working, InStep, At, Span, Active

\* A run that is not unfinished has no claims to keep.
LEMMA NoClaims ==
  ASSUME NEW r \in Run, runs'[r].status \notin Active, worker'[r].pc \in {"none", "closing"}
  PROVE  ClaimOK(r)'
BY DEF ClaimOK, Active, Working, InStep, At

LEMMA SameClaims ==
  ASSUME ClaimInv, NEW r \in Run, runs'[r] = runs[r], worker'[r] = worker[r], begun'[r] = begun[r],
         UNCHANGED <<files, ingests>>
  PROVE  ClaimOK(r)'
<1>1. ASSUME NEW i
      PROVE  /\ IsImport(r, i)' <=> IsImport(r, i)
             /\ ClaimWaits(r, i)' <=> ClaimWaits(r, i)
  BY DEF IsImport, KeyOf, ClaimIs, FirstTime, ClaimWaits
<1>2. ASSUME NEW i
      PROVE  ClaimAsLeft(r, i)' <=> ClaimAsLeft(r, i)
  BY DEF ClaimAsLeft, ClaimIs, FirstTime, ClaimWaits, ClaimClosed, KeyOf
<1>3. Span(r)' = Span(r) /\ \A c : At(r, c)' <=> At(r, c)
  BY DEF Span, At
<1>4. ClaimOK(r)
  BY DEF ClaimInv
<1>5. QED
  BY <1>1, <1>2, <1>3, <1>4 DEF ClaimOK

\* _lost leaves no claim open: each belongs to an unfinished run.
LEMMA LostClosesClaims ==
  ASSUME TypeRows, OpenClaimsHaveARun, NEW k \in Key
  PROVE  /\ LostFiles(runs, files)[k].status \notin Active
         /\ LostFiles(runs, files)[k].status = "new" => files[k].status = "new"
BY DEF TypeRows, FileRow, OpenClaimsHaveARun, LostFiles, Active, Unfinished

LEMMA LostKeepsFailures ==
  ASSUME TypeRows, ClaimInv, NEW r \in Run, begun'[r] = begun[r],
         runs'[r] = LostRuns(runs)[r], steps'[r] = LostSteps(runs, steps)[r]
  PROVE  \A i \in Span(r)' : FailedImport(r, i)'
<1>1. runs'[r].plan = runs[r].plan
  BY DEF TypeRows, RunRow, LostRuns
<1>2. Span(r) \subseteq Pos
  BY PlanFacts
<1>3. \A i \in Pos : steps'[r][i] = "failed" => steps[r][i] = "failed"
  BY DEF LostSteps, LostStep
<1>4. QED
  BY <1>1, <1>2, <1>3 DEF ClaimInv, FailedImport, IsImport, Span

LEMMA InsertedHasNotFailed ==
  ASSUME NEW r \in Run, NEW p \in Plan, NEW s \in {"pending", "skipped"}, runs'[r].plan = p,
         steps'[r] = NewSteps(p, s)
  PROVE  \A i \in Span(r)' : FailedImport(r, i)'
<1>1. Span(r)' \subseteq Pos
  BY LenProperties, LedgerAssumption DEF Span, Plan, Pos
<1>2. QED
  BY <1>1 DEF NewSteps, FailedImport

LEMMA AdmitClaims ==
  ASSUME LedgerInv, ClaimInv, NEW t \in Request, NEW r \in Run, NEW j, NEW trigger,
         NEW p \in Plan, Shapely(p), NEW once, Admit(t, r, j, trigger, p, once)
  PROVE  ClaimInv'
<1>1. TypeRows /\ ControlInv /\ OpenClaimsHaveARun /\ NewIsNew
  BY DEF LedgerInv, ClaimInv
<1>2. (\A s \in Run : worker[s].pc = "none") /\ UNCHANGED <<worker, begun, ingests>>
  BY <1>1, HolderIsAlone DEF Admit, HoldsLock, At, history
<1> DEFINE fs == LostFiles(runs, files)
<1>3. /\ LostRuns(runs) \in [Run -> RunRow] /\ LostSteps(runs, steps) \in [Run -> [Pos -> StepStatus]]
      /\ fs \in [Key -> FileRow]
  BY <1>1, LostIsTyped
<1>4. /\ runs'[r].plan = p /\ runs'[r].status = "queued" /\ steps'[r] = NewSteps(p, "pending")
      /\ \A s \in Run \ {r} : runs'[s] = LostRuns(runs)[s] /\ steps'[s] = LostSteps(runs, steps)[s]
  BY <1>3 DEF Admit
<1>5. /\ \A k \in Key : files'[k] = IF Imports(p, k) THEN [status |-> "queued", run |-> r] ELSE fs[k]
      /\ Claimable(p, fs)
  BY DEF Admit, Claimed
<1>6. \A k \in Key : fs[k].status \notin Active /\ (fs[k].status = "new" => files[k].status = "new")
  BY <1>1, LostClosesClaims
<1> HIDE DEF fs
<1>7. \A s \in Run \ {r} : ClaimOK(s)'
  BY <1>1, <1>2, <1>4, LostSettles, NoClaims
<1>8. ClaimOK(r)'
  <2>1. Span(r)' = DOMAIN p
    BY <1>4, LenProperties DEF Span, Plan
  <2>2. ASSUME NEW i \in DOMAIN p, p[i].action = "stage_import"
        PROVE  /\ p[i].key \in Key /\ files'[p[i].key] = [status |-> "queued", run |-> r]
               /\ ~p[i].retry => ingests'[p[i].key] = 0
    <3>1. p[i].key \in Key /\ Imports(p, p[i].key)
      BY <2>2 DEF Shapely, Imports
    <3>2. ~p[i].retry => files[p[i].key].status = "new"
      BY <1>5, <1>6, <2>2, <3>1 DEF Claimable
    <3>3. QED
      BY <1>1, <1>2, <1>5, <3>1, <3>2 DEF NewIsNew
  <2>3. \A i \in Span(r)' : IsImport(r, i)' => ClaimWaits(r, i)'
    BY <1>4, <2>1, <2>2 DEF IsImport, ClaimWaits, ClaimIs, FirstTime, KeyOf
  <2>4. QED
    BY <1>2, <2>3 DEF ClaimOK, Working, InStep, At
<1>9. \A s \in Run : \A i \in Span(s)' : FailedImport(s, i)'
  BY <1>1, <1>2, <1>4, LostKeepsFailures, InsertedHasNotFailed
<1>10. OpenClaimsHaveARun'
  <2>1. r \in Unfinished(runs')
    BY <1>4 DEF Unfinished, Active
  <2>2. ASSUME NEW k \in Key, files'[k].status \in Active
        PROVE  files'[k].run = r /\ Imports(runs'[r].plan, k)
    BY <1>4, <1>5, <1>6, <2>2
  <2>3. QED
    BY <2>1, <2>2 DEF OpenClaimsHaveARun
<1>11. NewIsNew'
  BY <1>1, <1>2, <1>5, <1>6 DEF NewIsNew
<1>12. QED
  BY <1>7, <1>8, <1>9, <1>10, <1>11 DEF ClaimInv

\* A recovery by the holder of the lock, with or without a skipped row.
LEMMA RecoveryClaims ==
  ASSUME LedgerInv, ClaimInv, NEW t \in Request, TickSkip(t) \/ Recover(t) \/ SaveMartSchedule(t)
  PROVE  ClaimInv'
<1>1. TypeRows /\ ControlInv /\ OpenClaimsHaveARun /\ NewIsNew
  BY DEF LedgerInv, ClaimInv
<1>2. (\A s \in Run : worker[s].pc = "none") /\ UNCHANGED <<worker, begun, ingests>>
  BY <1>1, HolderIsAlone DEF TickSkip, Recover, SaveMartSchedule, HoldsLock, At, history
<1>3. LostRuns(runs) \in [Run -> RunRow] /\ LostSteps(runs, steps) \in [Run -> [Pos -> StepStatus]]
  BY <1>1, LostIsTyped
<1>4. \A s \in Run :
        \/ runs'[s] = LostRuns(runs)[s] /\ steps'[s] = LostSteps(runs, steps)[s]
        \/ /\ runs'[s].status = "skipped" /\ runs'[s].plan \in Plan
           /\ steps'[s] = NewSteps(runs'[s].plan, "skipped")
  <2>1. CASE TickSkip(t)
    <3>1. PICK r \in Run, j \in JobName, off \in BOOLEAN : \E p \in SchedulePlans(j) \cup {<< >>} :
            SkippedRow(LostRuns(runs), LostSteps(runs, steps), LostEnabled(runs, enabled), r, j, p, off)
      BY <2>1 DEF TickSkip
    <3>2. PICK p \in SchedulePlans(j) \cup {<< >>} :
            SkippedRow(LostRuns(runs), LostSteps(runs, steps), LostEnabled(runs, enabled), r, j, p, off)
      BY <3>1
    <3>3. p \in Plan
      BY PlansAreTyped
    <3>4. runs'[r].status = "skipped" /\ runs'[r].plan = p /\ steps'[r] = NewSteps(p, "skipped")
      BY <1>3, <3>2 DEF SkippedRow
    <3>5. \A s \in Run \ {r} : runs'[s] = LostRuns(runs)[s] /\ steps'[s] = LostSteps(runs, steps)[s]
      BY <1>3, <3>2 DEF SkippedRow
    <3>6. QED
      BY <3>3, <3>4, <3>5
  <2>2. CASE Recover(t) \/ SaveMartSchedule(t)
    BY <2>2 DEF Recover, SaveMartSchedule
  <2>3. QED
    BY <2>1, <2>2
<1>5. files' = LostFiles(runs, files)
  BY DEF TickSkip, Recover, SaveMartSchedule
<1>6. \A s \in Run : runs'[s].status \notin Active
  BY <1>1, <1>4, LostSettles DEF Active
<1>7. \A s \in Run : ClaimOK(s)'
  BY <1>2, <1>6, NoClaims
<1>8. \A s \in Run : \A i \in Span(s)' : FailedImport(s, i)'
  BY <1>1, <1>2, <1>4, LostKeepsFailures, InsertedHasNotFailed
<1>9. OpenClaimsHaveARun' /\ NewIsNew'
  <2>1. \A k \in Key : /\ files'[k].status \notin Active
                       /\ files'[k].status = "new" => files[k].status = "new"
    BY <1>1, <1>5, LostClosesClaims
  <2>2. QED
    BY <1>1, <1>2, <2>1 DEF OpenClaimsHaveARun, NewIsNew
<1>10. QED
  BY <1>7, <1>8, <1>9 DEF ClaimInv

\* A slot skipped beside a worker adds a row without claims.
LEMMA SkipBusyClaims ==
  ASSUME LedgerInv, ClaimInv, NEW t \in Request, TickSkipBusy(t)
  PROVE  ClaimInv'
<1>1. TypeRows /\ UNCHANGED <<worker, begun, files, ingests>>
  BY DEF LedgerInv, TickSkipBusy, history
<1>2. PICK r \in Run, j \in JobName, off \in BOOLEAN : \E p \in SchedulePlans(j) \cup {<< >>} :
        SkippedRow(runs, steps, enabled, r, j, p, off)
  BY DEF TickSkipBusy
<1>3. PICK p \in SchedulePlans(j) \cup {<< >>} : SkippedRow(runs, steps, enabled, r, j, p, off)
  BY <1>2
<1>4. p \in Plan
  BY PlansAreTyped
<1>5. /\ runs[r].status = "absent" /\ runs'[r].status = "skipped" /\ runs'[r].plan = p
      /\ steps'[r] = NewSteps(p, "skipped")
      /\ \A s \in Run \ {r} : runs'[s] = runs[s] /\ steps'[s] = steps[s]
  BY <1>1, <1>3 DEF SkippedRow, Fresh, TypeRows
<1>6. worker[r].pc \in {"none", "closing"}
  BY <1>5 DEF LedgerInv, PlaceInv, WorkerKeepsItsRun, At, WorkerPC, ControlInv, ControlOK
<1>7. \A s \in Run : ClaimOK(s)'
  BY <1>1, <1>5, <1>6, NoClaims, SameClaims DEF Active
<1>8. \A s \in Run \ {r} : \A i \in Span(s)' : FailedImport(s, i)'
  BY <1>1, <1>5 DEF ClaimInv, FailedImport, IsImport, Span
<1>9. \A i \in Span(r)' : FailedImport(r, i)'
  BY <1>4, <1>5, InsertedHasNotFailed
<1>10. OpenClaimsHaveARun'
  <2>1. ASSUME NEW s \in Unfinished(runs) PROVE s \in Unfinished(runs') /\ runs'[s] = runs[s]
    BY <1>5, <2>1 DEF Unfinished, Active
  <2>2. QED
    BY <1>1, <2>1 DEF ClaimInv, OpenClaimsHaveARun
<1>11. NewIsNew'
  BY <1>1 DEF ClaimInv, NewIsNew
<1>12. QED
  BY <1>7, <1>8, <1>9, <1>10, <1>11 DEF ClaimInv

LEMMA RequestClaims ==
  ASSUME LedgerInv, ClaimInv, NEW t \in Request, RequestStep(t)
  PROVE  ClaimInv'
<1>1. CASE Submit(t)
  <2>1. PICK r \in Run, j \in JobName, trigger \in {"manual", "stage"},
             p \in JobPlans \cup MartPlans \cup ScanPlans \cup FilePlans \cup ExportPlans :
          Admit(t, r, j, trigger, p, FALSE)
    BY <1>1 DEF Submit, SubmitRun, SubmitRefresh, SubmitImport, SubmitExport, JobName
  <2>2. QED
    BY <2>1, AdmitClaims, PlansAreTyped, PlansAreShaped
<1>2. CASE TickAdmit(t)
  <2>1. PICK r \in Run, j \in JobName, once \in BOOLEAN :
          \E p \in SchedulePlans(j) : Admit(t, r, j, "schedule", p, once)
    BY <1>2 DEF TickAdmit
  <2>2. PICK p \in SchedulePlans(j) : Admit(t, r, j, "schedule", p, once)
    BY <2>1
  <2>3. QED
    BY <2>2, AdmitClaims, SchedulesAreShaped
<1>3. CASE TickSkip(t) \/ Recover(t) \/ SaveMartSchedule(t)
  BY <1>3, RecoveryClaims
<1>4. CASE TickSkipBusy(t)
  BY <1>4, SkipBusyClaims
<1>5. CASE StartWorker(t)
  <2>1. PICK r \in Run : r = reg[t]
    BY <1>5 DEF StartWorker, LedgerInv, ControlInv, ControlOK
  <2>2. /\ worker'[r].pc = "start" /\ \A s \in Run \ {r} : worker'[s] = worker[s]
        /\ UNCHANGED <<runs, steps, files, begun, ingests>>
    BY <1>5, <2>1 DEF StartWorker, ledger, history, LedgerInv, ControlInv, ControlOK
  <2>3. ClaimOK(r)'
    BY <2>2 DEF ClaimInv, ClaimOK, ClaimIs, FirstTime, ClaimWaits, IsImport, KeyOf, Span, At, Working, InStep
  <2>4. \A s \in Run \ {r} : ClaimOK(s)'
    BY <2>2, SameClaims
  <2>5. QED
    BY <2>2, <2>3, <2>4 DEF ClaimInv, FailedImport, IsImport, Span, OpenClaimsHaveARun, NewIsNew
<1>6. CASE \/ TakeLock(t) \/ TickRefused(t) \/ TickDefers(t) \/ EditMart(t) \/ Refuse(t)
           \/ StartFails(t) \/ Close(t) \/ RequestDies(t)
  <2>1. UNCHANGED <<runs, steps, files, worker, begun, ingests>>
    BY <1>6 DEF TakeLock, TickRefused, TickDefers, EditMart, Refuse, StartFails, Close, RequestDies,
                ledger, history
  <2>2. QED
    BY <2>1, SameClaims DEF ClaimInv, FailedImport, IsImport, Span, OpenClaimsHaveARun, NewIsNew
<1>7. QED
  BY <1>1, <1>2, <1>3, <1>4, <1>5, <1>6 DEF RequestStep

\* An open claim belongs to the one unfinished run and is in its plan.
LEMMA OpenIsMine ==
  ASSUME LedgerInv, ClaimInv, NEW r \in Run, runs[r].status \in Active,
         NEW k \in Key, files[k].status \in Active
  PROVE  files[k].run = r /\ \E i \in Span(r) : IsImport(r, i) /\ KeyOf(r, i) = k
<1>1. PICK s \in Unfinished(runs) : files[k].run = s /\ Imports(runs[s].plan, k)
  BY DEF ClaimInv, OpenClaimsHaveARun
<1>2. s = r
  BY DEF LedgerInv, PlaceInv, OneActive, Unfinished
<1>3. DOMAIN runs[r].plan = Span(r)
  BY PlanFacts DEF LedgerInv
<1>4. QED
  BY <1>1, <1>2, <1>3 DEF Imports, IsImport, KeyOf

\* Every import of a run has a content key of its own; imports stand alone.
LEMMA ImportsApart ==
  ASSUME LedgerInv, PlanInv, NEW r \in Run, NEW i \in Span(r), NEW n \in Span(r), IsImport(r, i)
  PROVE  /\ IsImport(r, n) /\ KeyOf(r, i) \in Key
         /\ i # n => KeyOf(r, i) # KeyOf(r, n) /\ ~runs[r].plan[i].retry
<1>1. DOMAIN runs[r].plan = Span(r)
  BY PlanFacts DEF LedgerInv
<1>2. QED
  BY <1>1 DEF PlanInv, Shapely, IsImport, KeyOf

\* Where the worker is, and what it finds there.
LEMMA WorkerPlaceFacts ==
  ASSUME LedgerInv, StepInv, ClaimInv, NEW r \in Run
  PROVE  /\ worker[r] \in [pc: WorkerPC, pos: Int, outcome: Outcome] /\ Span(r) \subseteq Int
         /\ worker[r].pc \in InStep => worker[r].pos \in Span(r)
         /\ worker[r].pc \in Working => runs[r].status = "running"
         /\ worker[r].pc \in Working => \A i \in Span(r) : StepAsLeft(r, i)
         /\ worker[r].pc \in Working => \A i \in Span(r) : IsImport(r, i) => ClaimAsLeft(r, i)
         /\ At(r, "start") => runs[r].status = "queued" /\ worker[r].pos = 1
         /\ ~At(r, "none") => worker[r].pos >= 1
<1>1. TypeRows
  BY DEF LedgerInv
<1>2. Len(runs[r].plan) \in Nat
  BY <1>1, PlanFacts
<1>3. StepOK(r) /\ ClaimOK(r)
  BY DEF StepInv, ClaimInv
<1>4. /\ worker[r] \in [pc: WorkerPC, pos: Int, outcome: Outcome]
      /\ worker[r].pc \in Working => runs[r].status = "running"
      /\ At(r, "start") => runs[r].status = "queued"
      /\ ~At(r, "none") => worker[r].pos >= 1
      /\ worker[r].pc \in InStep => worker[r].pos <= Len(runs[r].plan)
  BY DEF LedgerInv, ControlInv, ControlOK, PlaceInv, InsidePlan, WorkerKeepsItsRun, InStep, Working,
         WorkerPC, At
<1>5. worker[r].pc \in InStep => worker[r].pos \in Span(r)
  BY <1>2, <1>4 DEF Span, InStep, At
<1>6. QED
  BY <1>2, <1>3, <1>4, <1>5 DEF Span, StepOK, BeforeWork, AtWork, ClaimOK

\* Beside a live worker no other run has claims to keep.
LEMMA OthersClaimNothing ==
  ASSUME LedgerInv, TypeHistory, ClaimInv, NEW r \in Run, WorkerStep(r), runs[r].status \in Active,
         NEW s \in Run \ {r}
  PROVE  ClaimOK(s)'
<1>1. ~At(r, "none")
  BY DEF WorkerStep, WorkerStart, Gate, Refused, ClaimContent, Begin, Return, Raise, Record, RecordFails,
         HandleFailure, Finish, WorkerCloses, At
<1>2. worker[s].pc = "none"
  BY <1>1 DEF LedgerInv, ControlInv, OneActor, At
<1>3. runs[s].status \notin Active
  BY DEF LedgerInv, PlaceInv, OneActive, Unfinished
<1>4. runs'[s] = runs[s] /\ worker'[s] = worker[s]
  BY WorkerElsewhere
<1>5. QED
  BY <1>2, <1>3, <1>4, NoClaims

\* Open claims stay with the run while the worker is at it.
LEMMA OpenStays ==
  ASSUME LedgerInv, ClaimInv, NEW r \in Run, runs[r].status \in Active, runs'[r].status \in Active,
         runs'[r].plan = runs[r].plan, \A s \in Run \ {r} : runs'[s] = runs[s],
         \A k \in Key : files'[k].status \in Active =>
           files[k].status \in Active /\ files'[k].run = files[k].run
  PROVE  OpenClaimsHaveARun'
<1>1. r \in Unfinished(runs')
  BY DEF Unfinished
<1>2. ASSUME NEW k \in Key, files'[k].status \in Active
      PROVE  files'[k].run = r /\ Imports(runs'[r].plan, k)
  <2>1. files[k].status \in Active /\ files'[k].run = files[k].run
    BY <1>2
  <2>2. DOMAIN runs[r].plan = Span(r)
    BY PlanFacts DEF LedgerInv
  <2>3. QED
    BY <2>1, <2>2, OpenIsMine DEF Imports, IsImport, KeyOf
<1>3. QED
  BY <1>1, <1>2 DEF OpenClaimsHaveARun

LEMMA OwnClaims ==
  ASSUME LedgerInv, TypeHistory, PlanInv, StepInv, ClaimInv, NEW r \in Run, WorkerStep(r) \/ WorkerDies(r)
  PROVE  ClaimOK(r)'
<1> DEFINE n == worker[r].pos
<1>1. /\ worker[r] \in [pc: WorkerPC, pos: Int, outcome: Outcome] /\ Span(r) \subseteq Int
      /\ worker[r].pc \in InStep => n \in Span(r)
      /\ worker[r].pc \in Working => runs[r].status = "running"
      /\ worker[r].pc \in Working => \A i \in Span(r) : StepAsLeft(r, i)
      /\ worker[r].pc \in Working => \A i \in Span(r) : IsImport(r, i) => ClaimAsLeft(r, i)
      /\ At(r, "start") => runs[r].status = "queued" /\ n = 1
      /\ ~At(r, "none") => n >= 1
      /\ n \in Int
  BY WorkerPlaceFacts
<1>2. /\ worker \in [Run -> [pc: WorkerPC, pos: Int, outcome: Outcome]]
      /\ runs \in [Run -> RunRow] /\ files \in [Key -> FileRow]
      /\ begun \in [Run -> SUBSET Pos] /\ ingests \in [Key -> Nat]
      /\ runs[r] \in RunRow
  BY DEF LedgerInv, ControlInv, ControlOK, TypeRows, TypeHistory
<1>3. ClaimOK(r)
  BY DEF ClaimInv
<1> HIDE DEF n
<1>4. CASE WorkerStart(r)
  <2>1. /\ At(r, "start") /\ UNCHANGED <<files, begun, ingests>>
        /\ runs'[r].status = "running" /\ runs'[r].plan = runs[r].plan
        /\ worker'[r].pc = "gate" /\ worker'[r].pos = 1
    BY <1>1, <1>2, <1>4 DEF WorkerStart, Goto, history, RunRow, At, n
  <2>2. \A i \in Span(r) : IsImport(r, i) => ClaimWaits(r, i)
    BY <1>1, <1>3, <2>1 DEF ClaimOK
  <2>3. Span(r)' = Span(r) /\ \A i \in Span(r) : i >= 1
    BY <2>1 DEF Span
  <2>4. QED
    BY <1>1, <2>1, <2>2, <2>3 DEF ClaimOK, ClaimAsLeft, ClaimWaits, ClaimIs, FirstTime, IsImport, KeyOf, At
<1>5. CASE Gate(r) \/ Refused(r) \/ Return(r) \/ Raise(r) \/ RecordFails(r)
  <2>1. /\ UNCHANGED <<runs, files, begun, ingests>> /\ worker[r].pc \in Working /\ worker'[r].pos = n
        /\ \/ At(r, "gate") /\ worker'[r].pc = "ready"
           \/ worker[r].pc \in {"gate", "ready"} /\ worker'[r].pc = "handle"
           \/ At(r, "calling") /\ worker'[r].pc \in {"record", "handle"}
           \/ At(r, "record") /\ worker'[r].pc = "handle"
    BY <1>1, <1>2, <1>5 DEF Gate, Refused, Return, Raise, RecordFails, Goto, Fail, ledger, history, At,
       Working, InStep, n
  <2>2. \A i \in Span(r) : i = n /\ worker[r].pc \in {"gate", "ready"} => i \notin begun[r]
    BY <1>1, <2>1 DEF StepAsLeft, NotStarted, n
  <2>3. ASSUME NEW i \in Span(r), IsImport(r, i) PROVE ClaimAsLeft(r, i)'
    <3>1. ClaimAsLeft(r, i)
      BY <1>1, <2>1, <2>3
    <3>2. /\ ClaimClosed(r, i)' <=> ClaimClosed(r, i)
          /\ ClaimWaits(r, i)' <=> ClaimWaits(r, i)
          /\ ClaimIs(r, i, "running")' <=> ClaimIs(r, i, "running")
          /\ ClaimIs(r, i, "queued")' <=> ClaimIs(r, i, "queued")
          /\ ClaimWaits(r, i) => ClaimIs(r, i, "queued")
      BY <2>1 DEF ClaimWaits, ClaimIs, FirstTime, ClaimClosed, KeyOf
    <3>3. CASE i = n
      <4>1. worker[r].pc = "gate" \/ worker[r].pc = "ready" => ClaimWaits(r, i) /\ i \notin begun[r]
        BY <2>2, <3>1, <3>3 DEF ClaimAsLeft, n
      <4>2. worker[r].pc = "calling" \/ worker[r].pc = "record" => ClaimIs(r, i, "running")
        BY <3>1, <3>3 DEF ClaimAsLeft, n
      <4>3. n \in Int
        BY <1>1
      <4>4. CASE worker'[r].pc = "ready"
        <5>1. ClaimWaits(r, i)'
          BY <2>1, <3>2, <4>1, <4>4 DEF At
        <5>2. QED
          BY <2>1, <3>3, <4>3, <4>4, <5>1 DEF ClaimAsLeft
      <4>5. CASE worker'[r].pc = "record"
        <5>1. ClaimIs(r, i, "running")'
          BY <2>1, <3>2, <4>2, <4>5 DEF At
        <5>2. QED
          BY <2>1, <3>3, <4>3, <4>5, <5>1 DEF ClaimAsLeft
      <4>6. CASE worker'[r].pc = "handle"
        <5>1. (ClaimIs(r, i, "queued") /\ i \notin begun[r]) \/ ClaimIs(r, i, "running")
          BY <2>1, <3>2, <4>1, <4>2, <4>6 DEF At
        <5>2. (ClaimIs(r, i, "queued")' /\ i \notin begun'[r]) \/ ClaimIs(r, i, "running")'
          BY <2>1, <3>2, <5>1
        <5>3. QED
          BY <2>1, <3>3, <4>3, <4>6, <5>2 DEF ClaimAsLeft
      <4>7. QED
        BY <2>1, <4>4, <4>5, <4>6 DEF At
    <3>4. CASE i # n
      BY <2>1, <3>1, <3>2, <3>4 DEF ClaimAsLeft, n
    <3>5. QED
      BY <3>3, <3>4
  <2>4. QED
    BY <1>1, <2>1, <2>3 DEF ClaimOK, IsImport, Span, At
<1>6. CASE ClaimContent(r)
  <2>1. /\ At(r, "ready") /\ IsImport(r, n) /\ UNCHANGED <<runs, begun, ingests>>
        /\ worker'[r].pc = "claimed" /\ worker'[r].pos = n /\ n \in Span(r)
        /\ files' = [files EXCEPT ![KeyOf(r, n)].status = "running"]
    BY <1>1, <1>2, <1>6 DEF ClaimContent, Goto, history, Current, IsImport, KeyOf, At, InStep, n
  <2>2. KeyOf(r, n) \in Key /\ \A i \in Span(r) \ {n} : KeyOf(r, i) \in Key /\ KeyOf(r, i) # KeyOf(r, n)
    BY <2>1, ImportsApart
  <2>3. /\ files'[KeyOf(r, n)].status = "running" /\ files'[KeyOf(r, n)].run = files[KeyOf(r, n)].run
        /\ \A i \in Span(r) \ {n} : files'[KeyOf(r, i)] = files[KeyOf(r, i)]
    BY <1>2, <2>1, <2>2 DEF FileRow
  <2>4. ASSUME NEW i \in Span(r), IsImport(r, i) PROVE ClaimAsLeft(r, i)'
    <3>1. ClaimAsLeft(r, i)
      BY <1>1, <2>1, <2>4 DEF Working, InStep, At
    <3>2. CASE i = n
      <4>1. ClaimWaits(r, i)
        BY <2>1, <3>1, <3>2 DEF ClaimAsLeft, At, n
      <4>2. ClaimIs(r, i, "running")' /\ FirstTime(r, i)'
        BY <2>1, <2>3, <3>2, <4>1 DEF ClaimWaits, ClaimIs, FirstTime, KeyOf
      <4>3. QED
        BY <1>1, <2>1, <3>2, <4>2 DEF ClaimAsLeft
    <3>3. CASE i # n
      <4>1. (ClaimClosed(r, i)' <=> ClaimClosed(r, i)) /\ (ClaimWaits(r, i)' <=> ClaimWaits(r, i))
        BY <2>1, <2>3, <3>3 DEF ClaimWaits, ClaimIs, FirstTime, ClaimClosed, KeyOf
      <4>2. QED
        BY <1>1, <2>1, <3>1, <3>3, <4>1 DEF ClaimAsLeft, n
    <3>4. QED
      BY <3>2, <3>3
  <2>5. QED
    BY <1>1, <2>1, <2>4 DEF ClaimOK, IsImport, Span, At, Working, InStep
<1>7. CASE Begin(r)
  <2>1. /\ worker[r].pc \in {"ready", "claimed"} /\ UNCHANGED <<runs, files>> /\ n \in Span(r)
        /\ worker'[r].pc = "calling" /\ worker'[r].pos = n
        /\ \/ ~IsImport(r, n)
           \/ At(r, "claimed") /\ ingests' = [ingests EXCEPT ![KeyOf(r, n)] = @ + 1]
    BY <1>1, <1>2, <1>7 DEF Begin, Goto, ledger, Current, IsImport, KeyOf, At, InStep, n
  <2>2. ASSUME NEW i \in Span(r), IsImport(r, i) PROVE ClaimAsLeft(r, i)'
    <3>1. IsImport(r, n) /\ KeyOf(r, i) \in Key /\ (i # n => KeyOf(r, i) # KeyOf(r, n))
      BY <2>1, <2>2, ImportsApart
    <3>2. At(r, "claimed") /\ (i # n => ingests'[KeyOf(r, i)] = ingests[KeyOf(r, i)])
      BY <1>2, <2>1, <3>1
    <3>3. ClaimAsLeft(r, i)
      BY <1>1, <2>1, <2>2 DEF Working, InStep
    <3>4. QED
      BY <1>1, <2>1, <3>2, <3>3 DEF ClaimAsLeft, ClaimWaits, ClaimIs, FirstTime, ClaimClosed, KeyOf, At, n
  <2>3. QED
    BY <1>1, <2>1, <2>2 DEF ClaimOK, IsImport, Span, At, Working, InStep
<1>8. CASE Record(r)
  <2>1. /\ At(r, "record") /\ UNCHANGED <<runs, begun, ingests>> /\ n \in Span(r)
        /\ worker'[r].pc = "gate" /\ worker'[r].pos = n + 1
        /\ files' = IF IsImport(r, n) /\ files[KeyOf(r, n)].run = r
                      THEN [files EXCEPT ![KeyOf(r, n)].status = "success"] ELSE files
    BY <1>1, <1>2, <1>8 DEF Record, history, HasClaim, Current, IsImport, KeyOf, At, InStep, n
  <2>2. ASSUME NEW i \in Span(r), IsImport(r, i) PROVE ClaimAsLeft(r, i)'
    <3>1. /\ IsImport(r, n) /\ KeyOf(r, i) \in Key /\ (i # n => KeyOf(r, i) # KeyOf(r, n))
          /\ KeyOf(r, n) \in Key
      BY <2>1, <2>2, ImportsApart
    <3>2. ClaimAsLeft(r, i) /\ ClaimAsLeft(r, n)
      BY <1>1, <2>1, <2>2, <3>1 DEF Working, InStep, At
    <3>3. files' = [files EXCEPT ![KeyOf(r, n)].status = "success"]
      BY <2>1, <3>1, <3>2 DEF ClaimAsLeft, ClaimIs, At, n
    <3>4. /\ files'[KeyOf(r, n)].status = "success"
          /\ i # n => files'[KeyOf(r, i)] = files[KeyOf(r, i)]
      BY <1>2, <3>1, <3>3 DEF FileRow
    <3>5. CASE i = n
      BY <1>1, <2>1, <3>4, <3>5 DEF ClaimAsLeft, ClaimClosed, KeyOf, Active
    <3>6. CASE i # n
      <4>1. (ClaimClosed(r, i)' <=> ClaimClosed(r, i)) /\ (ClaimWaits(r, i)' <=> ClaimWaits(r, i))
        BY <2>1, <3>4, <3>6 DEF ClaimWaits, ClaimIs, FirstTime, ClaimClosed, KeyOf
      <4>2. QED
        BY <1>1, <2>1, <3>2, <3>6, <4>1 DEF ClaimAsLeft, n
    <3>7. QED
      BY <3>5, <3>6
  <2>3. QED
    BY <1>1, <2>1, <2>2 DEF ClaimOK, IsImport, Span, At, Working, InStep
<1>9. CASE HandleFailure(r) \/ Finish(r)
  <2>1. runs'[r].status \notin Active /\ worker'[r].pc = "closing"
    BY <1>1, <1>2, <1>9 DEF HandleFailure, Finish, Goto, Active, RunRow
  <2>2. QED
    BY <2>1, NoClaims
<1>10. CASE WorkerCloses(r) \/ WorkerDies(r)
  <2>1. UNCHANGED <<runs, files, begun, ingests>> /\ worker'[r].pc = "none"
    BY <1>2, <1>10 DEF WorkerCloses, WorkerDies, ledger, history, NoWorker
  <2>2. QED
    BY <1>3, <2>1 DEF ClaimOK, ClaimWaits, ClaimIs, FirstTime, IsImport, KeyOf, Span, Working, InStep, At
<1>11. QED
  BY <1>4, <1>5, <1>6, <1>7, <1>8, <1>9, <1>10 DEF WorkerStep

\* The failure transaction: whatever the worker left open is closed, and an import
\* is called failed only if it never started.
LEMMA FailureClaims ==
  ASSUME LedgerInv, TypeHistory, PlanInv, StepInv, ClaimInv, NEW r \in Run, HandleFailure(r)
  PROVE  /\ \A k \in Key : files'[k].status \notin Active
         /\ NewIsNew'
         /\ \A i \in Span(r) : IsImport(r, i) /\ steps'[r][i] = "failed" => i \notin begun[r]
<1> DEFINE n == worker[r].pos
<1>1. /\ At(r, "handle") /\ n \in Span(r) /\ n \in Int /\ Span(r) \subseteq Int /\ Span(r) \subseteq Pos
      /\ runs[r].status \in Active
      /\ \A i \in Span(r) : IsImport(r, i) => ClaimAsLeft(r, i)
  BY WorkerPlaceFacts, PlanFacts DEF HandleFailure, At, InStep, Working, Active, LedgerInv
<1>2. /\ steps \in [Run -> [Pos -> StepStatus]] /\ files \in [Key -> FileRow]
      /\ UNCHANGED <<begun, ingests>>
  BY DEF LedgerInv, TypeRows, HandleFailure, history
<1>3. PICK s \in {"unknown", "failed"} :
        /\ Uncertain(r) => s = "unknown"
        /\ steps' = [steps EXCEPT ![r] =
             [i \in Pos |-> IF i = n THEN s
                            ELSE IF steps[r][i] = "pending" THEN "skipped" ELSE steps[r][i]]]
        /\ files' = FilesAfterFailure(r, s)
  BY DEF HandleFailure, n
<1> HIDE DEF n
<1>4. ASSUME NEW k \in Key, files[k].status \in Active
      PROVE  /\ files'[k].status \notin Active
             /\ files'[k].status = "new" => ingests[k] = 0
  <2>1. PICK i \in Span(r) : files[k].run = r /\ IsImport(r, i) /\ KeyOf(r, i) = k
    BY <1>1, <1>4, OpenIsMine
  <2>2. IsImport(r, n) /\ (i # n => k # KeyOf(r, n) /\ ~runs[r].plan[i].retry)
    BY <1>1, <2>1, ImportsApart
  <2>3. ClaimAsLeft(r, i)
    BY <1>1, <2>1
  <2>4. Current(r).action = "stage_import" /\ Current(r).key = KeyOf(r, n)
    BY <2>2 DEF Current, IsImport, KeyOf, n
  <2>5. files'[k] = IF k = KeyOf(r, n) THEN [files[k] EXCEPT !.status = s]
                    ELSE IF files[k].status = "queued" THEN NoFile ELSE files[k]
    BY <1>3, <2>1, <2>4 DEF FilesAfterFailure
  <2>6. CASE i = n
    BY <1>2, <1>3, <2>1, <2>5, <2>6 DEF FileRow, Active
  <2>7. CASE i # n
    <3>1. ClaimWaits(r, i)
      BY <1>1, <1>4, <2>1, <2>3, <2>7 DEF ClaimAsLeft, ClaimClosed, n
    <3>2. files'[k] = NoFile /\ ingests[k] = 0
      BY <2>1, <2>2, <2>5, <2>7, <3>1 DEF ClaimWaits, ClaimIs, FirstTime
    <3>3. QED
      BY <3>2 DEF NoFile, Active
  <2>8. QED
    BY <2>6, <2>7
<1>5. ASSUME NEW k \in Key, files[k].status \notin Active
      PROVE  /\ files'[k].status \notin Active
             /\ files'[k].status = "new" => files[k].status = "new"
  BY <1>2, <1>3, <1>5 DEF FilesAfterFailure, FileRow, Active
<1>6. ASSUME NEW i \in Span(r), IsImport(r, i), steps'[r][i] = "failed" PROVE i \notin begun[r]
  <2>1. CASE i = n
    <3>1. s = "failed" /\ ~Uncertain(r)
      BY <1>1, <1>2, <1>3, <1>6, <2>1
    <3>2. ~ClaimIs(r, n, "running")
      BY <1>6, <2>1, <3>1 DEF Uncertain, HasClaim, Current, IsImport, ClaimIs, KeyOf, n
    <3>3. QED
      BY <1>1, <1>6, <2>1, <3>2 DEF ClaimAsLeft, At, n
  <2>2. CASE i # n
    <3>1. steps[r][i] = "failed"
      BY <1>1, <1>2, <1>3, <1>6, <2>2
    <3>2. QED
      BY <1>6, <3>1 DEF ClaimInv, FailedImport
  <2>3. QED
    BY <2>1, <2>2
<1>7. NewIsNew'
  BY <1>2, <1>4, <1>5 DEF ClaimInv, NewIsNew
<1>8. QED
  BY <1>4, <1>5, <1>6, <1>7

\* A run that succeeds leaves no claim open.
LEMMA SuccessClaims ==
  ASSUME LedgerInv, StepInv, ClaimInv, NEW r \in Run, Finish(r)
  PROVE  \A k \in Key : files[k].status \notin Active
<1> DEFINE n == worker[r].pos
<1>1. /\ At(r, "gate") /\ n > Len(runs[r].plan) /\ n \in Int /\ Len(runs[r].plan) \in Nat
      /\ runs[r].status \in Active
      /\ \A i \in Span(r) : IsImport(r, i) => ClaimAsLeft(r, i)
  BY WorkerPlaceFacts, PlanFacts DEF Finish, At, Working, Active, LedgerInv
<1>2. \A i \in Span(r) : i < n
  BY <1>1 DEF Span
<1>3. \A i \in Span(r) : IsImport(r, i) => ClaimClosed(r, i)
  BY <1>1, <1>2 DEF ClaimAsLeft
<1>4. QED
  BY <1>1, <1>3, OpenIsMine DEF ClaimClosed

LEMMA WorkerClaims ==
  ASSUME LedgerInv, TypeHistory, PlanInv, StepInv, ClaimInv, NEW r \in Run, WorkerStep(r) \/ WorkerDies(r)
  PROVE  ClaimInv'
<1>1. /\ runs \in [Run -> RunRow] /\ files \in [Key -> FileRow] /\ steps \in [Run -> [Pos -> StepStatus]]
      /\ begun \in [Run -> SUBSET Pos] /\ ingests \in [Key -> Nat]
      /\ runs[r] \in RunRow
      /\ OpenClaimsHaveARun /\ NewIsNew /\ \A s \in Run : \A i \in Span(s) : FailedImport(s, i)
  BY DEF LedgerInv, TypeRows, TypeHistory, ClaimInv
<1>2. ClaimOK(r)'
  BY OwnClaims
<1>3. \A s \in Run \ {r} : runs'[s] = runs[s] /\ steps'[s] = steps[s] /\ begun'[s] = begun[s]
  BY WorkerElsewhere
<1>4. \A s \in Run \ {r} : \A i \in Span(s)' : FailedImport(s, i)'
  BY <1>1, <1>3 DEF FailedImport, IsImport, Span
<1>5. CASE WorkerCloses(r) \/ WorkerDies(r)
  <2>1. UNCHANGED <<runs, steps, files, begun, ingests>>
    BY <1>5 DEF WorkerCloses, WorkerDies, ledger, history
  <2>2. \A s \in Run \ {r} : worker'[s] = worker[s]
    BY WorkerElsewhere
  <2>3. \A s \in Run \ {r} : ClaimOK(s)'
    BY <2>1, <2>2, SameClaims
  <2>4. QED
    BY <1>1, <1>2, <2>1, <2>3 DEF ClaimInv, FailedImport, IsImport, Span, OpenClaimsHaveARun, NewIsNew
<1>6. CASE ~WorkerCloses(r) /\ ~WorkerDies(r)
  <2>1. runs[r].status \in Active
    BY <1>6, WorkerPlaceFacts DEF WorkerStep, WorkerStart, Gate, Refused, ClaimContent, Begin, Return, Raise,
       Record, RecordFails, HandleFailure, Finish, At, Working, InStep, Active
  <2>2. \A s \in Run \ {r} : ClaimOK(s)'
    BY <1>6, <2>1, OthersClaimNothing
  <2> DEFINE n == worker[r].pos
  <2>3. /\ worker[r].pc \in InStep => n \in Span(r) /\ n \in Pos
        /\ worker[r].pc \in Working => \A i \in Span(r) : StepAsLeft(r, i)
        /\ worker[r].pc \in Working => \A i \in Span(r) : IsImport(r, i) => ClaimAsLeft(r, i)
        /\ Span(r) \subseteq Pos
    BY WorkerPlaceFacts, PlanFacts DEF LedgerInv
  <2> HIDE DEF n
  <2>4. CASE HandleFailure(r)
    <3>1. runs'[r].plan = runs[r].plan /\ UNCHANGED <<begun, ingests>>
      BY <1>1, <2>4 DEF HandleFailure, history, RunRow
    <3>2. \A i \in Span(r)' : FailedImport(r, i)'
      BY <2>4, <3>1, FailureClaims DEF FailedImport, IsImport, Span
    <3>3. OpenClaimsHaveARun' /\ NewIsNew'
      BY <2>4, FailureClaims DEF OpenClaimsHaveARun
    <3>4. QED
      BY <1>2, <1>4, <2>2, <3>2, <3>3 DEF ClaimInv
  <2>5. CASE Finish(r)
    <3>1. runs'[r].plan = runs[r].plan /\ UNCHANGED <<steps, files, begun, ingests>>
      BY <1>1, <2>5 DEF Finish, history, RunRow
    <3>2. \A i \in Span(r)' : FailedImport(r, i)'
      BY <1>1, <3>1 DEF FailedImport, IsImport, Span
    <3>3. OpenClaimsHaveARun' /\ NewIsNew'
      BY <1>1, <2>5, <3>1, SuccessClaims DEF OpenClaimsHaveARun, NewIsNew
    <3>4. QED
      BY <1>2, <1>4, <2>2, <3>2, <3>3 DEF ClaimInv
  <2>6. CASE ~HandleFailure(r) /\ ~Finish(r)
    <3>1. runs'[r].plan = runs[r].plan /\ runs'[r].status \in Active
      BY <1>1, <1>6, <2>1, <2>6 DEF WorkerStep, WorkerStart, Gate, Refused, ClaimContent, Begin, Return, Raise,
         Record, RecordFails, ledger, RunRow, Active
    <3>2. \A i \in Span(r)' : FailedImport(r, i)'
      <4>1. CASE Begin(r)
        <5>1. n \in Span(r) /\ steps' = steps /\ begun'[r] = begun[r] \cup {n} /\ worker[r].pc \in {"ready", "claimed"}
          BY <1>1, <2>3, <4>1 DEF Begin, ledger, At, InStep, n
        <5>2. steps[r][n] = "running"
          BY <2>3, <5>1 DEF StepAsLeft, Working, InStep, n
        <5>3. QED
          BY <1>1, <3>1, <5>1, <5>2 DEF FailedImport, IsImport, Span
      <4>2. CASE ~Begin(r)
        <5>1. begun' = begun
          BY <1>6, <2>6, <4>2 DEF WorkerStep, WorkerStart, Gate, Refused, ClaimContent, Return, Raise,
             Record, RecordFails, history
        <5>2. \A i \in Span(r) : steps'[r][i] = "failed" => steps[r][i] = "failed"
          BY <1>1, <1>6, <2>3, <2>6, <4>2 DEF WorkerStep, WorkerStart, Gate, Refused, ClaimContent,
             Return, Raise, Record, RecordFails, ledger
        <5>3. QED
          BY <1>1, <3>1, <5>1, <5>2 DEF FailedImport, IsImport, Span
      <4>3. QED
        BY <4>1, <4>2
    <3>3. CASE ClaimContent(r) \/ Record(r)
      <4>1. /\ UNCHANGED ingests
            /\ \/ files' = files
               \/ \E s \in {"running", "success"}, k \in Key :
                    files[k].status \in Active /\ files' = [files EXCEPT ![k].status = s]
        <5>1. CASE ClaimContent(r)
          <6>1. At(r, "ready") /\ IsImport(r, n) /\ n \in Span(r)
            BY <2>3, <5>1 DEF ClaimContent, Current, IsImport, At, InStep, n
          <6>2. KeyOf(r, n) \in Key /\ ClaimAsLeft(r, n)
            BY <2>3, <6>1, ImportsApart DEF Working, InStep, At
          <6>3. files[KeyOf(r, n)].status \in Active
            BY <6>1, <6>2 DEF ClaimAsLeft, ClaimWaits, ClaimIs, Active, At, n
          <6>4. files' = [files EXCEPT ![KeyOf(r, n)].status = "running"] /\ UNCHANGED ingests
            BY <5>1 DEF ClaimContent, Current, KeyOf, history, n
          <6>5. QED
            BY <6>2, <6>3, <6>4
        <5>2. CASE Record(r) /\ IsImport(r, n)
          <6>1. At(r, "record") /\ n \in Span(r)
            BY <2>3, <5>2 DEF Record, At, InStep
          <6>2. KeyOf(r, n) \in Key /\ ClaimAsLeft(r, n)
            BY <2>3, <5>2, <6>1, ImportsApart DEF Working, InStep, At
          <6>3. files[KeyOf(r, n)].status \in Active
            BY <6>1, <6>2 DEF ClaimAsLeft, ClaimIs, Active, At, n
          <6>4. /\ files' = files \/ files' = [files EXCEPT ![KeyOf(r, n)].status = "success"]
                /\ UNCHANGED ingests
            BY <5>2 DEF Record, Current, KeyOf, history, n
          <6>5. QED
            BY <6>2, <6>3, <6>4
        <5>3. CASE Record(r) /\ ~IsImport(r, n)
          <6>1. files' = files /\ UNCHANGED ingests
            BY <5>3 DEF Record, HasClaim, Current, IsImport, history, n
          <6>2. QED
            BY <6>1
        <5>4. QED
          BY <3>3, <5>1, <5>2, <5>3
      <4>2. \A q \in Key : /\ files'[q].status \in Active => files[q].status \in Active
                           /\ files'[q].run = files[q].run
                           /\ files'[q].status = "new" => files[q].status = "new"
        BY <1>1, <4>1 DEF FileRow, Active
      <4>3. OpenClaimsHaveARun'
        BY <1>3, <2>1, <3>1, <4>2, OpenStays
      <4>4. NewIsNew'
        BY <1>1, <4>1, <4>2 DEF NewIsNew
      <4>5. QED
        BY <1>2, <1>4, <2>2, <3>2, <4>3, <4>4 DEF ClaimInv
    <3>4. CASE ~ClaimContent(r) /\ ~Record(r)
      <4>1. files' = files
        BY <1>6, <2>6, <3>4 DEF WorkerStep, WorkerStart, Gate, Refused, Begin, Return, Raise,
           RecordFails, ledger
      <4>2. OpenClaimsHaveARun'
        BY <1>3, <2>1, <3>1, <4>1, OpenStays
      <4>3. NewIsNew'
        <5>1. CASE Begin(r) /\ At(r, "claimed")
          <6>1. n \in Span(r) /\ IsImport(r, n) /\ ingests' = [ingests EXCEPT ![KeyOf(r, n)] = @ + 1]
            BY <2>3, <5>1 DEF Begin, Current, KeyOf, At, InStep, ClaimInv, ClaimOK, n
          <6>2. files[KeyOf(r, n)].status = "running"
            BY <2>3, <5>1, <6>1 DEF ClaimAsLeft, ClaimIs, Working, InStep, At, n
          <6>3. QED
            BY <1>1, <4>1, <6>1, <6>2 DEF NewIsNew
        <5>2. CASE ~(Begin(r) /\ At(r, "claimed"))
          <6>1. ingests' = ingests
            BY <1>6, <2>6, <3>4, <5>2 DEF WorkerStep, WorkerStart, Gate, Refused, Begin, Return, Raise,
               RecordFails, history
          <6>2. QED
            BY <1>1, <4>1, <6>1 DEF NewIsNew
        <5>3. QED
          BY <5>1, <5>2
      <4>4. QED
        BY <1>2, <1>4, <2>2, <3>2, <4>2, <4>3 DEF ClaimInv
    <3>5. QED
      BY <3>3, <3>4
  <2>7. QED
    BY <2>4, <2>5, <2>6
<1>7. QED
  BY <1>5, <1>6

LEMMA ClaimNext ==
  LedgerInv /\ TypeHistory /\ PlanInv /\ StepInv /\ ClaimInv /\ [Next]_vars => ClaimInv'
<1> SUFFICES ASSUME LedgerInv, TypeHistory, PlanInv, StepInv, ClaimInv, [Next]_vars PROVE ClaimInv'
  OBVIOUS
<1>1. CASE SaveSchedule \/ UNCHANGED vars
  <2>1. UNCHANGED <<runs, steps, files, worker, begun, ingests>>
    BY <1>1 DEF SaveSchedule, threads, history, vars
  <2>2. QED
    BY <2>1, SameClaims DEF ClaimInv, FailedImport, IsImport, Span, OpenClaimsHaveARun, NewIsNew
<1>2. QED
  BY <1>1, RequestClaims, WorkerClaims DEF Next

(***************************************************************************)
(* The schedules of marts                                                  *)
(***************************************************************************)

\* What the ledger asks before it lets a mart be scheduled holds while it is.
MartsResolved == \A j \in Mart : enabled[j] => ~RequiresManual(runs, j)

\* Stamps and places of the ledger are linearly ordered: a refresh that is newer than
\* an unknown run was inserted later, or the clock was set back between the two.
LEMMA ResolvedMeans == TypeRows /\ MartsResolved => MartAutomationResolved
<1> SUFFICES ASSUME TypeRows, MartsResolved, NEW j \in Mart, NEW r \in Run,
                    enabled[j], runs[r].job = j, runs[r].status = "unknown"
             PROVE  \E s \in Run :
                      /\ Refreshed(runs, s, j)
                      /\ \/ s > r /\ runs[s].created >= runs[r].created
                         \/ s < r /\ runs[s].created > runs[r].created
  BY DEF MartAutomationResolved
<1>1. PICK s \in Run : Refreshed(runs, s, j) /\ Newer(runs, s, r)
  BY DEF MartsResolved, RequiresManual
<1>2. /\ runs[s].created \in Int /\ runs[r].created \in Int /\ s \in Int /\ r \in Int
  BY LedgerAssumption DEF TypeRows, RunRow, Run
<1>3. s # r
  BY <1>1 DEF Refreshed
<1>4. s < r \/ s > r
  BY <1>2, <1>3
<1>5. runs[s].created > runs[r].created \/ (runs[s].created = runs[r].created /\ s > r)
  BY <1>1 DEF Newer
<1>6. \/ s > r /\ runs[s].created >= runs[r].created
      \/ s < r /\ runs[s].created > runs[r].created
  BY <1>2, <1>4, <1>5
<1>7. QED
  BY <1>1, <1>6

\* A resolved mart needs a run of its own that ends unknown to become unresolved.
LEMMA ResolvedStays ==
  ASSUME NEW rs, NEW rs2, NEW j, ~RequiresManual(rs, j),
         \A s \in Run : rs[s].status = "success" => rs2[s] = rs[s],
         \A s \in Run : rs2[s].status = "unknown" /\ rs2[s].job = j => rs2[s] = rs[s]
  PROVE  ~RequiresManual(rs2, j)
BY DEF RequiresManual, Refreshed, Newer

\* _lost switches off the schedule of every mart whose run it gives up.
LEMMA LostMarts ==
  ASSUME TypeRows, NEW j \in Mart, LostEnabled(runs, enabled)[j]
  PROVE  /\ enabled[j]
         /\ \A s \in Run : LostRuns(runs)[s].status = "unknown" /\ LostRuns(runs)[s].job = j =>
              LostRuns(runs)[s] = runs[s]
         /\ \A s \in Run : runs[s].status = "success" => LostRuns(runs)[s] = runs[s]
<1>1. enabled[j] /\ ~\E r \in Unfinished(runs) : runs[r].job = j
  BY DEF LostEnabled, JobName
<1>2. \A s \in Run : LostRuns(runs)[s].job = runs[s].job
  BY DEF TypeRows, RunRow, LostRuns
<1>3. \A s \in Run : s \notin Unfinished(runs) => LostRuns(runs)[s] = runs[s]
  BY DEF LostRuns
<1>4. QED
  BY <1>1, <1>2, <1>3 DEF Unfinished, Active

LEMMA MartRequest ==
  ASSUME LedgerInv, MartsResolved, NEW t \in Request, RequestStep(t), NEW m \in Mart, enabled'[m]
  PROVE  ~RequiresManual(runs', m)
<1>1. TypeRows /\ m \in JobName /\ (enabled[m] => ~RequiresManual(runs, m))
  BY DEF LedgerInv, MartsResolved, JobName
<1>2. /\ LostRuns(runs) \in [Run -> RunRow] /\ LostEnabled(runs, enabled) \in [JobName -> BOOLEAN]
      /\ runs \in [Run -> RunRow] /\ enabled \in [JobName -> BOOLEAN]
  BY <1>1, LostIsTyped DEF TypeRows
<1>3. LostEnabled(runs, enabled)[m] => ~RequiresManual(LostRuns(runs), m)
  BY <1>1, LostMarts, ResolvedStays
<1>4. ASSUME NEW rs \in [Run -> RunRow], NEW r \in Run, Fresh(r), NEW row, row.status # "unknown",
             runs' = [rs EXCEPT ![r] = row], ~RequiresManual(rs, m), rs \in {runs, LostRuns(runs)}
      PROVE  ~RequiresManual(runs', m)
  <2>1. rs[r].status = "absent"
    BY <1>4 DEF Fresh, LostRuns, Unfinished, Active
  <2>2. runs'[r] = row /\ \A s \in Run \ {r} : runs'[s] = rs[s]
    BY <1>4
  <2>3. \A s \in Run : rs[s].status = "success" => runs'[s] = rs[s]
    BY <2>1, <2>2
  <2>4. \A s \in Run : runs'[s].status = "unknown" /\ runs'[s].job = m => runs'[s] = rs[s]
    BY <1>4, <2>2
  <2>5. QED
    BY <1>4, <2>3, <2>4, ResolvedStays
<1>5. ASSUME NEW r \in Run, NEW j, NEW trigger, NEW p, NEW once, Admit(t, r, j, trigger, p, once)
      PROVE  ~RequiresManual(runs', m)
  <2> DEFINE row(now) == [job |-> j, trigger |-> trigger, plan |-> p, status |-> "queued", created |-> now]
  <2>1. PICK now \in Created(j) :
          Fresh(r) /\ runs' = [LostRuns(runs) EXCEPT ![r] = row(now)] /\ row(now).status # "unknown"
    BY <1>5 DEF Admit
  <2>2. LostEnabled(runs, enabled)[m]
    BY <1>1, <1>2, <1>5 DEF Admit
  <2> HIDE DEF row
  <2>3. QED
    BY <1>2, <1>3, <1>4, <2>1, <2>2
<1>6. CASE Submit(t) \/ TickAdmit(t)
  BY <1>5, <1>6 DEF Submit, SubmitRun, SubmitRefresh, SubmitImport, SubmitExport, TickAdmit
<1>7. CASE TickSkip(t) \/ TickSkipBusy(t)
  <2>1. PICK rs \in {runs, LostRuns(runs)}, en \in {enabled, LostEnabled(runs, enabled)},
             r \in Run, j \in JobName, off \in BOOLEAN : \E p, ss :
          /\ SkippedRow(rs, ss, en, r, j, p, off)
          /\ en[m] => ~RequiresManual(rs, m)
    <3>1. CASE TickSkip(t)
      <4>1. PICK r \in Run, j \in JobName, off \in BOOLEAN : \E p \in SchedulePlans(j) \cup {<< >>} :
              SkippedRow(LostRuns(runs), LostSteps(runs, steps), LostEnabled(runs, enabled), r, j, p, off)
        BY <3>1 DEF TickSkip
      <4>2. PICK p : SkippedRow(LostRuns(runs), LostSteps(runs, steps), LostEnabled(runs, enabled), r, j, p, off)
        BY <4>1
      <4>3. QED
        BY <1>3, <4>2
    <3>2. CASE TickSkipBusy(t)
      <4>1. PICK r \in Run, j \in JobName, off \in BOOLEAN : \E p \in SchedulePlans(j) \cup {<< >>} :
              SkippedRow(runs, steps, enabled, r, j, p, off)
        BY <3>2 DEF TickSkipBusy
      <4>2. PICK p : SkippedRow(runs, steps, enabled, r, j, p, off)
        BY <4>1
      <4>3. QED
        BY <1>1, <4>2
    <3>3. QED
      BY <1>7, <3>1, <3>2
  <2>2. PICK p, ss : SkippedRow(rs, ss, en, r, j, p, off)
    BY <2>1
  <2> DEFINE row == [job |-> j, trigger |-> "schedule", plan |-> p, status |-> "skipped", created |-> 0]
  <2>3. /\ Fresh(r) /\ runs' = [rs EXCEPT ![r] = row] /\ row.status # "unknown" /\ rs \in [Run -> RunRow]
        /\ enabled' = [en EXCEPT ![j] = ~off]
        /\ j \in Mart /\ RequiresManual(rs, j) => off
    BY <1>2, <2>2 DEF SkippedRow
  <2> HIDE DEF row
  <2>4. CASE m = j
    BY <1>1, <1>2, <1>4, <2>3, <2>4
  <2>5. CASE m # j
    BY <1>1, <1>2, <1>4, <2>1, <2>3, <2>5
  <2>6. QED
    BY <2>4, <2>5
<1>8. CASE Recover(t)
  BY <1>3, <1>8 DEF Recover
<1>9. CASE SaveMartSchedule(t)
  <2>1. PICK j \in Mart, on \in BOOLEAN :
          /\ on => ~RequiresManual(runs', j)
          /\ enabled' = [LostEnabled(runs, enabled) EXCEPT ![j] = on]
          /\ runs' = LostRuns(runs)
    BY <1>9 DEF SaveMartSchedule
  <2>2. QED
    BY <1>1, <1>2, <1>3, <2>1
<1>10. CASE EditMart(t)
  BY <1>1, <1>2, <1>10 DEF EditMart
<1>11. CASE \/ TakeLock(t) \/ TickRefused(t) \/ TickDefers(t) \/ Refuse(t) \/ StartWorker(t)
            \/ StartFails(t) \/ Close(t) \/ RequestDies(t)
  BY <1>1, <1>11 DEF TakeLock, TickRefused, TickDefers, Refuse, StartWorker, StartFails, Close,
                     RequestDies, ledger
<1>12. QED
  BY <1>6, <1>7, <1>8, <1>9, <1>10, <1>11 DEF RequestStep

LEMMA MartWorker ==
  ASSUME LedgerInv, PlanInv, MartsResolved, NEW r \in Run, WorkerStep(r) \/ WorkerDies(r),
         NEW m \in Mart, enabled'[m]
  PROVE  ~RequiresManual(runs', m)
<1>1. /\ runs \in [Run -> RunRow] /\ runs[r] \in RunRow /\ enabled \in [JobName -> BOOLEAN] /\ m \in JobName
      /\ enabled[m] => ~RequiresManual(runs, m)
  BY DEF LedgerInv, TypeRows, MartsResolved, JobName
<1>2. CASE HandleFailure(r)
  <2>1. PICK s \in {"unknown", "failed"} : runs' = [runs EXCEPT ![r].status = s]
    BY <1>2 DEF HandleFailure
  <2>2. runs[r].status = "running" /\ worker[r].pos \in Span(r) /\ DOMAIN runs[r].plan = Span(r)
    BY <1>2, PlanFacts DEF HandleFailure, LedgerInv, PlaceInv, InsidePlan, WorkerKeepsItsRun, InStep, Span,
                           ControlInv, ControlOK, At, WorkerPC
  <2>3. runs[r].job # m
    <3>1. SUFFICES ASSUME runs[r].job = m PROVE FALSE
      OBVIOUS
    <3>2. Current(r).action = "mart_refresh"
      BY <2>2, <3>1 DEF PlanInv, Refreshes, Current
    <3>3. enabled' = [enabled EXCEPT ![m] = FALSE]
      BY <1>2, <3>1, <3>2 DEF HandleFailure
    <3>4. QED
      BY <1>1, <3>3
  <2>4. enabled[m]
    BY <1>1, <1>2 DEF HandleFailure
  <2>5. runs'[r].job = runs[r].job /\ \A q \in Run \ {r} : runs'[q] = runs[q]
    BY <1>1, <2>1 DEF RunRow
  <2>6. QED
    BY <1>1, <2>2, <2>3, <2>4, <2>5, ResolvedStays
<1>3. CASE WorkerStart(r) \/ Finish(r)
  <2>1. PICK s \in {"running", "success"} : runs' = [runs EXCEPT ![r].status = s]
    BY <1>3 DEF WorkerStart, Finish
  <2>2. runs[r].status \in Active
    BY <1>3 DEF WorkerStart, Finish, LedgerInv, PlaceInv, WorkerKeepsItsRun, At, WorkerPC, Active
  <2>3. runs'[r].status = s /\ \A q \in Run \ {r} : runs'[q] = runs[q]
    BY <1>1, <2>1 DEF RunRow
  <2>4. enabled' = enabled
    BY <1>3 DEF WorkerStart, Finish
  <2>5. QED
    BY <1>1, <2>2, <2>3, <2>4, ResolvedStays DEF Active
<1>4. CASE \/ Gate(r) \/ Refused(r) \/ ClaimContent(r) \/ Begin(r) \/ Return(r) \/ Raise(r)
           \/ Record(r) \/ RecordFails(r) \/ WorkerCloses(r) \/ WorkerDies(r)
  <2>1. UNCHANGED <<runs, enabled>>
    BY <1>4 DEF Gate, Refused, ClaimContent, Begin, Return, Raise, Record, RecordFails, WorkerCloses,
                WorkerDies, ledger
  <2>2. QED
    BY <1>1, <2>1
<1>5. QED
  BY <1>2, <1>3, <1>4 DEF WorkerStep

LEMMA MartNext == LedgerInv /\ PlanInv /\ MartsResolved /\ [Next]_vars => MartsResolved'
<1> SUFFICES ASSUME LedgerInv, PlanInv, MartsResolved, [Next]_vars, NEW m \in Mart, enabled'[m]
             PROVE  ~RequiresManual(runs', m)
  BY DEF MartsResolved
<1>1. CASE SaveSchedule
  <2>1. enabled[m] /\ runs' = runs
    BY <1>1 DEF SaveSchedule, LedgerInv, TypeRows, JobName
  <2>2. QED
    BY <2>1 DEF MartsResolved
<1>2. CASE UNCHANGED vars
  BY <1>2 DEF vars, MartsResolved
<1>3. QED
  BY <1>1, <1>2, MartRequest, MartWorker DEF Next

(***************************************************************************)
(* The invariant and what follows from it                                  *)
(***************************************************************************)
FullInv == LedgerInv /\ TypeHistory /\ PlanInv /\ StepInv /\ ClaimInv /\ MartsResolved

LEMMA FullInvariant == Spec => []FullInv
<1>1. Init => TypeHistory /\ PlanInv /\ StepInv /\ ClaimInv /\ MartsResolved
  <2>1. Init => TypeHistory
    BY DEF Init, TypeHistory
  <2>2. Init => PlanInv
    BY PlansAreShaped, LedgerAssumption DEF Init, PlanInv, NoRun, JobName
  <2>3. Init => MartsResolved
    BY DEF Init, MartsResolved, JobName
  <2>4. QED
    BY <2>1, <2>2, <2>3, StepInit, ClaimInit
<1>2. FullInv /\ [Next]_vars => (TypeHistory /\ PlanInv /\ StepInv /\ ClaimInv /\ MartsResolved)'
  BY HistoryNext, PlanNext, StepNext, ClaimNext, MartNext DEF FullInv
<1>3. FullInv <=> LedgerInv /\ (TypeHistory /\ PlanInv /\ StepInv /\ ClaimInv /\ MartsResolved)
  BY DEF FullInv
<1>4. QED
  BY <1>1, <1>2, <1>3, LedgerInvariant, PTL DEF Spec

\* What the page shows of a run is what was done, for any number of runs, steps and
\* files and after every failure, death and recovery.
THEOREM HistoryIsTrue == Spec => []HistoryInv
<1>1. FullInv => HistoryInv
  <2> SUFFICES ASSUME FullInv PROVE HistoryInv
    OBVIOUS
  <2>1. TypeRows /\ StepInv /\ ClaimInv /\ TypeHistory
    BY DEF FullInv, LedgerInv
  <2>2. FailFast
    BY <2>1 DEF StepInv, StepOK, RunFailsFast, FailFast, Span
  <2>3. StepsTellTheTruth
    <3> SUFFICES ASSUME NEW r \in Run, NEW i \in Pos
                 PROVE  /\ steps[r][i] \in {"none", "pending", "skipped"} => i \notin begun[r]
                        /\ steps[r][i] = "success" => i \in reported[r]
                        /\ steps[r][i] = "failed" /\ runs[r].plan[i].action # "sql" =>
                             i \notin (IF runs[r].plan[i].action = "stage_import" THEN begun[r] ELSE reported[r])
      BY DEF StepsTellTheTruth
    <3>1. StepTold(r, i)
      BY <2>1 DEF StepInv, StepOK
    <3>2. ASSUME steps[r][i] = "failed" PROVE i \in Span(r) /\ ~Published(r, i) /\ FailedImport(r, i)
      BY <2>1, <3>1, <3>2 DEF StepTold, ClaimInv
    <3>3. i \in Span(r) => runs[r].plan[i].action \in Action
      BY <2>1, PlanFacts DEF Step
    <3>4. QED
      BY <3>1, <3>2, <3>3 DEF StepTold, Published, FailedImport, IsImport, Action
  <2>4. QED
    BY <2>1, <2>2, <2>3, ResolvedMeans DEF FullInv, ClaimInv, HistoryInv
<1>2. QED
  BY <1>1, FullInvariant, PTL

(***************************************************************************)
(* What a step may do to content                                           *)
(***************************************************************************)
DoneKept(k)  == files[k].status = "success" => files'[k] = files[k] /\ ingests'[k] = ingests[k]
RetryOnly(k) == ingests[k] > 0 /\ ingests'[k] # ingests[k] =>
                  \E r \in Run : lock = r /\ Current(r).key = k /\ Current(r).retry

ContentStep == \A k \in Key : DoneKept(k) /\ RetryOnly(k)

\* _claim refuses content that succeeded, and _lost leaves it alone.
LEMMA RequestContent ==
  ASSUME FullInv, NEW t \in Request, RequestStep(t)
  PROVE  ContentStep
<1>1. files \in [Key -> FileRow] /\ TypeRows
  BY DEF FullInv, LedgerInv, TypeRows
<1>2. ingests' = ingests
  BY DEF RequestStep, TakeLock, TickRefused, Submit, SubmitRun, SubmitRefresh, SubmitImport, SubmitExport,
     TickAdmit, Admit, TickSkip, TickSkipBusy, TickDefers, Recover, SaveMartSchedule, EditMart, Refuse,
     StartWorker, StartFails, Close, RequestDies, history
<1>3. \A k \in Key : files[k].status = "success" => LostFiles(runs, files)[k] = files[k]
  BY <1>1 DEF LostFiles, Active
<1>4. ASSUME NEW r \in Run, NEW j, NEW trigger, NEW p, NEW once, Admit(t, r, j, trigger, p, once),
             NEW k \in Key, files[k].status = "success"
      PROVE  files'[k] = files[k]
  <2>1. ~Imports(p, k)
    BY <1>3, <1>4 DEF Admit, Claimable, Imports
  <2>2. QED
    BY <1>3, <1>4, <2>1 DEF Admit, Claimed
<1>5. CASE Submit(t) \/ TickAdmit(t)
  BY <1>2, <1>4, <1>5 DEF Submit, SubmitRun, SubmitRefresh, SubmitImport, SubmitExport, TickAdmit,
     ContentStep, DoneKept, RetryOnly
<1>6. CASE TickSkip(t) \/ Recover(t) \/ SaveMartSchedule(t)
  <2>1. files' = LostFiles(runs, files)
    BY <1>6 DEF TickSkip, Recover, SaveMartSchedule
  <2>2. QED
    BY <1>2, <1>3, <2>1 DEF ContentStep, DoneKept, RetryOnly
<1>7. CASE \/ TakeLock(t) \/ TickRefused(t) \/ TickSkipBusy(t) \/ TickDefers(t) \/ EditMart(t)
           \/ Refuse(t) \/ StartWorker(t) \/ StartFails(t) \/ Close(t) \/ RequestDies(t)
  <2>1. files' = files
    BY <1>7 DEF TakeLock, TickRefused, TickSkipBusy, TickDefers, EditMart, Refuse, StartWorker, StartFails,
                Close, RequestDies, ledger
  <2>2. QED
    BY <1>2, <2>1 DEF ContentStep, DoneKept, RetryOnly
<1>8. QED
  BY <1>5, <1>6, <1>7 DEF RequestStep

\* A worker writes to the claim of its current step and to claims it never started,
\* and hands content to ingest that was never handed over or is to be retried.
LEMMA WorkerContent ==
  ASSUME FullInv, NEW r \in Run, WorkerStep(r) \/ WorkerDies(r)
  PROVE  ContentStep
<1> DEFINE n == worker[r].pos
<1>1. /\ LedgerInv /\ PlanInv /\ TypeRows /\ files \in [Key -> FileRow] /\ ingests \in [Key -> Nat]
      /\ DOMAIN runs[r].plan = Span(r) /\ \A i \in Span(r) : runs[r].plan[i] \in Step
  BY PlanFacts DEF FullInv, LedgerInv, TypeRows, TypeHistory
<1>2. /\ worker[r].pc \in InStep => n \in Span(r)
      /\ worker[r].pc \in Working => \A i \in Span(r) : IsImport(r, i) => ClaimAsLeft(r, i)
      /\ At(r, "claimed") => IsImport(r, n)
      /\ ~At(r, "none") => lock = r
  BY WorkerPlaceFacts DEF FullInv, ClaimInv, ClaimOK, LedgerInv, ControlInv, OneActor
<1> HIDE DEF n
<1>3. CASE Begin(r) /\ At(r, "claimed")
  <2>1. /\ n \in Span(r) /\ IsImport(r, n) /\ lock = r /\ files' = files
        /\ ingests' = [ingests EXCEPT ![KeyOf(r, n)] = @ + 1]
    BY <1>2, <1>3 DEF Begin, Current, KeyOf, At, InStep, ledger, n
  <2>2. ClaimIs(r, n, "running") /\ FirstTime(r, n)
    BY <1>1, <1>2, <1>3, <2>1 DEF ClaimAsLeft, Working, InStep, At, n
  <2>3. ASSUME NEW k \in Key PROVE DoneKept(k) /\ RetryOnly(k)
    <3>1. CASE k = KeyOf(r, n)
      <4>1. Current(r).key = k /\ Current(r).retry \in BOOLEAN
        BY <1>1, <2>1, <3>1 DEF Current, KeyOf, Step, n
      <4>2. ~Current(r).retry => ingests[k] = 0
        BY <2>2, <3>1 DEF FirstTime, Current, KeyOf, n
      <4>3. files[k].status = "running"
        BY <2>2, <3>1 DEF ClaimIs
      <4>4. QED
        BY <2>1, <4>1, <4>2, <4>3 DEF DoneKept, RetryOnly
    <3>2. CASE k # KeyOf(r, n)
      BY <1>1, <2>1, <3>2 DEF DoneKept, RetryOnly
    <3>3. QED
      BY <3>1, <3>2
  <2>4. QED
    BY <2>3 DEF ContentStep
<1>4. CASE ~(Begin(r) /\ At(r, "claimed"))
  <2>1. ingests' = ingests
    BY <1>4 DEF WorkerStep, WorkerStart, Gate, Refused, ClaimContent, Begin, Return, Raise, Record, RecordFails,
                HandleFailure, Finish, WorkerCloses, WorkerDies, history
  <2>2. ASSUME NEW k \in Key, files[k].status = "success", files'[k] # files[k] PROVE FALSE
    <3>1. CASE ClaimContent(r) \/ Record(r)
      <4>1. /\ worker[r].pc \in {"ready", "record"} /\ n \in Span(r) /\ IsImport(r, n)
            /\ k = KeyOf(r, n)
        BY <1>1, <1>2, <2>2, <3>1 DEF ClaimContent, Record, HasClaim, Current, IsImport, KeyOf, At, InStep, n
      <4>2. ClaimAsLeft(r, n)
        BY <1>2, <4>1 DEF Working, InStep
      <4>3. files[k].status \in Active
        BY <4>1, <4>2 DEF ClaimAsLeft, ClaimWaits, ClaimIs, Active, n
      <4>4. QED
        BY <2>2, <4>3 DEF Active
    <3>2. CASE HandleFailure(r)
      <4>1. PICK s : files' = FilesAfterFailure(r, s)
        BY <3>2 DEF HandleFailure
      <4>2. IsImport(r, n) /\ k = KeyOf(r, n)
        BY <2>2, <4>1 DEF FilesAfterFailure, Current, IsImport, KeyOf, n
      <4>3. At(r, "handle") /\ ClaimAsLeft(r, n)
        BY <1>2, <3>2, <4>2 DEF HandleFailure, Working, InStep, At
      <4>4. files[k].status \in Active
        BY <4>2, <4>3 DEF ClaimAsLeft, ClaimIs, Active, At, n
      <4>5. QED
        BY <2>2, <4>4 DEF Active
    <3>3. CASE \/ WorkerStart(r) \/ Gate(r) \/ Refused(r) \/ Begin(r) \/ Return(r) \/ Raise(r)
               \/ RecordFails(r) \/ Finish(r) \/ WorkerCloses(r) \/ WorkerDies(r)
      BY <2>2, <3>3 DEF WorkerStart, Gate, Refused, Begin, Return, Raise, RecordFails, Finish, WorkerCloses,
                        WorkerDies, ledger
    <3>4. QED
      BY <3>1, <3>2, <3>3 DEF WorkerStep
  <2>3. QED
    BY <2>1, <2>2 DEF ContentStep, DoneKept, RetryOnly
<1>5. QED
  BY <1>3, <1>4

\* Content that succeeded is never imported again, and content once handed to ingest is
\* handed over again only by a run that asked for the retry, for any number of files,
\* scans, retries and deaths.
THEOREM ImportsAreOnRequest == Spec => ImportsOnRequest
<1>1. FullInv /\ [Next]_vars => [ContentStep]_vars
  <2> SUFFICES ASSUME FullInv, [Next]_vars PROVE ContentStep \/ UNCHANGED vars
    OBVIOUS
  <2>1. SaveSchedule => ContentStep
    BY DEF SaveSchedule, ContentStep, DoneKept, RetryOnly, history
  <2>2. QED
    BY <2>1, RequestContent, WorkerContent DEF Next
<1>2. ContentStep => /\ \A k \in Key : files[k].status = "success" =>
                          files'[k] = files[k] /\ ingests'[k] = ingests[k]
                     /\ \A k \in Key : ingests[k] > 0 /\ ingests'[k] # ingests[k] =>
                          \E r \in Run : lock = r /\ Current(r).key = k /\ Current(r).retry
  BY DEF ContentStep, DoneKept, RetryOnly
<1>3. Spec => [][ContentStep]_vars
  BY <1>1, FullInvariant, PTL DEF Spec
<1>4. Spec => [][\A k \in Key : files[k].status = "success" =>
                   files'[k] = files[k] /\ ingests'[k] = ingests[k]]_vars
  BY <1>2, <1>3, PTL
<1>5. Spec => [][\A k \in Key : ingests[k] > 0 /\ ingests'[k] # ingests[k] =>
                   \E r \in Run : lock = r /\ Current(r).key = k /\ Current(r).retry]_vars
  BY <1>2, <1>3, PTL
<1>6. QED
  BY <1>4, <1>5 DEF ImportsOnRequest, ImportedOnce, ReimportOnlyByRetry

-----------------------------------------------------------------------------
(***************************************************************************)
(* The ledger implements StageClaims.  While a run is unfinished and       *)
(* somebody is at it, every open claim is its own, and at most the one of  *)
(* its current step is marked running.                                     *)
(***************************************************************************)
PlaceOf(s, c) ==
  IF s \notin Active THEN "nobody"
  ELSE IF s = "queued" THEN "waiting"
  ELSE IF c = "claimed" THEN "importing"
  ELSE IF c = "handle" THEN "in doubt" ELSE "imported"

Busy == CurrentRun \in Unfinished(runs)

PlacesKnown ==
  ContentPlace = [k \in Key |-> IF Busy THEN PlaceOf(files[k].status, worker[CurrentRun].pc) ELSE "nobody"]

LEMMA PlacesAreKnown == FullInv => PlacesKnown
<1> SUFFICES ASSUME FullInv, NEW k \in Key
             PROVE  ContentPlace[k] = IF Busy THEN PlaceOf(files[k].status, worker[CurrentRun].pc) ELSE "nobody"
  BY DEF PlacesKnown, ContentPlace
<1>1. LedgerInv /\ ClaimInv
  BY DEF FullInv
<1>2. Busy /\ files[k].status \in Active => files[k].run = CurrentRun
  BY <1>1, OpenIsMine DEF Busy, Unfinished
<1>3. ~Busy => ~(files[k].status \in Active /\ files[k].run = CurrentRun)
  BY <1>1 DEF ClaimInv, OpenClaimsHaveARun, Busy
<1>4. files[k].status \in Active => files[k].status = "queued" \/ files[k].status = "running"
  BY DEF Active
<1> QED BY <1>2, <1>3, <1>4 DEF ContentPlace, PlaceOf, At

LEMMA PlacesStayKnown == FullInv' => PlacesKnown'
BY PlacesAreKnown, PTL

ClaimsOf(fs) == [k \in Key |-> fs[k].status]
ClaimStep    == Claims!Next \/ UNCHANGED <<ClaimsOf(files), ContentPlace, ingests>>

\* The claims are as they were and so are the places, or the run is left.
LEMMA ClaimsAsTheyWere ==
  ASSUME PlacesKnown, PlacesKnown', UNCHANGED <<files, ingests>>,
         ContentPlace' = ContentPlace \/ ~Busy'
  PROVE  ClaimStep
<1>1. CASE ContentPlace' = ContentPlace
  BY <1>1 DEF ClaimStep, ClaimsOf
<1>2. CASE ~Busy'
  <2>1. ContentPlace' = [k \in Key |-> "nobody"]
    BY <1>2 DEF PlacesKnown
  <2>2. Claims!Crash
    BY <2>1 DEF Claims!Crash
  <2> QED BY <2>2 DEF ClaimStep, Claims!Next
<1> QED BY <1>1, <1>2

\* What _lost makes of a claim is what StageClaims makes of it.
LEMMA LostClaimsAreLost ==
  ASSUME TypeRows, OpenClaimsHaveARun
  PROVE  \A k \in Key : LostFiles(runs, files)[k].status = Claims!Lost(files[k].status)
<1> SUFFICES ASSUME NEW k \in Key
             PROVE  LostFiles(runs, files)[k].status = Claims!Lost(files[k].status)
  OBVIOUS
<1>1. files[k] \in FileRow
  BY DEF TypeRows
<1>2. CASE files[k].status \in Active
  <2>1. files[k].run \in Unfinished(runs)
    BY <1>2 DEF OpenClaimsHaveARun
  <2>2. LostFiles(runs, files)[k] = [files[k] EXCEPT !.status = "unknown"]
    BY <1>2, <2>1 DEF LostFiles
  <2> QED BY <1>1, <1>2, <2>2 DEF FileRow, Claims!Lost, Claims!Pending, Active
<1>3. CASE files[k].status \notin Active
  BY <1>3 DEF LostFiles, Claims!Lost, Claims!Pending, Active
<1> QED BY <1>2, <1>3

\* Taking contents, none of them to settle what was left behind.
LEMMA TakingThem ==
  ASSUME FullInv, PlacesKnown, PlacesKnown', CurrentRun = 0, NEW S \in SUBSET Key, Claims!Takeable(S),
         \A k \in Key : files'[k].status = IF k \in S THEN "queued" ELSE LostFiles(runs, files)[k].status,
         ingests' = ingests, S # {} => Busy'
  PROVE  ClaimStep
<1>1. ~Busy
  BY DEF Busy, Unfinished, Run
<1>2. Claims!Held = {}
  BY <1>1 DEF PlacesKnown, Claims!Held
<1>3. \A k \in Key : files'[k].status = IF k \in S THEN "queued" ELSE Claims!Lost(files[k].status)
  BY LostClaimsAreLost DEF FullInv, LedgerInv, ClaimInv
<1>4. \A k \in Key : files'[k].status \in Active <=> k \in S
  BY <1>3 DEF Claims!Lost, Claims!Pending, Active
<1>5. ContentPlace' = [k \in Key |-> IF k \in S THEN "waiting" ELSE "nobody"]
  BY <1>3, <1>4 DEF PlacesKnown, PlaceOf
<1>6. Claims!Take
  BY <1>2, <1>3, <1>5 DEF Claims!Take
<1> QED BY <1>6 DEF ClaimStep, Claims!Next

LEMMA NothingIsTakeable == Claims!Takeable({})
BY DEF Claims!Takeable

LEMMA AdmitTakes ==
  ASSUME FullInv, RegInv, PlacesKnown, PlacesKnown', NEW t \in Request, NEW r \in Run, NEW j, NEW trigger,
         NEW p \in Plan, Shapely(p), NEW once, Admit(t, r, j, trigger, p, once)
  PROVE  ClaimStep
<1> DEFINE S == { k \in Key : Imports(p, k) }
<1>1. LedgerInv /\ TypeRows /\ OpenClaimsHaveARun /\ ClaimInv
  BY DEF FullInv, LedgerInv, ClaimInv
<1>2. CurrentRun = 0 /\ lock = t /\ lock' = t /\ reg'[t] = r
  BY <1>1, Places DEF Admit, HoldsLock, LedgerInv, ControlInv, ControlOK
<1>3. CurrentRun' = r
  BY <1>2, LedgerAssumption DEF CurrentRun
<1>4. Busy'
  <2>1. LostRuns(runs) \in [Run -> RunRow]
    BY <1>1, LostIsTyped
  <2>2. runs'[r].status = "queued"
    BY <2>1 DEF Admit
  <2> QED BY <1>3, <2>2 DEF Busy, Unfinished, Active
<1>5. ingests' = ingests
  BY DEF Admit, history
<1>6. \A k \in Key : files'[k].status = IF k \in S THEN "queued" ELSE LostFiles(runs, files)[k].status
  BY DEF Admit, Claimed
<1>7. Claims!Takeable(S)
  <2>1. CASE \A i \in DOMAIN p : ~p[i].retry
    <3>1. ASSUME NEW k \in S PROVE files[k].status = "new"
      <4>1. PICK i \in DOMAIN p : p[i].action = "stage_import" /\ p[i].key = k
        BY DEF Imports
      <4>2. LostFiles(runs, files)[k].status = "new"
        BY <2>1, <4>1 DEF Admit, Claimable
      <4> QED BY <1>1, <4>2, LostClosesClaims
    <3>2. \A k \in S : k \in Key /\ ClaimsOf(files)[k] = "new"
      BY <3>1 DEF ClaimsOf
    <3> HIDE DEF S
    <3> QED BY <3>2 DEF Claims!Takeable, ClaimsOf
  <2>2. CASE \E i \in DOMAIN p : p[i].retry
    <3>1. PICK i \in DOMAIN p : DOMAIN p = {i}
      BY <2>2 DEF Shapely
    <3>2. CASE p[i].action # "stage_import"
      <4>1. S = {}
        BY <3>1, <3>2 DEF Imports
      <4> QED BY <4>1, NothingIsTakeable
    <3>3. CASE p[i].action = "stage_import"
      <4>1. p[i].key \in Key
        BY <3>3 DEF Shapely
      <4>2. S = {p[i].key}
        BY <3>1, <3>3, <4>1 DEF Imports
      <4>3. LostFiles(runs, files)[p[i].key].status \in {"new", "failed", "unknown"}
        BY <3>3 DEF Admit, Claimable
      <4>4. \/ files[p[i].key].status = "new"
            \/ Claims!Lost(files[p[i].key].status) \in {"failed", "unknown"}
        BY <1>1, <4>1, <4>3, LostClosesClaims, LostClaimsAreLost
      <4>5. CASE files[p[i].key].status = "new"
        <5> HIDE DEF S
        <5> QED BY <4>1, <4>2, <4>5 DEF Claims!Takeable
      <4>6. CASE Claims!Lost(files[p[i].key].status) \in {"failed", "unknown"}
        <5>1. Claims!Lost(ClaimsOf(files)[p[i].key]) \in {"failed", "unknown"}
          BY <4>1, <4>6 DEF ClaimsOf
        <5>2. Claims!Takeable({p[i].key})
          BY <5>1 DEF Claims!Takeable, ClaimsOf
        <5> QED BY <4>2, <5>2
      <4> QED BY <4>4, <4>5, <4>6
    <3> QED BY <3>2, <3>3
  <2> QED BY <2>1, <2>2
<1> HIDE DEF S
<1>8. S \in SUBSET Key
  BY DEF S
<1> QED BY <1>2, <1>4, <1>5, <1>6, <1>7, <1>8, TakingThem

LEMMA RequestIsClaimStep ==
  ASSUME FullInv, RegInv, PlacesKnown, PlacesKnown', NEW t \in Request, RequestStep(t)
  PROVE  ClaimStep
<1>1. LedgerInv /\ TypeRows /\ ClaimInv /\ 0 \notin Run
  BY DEF FullInv, LedgerInv, Run
<1>2. CASE Submit(t)
  <2>1. PICK r \in Run, j \in JobName, trigger \in {"manual", "stage"},
             p \in JobPlans \cup MartPlans \cup ScanPlans \cup FilePlans \cup ExportPlans :
          Admit(t, r, j, trigger, p, FALSE)
    BY <1>2 DEF Submit, SubmitRun, SubmitRefresh, SubmitImport, SubmitExport, JobName
  <2> QED BY <2>1, AdmitTakes, PlansAreTyped, PlansAreShaped
<1>3. CASE TickAdmit(t)
  <2>1. PICK r \in Run, j \in JobName, once \in BOOLEAN :
          \E p \in SchedulePlans(j) : Admit(t, r, j, "schedule", p, once)
    BY <1>3 DEF TickAdmit
  <2>2. PICK p \in SchedulePlans(j) : Admit(t, r, j, "schedule", p, once)
    BY <2>1
  <2> QED BY <2>2, AdmitTakes, SchedulesAreShaped
<1>4. CASE TickSkip(t) \/ Recover(t) \/ SaveMartSchedule(t)
  <2>1. pc[t] \in HoldsLock \ {"admitted"}
    BY <1>4 DEF TickSkip, Recover, SaveMartSchedule, HoldsLock
  <2>2. CurrentRun = 0
    BY <1>1, <2>1, Places
  <2>3. files' = LostFiles(runs, files) /\ ingests' = ingests
    BY <1>4 DEF TickSkip, Recover, SaveMartSchedule, history
  <2> QED BY <2>2, <2>3, NothingIsTakeable, TakingThem
<1>5. CASE TickSkipBusy(t)
  <2>1. UNCHANGED <<files, ingests, worker, CurrentRun>>
    BY <1>5 DEF TickSkipBusy, history, CurrentRun
  <2>2. PICK r \in Run, j \in JobName, off \in BOOLEAN : \E p \in SchedulePlans(j) \cup {<< >>} :
          SkippedRow(runs, steps, enabled, r, j, p, off)
    BY <1>5 DEF TickSkipBusy
  <2>3. PICK p : SkippedRow(runs, steps, enabled, r, j, p, off)
    BY <2>2
  <2>4. /\ runs[r].status = "absent" /\ runs'[r].status = "skipped"
        /\ \A s \in Run \ {r} : runs'[s] = runs[s]
    BY <1>1, <2>3 DEF SkippedRow, Fresh, TypeRows
  <2>5. Unfinished(runs') = Unfinished(runs)
    BY <2>4 DEF Unfinished, Active
  <2>6. ContentPlace' = ContentPlace
    BY <2>1, <2>5 DEF PlacesKnown, Busy
  <2> QED BY <2>1, <2>6, ClaimsAsTheyWere
<1>6. CASE TickRefused(t) \/ TickDefers(t) \/ EditMart(t) \/ Refuse(t)
  <2>1. UNCHANGED <<runs, files, ingests, worker, CurrentRun>>
    BY <1>6 DEF TickRefused, TickDefers, EditMart, Refuse, ledger, history, CurrentRun
  <2>2. ContentPlace' = ContentPlace
    BY <2>1 DEF PlacesKnown, Busy
  <2> QED BY <2>1, <2>2, ClaimsAsTheyWere
<1>7. CASE TakeLock(t)
  <2>1. UNCHANGED <<files, ingests>> /\ lock' = t /\ reg'[t] = 0
    BY <1>7 DEF TakeLock, ledger, history, RegInv
  <2>2. ~Busy'
    BY <1>1, <2>1, LedgerAssumption DEF Busy, CurrentRun, Unfinished
  <2> QED BY <2>1, <2>2, ClaimsAsTheyWere
<1>8. CASE StartWorker(t)
  <2>1. /\ lock = t /\ reg[t] \in Run /\ lock' = reg[t]
        /\ UNCHANGED <<runs, files, ingests>> /\ DOMAIN worker = Run
    <3>1. pc[t] = "admitted" /\ lock' = reg[t] /\ UNCHANGED <<runs, files, ingests>>
      BY <1>8 DEF StartWorker, ledger, history
    <3>2. lock = t
      BY <1>1, <3>1, Places DEF HoldsLock
    <3>3. reg[t] \in Run /\ DOMAIN worker = Run
      BY <1>1, <3>1 DEF LedgerInv, ControlInv, ControlOK
    <3> QED BY <3>1, <3>2, <3>3
  <2>2. CurrentRun = reg[t] /\ CurrentRun' = reg[t]
    BY <2>1, LedgerAssumption DEF CurrentRun
  <2>3. worker[reg[t]].pc = "none" /\ worker'[reg[t]].pc = "start"
    <3>1. lock \notin Run
      BY <2>1, LedgerAssumption
    <3> QED BY <1>1, <1>8, <2>1, <3>1 DEF StartWorker, LedgerInv, ControlInv, OneActor, At
  <2>4. ContentPlace' = ContentPlace
    BY <2>1, <2>2, <2>3 DEF PlacesKnown, PlaceOf, Busy
  <2> QED BY <2>1, <2>4, ClaimsAsTheyWere
<1>9. CASE StartFails(t) \/ Close(t) \/ RequestDies(t)
  <2>1. UNCHANGED <<runs, files, ingests, worker>>
    BY <1>9 DEF StartFails, Close, RequestDies, ledger, history
  <2>2. CurrentRun' = 0 \/ CurrentRun' = CurrentRun
    BY <1>1, <1>9, LeavingFrees
  <2>3. CASE CurrentRun' = CurrentRun
    BY <2>1, <2>3, ClaimsAsTheyWere DEF PlacesKnown, Busy
  <2>4. CASE CurrentRun' = 0
    BY <1>1, <2>1, <2>4, ClaimsAsTheyWere DEF Busy, Unfinished
  <2> QED BY <2>2, <2>3, <2>4
<1> QED BY <1>2, <1>3, <1>4, <1>5, <1>6, <1>7, <1>8, <1>9 DEF RequestStep

\* A worker that has not ended its run is at the one that has the place.
LEMMA AtItsRun ==
  ASSUME FullInv, RegInv, PlacesKnown, NEW r \in Run, worker[r].pc \in {"start"} \cup Working
  PROVE  /\ lock = r /\ runs[r].status \in Active
         /\ ContentPlace = [k \in Key |-> PlaceOf(files[k].status, worker[r].pc)]
<1>1. LedgerInv /\ StepInv /\ ClaimInv
  BY DEF FullInv
<1>2. lock = r /\ CurrentRun = r
  BY <1>1, Places DEF At, Working, InStep
<1>3. runs[r].status \in Active
  BY <1>1, WorkerPlaceFacts DEF At, Active
<1> QED BY <1>2, <1>3 DEF PlacesKnown, Busy, Unfinished

LEMMA StillAtItsRun ==
  ASSUME PlacesKnown', NEW r \in Run, lock' = r, runs'[r].status \in Active
  PROVE  ContentPlace' = [k \in Key |-> PlaceOf(files'[k].status, worker'[r].pc)]
<1>1. CurrentRun' = r
  BY DEF CurrentRun
<1> QED BY <1>1 DEF PlacesKnown, Busy, Unfinished

\* A claim that is marked running is the one of the step at hand.
LEMMA RunningIsAtHand ==
  ASSUME FullInv, NEW r \in Run, worker[r].pc \in {"start"} \cup Working,
         NEW k \in Key, files[k].status = "running"
  PROVE  /\ worker[r].pc \in {"claimed", "calling", "record", "handle"}
         /\ Current(r).action = "stage_import" /\ Current(r).key = k /\ files[k].run = r
<1> DEFINE n == worker[r].pos
<1>1. LedgerInv /\ StepInv /\ ClaimInv /\ ClaimOK(r)
  BY DEF FullInv, ClaimInv
<1>2. runs[r].status \in Active /\ n \in Int /\ Span(r) \subseteq Int
  BY <1>1, WorkerPlaceFacts DEF At, Active
<1>3. PICK i \in Span(r) : files[k].run = r /\ IsImport(r, i) /\ KeyOf(r, i) = k
  BY <1>1, <1>2, OpenIsMine DEF Active
<1>4. ~ClaimWaits(r, i) /\ ~ClaimClosed(r, i)
  BY <1>3 DEF ClaimWaits, ClaimIs, ClaimClosed, Active
<1>5. worker[r].pc # "start"
  BY <1>1, <1>3, <1>4, WorkerPlaceFacts DEF ClaimOK, At
<1>6. ClaimAsLeft(r, i)
  BY <1>1, <1>3, <1>5 DEF ClaimOK
<1>7. i = n /\ worker[r].pc \notin {"gate", "ready"}
  BY <1>2, <1>3, <1>4, <1>6 DEF ClaimAsLeft
<1> QED BY <1>3, <1>5, <1>7 DEF IsImport, KeyOf, Current, Working, InStep

\* What else its run has taken waits.
LEMMA AloneAtIt ==
  ASSUME FullInv, RegInv, PlacesKnown, NEW r \in Run, worker[r].pc \in InStep,
         Current(r).action = "stage_import"
  PROVE  /\ Current(r).key \in Key /\ Claims!Alone(Current(r).key)
         /\ ContentPlace[Current(r).key] = PlaceOf(files[Current(r).key].status, worker[r].pc)
<1>1. LedgerInv /\ PlanInv /\ StepInv /\ ClaimInv /\ worker[r].pc \in Working
  BY DEF FullInv, Working
<1>2. worker[r].pos \in Span(r) /\ IsImport(r, worker[r].pos)
  BY <1>1, WorkerPlaceFacts DEF IsImport, Current
<1>3. Current(r).key \in Key
  BY <1>1, <1>2, ImportsApart DEF KeyOf, Current
<1>4. ContentPlace = [k \in Key |-> PlaceOf(files[k].status, worker[r].pc)]
  BY <1>1, AtItsRun
<1>5. ASSUME NEW k \in Key \ {Current(r).key} PROVE ContentPlace[k] \in {"nobody", "waiting"}
  BY <1>1, <1>4, RunningIsAtHand DEF PlaceOf, Active
<1> QED BY <1>3, <1>4, <1>5 DEF Claims!Alone

LEMMA OnePlaceMoves ==
  ASSUME NEW r \in Run, NEW key \in Key, Claims!Alone(key),
         ContentPlace = [k \in Key |-> PlaceOf(files[k].status, worker[r].pc)],
         ContentPlace' = [k \in Key |-> PlaceOf(files'[k].status, worker'[r].pc)],
         \A k \in Key \ {key} : files'[k] = files[k]
  PROVE  ContentPlace' = [ContentPlace EXCEPT ![key] = PlaceOf(files'[key].status, worker'[r].pc)]
<1>1. \A k \in Key \ {key} : PlaceOf(files[k].status, worker[r].pc) \in {"nobody", "waiting"}
  BY DEF Claims!Alone
<1>2. \A k \in Key \ {key} :
         PlaceOf(files'[k].status, worker'[r].pc) = PlaceOf(files[k].status, worker[r].pc)
  BY <1>1 DEF PlaceOf
<1> QED BY <1>2

\* Steps that leave the contents where they are: an operation that is no import, and what
\* comes before one is begun or after it has returned.
LEMMA QuietWork ==
  ASSUME FullInv, RegInv, PlacesKnown, PlacesKnown', NEW r \in Run,
         worker[r].pc \in {"start"} \cup Working, lock' = lock, runs'[r].status \in Active,
         UNCHANGED <<files, ingests>>,
         \/ worker[r].pc \in {"start", "gate", "ready"}
         \/ worker[r].pc \in {"calling", "record"} /\ worker'[r].pc \in {"calling", "record"}
         \/ Current(r).action # "stage_import"
  PROVE  ClaimStep
<1>1. /\ lock = r
      /\ ContentPlace = [k \in Key |-> PlaceOf(files[k].status, worker[r].pc)]
  BY AtItsRun
<1>2. ContentPlace' = [k \in Key |-> PlaceOf(files[k].status, worker'[r].pc)]
  BY <1>1, StillAtItsRun
<1>3. ASSUME NEW k \in Key PROVE PlaceOf(files[k].status, worker'[r].pc) = PlaceOf(files[k].status, worker[r].pc)
  <2>1. CASE files[k].status = "running"
    <3>1. worker[r].pc \in {"calling", "record"} /\ worker'[r].pc \in {"calling", "record"}
      BY <2>1, RunningIsAtHand
    <3> QED BY <2>1, <3>1 DEF PlaceOf
  <2>2. CASE files[k].status # "running"
    BY <2>2 DEF PlaceOf, Active
  <2> QED BY <2>1, <2>2
<1> QED BY <1>1, <1>2, <1>3, ClaimsAsTheyWere

LEMMA QuietClaims ==
  ASSUME FullInv, RegInv, PlacesKnown, PlacesKnown', NEW r \in Run,
         \/ WorkerStart(r) \/ Gate(r) \/ Refused(r) \/ Return(r)
         \/ Current(r).action # "stage_import" /\ (Begin(r) \/ Raise(r) \/ Record(r) \/ RecordFails(r))
  PROVE  ClaimStep
<1>1. /\ worker \in [Run -> [pc: WorkerPC, pos: Int, outcome: Outcome]]
      /\ runs \in [Run -> RunRow] /\ ClaimOK(r)
  BY DEF FullInv, LedgerInv, ControlInv, ControlOK, TypeRows, ClaimInv
<1>2. CASE WorkerStart(r)
  <2>1. /\ worker[r].pc = "start" /\ UNCHANGED <<lock, files, ingests>>
        /\ runs' = [runs EXCEPT ![r].status = "running"]
    BY <1>2 DEF WorkerStart, At, history
  <2>2. runs'[r].status \in Active
    BY <1>1, <2>1 DEF Active, RunRow
  <2>3. worker[r].pc \in {"start"} \cup Working /\ worker[r].pc \in {"start", "gate", "ready"}
    BY <2>1
  <2> QED BY <2>1, <2>2, <2>3, QuietWork
<1>3. CASE Gate(r) \/ Refused(r)
  <2>1. worker[r].pc \in {"gate", "ready"} /\ UNCHANGED <<lock, runs, files, ingests>>
    BY <1>3 DEF Gate, Refused, At, ledger, history
  <2>2. worker[r].pc \in Working
    BY <2>1 DEF Working, InStep
  <2>3. runs'[r].status \in Active
    BY <2>1, <2>2, AtItsRun
  <2> QED BY <2>1, <2>2, <2>3, QuietWork
<1>4. CASE Return(r)
  <2>1. /\ worker[r].pc = "calling" /\ UNCHANGED <<lock, runs, files, ingests>>
        /\ worker' = [worker EXCEPT ![r].pc = "record"]
    BY <1>4 DEF Return, Goto, At, ledger
  <2>2. worker'[r].pc = "record" /\ worker[r].pc \in Working
    BY <1>1, <2>1 DEF Working, InStep
  <2>3. runs'[r].status \in Active
    BY <2>1, <2>2, AtItsRun
  <2> QED BY <2>1, <2>2, <2>3, QuietWork
<1>5. CASE Current(r).action # "stage_import" /\ (Begin(r) \/ Raise(r) \/ Record(r) \/ RecordFails(r))
  <2>1. ~At(r, "claimed")
    BY <1>1, <1>5 DEF ClaimOK, IsImport, Current
  <2>2. worker[r].pc \in {"ready", "calling", "record"} /\ UNCHANGED <<lock, runs, files, ingests>>
    BY <1>5, <2>1 DEF Begin, Raise, Record, RecordFails, HasClaim, At, ledger, history
  <2>3. worker[r].pc \in Working
    BY <2>2 DEF Working, InStep
  <2>4. runs'[r].status \in Active
    BY <2>2, <2>3, AtItsRun
  <2> QED BY <1>5, <2>2, <2>3, <2>4, QuietWork
<1> QED BY <1>2, <1>3, <1>4, <1>5

LEMMA HolderClaims ==
  ASSUME NEW key \in Key, ContentPlace[key] # "nobody",
         Claims!Begin(key) \/ Claims!Import(key) \/ Claims!Doubt(key) \/ Claims!Succeed(key) \/ Claims!Fail(key)
  PROVE  ClaimStep
<1>1. key \in Claims!Held
  BY DEF Claims!Held
<1>2. Claims!Next
  BY <1>1 DEF Claims!Next
<1> QED BY <1>2 DEF ClaimStep

LEMMA ImportClaims ==
  ASSUME FullInv, RegInv, PlacesKnown, PlacesKnown', NEW r \in Run, Current(r).action = "stage_import",
         ClaimContent(r) \/ Begin(r) \/ Raise(r) \/ Record(r) \/ RecordFails(r)
  PROVE  ClaimStep
<1> DEFINE n == worker[r].pos
<1>1. /\ LedgerInv /\ PlanInv /\ StepInv /\ ClaimInv /\ files \in [Key -> FileRow]
      /\ worker \in [Run -> [pc: WorkerPC, pos: Int, outcome: Outcome]]
  BY DEF FullInv, LedgerInv, ControlInv, ControlOK, TypeRows
<1>2. worker[r].pc \in {"ready", "claimed", "calling", "record"} /\ UNCHANGED <<lock, runs>>
  BY DEF ClaimContent, Begin, Raise, Record, RecordFails, At, ledger
<1>3. worker[r].pc \in InStep /\ worker[r].pc \in Working
  BY <1>2 DEF InStep, Working
<1>k. PICK key \in Key : key = Current(r).key
  BY <1>3, AloneAtIt
<1>4. /\ Claims!Alone(key)
      /\ ContentPlace[key] = PlaceOf(files[key].status, worker[r].pc)
  BY <1>3, <1>k, AloneAtIt
<1>5. /\ lock = r /\ runs'[r].status \in Active
      /\ ContentPlace = [k \in Key |-> PlaceOf(files[k].status, worker[r].pc)]
  BY <1>2, <1>3, AtItsRun
<1>6. ContentPlace' = [k \in Key |-> PlaceOf(files'[k].status, worker'[r].pc)]
  BY <1>2, <1>5, StillAtItsRun
<1>7. /\ n \in Span(r) /\ IsImport(r, n) /\ KeyOf(r, n) = key
      /\ ClaimAsLeft(r, n)
  BY <1>1, <1>3, <1>k, WorkerPlaceFacts DEF IsImport, KeyOf, Current
<1>8. /\ files[key].run = r
      /\ files[key].status = IF worker[r].pc = "ready" THEN "queued" ELSE "running"
  BY <1>2, <1>7 DEF ClaimAsLeft, ClaimWaits, ClaimIs
<1>9. (\A k \in Key \ {key} : files'[k] = files[k]) =>
        ContentPlace' = [ContentPlace EXCEPT ![key] = PlaceOf(files'[key].status, worker'[r].pc)]
  BY <1>4, <1>5, <1>6, OnePlaceMoves
<1>10. CASE ClaimContent(r)
  <2>1. /\ worker[r].pc = "ready" /\ ingests' = ingests
        /\ files' = [files EXCEPT ![key].status = "running"]
        /\ worker' = [worker EXCEPT ![r].pc = "claimed"]
    BY <1>k, <1>10 DEF ClaimContent, Goto, At, history
  <2>2. worker'[r].pc = "claimed"
    BY <1>1, <2>1
  <2>3. files'[key].status = "running" /\ \A k \in Key \ {key} : files'[k] = files[k]
    BY <1>1, <1>4, <2>1 DEF FileRow
  <2>4. PlaceOf(files'[key].status, worker'[r].pc) = "importing"
    BY <2>2, <2>3 DEF PlaceOf, Active
  <2>5. ContentPlace' = [ContentPlace EXCEPT ![key] = "importing"]
    BY <1>9, <2>3, <2>4
  <2>6. ContentPlace[key] = "waiting"
    BY <1>4, <1>8, <2>1 DEF PlaceOf, Active
  <2>7. ClaimsOf(files)' = [ClaimsOf(files) EXCEPT ![key] = "running"]
    BY <1>4, <2>3 DEF ClaimsOf
  <2>8. Claims!Begin(key)
    BY <1>4, <2>1, <2>5, <2>6, <2>7 DEF Claims!Begin, ClaimsOf
  <2> QED BY <2>6, <2>8, HolderClaims
<1>11. CASE Begin(r)
  <2>1. /\ worker[r].pc = "claimed" /\ ingests' = [ingests EXCEPT ![key] = @ + 1]
        /\ files' = files /\ worker' = [worker EXCEPT ![r].pc = "calling"]
    BY <1>k, <1>11 DEF Begin, Goto, At, ledger
  <2>2. worker'[r].pc = "calling"
    BY <1>1, <2>1
  <2>3. PlaceOf(files'[key].status, worker'[r].pc) = "imported"
    BY <1>8, <2>1, <2>2 DEF PlaceOf, Active
  <2>4. ContentPlace' = [ContentPlace EXCEPT ![key] = "imported"]
    BY <1>9, <2>1, <2>3
  <2>5. ContentPlace[key] = "importing"
    BY <1>4, <1>8, <2>1 DEF PlaceOf, Active
  <2>6. Claims!Import(key)
    BY <2>1, <2>4, <2>5 DEF Claims!Import
  <2> QED BY <2>5, <2>6, HolderClaims
<1>12. CASE Raise(r) \/ RecordFails(r)
  <2>1. /\ worker[r].pc \in {"calling", "record"} /\ UNCHANGED <<files, ingests>>
        /\ \E o \in Outcome : worker' = [worker EXCEPT ![r].pc = "handle", ![r].outcome = o]
    BY <1>12 DEF Raise, RecordFails, Fail, At, ledger, history, Outcome
  <2>2. worker'[r].pc = "handle"
    BY <1>1, <2>1
  <2>3. PlaceOf(files'[key].status, worker'[r].pc) = "in doubt"
    BY <1>8, <2>1, <2>2 DEF PlaceOf, Active
  <2>4. ContentPlace' = [ContentPlace EXCEPT ![key] = "in doubt"]
    BY <1>9, <2>1, <2>3
  <2>5. ContentPlace[key] = "imported"
    BY <1>4, <1>8, <2>1 DEF PlaceOf, Active
  <2>6. Claims!Doubt(key)
    BY <2>1, <2>4, <2>5 DEF Claims!Doubt
  <2> QED BY <2>5, <2>6, HolderClaims
<1>13. CASE Record(r)
  <2>1. /\ worker[r].pc = "record" /\ ingests' = ingests
        /\ files' = [files EXCEPT ![key].status = "success"]
    BY <1>k, <1>8, <1>13 DEF Record, HasClaim, At, history
  <2>2. files'[key].status = "success" /\ \A k \in Key \ {key} : files'[k] = files[k]
    BY <1>1, <1>4, <2>1 DEF FileRow
  <2>3. PlaceOf(files'[key].status, worker'[r].pc) = "nobody"
    BY <2>2 DEF PlaceOf, Active
  <2>4. ContentPlace' = [ContentPlace EXCEPT ![key] = "nobody"]
    BY <1>9, <2>2, <2>3
  <2>5. ContentPlace[key] = "imported"
    BY <1>4, <1>8, <2>1 DEF PlaceOf, Active
  <2>6. ClaimsOf(files)' = [ClaimsOf(files) EXCEPT ![key] = "success"]
    BY <1>4, <2>2 DEF ClaimsOf
  <2>7. Claims!Succeed(key)
    BY <2>1, <2>4, <2>5, <2>6 DEF Claims!Succeed, ClaimsOf
  <2> QED BY <2>5, <2>7, HolderClaims
<1> QED BY <1>10, <1>11, <1>12, <1>13

\* A run that ended has left its place, whoever still holds the lock.
LEMMA EndedIsNotBusy ==
  ASSUME NEW r \in Run, lock' = r, runs'[r].status \notin Active
  PROVE  ~Busy'
<1>1. CurrentRun' = r
  BY DEF CurrentRun
<1> QED BY <1>1 DEF Busy, Unfinished

LEMMA FailureEndsClaims ==
  ASSUME FullInv, RegInv, PlacesKnown, PlacesKnown', NEW r \in Run, HandleFailure(r)
  PROVE  ClaimStep
<1>1. /\ LedgerInv /\ PlanInv /\ StepInv /\ ClaimInv
      /\ files \in [Key -> FileRow] /\ runs \in [Run -> RunRow]
  BY DEF FullInv, LedgerInv, TypeRows
<1>2. worker[r].pc = "handle" /\ worker[r].pc \in InStep /\ worker[r].pc \in Working
  BY DEF HandleFailure, At, InStep, Working
<1>3. /\ lock = r /\ runs[r].status \in Active
      /\ ContentPlace = [k \in Key |-> PlaceOf(files[k].status, "handle")]
  BY <1>2, AtItsRun
<1>4. PICK s \in {"failed", "unknown"} :
        /\ Uncertain(r) => s = "unknown"
        /\ runs' = [runs EXCEPT ![r].status = s]
        /\ files' = FilesAfterFailure(r, s)
  BY DEF HandleFailure
<1>5. UNCHANGED <<lock, ingests>>
  BY DEF HandleFailure, history
<1>6. ~Busy'
  <2>1. runs'[r].status = s
    BY <1>1, <1>4 DEF RunRow
  <2> QED BY <1>3, <1>5, <2>1, EndedIsNotBusy DEF Active
<1>7. CASE Current(r).action # "stage_import"
  <2>1. files' = files
    BY <1>1, <1>4, <1>7 DEF FilesAfterFailure
  <2> QED BY <1>5, <1>6, <2>1, ClaimsAsTheyWere
<1>8. CASE Current(r).action = "stage_import"
  <2>k. PICK key \in Key : key = Current(r).key
    BY <1>2, <1>8, AloneAtIt
  <2>1. Claims!Alone(key)
    BY <1>2, <1>8, <2>k, AloneAtIt
  <2>2. files[key].run = r /\ files[key].status \in {"queued", "running"}
    <3>1. /\ worker[r].pos \in Span(r) /\ IsImport(r, worker[r].pos) /\ KeyOf(r, worker[r].pos) = key
          /\ ClaimAsLeft(r, worker[r].pos)
      BY <1>1, <1>2, <1>8, <2>k, WorkerPlaceFacts DEF IsImport, KeyOf, Current
    <3> QED BY <1>2, <3>1 DEF ClaimAsLeft, ClaimIs
  <2>3. /\ ContentPlace[key] = IF files[key].status = "queued" THEN "waiting" ELSE "in doubt"
        /\ ContentPlace[key] = "in doubt" => s = "unknown"
    <3>1. files[key].status = "running" => s = "unknown"
      BY <1>4, <1>8, <2>2, <2>k DEF Uncertain, HasClaim
    <3> QED BY <1>3, <2>2, <3>1 DEF PlaceOf, Active
  <2>4. ASSUME NEW k \in Key \ {key}
        PROVE  files'[k].status = IF ContentPlace[k] = "waiting" THEN "new" ELSE files[k].status
    <3>1. ContentPlace[k] = "waiting" <=> files[k].status = "queued"
      BY <1>3 DEF PlaceOf, Active
    <3>2. files[k].status = "queued" => files[k].run = r
      BY <1>1, <1>3, OpenIsMine DEF Active
    <3>3. files'[k] = IF files[k].run = r /\ files[k].status = "queued" THEN NoFile ELSE files[k]
      BY <1>4, <1>8, <2>k DEF FilesAfterFailure
    <3> QED BY <3>1, <3>2, <3>3 DEF NoFile
  <2>5. files'[key].status = s
    BY <1>1, <1>4, <1>8, <2>2, <2>k DEF FilesAfterFailure, FileRow
  <2>6. ContentPlace' = [k \in Key |-> "nobody"]
    BY <1>6 DEF PlacesKnown
  <2>7. ClaimsOf(files)' = [k \in Key |-> IF k = key THEN s
                                          ELSE IF ContentPlace[k] = "waiting" THEN "new" ELSE ClaimsOf(files)[k]]
    BY <2>4, <2>5 DEF ClaimsOf
  <2>8. Claims!Fail(key)
    <3>1. ContentPlace[key] \in {"waiting", "in doubt"}
      BY <2>3
    <3> QED BY <1>5, <2>1, <2>3, <2>6, <2>7, <3>1 DEF Claims!Fail, ClaimsOf
  <2>9. ContentPlace[key] # "nobody"
    BY <2>3
  <2> QED BY <2>8, <2>9, HolderClaims
<1> QED BY <1>7, <1>8

LEMMA WorkerIsClaimStep ==
  ASSUME FullInv, RegInv, PlacesKnown, PlacesKnown', NEW r \in Run, WorkerStep(r) \/ WorkerDies(r)
  PROVE  ClaimStep
<1>1. CASE Finish(r)
  <2>1. /\ lock = r /\ runs \in [Run -> RunRow]
        /\ UNCHANGED <<lock, files, ingests>> /\ runs' = [runs EXCEPT ![r].status = "success"]
    BY <1>1, Places DEF Finish, At, history, FullInv, LedgerInv, TypeRows
  <2>2. runs'[r].status = "success"
    BY <2>1 DEF RunRow
  <2>3. ~Busy'
    BY <2>1, <2>2, EndedIsNotBusy DEF Active
  <2> QED BY <2>1, <2>3, ClaimsAsTheyWere
<1>2. CASE WorkerCloses(r) \/ WorkerDies(r)
  <2>1. lock' = Free /\ UNCHANGED <<files, ingests>>
    BY <1>2 DEF WorkerCloses, WorkerDies, ledger, history
  <2>2. CurrentRun' = 0
    BY <2>1, LedgerAssumption DEF CurrentRun
  <2>3. ~Busy'
    BY <2>2 DEF Busy, Unfinished, Run
  <2> QED BY <2>1, <2>3, ClaimsAsTheyWere
<1>3. CASE ClaimContent(r)
  <2>1. Current(r).action = "stage_import"
    BY <1>3 DEF ClaimContent
  <2> QED BY <1>3, <2>1, ImportClaims
<1>4. CASE Begin(r) \/ Raise(r) \/ Record(r) \/ RecordFails(r)
  BY <1>4, QuietClaims, ImportClaims
<1> QED BY <1>1, <1>2, <1>3, <1>4, QuietClaims, FailureEndsClaims DEF WorkerStep

\* The ledger keeps its promise of contents, whatever runs, requests and the tick do and
\* wherever they die: contents are taken together, worked on one at a time, left behind by
\* nobody, and handed over again only by a run for that content alone (_claim, _lost and
\* _worker, jobs_resident.py).
THEOREM LedgerKeepsItsClaims == Spec => ImplementsClaims
<1>1. Init => Claims!Init
  BY DEF Init, NoFile, Active, ContentPlace, Claims!Init
<1>2. Init => RegInv
  BY DEF Init, RegInv
<1>3. FullInv => LedgerInv
  BY DEF FullInv
<1>4. FullInv /\ RegInv /\ PlacesKnown /\ PlacesKnown' /\ [Next]_vars => [Claims!Next]_(Claims!claimVars)
  <2> SUFFICES ASSUME FullInv, RegInv, PlacesKnown, PlacesKnown', [Next]_vars PROVE ClaimStep
    BY DEF ClaimStep, ClaimsOf, Claims!claimVars
  <2>1. CASE SaveSchedule \/ UNCHANGED vars
    <3>1. UNCHANGED <<runs, files, worker, lock, reg, ingests>>
      BY <2>1 DEF SaveSchedule, threads, history, vars
    <3>2. ContentPlace' = ContentPlace
      BY <3>1 DEF ContentPlace, CurrentRun, At
    <3> QED BY <3>1, <3>2, ClaimsAsTheyWere
  <2> QED BY <2>1, RequestIsClaimStep, WorkerIsClaimStep DEF Next
<1> QED BY <1>1, <1>2, <1>3, <1>4, FullInvariant, RegNext, PlacesAreKnown, PlacesStayKnown, PTL
        DEF Spec, ImplementsClaims, Claims!Spec
=============================================================================
