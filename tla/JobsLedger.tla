------------------------------ MODULE JobsLedger ------------------------------
(***************************************************************************)
(* The durable jobs ledger of tools/local_experiment/jobs_resident.py:     *)
(* the SQLite tables runs, steps and stage_files, the enabled bit of       *)
(* schedules, and the file lock jobs-active.lock that admission, recovery  *)
(* and the worker of a run take in turn.  No queue, no automatic retry:    *)
(* whoever holds the lock may declare the unfinished runs lost.            *)
(*                                                                         *)
(* A committed SQLite transaction is one step.  Threads of one server and  *)
(* of several servers on the same state directory look alike here: each    *)
(* may die at any step, which closes the descriptor that held the lock.    *)
(***************************************************************************)
EXTENDS Integers, Sequences

CONSTANTS
  Request,   \* threads that serve HTTP requests or the scheduler's tick
  Job,       \* names of registered jobs
  Stage,     \* job names "stage:<name>" of registered stages
  Mart,      \* job names "mart:<name>" of registered marts
  Key,       \* (stage name, content key) pairs, the primary key of stage_files
  MaxRuns,   \* bound: rows the model inserts into runs
  MaxSteps,  \* bound: steps of a run (the code allows 50, and 10 of a scan)
  MaxClock,  \* bound: the readings of the clock that stamps a run
  NoJob, NoKey, Free

Run == 1..MaxRuns
Pos == 1..MaxSteps
JobName == Job \cup Stage \cup Mart

ASSUME LedgerAssumption ==
  /\ MaxRuns \in Nat \ {0} /\ MaxSteps \in Nat \ {0} /\ MaxClock \in Nat \ {0}
  /\ Request \cap Run = {} /\ Free \notin Request \cup Run
  /\ NoJob \notin JobName /\ NoKey \notin Key
  /\ Job \cap Mart = {} /\ Job \cap Stage = {} /\ Stage \cap Mart = {}

VARIABLES
  lock,      \* holder of jobs-active.lock: Free, a request, or a run's worker
  runs,      \* table runs
  steps,     \* table steps: status by run and position
  files,     \* table stage_files: the row of each content key
  enabled,   \* schedules.enabled of each job name
  pc,        \* where each request thread is
  reg,       \* the run a request thread has just inserted
  worker,    \* the worker thread of each run
  begun,     \* history: positions whose external operation was started
  reported,  \* history: positions whose operation returned its report
  ingests    \* history: how often the content of a key was handed to ingest

ledger  == <<runs, steps, files, enabled>>
threads == <<lock, pc, reg, worker>>
history == <<begun, reported, ingests>>
vars    == <<lock, runs, steps, files, enabled, pc, reg, worker, begun, reported, ingests>>

(***************************************************************************)
(* Rows                                                                    *)
(***************************************************************************)
Active     == {"queued", "running"}
Terminal   == {"success", "failed", "unknown", "skipped"}
RunStatus  == Active \cup Terminal \cup {"absent"}
StepStatus == {"none", "pending", "running"} \cup Terminal
FileStatus == {"new", "queued", "running", "success", "failed", "unknown"}
Trigger    == {"none", "manual", "stage", "schedule"}

\* "sql" stands for every action without bookkeeping of its own: sql, ingest,
\* dbt, wap_refresh, wap_publish, alert and stage_scan_empty.
Action == {"sql", "stage_import", "stage_export", "mart_refresh"}
Step   == [action: Action, key: Key \cup {NoKey}, retry: BOOLEAN]

Plain(a)     == [action |-> a, key |-> NoKey, retry |-> FALSE]
Import(k, b) == [action |-> "stage_import", key |-> k, retry |-> b]

Plan    == { p \in Seq(Step) : Len(p) <= MaxSteps }
RunRow  == [job: JobName \cup {NoJob}, trigger: Trigger, plan: Plan, status: RunStatus,
            created: 0..MaxClock]
FileRow == [status: FileStatus, run: Run \cup {0}]

NoRun  == [job |-> NoJob, trigger |-> "none", plan |-> << >>, status |-> "absent",
           created |-> 0]
NoFile == [status |-> "new", run |-> 0]

(***************************************************************************)
(* What may be submitted: a registered job, one file or a scan of a stage, *)
(* an export, a mart refresh.  A scan never retries and never repeats a    *)
(* content key.                                                            *)
(***************************************************************************)
JobPlans  == { [i \in 1..n |-> Plain("sql")] : n \in Pos }
MartPlans == { <<Plain("mart_refresh")>> }
ScanPlans == { <<Plain("sql")>> } \cup
  UNION { { [i \in 1..n |-> Import(ks[i], FALSE)] :
             ks \in { f \in [1..n -> Key] : \A i, j \in 1..n : f[i] = f[j] => i = j } } :
          n \in Pos }
FilePlans   == { <<Import(k, b)>> : k \in Key, b \in BOOLEAN }
ExportPlans == { <<Plain("stage_export")>> }

\* _now: a clock that may be set back between two runs.  Only the order of a mart's
\* runs is ever read from it, and never that of a skipped one.
Created(j) == IF j \in Mart THEN 1..MaxClock ELSE {0}

SchedulePlans(j) == CASE j \in Job  -> JobPlans
                      [] j \in Mart -> MartPlans
                      [] j \in Stage -> ScanPlans

(***************************************************************************)
(* _lost: every unfinished run becomes unknown, with its steps, claims and *)
(* the schedule of an unfinished mart.                                     *)
(***************************************************************************)
Unfinished(rs) == { r \in Run : rs[r].status \in Active }

\* Mutants: a recovery that forgets queued rows, and one that takes skipped ones.
LostRunsRunningOnly(rs) ==
  [r \in Run |-> IF rs[r].status = "running" THEN [rs[r] EXCEPT !.status = "unknown"] ELSE rs[r]]

LostRunsAndSkipped(rs) ==
  [r \in Run |-> IF rs[r].status \in Active \cup {"skipped"}
                   THEN [rs[r] EXCEPT !.status = "unknown"] ELSE rs[r]]

LostRuns(rs) ==
  [r \in Run |-> IF r \in Unfinished(rs) THEN [rs[r] EXCEPT !.status = "unknown"] ELSE rs[r]]

LostStep(s) == IF s = "running" THEN "unknown" ELSE IF s = "pending" THEN "skipped" ELSE s

LostSteps(rs, ss) ==
  [r \in Run |-> IF r \in Unfinished(rs) THEN [i \in Pos |-> LostStep(ss[r][i])] ELSE ss[r]]

\* Mutant: a recovery that forgets the claims of imports not yet started.
LostFilesRunningOnly(rs, fs) ==
  [k \in Key |-> IF fs[k].status = "running" /\ fs[k].run \in Unfinished(rs)
                   THEN [fs[k] EXCEPT !.status = "unknown"] ELSE fs[k]]

LostFiles(rs, fs) ==
  [k \in Key |-> IF fs[k].status \in Active /\ fs[k].run \in Unfinished(rs)
                   THEN [fs[k] EXCEPT !.status = "unknown"] ELSE fs[k]]

LostEnabled(rs, en) ==
  [j \in JobName |-> en[j] /\ ~(j \in Mart /\ \E r \in Unfinished(rs) : rs[r].job = j)]

(***************************************************************************)
(* _requires_manual: going back from the latest stamp, an unknown run of   *)
(* the mart comes before any successful manual refresh.  Runs of one stamp *)
(* count in the order they were inserted.  (A manual refresh never reports *)
(* "unchanged".)                                                           *)
(***************************************************************************)
Newer(rs, s, r) ==
  rs[s].created > rs[r].created \/ (rs[s].created = rs[r].created /\ s > r)

Refreshed(rs, s, j) == rs[s].job = j /\ rs[s].status = "success" /\ rs[s].trigger = "manual"

RequiresManual(rs, j) ==
  \E r \in Run :
    /\ rs[r].job = j /\ rs[r].status = "unknown"
    /\ ~\E s \in Run : Refreshed(rs, s, j) /\ Newer(rs, s, r)

(***************************************************************************)
(* _claim: content is imported once; failed or unknown content only by an  *)
(* explicit retry.                                                         *)
(***************************************************************************)
Imports(p, k) == \E i \in DOMAIN p : p[i].action = "stage_import" /\ p[i].key = k

Claimable(p, fs) ==
  \A i \in DOMAIN p : p[i].action = "stage_import" =>
    \/ fs[p[i].key].status = "new"
    \/ fs[p[i].key].status \in {"failed", "unknown"} /\ p[i].retry

Claimed(r, p, fs) ==
  [k \in Key |-> IF Imports(p, k) THEN [status |-> "queued", run |-> r] ELSE fs[k]]

\* uuid4 never repeats and rowid grows: a fresh run takes the next free number.
Fresh(r) == runs[r].status = "absent" /\ \A s \in Run : s < r => runs[s].status # "absent"

NewSteps(p, s) == [i \in Pos |-> IF i <= Len(p) THEN s ELSE "none"]

(***************************************************************************)
(* Threads                                                                 *)
(***************************************************************************)
PC       == {"idle", "refused", "holding", "admitted", "recovering", "closing"}
HoldsLock == {"holding", "admitted", "recovering", "closing"}
WorkerPC == {"none", "start", "gate", "ready", "claimed", "calling", "record", "handle", "closing"}
Outcome  == {"none", "failed", "unknown"}
Thread   == [pc: WorkerPC, pos: 0..(MaxSteps + 1), outcome: Outcome]
NoWorker == [pc |-> "none", pos |-> 0, outcome |-> "none"]

Init ==
  /\ lock = Free
  /\ runs = [r \in Run |-> NoRun]
  /\ steps = [r \in Run |-> [i \in Pos |-> "none"]]
  /\ files = [k \in Key |-> NoFile]
  /\ enabled = [j \in JobName |-> FALSE]
  /\ pc = [t \in Request |-> "idle"]
  /\ reg = [t \in Request |-> 0]
  /\ worker = [r \in Run |-> NoWorker]
  /\ begun = [r \in Run |-> {}]
  /\ reported = [r \in Run |-> {}]
  /\ ingests = [k \in Key |-> 0]

\* _lock: a non-blocking exclusive flock.  A refused caller changes nothing,
\* except that the tick goes on to look why it was refused.
TakeLock(t) ==
  /\ pc[t] = "idle" /\ lock = Free
  /\ lock' = t
  /\ pc' = [pc EXCEPT ![t] = "holding"]
  /\ UNCHANGED <<ledger, reg, worker, history>>

TickRefused(t) ==
  /\ pc[t] = "idle" /\ lock # Free
  /\ pc' = [pc EXCEPT ![t] = "refused"]
  /\ UNCHANGED <<ledger, lock, reg, worker, history>>

\* The transaction every admission shares: _lost, then _insert_run with claims.
Admit(t, r, j, trigger, p, once) ==
  /\ pc[t] = "holding" /\ Fresh(r)
  /\ Claimable(p, LostFiles(runs, files))
  /\ \E now \in Created(j) :
       runs' = [LostRuns(runs) EXCEPT
                  ![r] = [job |-> j, trigger |-> trigger, plan |-> p, status |-> "queued",
                          created |-> now]]
  /\ steps' = [LostSteps(runs, steps) EXCEPT ![r] = NewSteps(p, "pending")]
  /\ files' = Claimed(r, p, LostFiles(runs, files))
  /\ enabled' = IF once THEN [LostEnabled(runs, enabled) EXCEPT ![j] = FALSE]
                        ELSE LostEnabled(runs, enabled)
  /\ pc' = [pc EXCEPT ![t] = "admitted"]
  /\ reg' = [reg EXCEPT ![t] = r]
  /\ UNCHANGED <<lock, worker, history>>

SubmitRun(t) ==
  \E r \in Run, j \in Job, p \in JobPlans : Admit(t, r, j, "manual", p, FALSE)

SubmitRefresh(t) ==
  \E r \in Run, j \in Mart, p \in MartPlans : Admit(t, r, j, "manual", p, FALSE)

\* One file, or a scan, of a stage.
SubmitImport(t) ==
  \E r \in Run, j \in Stage, p \in ScanPlans \cup FilePlans : Admit(t, r, j, "stage", p, FALSE)

SubmitExport(t) ==
  \E r \in Run, j \in Stage, p \in ExportPlans : Admit(t, r, j, "stage", p, FALSE)

Submit(t) == SubmitRun(t) \/ SubmitRefresh(t) \/ SubmitImport(t) \/ SubmitExport(t)

\* _tick admits a due occurrence of an enabled schedule; kind "once" disables it.
TickAdmit(t) ==
  \E r \in Run, j \in JobName, once \in BOOLEAN : \E p \in SchedulePlans(j) :
    /\ enabled[j]
    /\ j \in Mart => ~RequiresManual(LostRuns(runs), j)
    /\ Admit(t, r, j, "schedule", p, once)

\* A slot that is late, blocked, unauthorised or invalid: a skipped row, with
\* "paused" set by the last two and by an unresolved mart outcome.
SkippedRow(rs, ss, en, r, j, p, off) ==
  /\ Fresh(r) /\ enabled[j]
  /\ j \in Mart /\ RequiresManual(rs, j) => off
  /\ runs' = [rs EXCEPT ![r] = [job |-> j, trigger |-> "schedule", plan |-> p, status |-> "skipped",
                                created |-> 0]]
  /\ steps' = [ss EXCEPT ![r] = NewSteps(p, "skipped")]
  /\ enabled' = [en EXCEPT ![j] = ~off]

TickSkip(t) ==
  /\ pc[t] = "holding"
  /\ \E r \in Run, j \in JobName, off \in BOOLEAN : \E p \in SchedulePlans(j) \cup {<< >>} :
       SkippedRow(LostRuns(runs), LostSteps(runs, steps), LostEnabled(runs, enabled), r, j, p, off)
  /\ files' = LostFiles(runs, files)
  /\ pc' = [pc EXCEPT ![t] = "closing"]
  /\ UNCHANGED <<lock, reg, worker, history>>

\* Mutant: the refused tick declares runs lost all the same.
TickSkipBusyRecovers(t) ==
  /\ pc[t] = "refused" /\ Unfinished(runs) # {}
  /\ \E r \in Run, j \in JobName, off \in BOOLEAN : \E p \in SchedulePlans(j) \cup {<< >>} :
       SkippedRow(LostRuns(runs), LostSteps(runs, steps), enabled, r, j, p, off)
  /\ pc' = [pc EXCEPT ![t] = "idle"]
  /\ UNCHANGED <<files, lock, reg, worker, history>>

\* Refused, and the ledger shows an unfinished run: skipped without a queue.
TickSkipBusy(t) ==
  /\ pc[t] = "refused" /\ Unfinished(runs) # {}
  /\ \E r \in Run, j \in JobName, off \in BOOLEAN : \E p \in SchedulePlans(j) \cup {<< >>} :
       SkippedRow(runs, steps, enabled, r, j, p, off)
  /\ pc' = [pc EXCEPT ![t] = "idle"]
  /\ UNCHANGED <<files, lock, reg, worker, history>>

\* Refused, and either no run is unfinished, so that the lock belongs to somebody's
\* recovery or admission, or the schedule is no longer due: the slot stays.
TickDefers(t) ==
  /\ pc[t] = "refused"
  /\ pc' = [pc EXCEPT ![t] = "idle"]
  /\ UNCHANGED <<ledger, lock, reg, worker, history>>

\* Mutant: a reader declares runs lost without asking for the lock.
RecoverUnlocked(t) ==
  /\ pc[t] \in {"idle", "holding", "recovering"}
  /\ runs' = LostRuns(runs)
  /\ steps' = LostSteps(runs, steps)
  /\ files' = LostFiles(runs, files)
  /\ enabled' = LostEnabled(runs, enabled)
  /\ pc' = [pc EXCEPT ![t] = IF @ = "idle" THEN "idle" ELSE "closing"]
  /\ UNCHANGED <<lock, reg, worker, history>>

\* _recover: list_runs, get_run and list_schedules declare unfinished runs lost.
Recover(t) ==
  /\ pc[t] \in {"holding", "recovering"}
  /\ runs' = LostRuns(runs)
  /\ steps' = LostSteps(runs, steps)
  /\ files' = LostFiles(runs, files)
  /\ enabled' = LostEnabled(runs, enabled)
  /\ pc' = [pc EXCEPT ![t] = "closing"]
  /\ UNCHANGED <<lock, reg, worker, history>>

\* marts.save_schedule other than a pause: recovery and the manual-refresh check
\* share one transaction, so a refusal rolls both back (Refuse).
SaveMartSchedule(t) ==
  /\ pc[t] = "holding"
  /\ runs' = LostRuns(runs)
  /\ steps' = LostSteps(runs, steps)
  /\ files' = LostFiles(runs, files)
  /\ \E j \in Mart, on \in BOOLEAN :
       /\ on => ~RequiresManual(runs', j)
       /\ enabled' = [LostEnabled(runs, enabled) EXCEPT ![j] = on]
  /\ pc' = [pc EXCEPT ![t] = "closing"]
  /\ UNCHANGED <<lock, reg, worker, history>>

\* marts.save_target pauses the schedule under the lock, without recovery.
EditMart(t) ==
  /\ pc[t] = "holding"
  /\ \E j \in Mart : enabled' = [enabled EXCEPT ![j] = FALSE]
  /\ pc' = [pc EXCEPT ![t] = "closing"]
  /\ UNCHANGED <<lock, runs, steps, files, reg, worker, history>>

\* Validation, ownership, a claim conflict or the ledger refuses: rolled back.
Refuse(t) ==
  /\ pc[t] \in {"holding", "recovering"}
  /\ pc' = [pc EXCEPT ![t] = "closing"]
  /\ UNCHANGED <<ledger, lock, reg, worker, history>>

\* _start_worker: the new thread owns the descriptor, and with it the lock.
StartWorker(t) ==
  /\ pc[t] = "admitted"
  /\ lock' = reg[t]
  /\ worker' = [worker EXCEPT ![reg[t]] = [pc |-> "start", pos |-> 1, outcome |-> "none"]]
  /\ pc' = [pc EXCEPT ![t] = "idle"]
  /\ reg' = [reg EXCEPT ![t] = 0]
  /\ UNCHANGED <<ledger, history>>

\* get_run or thread start raises after the commit: a request just unlocks, the
\* tick first declares its own run lost.
StartFails(t) ==
  /\ pc[t] = "admitted"
  /\ pc' = [pc EXCEPT ![t] = IF runs[reg[t]].trigger = "schedule" THEN "recovering" ELSE "closing"]
  /\ reg' = [reg EXCEPT ![t] = 0]
  /\ UNCHANGED <<ledger, lock, worker, history>>

Close(t) ==
  /\ pc[t] = "closing"
  /\ lock' = Free
  /\ pc' = [pc EXCEPT ![t] = "idle"]
  /\ UNCHANGED <<ledger, reg, worker, history>>

\* The process of a request dies: the kernel drops its flock.
RequestDies(t) ==
  /\ pc[t] # "idle"
  /\ lock' = IF lock = t THEN Free ELSE lock
  /\ pc' = [pc EXCEPT ![t] = "idle"]
  /\ reg' = [reg EXCEPT ![t] = 0]
  /\ UNCHANGED <<ledger, worker, history>>

\* Schedules of jobs and stages are saved, and any schedule paused, unlocked;
\* save_stage pauses as well.
SaveSchedule ==
  /\ \E j \in JobName, on \in BOOLEAN :
       /\ on => j \notin Mart
       /\ enabled' = [enabled EXCEPT ![j] = on]
  /\ UNCHANGED <<runs, steps, files, threads, history>>

(***************************************************************************)
(* _worker                                                                 *)
(***************************************************************************)
At(r, c)   == worker[r].pc = c
Goto(r, c) == worker' = [worker EXCEPT ![r].pc = c]
Fail(r, o) == worker' = [worker EXCEPT ![r].pc = "handle", ![r].outcome = o]
Current(r) == runs[r].plan[worker[r].pos]

\* The stage_files row found by last_run_id and position.
HasClaim(r) == Current(r).action = "stage_import" /\ files[Current(r).key].run = r

WorkerStart(r) ==
  /\ At(r, "start")
  /\ runs' = [runs EXCEPT ![r].status = "running"]
  /\ Goto(r, "gate")
  /\ UNCHANGED <<steps, files, enabled, lock, pc, reg, history>>

\* The account, the mode and the 900 s budget hold: the step is marked running.
Gate(r) ==
  /\ At(r, "gate") /\ worker[r].pos <= Len(runs[r].plan)
  /\ steps' = [steps EXCEPT ![r][worker[r].pos] = "running"]
  /\ Goto(r, "ready")
  /\ UNCHANGED <<runs, files, enabled, lock, pc, reg, history>>

\* They do not hold, or the operation is refused before it starts: the role
\* ceiling, the stage's file check, the export's and the mart's revision.
Refused(r) ==
  /\ worker[r].pc \in {"gate", "ready"} /\ worker[r].pos <= Len(runs[r].plan)
  /\ \E o \in {"failed", "unknown"} : Fail(r, o)
  /\ UNCHANGED <<ledger, lock, pc, reg, history>>

\* _execute_import commits the claim as running before it calls ingest.
ClaimContent(r) ==
  /\ At(r, "ready") /\ Current(r).action = "stage_import"
  /\ files' = [files EXCEPT ![Current(r).key].status = "running"]
  /\ Goto(r, "claimed")
  /\ UNCHANGED <<runs, steps, enabled, lock, pc, reg, history>>

Begin(r) ==
  /\ \/ At(r, "ready") /\ Current(r).action # "stage_import" /\ UNCHANGED ingests
     \/ At(r, "claimed") /\ ingests' = [ingests EXCEPT ![Current(r).key] = @ + 1]
  /\ begun' = [begun EXCEPT ![r] = @ \cup {worker[r].pos}]
  /\ Goto(r, "calling")
  /\ UNCHANGED <<ledger, lock, pc, reg, reported>>

Return(r) ==
  /\ At(r, "calling")
  /\ reported' = [reported EXCEPT ![r] = @ \cup {worker[r].pos}]
  /\ Goto(r, "record")
  /\ UNCHANGED <<ledger, lock, pc, reg, begun, ingests>>

\* The operation raises.  Every exception of an import is StepUnknown.
Raise(r) ==
  /\ At(r, "calling")
  /\ \E o \in {"failed", "unknown"} :
       /\ Current(r).action = "stage_import" => o = "unknown"
       /\ Fail(r, o)
  /\ UNCHANGED <<ledger, lock, pc, reg, history>>

\* The success transaction of one step.
Record(r) ==
  /\ At(r, "record")
  /\ steps' = [steps EXCEPT ![r][worker[r].pos] = "success"]
  /\ files' = IF HasClaim(r) THEN [files EXCEPT ![Current(r).key].status = "success"] ELSE files
  /\ worker' = [worker EXCEPT ![r].pc = "gate", ![r].pos = @ + 1]
  /\ UNCHANGED <<runs, enabled, lock, pc, reg, history>>

\* That transaction raises: an export or a refresh was already published.
RecordFails(r) ==
  /\ At(r, "record")
  /\ Fail(r, IF Current(r).action \in {"stage_export", "mart_refresh"} THEN "unknown" ELSE "failed")
  /\ UNCHANGED <<ledger, lock, pc, reg, history>>

\* A claim the ledger shows running makes the outcome of an import unknown.
Uncertain(r) ==
  \/ worker[r].outcome = "unknown"
  \/ HasClaim(r) /\ files[Current(r).key].status = "running"

\* Mutants: the claims behind a failed import stay, and its own row is dropped.
FilesAfterFailureKept(r, s) ==
  [k \in Key |-> IF k = Current(r).key /\ files[k].run = r
                   THEN [files[k] EXCEPT !.status = s] ELSE files[k]]

FilesAfterFailureDropped(r, s) ==
  [k \in Key |-> IF Current(r).action = "stage_import" /\ files[k].run = r
                      /\ files[k].status \in Active
                   THEN NoFile ELSE files[k]]

FilesAfterFailure(r, s) ==
  [k \in Key |->
     IF Current(r).action # "stage_import" \/ files[k].run # r THEN files[k]
     ELSE IF k = Current(r).key THEN [files[k] EXCEPT !.status = s]
     ELSE IF files[k].status = "queued" THEN NoFile ELSE files[k]]

\* The failure transaction: the step, the steps never started, the claims never
\* started, the schedule of a mart, the run.
HandleFailure(r) ==
  /\ At(r, "handle")
  /\ LET s == IF Uncertain(r) THEN "unknown" ELSE "failed"
     IN  /\ runs' = [runs EXCEPT ![r].status = s]
         /\ steps' = [steps EXCEPT ![r] =
              [i \in Pos |-> IF i = worker[r].pos THEN s
                             ELSE IF steps[r][i] = "pending" THEN "skipped" ELSE steps[r][i]]]
         /\ files' = FilesAfterFailure(r, s)
         /\ enabled' = IF Current(r).action = "mart_refresh"
                         THEN [enabled EXCEPT ![runs[r].job] = FALSE] ELSE enabled
  /\ Goto(r, "closing")
  /\ UNCHANGED <<lock, pc, reg, history>>

Finish(r) ==
  /\ At(r, "gate") /\ worker[r].pos > Len(runs[r].plan)
  /\ runs' = [runs EXCEPT ![r].status = "success"]
  /\ Goto(r, "closing")
  /\ UNCHANGED <<steps, files, enabled, lock, pc, reg, history>>

WorkerCloses(r) ==
  /\ At(r, "closing")
  /\ lock' = Free
  /\ worker' = [worker EXCEPT ![r] = NoWorker]
  /\ UNCHANGED <<ledger, pc, reg, history>>

\* The process dies, or a ledger write outside the step's handler raises: the
\* lock goes, the rows stay as they are until somebody recovers them.
WorkerDies(r) ==
  /\ ~At(r, "none")
  /\ lock' = Free
  /\ worker' = [worker EXCEPT ![r] = NoWorker]
  /\ UNCHANGED <<ledger, pc, reg, history>>

RequestStep(t) ==
  \/ TakeLock(t) \/ TickRefused(t) \/ Submit(t) \/ TickAdmit(t) \/ TickSkip(t)
  \/ TickSkipBusy(t) \/ TickDefers(t) \/ Recover(t) \/ SaveMartSchedule(t) \/ EditMart(t)
  \/ Refuse(t) \/ StartWorker(t) \/ StartFails(t) \/ Close(t) \/ RequestDies(t)

\* The steps a worker thread takes while its process lives.
WorkerStep(r) ==
  \/ WorkerStart(r) \/ Gate(r) \/ Refused(r) \/ ClaimContent(r) \/ Begin(r)
  \/ Return(r) \/ Raise(r) \/ Record(r) \/ RecordFails(r) \/ HandleFailure(r)
  \/ Finish(r) \/ WorkerCloses(r)

Next ==
  \/ \E t \in Request : RequestStep(t)
  \/ \E r \in Run : WorkerStep(r) \/ WorkerDies(r)
  \/ SaveSchedule

Spec == Init /\ [][Next]_vars

(***************************************************************************)
(* Fairness: a live worker thread and a request thread that holds the lock *)
(* are scheduled by the interpreter (weak).  The Workbench page asks for   *)
(* the list of runs every 2 seconds while it shows a live one: somebody's  *)
(* attempts at the lock and recovery are repeated for ever (strong).       *)
(***************************************************************************)
Fairness ==
  /\ \A r \in Run : WF_vars(WorkerStep(r))
  /\ \A t \in Request :
       WF_vars(TickDefers(t) \/ StartWorker(t) \/ StartFails(t) \/ Recover(t) \/ Refuse(t) \/ Close(t))

Polling(t) == SF_vars(TakeLock(t)) /\ SF_vars(Recover(t))

FairSpec == Spec /\ Fairness /\ \A t \in Request : Polling(t)

(***************************************************************************)
(* Properties                                                              *)
(***************************************************************************)
TypeOK ==
  /\ lock \in Request \cup Run \cup {Free}
  /\ runs \in [Run -> RunRow]
  /\ steps \in [Run -> [Pos -> StepStatus]]
  /\ files \in [Key -> FileRow]
  /\ enabled \in [JobName -> BOOLEAN]
  /\ pc \in [Request -> PC]
  /\ reg \in [Request -> Run \cup {0}]
  /\ worker \in [Run -> Thread]
  /\ begun \in [Run -> SUBSET Pos]
  /\ reported \in [Run -> SUBSET Pos]
  /\ ingests \in [Key -> Nat]

\* At most one run is queued or running in a state directory, whatever dies
\* (the unique index one_active_job would otherwise reject the insert).
OneActive == \A r, s \in Unfinished(runs) : r = s

\* One thread at a time is between taking the lock and closing it, worker or
\* request, although the descriptor changes hands in _start_worker.
OneActor ==
  /\ \A r \in Run : ~At(r, "none") => lock = r
  /\ \A t \in Request : pc[t] \in HoldsLock => lock = t

\* Nobody declares a run lost, or ends it, under a worker that is still at it.
WorkerKeepsItsRun ==
  \A r \in Run :
    /\ At(r, "start") => runs[r].status = "queued"
    /\ worker[r].pc \in WorkerPC \ {"none", "start", "closing"} => runs[r].status = "running"

\* What the history says of a step is true: a pending or skipped step was never
\* started, a success returned its report, and a failed import, export or
\* refresh did not publish (an import that failed did not even start).
StepsTellTheTruth ==
  \A r \in Run, i \in Pos :
    /\ steps[r][i] \in {"none", "pending", "skipped"} => i \notin begun[r]
    /\ steps[r][i] = "success" => i \in reported[r]
    /\ steps[r][i] = "failed" /\ runs[r].plan[i].action # "sql" =>
         i \notin (IF runs[r].plan[i].action = "stage_import" THEN begun[r] ELSE reported[r])

\* Fail fast: a step is started only after every earlier step succeeded, and a
\* run counts as success only when all its steps do.
FailFast ==
  \A r \in Run :
    /\ \A i \in begun[r] : \A j \in 1..(i - 1) : steps[r][j] = "success"
    /\ runs[r].status = "success" => \A i \in 1..Len(runs[r].plan) : steps[r][i] = "success"

\* A claim is open only while its run is unfinished: no content stays blocked by
\* a run that ended, and no open claim is left without a run that names it.
OpenClaimsHaveARun ==
  \A k \in Key : files[k].status \in Active =>
    \E r \in Unfinished(runs) : files[k].run = r /\ Imports(runs[r].plan, k)

\* Automation never passes an unresolved mart outcome: a mart whose schedule is on
\* shows, for each run of unknown outcome, a successful manual refresh inserted after
\* it and stamped no earlier.  One from before the unknown run counts in one case,
\* where the clock was set back between the two (marts_resident.py:185-187).
MartAutomationResolved ==
  \A j \in Mart, r \in Run :
    enabled[j] /\ runs[r].job = j /\ runs[r].status = "unknown" =>
      \E s \in Run :
        /\ Refreshed(runs, s, j)
        /\ \/ s > r /\ runs[s].created >= runs[r].created
           \/ s < r /\ runs[s].created > runs[r].created

\* One run, one actor and one lock at a time (_lock, _recover, _start_worker).
OneAtATime == TypeOK /\ OneActive /\ OneActor /\ WorkerKeepsItsRun

\* What the page shows of a run can be relied on: steps, claims and mart schedules
\* agree with what was done, after every failure (_worker, _lost, _claim).
HistoryInv == FailFast /\ OpenClaimsHaveARun /\ StepsTellTheTruth /\ MartAutomationResolved

\* A run that ended is never touched again, nor are its steps: no replay.
EndedRunsAreFinal ==
  [][\A r \in Run : runs[r].status \in Terminal =>
       runs'[r] = runs[r] /\ steps'[r] = steps[r]]_vars

\* Content that succeeded under a stage and its settings is never imported again,
\* by hand or by a scan.
ImportedOnce ==
  [][\A k \in Key : files[k].status = "success" =>
       files'[k] = files[k] /\ ingests'[k] = ingests[k]]_vars

\* Content that was ever handed to ingest is handed to it again only by a run
\* that asked for the retry.
ReimportOnlyByRetry ==
  [][\A k \in Key : ingests[k] > 0 /\ ingests'[k] # ingests[k] =>
       \E r \in Run : lock = r /\ Current(r).key = k /\ Current(r).retry]_vars

\* Content reaches the lake once, or again where somebody asked for it (_claim).
ImportsOnRequest == ImportedOnce /\ ReimportOnlyByRetry

\* The run whose admission or worker has the lock.
CurrentRun == IF lock \in Run THEN lock
              ELSE IF lock \in Request THEN reg[lock] ELSE 0

\* The promise of the ledger without threads, lock file or steps.
Slot == INSTANCE JobSlot WITH status <- [r \in Run |-> runs[r].status], holder <- CurrentRun

\* The ledger implements that promise: every step of a thread, a recovery or a death is
\* one of JobSlot's or changes nothing there (jobs_resident.py).
ImplementsSlot == Slot!Spec

\* Where a content is: with its run while that lives, as far as the worker got.
ContentPlace ==
  [k \in Key |->
     IF files[k].status \notin Active \/ files[k].run # CurrentRun THEN "nobody"
     ELSE IF files[k].status = "queued" THEN "waiting"
     ELSE IF At(CurrentRun, "claimed") THEN "importing"
     ELSE IF At(CurrentRun, "handle") THEN "in doubt" ELSE "imported"]

\* The promise of the ledger about contents.
Claims == INSTANCE StageClaims WITH
            claim <- [k \in Key |-> files[k].status], place <- ContentPlace, handed <- ingests

\* Whatever runs do, one after the other, through deaths and recoveries: a content is
\* taken, handed over and settled as StageClaims says (jobs_resident.py:544-571).
ImplementsClaims == Claims!Spec

\* A worker gives the lock back, whatever its steps do.
WorkersEnd == \A r \in Run : lock = r ~> lock # r

\* Every admitted run reaches an end, even if its worker was never started or
\* died, because somebody keeps asking.
RunsEnd == \A r \in Run : runs[r].status \in Active ~> runs[r].status \in Terminal

\* Nothing stays: neither the lock with a worker, nor a run in the list as active.
WorkersAndRunsEnd == WorkersEnd /\ RunsEnd
=============================================================================
