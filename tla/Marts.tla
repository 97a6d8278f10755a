------------------------------- MODULE Marts -------------------------------
(***************************************************************************)
(* One managed mart: its definition in the WAP registry, the refresh that  *)
(* rebuilds and publishes it as a job, the timed check for changed         *)
(* sources, and the older stage / publish / refresh / rollback commands    *)
(* that work on the same tables.  Source: marts_resident.py and            *)
(* wap_resident.py; the ledger is reduced to the run of this mart and to   *)
(* whether an unknown outcome is still unresolved, as it is while the      *)
(* clock is not set back (JobsLedger has that case and the rest), the      *)
(* schedule to being on for a version (Schedules has the rest).            *)
(*                                                                         *)
(* Three actors hold the locks: the refresh (an admitted job), the editor  *)
(* (Save of a definition) and the operator (a WAP command of a terminal or *)
(* of a registered job).  The first two are threads of the server.         *)
(***************************************************************************)
EXTENDS Integers

CONSTANTS Table,        \* the source tables that the mart watches
          MaxSnapshot,  \* bound: snapshots ever committed to a source, from 1
          MaxVersion,   \* bound: versions of the definition, from 1
          None,         \* no table, no baseline, no entry
          Free          \* a lock that nobody holds

VARIABLES source,     \* the current snapshot of each source table
          newest,     \* the latest snapshot committed to each source table
          sandbox,    \* content of iceberg.sandbox.<name>
          target,     \* content of iceberg.marts.<name>
          past,       \* an earlier content of it, to which it can be rolled back
          late,       \* a replacement that Trino still executes for a client that is gone
          entry,      \* the registry's entry
          schedule,   \* the mart's row of schedules
          run,        \* kind of this mart's unfinished run, None when there is none
          debt,       \* an unknown outcome that no manual refresh has resolved
          jobLock, opLock,
          op,         \* the data operation of the refresh and of the operator
          editor,     \* the editor's place in save_target
          outside,    \* history: something but a refresh wrote to the target since one did
          rolled,     \* history: a source has gone back to an earlier snapshot
          doubt       \* history: a publication's outcome is not known, or its baseline or
                      \* success was not recorded, and no manual refresh succeeded since

vars == <<source, newest, sandbox, target, past, late, entry, schedule, run, debt,
          jobLock, opLock, op, editor, outside, rolled, doubt>>
sources == <<source, newest>>
tables  == <<sandbox, target, past, late>>
ledger  == <<schedule, run, debt>>
history == <<outside, rolled, doubt>>

Version   == 0..MaxVersion          \* 0: not a managed definition
Foreign   == -1                     \* rows that no WAP operation wrote
Snapshots == [Table -> 0..MaxSnapshot]
Nothing   == [t \in Table |-> 0]

\* What a table holds: the definition and the snapshots it was built from, and
\* whether it meets min_rows and not_null.
Content  == [of: {Foreign} \cup Version, from: Snapshots, good: BOOLEAN]
Baseline == [version: Version, snapshots: Snapshots]
Entry    == [owned: BOOLEAN, version: Version, watched: BOOLEAN, baseline: Baseline \cup {None}]
Managed  == {"manual", "scheduled"}
Command  == {"stage", "publish", "rebuild", "rollback"}
Place    == {"idle", "admit", "entry", "sources", "decide", "unchanged", "data", "build",
             "audit", "replace", "record", "baseline", "finish"}
Actor    == {"refresh", "operator"}
Op       == [pc: Place, kind: Managed \cup Command \cup {None}, version: Version,
             watched: BOOLEAN, seen: Snapshots, base: Baseline \cup {None}, staged: Content \cup {None}]

NoOp   == [pc |-> "idle", kind |-> None, version |-> 0, watched |-> FALSE, seen |-> Nothing,
           base |-> None, staged |-> None]
Legacy == [owned |-> FALSE, version |-> 0, watched |-> FALSE, baseline |-> None]

Owned == entry # None /\ entry.owned

TypeOK ==
  /\ source \in Snapshots /\ newest \in Snapshots
  /\ sandbox \in Content \cup {None} /\ target \in Content \cup {None}
  /\ past \in Content \cup {None} /\ late \in Content \cup {None}
  /\ entry \in Entry \cup {None}
  /\ schedule \in [on: BOOLEAN, version: Version]
  /\ run \in Managed \cup {None} /\ debt \in BOOLEAN
  /\ jobLock \in {"refresh", "editor", Free}
  /\ opLock \in {"refresh", "operator", "editor", Free}
  /\ op \in [Actor -> Op]
  /\ editor \in {"idle", "register", "replace"}
  /\ outside \in BOOLEAN /\ rolled \in BOOLEAN /\ doubt \in BOOLEAN

Init ==
  /\ source = [t \in Table |-> 1] /\ newest = source
  /\ sandbox = None /\ target = None /\ past = None /\ late = None
  /\ entry = None /\ schedule = [on |-> FALSE, version |-> 0]
  /\ run = None /\ debt = FALSE
  /\ jobLock = Free /\ opLock = Free
  /\ op = [a \in Actor |-> NoOp] /\ editor = "idle"
  /\ outside = FALSE /\ rolled = FALSE /\ doubt = FALSE

-----------------------------------------------------------------------------
(* What the other users of Trino do meanwhile. *)

\* The target gets a new snapshot; the one before stays in its history.  What becomes
\* current out of turn is told apart by its quality alone: outside is TRUE then.
Unattributed(content) == [content EXCEPT !.of = Foreign, !.from = Nothing]
Becomes(content) ==
  /\ target' = content
  /\ past' = IF target = None THEN past ELSE Unattributed(target)

\* A write to a source, or a rollback of it to an earlier snapshot.
Commit(t) ==
  /\ newest[t] < MaxSnapshot
  /\ newest' = [newest EXCEPT ![t] = @ + 1]
  /\ source' = [source EXCEPT ![t] = newest[t] + 1]
  /\ UNCHANGED <<tables, entry, ledger, jobLock, opLock, op, editor, history>>

RollBackSource(t) ==
  /\ \E s \in 1..(source[t] - 1) : source' = [source EXCEPT ![t] = s]
  /\ rolled' = TRUE
  /\ UNCHANGED <<newest, tables, entry, ledger, jobLock, opLock, op, editor, outside, doubt>>

\* mode sandbox-write reaches the working table too.
WriteSandbox ==
  /\ \E good \in BOOLEAN : sandbox' = [of |-> Foreign, from |-> Nothing, good |-> good]
  /\ UNCHANGED <<sources, target, past, late, entry, ledger, jobLock, opLock, op, editor, history>>

\* A statement whose client has gone completes, or is abandoned.
LateEnds ==
  /\ late # None
  /\ late' = None
  /\ \/ Becomes(late) /\ outside' = TRUE
     \/ UNCHANGED <<target, past, outside>>
  /\ UNCHANGED <<sources, sandbox, entry, ledger, jobLock, opLock, op, editor, rolled, doubt>>

Users == (\E t \in Table : Commit(t) \/ RollBackSource(t)) \/ WriteSandbox \/ LateEnds

-----------------------------------------------------------------------------
(* save_target.  The schedule is paused before the registry is replaced. *)

EditStart ==
  /\ jobLock = Free /\ editor = "idle"
  /\ jobLock' = "editor" /\ editor' = "register"
  /\ UNCHANGED <<sources, tables, entry, ledger, opLock, op, history>>

EditRefuse ==
  /\ editor = "register" /\ opLock = Free
  /\ jobLock' = Free /\ editor' = "idle"
  /\ UNCHANGED <<sources, tables, entry, ledger, opLock, op, history>>

EditPause ==
  /\ editor = "register" /\ opLock = Free
  /\ entry = None \/ Owned
  /\ (entry # None) => (entry.version < MaxVersion)
  /\ opLock' = "editor" /\ editor' = "replace"
  /\ schedule' = [schedule EXCEPT !.on = FALSE]
  /\ UNCHANGED <<sources, tables, entry, run, debt, jobLock, op, history>>

EditReplace ==
  /\ editor = "replace"
  /\ \/ \E w \in BOOLEAN :
          entry' = [owned |-> TRUE, version |-> IF entry = None THEN 1 ELSE entry.version + 1,
                    watched |-> w, baseline |-> None]
     \/ UNCHANGED entry                     \* the file could not be written
  /\ jobLock' = Free /\ opLock' = Free /\ editor' = "idle"
  /\ UNCHANGED <<sources, tables, ledger, op, history>>

Edit == EditStart \/ EditRefuse \/ EditPause \/ EditReplace

-----------------------------------------------------------------------------
(* Schedules and admission.  Each is one transaction under the jobs lock. *)

\* jobs._lost: a run whose worker is gone ends as unknown, and its schedule is turned off.
Lost == run # None
\* Mutant: an admission that does not settle lost runs.
DebtForgotten == debt
Debt == debt \/ Lost
On   == schedule.on /\ ~Lost

Recover ==
  /\ jobLock = Free /\ Lost
  /\ run' = None /\ debt' = TRUE /\ schedule' = [schedule EXCEPT !.on = FALSE]
  /\ UNCHANGED <<sources, tables, entry, jobLock, opLock, op, editor, history>>

\* save_schedule; what it refuses changes nothing.
Enable ==
  /\ jobLock = Free
  /\ Owned /\ entry.watched /\ ~Debt
  /\ schedule' = [on |-> TRUE, version |-> entry.version]
  /\ UNCHANGED <<sources, tables, entry, run, debt, jobLock, opLock, op, editor, history>>

Pause ==
  /\ schedule.on
  /\ schedule' = [schedule EXCEPT !.on = FALSE]
  /\ UNCHANGED <<sources, tables, entry, run, debt, jobLock, opLock, op, editor, history>>

Admitted(kind) ==
  /\ run' = kind /\ debt' = Debt
  /\ op' = [op EXCEPT !["refresh"] = [NoOp EXCEPT !.pc = "entry", !.kind = kind,
                                        !.version = entry.version, !.watched = entry.watched]]

\* A due slot of the schedule: refused and turned off, or admitted.  The slot of a
\* kind "once" turns the schedule off as well.
Checkable == Owned /\ entry.version = schedule.version /\ entry.watched /\ ~Debt

TickRefuses ==
  /\ jobLock = Free /\ schedule.on /\ ~Checkable
  /\ run' = None /\ debt' = Debt /\ schedule' = [schedule EXCEPT !.on = FALSE]
  /\ UNCHANGED <<sources, tables, entry, jobLock, opLock, op, editor, history>>

TickAdmits ==
  /\ jobLock = Free /\ schedule.on /\ Checkable
  /\ jobLock' = "refresh"
  /\ Admitted("scheduled")
  /\ \E on \in BOOLEAN : schedule' = [schedule EXCEPT !.on = on]
  /\ UNCHANGED <<sources, tables, entry, opLock, editor, history>>

\* submit_refresh waits for the registry's operations with the jobs lock in hand.
SubmitStart ==
  /\ jobLock = Free
  /\ jobLock' = "refresh"
  /\ op' = [op EXCEPT !["refresh"].pc = "admit"]
  /\ UNCHANGED <<sources, tables, entry, ledger, opLock, editor, history>>

SubmitRefuse ==
  /\ op["refresh"].pc = "admit" /\ opLock = Free
  /\ jobLock' = Free /\ op' = [op EXCEPT !["refresh"] = NoOp]
  /\ UNCHANGED <<sources, tables, entry, ledger, opLock, editor, history>>

SubmitAdmit ==
  /\ op["refresh"].pc = "admit" /\ opLock = Free /\ Owned
  /\ Admitted("manual")
  /\ schedule' = [schedule EXCEPT !.on = On]
  /\ UNCHANGED <<sources, tables, entry, jobLock, opLock, editor, history>>

Admission == Recover \/ Enable \/ Pause \/ TickRefuses \/ TickAdmits
             \/ SubmitStart \/ SubmitRefuse \/ SubmitAdmit

-----------------------------------------------------------------------------
(* The data operation, wap_resident._data, of the refresh and of the operator. *)

Goto(a, place) == op' = [op EXCEPT ![a].pc = place]
Mine(a) == op[a].kind \in Managed

\* History: a refresh that ends here leaves open what it published.
InDoubt(a) == a = "refresh" /\ op[a].pc \in {"replace", "record", "baseline", "finish"}

\* The operation raises: the operator's just ends; a refresh's run ends as failed or
\* as unknown, its schedule is turned off, and both locks are given back.
Raises(a, unknown) ==
  /\ op' = [op EXCEPT ![a] = NoOp]
  /\ opLock' = IF opLock = a THEN Free ELSE opLock
  /\ IF a = "refresh"
     THEN /\ run' = None /\ debt' = (debt \/ unknown)
          /\ schedule' = [schedule EXCEPT !.on = FALSE] /\ jobLock' = Free
     ELSE UNCHANGED <<ledger, jobLock>>
  /\ doubt' = (doubt \/ InDoubt(a))

\* Up to the publication an error is a failure, or StepUnknown when it came from Trino.
Fail(a) ==
  /\ op[a].pc \in {"entry", "sources", "decide", "data", "build", "audit"}
  /\ \E unknown \in BOOLEAN : Raises(a, unknown)
  /\ UNCHANGED <<sources, tables, entry, editor, outside, rolled>>

\* A command of the operator; the owner's entry is refused all but a rollback.
Request(kind) ==
  /\ op["operator"].pc = "idle" /\ opLock = Free
  /\ kind # "rollback" => ~Owned
  /\ kind = "publish" => sandbox # None
  /\ opLock' = "operator"
  /\ op' = [op EXCEPT !["operator"] = [NoOp EXCEPT !.kind = kind,
              !.pc = IF kind = "publish" THEN "audit" ELSE "build"]]
  /\ UNCHANGED <<sources, tables, entry, ledger, jobLock, editor, history>>

RollBack ==
  /\ op["operator"].pc = "build" /\ op["operator"].kind = "rollback"
  /\ past # None /\ target' = past /\ outside' = TRUE
  /\ op' = [op EXCEPT !["operator"] = NoOp] /\ opLock' = Free
  /\ UNCHANGED <<sources, sandbox, past, late, entry, ledger, jobLock, editor, rolled, doubt>>

\* data: the registered version is compared under the operations lock.
BeginData ==
  /\ op["refresh"].pc = "data" /\ opLock = Free
  /\ Owned /\ entry.version = op["refresh"].version
  /\ opLock' = "refresh"
  /\ Goto("refresh", "build")
  /\ UNCHANGED <<sources, tables, entry, ledger, jobLock, editor, history>>

\* CREATE OR REPLACE TABLE sandbox AS the model.
Build(a) ==
  /\ op[a].pc = "build" /\ op[a].kind # "rollback"
  /\ \E good \in BOOLEAN :
       sandbox' = [of |-> op[a].version, from |-> IF Mine(a) THEN source ELSE Nothing, good |-> good]
  /\ Goto(a, "audit")
  /\ UNCHANGED <<sources, target, past, late, entry, ledger, jobLock, opLock, editor, history>>

\* The working table's snapshot is pinned and audited; then the regression guard
\* looks at the published table.  What does not pass is a failure.
Audit(a) ==
  /\ op[a].pc = "audit" /\ op[a].kind # "stage"
  /\ sandbox.good
  /\ op' = [op EXCEPT ![a].pc = "replace", ![a].staged = sandbox]
  /\ UNCHANGED <<sources, tables, entry, ledger, jobLock, opLock, editor, history>>

\* Mutant: the working table is named without its version.
UnpinnedStatement(a) == sandbox

\* The statement that publishes the pinned snapshot.
Statement(a) == op[a].staged

Replace(a) ==
  /\ op[a].pc = "replace"
  /\ Becomes(Statement(a))
  /\ Goto(a, "record")
  /\ outside' = ~(Mine(a) /\ Statement(a).of = op[a].version)
  /\ UNCHANGED <<sources, sandbox, late, entry, ledger, jobLock, opLock, editor, rolled, doubt>>

\* Its answer is lost: it was not executed, was, or still is.
ReplaceLost(a) ==
  /\ op[a].pc = "replace"
  /\ late' \in {late, Unattributed(Statement(a))}
  /\ Raises(a, TRUE)
  /\ UNCHANGED <<sources, sandbox, target, past, entry, editor, outside, rolled>>

\* save_wap_entry, and for a stage its audit: names that nobody owns get an entry.
Record(a) ==
  /\ \/ op[a].pc = "record"
     \/ op[a].pc = "audit" /\ op[a].kind = "stage" /\ sandbox.good
  /\ entry' = IF entry = None THEN Legacy ELSE entry
  /\ opLock' = Free
  /\ op' = [op EXCEPT ![a] = IF a = "operator" THEN NoOp
                             ELSE [@ EXCEPT !.pc = IF op[a].watched THEN "baseline" ELSE "finish"]]
  /\ UNCHANGED <<sources, tables, ledger, jobLock, editor, history>>

RecordLost(a) ==
  /\ op[a].pc = "record"
  /\ Raises(a, TRUE)
  /\ UNCHANGED <<sources, tables, entry, editor, outside, rolled>>

Data(a) == Build(a) \/ Audit(a) \/ Replace(a) \/ ReplaceLost(a) \/ Record(a)
           \/ RecordLost(a) \/ Fail(a)

-----------------------------------------------------------------------------
(* The refresh around it, marts_resident._execute_active_refresh. *)

\* The sources are read before anything is built.
AfterEntry(watched) == IF watched THEN "sources" ELSE "decide"

ReadEntry ==
  /\ op["refresh"].pc = "entry"
  /\ Owned /\ entry.version = op["refresh"].version
  /\ op' = [op EXCEPT !["refresh"].pc = AfterEntry(op["refresh"].watched),
                      !["refresh"].base = entry.baseline]
  /\ UNCHANGED <<sources, tables, entry, ledger, jobLock, opLock, editor, history>>

ReadSource(t) ==
  LET o == op["refresh"] IN
  /\ o.pc = "sources" /\ o.seen[t] = 0
  /\ LET seen == [o.seen EXCEPT ![t] = source[t]] IN
     op' = [op EXCEPT !["refresh"].seen = seen,
                      !["refresh"].pc = IF \A u \in Table : seen[u] # 0 THEN "decide" ELSE @]
  /\ UNCHANGED <<sources, tables, entry, ledger, jobLock, opLock, editor, history>>

\* Mutant: the snapshots as they are when the baseline is written.
BaselineOfNow(o) == [version |-> o.version, snapshots |-> source]
BaselineOf(o) == [version |-> o.version, snapshots |-> o.seen]

Decide ==
  LET o == op["refresh"] IN
  /\ o.pc = "decide"
  /\ o.kind = "scheduled" => ~debt
  /\ Goto("refresh", IF o.kind = "scheduled" /\ o.base = BaselineOf(o) THEN "unchanged" ELSE "data")
  /\ UNCHANGED <<sources, tables, entry, ledger, jobLock, opLock, editor, history>>

SaveBaseline ==
  LET o == op["refresh"] IN
  /\ o.pc = "baseline" /\ opLock = Free
  /\ Owned /\ entry.version = o.version
  /\ entry' = [entry EXCEPT !.baseline = BaselineOf(o)]
  /\ Goto("refresh", "finish")
  /\ UNCHANGED <<sources, tables, ledger, jobLock, opLock, editor, history>>

BaselineLost ==
  /\ op["refresh"].pc = "baseline" /\ opLock = Free
  /\ Raises("refresh", TRUE)
  /\ UNCHANGED <<sources, tables, entry, editor, outside, rolled>>

\* The run's success; that of a manual refresh resolves an unknown outcome.
Finish ==
  LET o == op["refresh"] IN
  /\ o.pc \in {"unchanged", "finish"}
  /\ run' = None /\ debt' = (debt /\ o.kind # "manual")
  /\ doubt' = (doubt /\ o.kind # "manual")
  /\ jobLock' = Free /\ op' = [op EXCEPT !["refresh"] = NoOp]
  /\ UNCHANGED <<sources, tables, entry, schedule, opLock, editor, outside, rolled>>

\* The ledger could not be written after the refresh had returned.
FinishLost ==
  /\ op["refresh"].pc \in {"unchanged", "finish"}
  /\ Raises("refresh", TRUE)
  /\ UNCHANGED <<sources, tables, entry, editor, outside, rolled>>

Refresh == ReadEntry \/ (\E t \in Table : ReadSource(t)) \/ Decide \/ BeginData
           \/ SaveBaseline \/ BaselineLost \/ Finish \/ FinishLost

-----------------------------------------------------------------------------
(* Crashes.  The operating system gives the locks back; rows and files stay. *)

Abandoned(a) == IF op[a].pc = "replace" THEN {late, Unattributed(Statement(a))} ELSE {late}

CrashServer ==
  /\ jobLock # Free
  /\ late' \in Abandoned("refresh")
  /\ doubt' = (doubt \/ InDoubt("refresh"))
  /\ op' = [op EXCEPT !["refresh"] = NoOp] /\ editor' = "idle"
  /\ jobLock' = Free
  /\ opLock' = IF opLock = "operator" THEN opLock ELSE Free
  /\ UNCHANGED <<sources, sandbox, target, past, entry, ledger, outside, rolled>>

CrashOperator ==
  /\ op["operator"].pc # "idle"
  /\ late' \in Abandoned("operator")
  /\ op' = [op EXCEPT !["operator"] = NoOp] /\ opLock' = Free
  /\ UNCHANGED <<sources, sandbox, target, past, entry, ledger, jobLock, editor, history>>

Next == \/ Users \/ Edit \/ Admission \/ Refresh
        \/ \E kind \in Command : Request(kind)
        \/ RollBack
        \/ \E a \in Actor : Data(a)
        \/ CrashServer \/ CrashOperator

Spec == Init /\ [][Next]_vars

-----------------------------------------------------------------------------
(* What must hold. *)

\* What a mart shows has passed the audit of min_rows and not_null, whoever wrote to
\* the working table in between: the statement publishes the snapshot that was audited.
NeverUnaudited == target # None => target.good

\* A timed check that is on is for the definition that is registered, with sources to
\* watch: an edit turns it off before the definition changes, also when it stops half way.
EnabledFitsDefinition ==
  schedule.on => Owned /\ entry.watched /\ schedule.version = entry.version

\* What the registry holds of a mart fits its definition and its table (save_target).
MartsInv == TypeOK /\ NeverUnaudited /\ EnabledFitsDefinition

ReportsUnchanged == op["refresh"].pc = "decide" /\ op'["refresh"].pc = "unchanged"
Publishes        == op["refresh"].pc = "replace" /\ op'["refresh"].pc = "record"
Current          == /\ target # None
                    /\ target.of = op["refresh"].version
                    /\ target.from = op["refresh"].seen

\* A check that says "unchanged" is right: the mart was built by this version from the
\* very snapshots that the check has seen.  Sources that change while a refresh runs do
\* not escape it, since the baseline was read before the build; only a write to the mart
\* by others, or a source that went back to an earlier snapshot, can.
UnchangedMeansCurrent == [][ReportsUnchanged => outside \/ rolled \/ Current]_vars

\* While the outcome of a publication is not known, no check publishes or declares the
\* mart unchanged: a manual refresh has to succeed first.  The three writes of a refresh
\* (table, baseline, ledger) may be cut between any two.
NoCheckInDoubt ==
  [][op["refresh"].kind = "scheduled" /\ (ReportsUnchanged \/ Publishes) => ~doubt]_vars

\* What a check by schedule says and does can be relied on (_execute_active_refresh).
ChecksAreRight == UnchangedMeansCurrent /\ NoCheckInDoubt
=============================================================================
