---------------------------- MODULE StageExports ----------------------------
(***************************************************************************)
(* Exports of a table into files of a stage's exports directory.  Source:  *)
(* stage_exports.py, the worker of jobs_resident.py and export_table of    *)
(* lake_ingest.py.                                                         *)
(*                                                                         *)
(* A request reads the stage and looks for the name before it takes the    *)
(* jobs lock; the worker writes a file of another name and links it within *)
(* a transaction of the ledger.  Meanwhile the stage is saved anew, the    *)
(* table changes, users of the directory put files there and take files    *)
(* away, statements and transactions fail, and the process dies.  A table  *)
(* is its number of rows.                                                  *)
(***************************************************************************)
EXTENDS Naturals

CONSTANTS Name,        \* names in the exports directory
          Limit,       \* MAX_ROWS
          MaxSize,     \* bound: rows of the table
          MaxRevision, \* bound: definitions saved
          MaxExports,  \* bound: runs
          None         \* no row, no file, no request (MCStages has the assumption)

VARIABLES revision, \* of the stage's definition
          size,     \* rows of the table
          asked,    \* what a request has read of the stage, and the name it is for
          export,   \* the holder of the jobs lock, its place and what it knows
          runs,     \* the ledger's runs and their steps
          dir,      \* whose file each name is
          temps,    \* runs whose temporary file is there
          kept,     \* history: temporary files that could not be removed
          linked    \* history: what each run linked, and under which definition

vars == <<revision, size, asked, export, runs, dir, temps, kept, linked>>

Run     == 1..MaxExports
Another == 0  \* whoever else puts files there
Ended   == {"success", "failed", "unknown"}
Request == [revision : 1..MaxRevision, name : Name]
Row     == [status : {"queued", "running"} \cup Ended,
            step : {"pending", "running", "skipped"} \cup Ended,
            revision : 1..MaxRevision, name : Name]
Published == [rows : Nat, of : Nat, revision : 1..MaxRevision]
Place   == {"idle", "admit", "start", "begin", "check", "make", "count", "select", "verify",
            "publish", "link", "commit", "clean", "record", "end"}

\* total, rows: what the count and the SELECT returned; of: what the table had then;
\* outcome: what became of the step so far.
Job  == [pc : Place, run : 0..MaxExports, total : Nat, rows : Nat, of : Nat, outcome : Ended]
Idle == [pc |-> "idle", run |-> 0, total |-> 0, rows |-> 0, of |-> 0, outcome |-> "success"]

ExportsTypeOK ==
  /\ revision \in 1..MaxRevision /\ size \in 0..MaxSize
  /\ asked \in Request \cup {None}
  /\ export \in Job
  /\ runs \in [Run -> Row \cup {None}]
  /\ dir \in [Name -> Run \cup {Another, None}]
  /\ temps \subseteq Run /\ kept \subseteq Run
  /\ linked \in [Run -> Published \cup {None}]

Init ==
  /\ revision = 1 /\ size = 0 /\ asked = None /\ export = Idle
  /\ runs = [r \in Run |-> None] /\ dir = [n \in Name |-> None]
  /\ temps = {} /\ kept = {} /\ linked = [r \in Run |-> None]

\* Mutant: the transaction that publishes does not hold the ledger (no BEGIN IMMEDIATE).
NeverHeld == FALSE

\* The ledger is held by the transaction that publishes.
Held == export.pc \in {"link", "commit"}

-----------------------------------------------------------------------------
(* What happens beside an export. *)

\* save_stage: one transaction.
SaveStage ==
  /\ ~Held /\ revision < MaxRevision
  /\ revision' = revision + 1
  /\ UNCHANGED <<size, asked, export, runs, dir, temps, kept, linked>>

ChangeTable ==
  /\ size' \in 0..MaxSize
  /\ UNCHANGED <<revision, asked, export, runs, dir, temps, kept, linked>>

ChangeDirectory ==
  /\ \E n \in Name, whose \in {Another, None} : dir' = [dir EXCEPT ![n] = whose]
  /\ UNCHANGED <<revision, size, asked, export, runs, temps, kept, linked>>

\* The process dies; a run stays as the ledger has it.
Restart ==
  /\ asked' = None /\ export' = Idle
  /\ kept' = kept \cup temps
  /\ UNCHANGED <<revision, size, runs, dir, temps, linked>>

\* _lost: no worker has the lock, so that what is open was lost.
Lost(row) ==
  IF row = None \/ row.status \in Ended THEN row
  ELSE [row EXCEPT !.status = "unknown",
                   !.step = CASE row.step = "running" -> "unknown"
                              [] row.step = "pending" -> "skipped"
                              [] OTHER -> row.step]

Settled == [r \in Run |-> Lost(runs[r])]

\* list_runs, get_run.
Recover ==
  /\ export.pc = "idle"
  /\ runs' = Settled
  /\ UNCHANGED <<revision, size, asked, export, dir, temps, kept, linked>>

-----------------------------------------------------------------------------
(* A request. *)

\* The caller's version is that of the stage, and the name is free.
ReadStage ==
  /\ asked = None
  /\ \E n \in Name : dir[n] = None /\ asked' = [revision |-> revision, name |-> n]
  /\ UNCHANGED <<revision, size, export, runs, dir, temps, kept, linked>>

TakeLock ==
  /\ asked # None /\ export.pc = "idle"
  /\ export' = [Idle EXCEPT !.pc = "admit"]
  /\ UNCHANGED <<revision, size, asked, runs, dir, temps, kept, linked>>

\* It is refused: the lock is held, the stage has changed, or its role has.
Refuse ==
  /\ asked # None
  /\ asked' = None
  /\ export' = IF export.pc = "admit" THEN Idle ELSE export
  /\ UNCHANGED <<revision, size, runs, dir, temps, kept, linked>>

\* One transaction; after it the worker is started, or could not be.
Admit ==
  /\ export.pc = "admit" /\ asked.revision = revision
  /\ \E r \in Run :
       /\ runs[r] = None /\ \A s \in Run : s < r => runs[s] # None
       /\ runs' = [Settled EXCEPT ![r] = [status |-> "queued", step |-> "pending",
                                          revision |-> asked.revision, name |-> asked.name]]
       /\ export' \in {Idle, [Idle EXCEPT !.pc = "start", !.run = r]}
  /\ asked' = None
  /\ UNCHANGED <<revision, size, dir, temps, kept, linked>>

-----------------------------------------------------------------------------
(* The worker. *)

Mine   == runs[export.run]
Dies   == export' = Idle
Goes(pc) == export' = [export EXCEPT !.pc = pc]
Raises == \E o \in {"failed", "unknown"} : export' = [export EXCEPT !.pc = "clean", !.outcome = o]

Start ==
  /\ export.pc = "start"
  /\ \/ runs' = [runs EXCEPT ![export.run].status = "running"] /\ Goes("begin")
     \/ Dies /\ UNCHANGED runs
  /\ UNCHANGED <<revision, size, asked, dir, temps, kept, linked>>

\* The account and the budget are checked; the step is marked.
Begin ==
  /\ export.pc = "begin"
  /\ \/ runs' = [runs EXCEPT ![export.run].step = "running"] /\ Goes("check")
     \/ Raises /\ UNCHANGED runs
  /\ UNCHANGED <<revision, size, asked, dir, temps, kept, linked>>

\* _authorize, _current, and the name must be free.
Check ==
  /\ export.pc = "check"
  /\ \/ Mine.revision = revision /\ dir[Mine.name] = None /\ Goes("make")
     \/ Raises
  /\ UNCHANGED <<revision, size, asked, runs, dir, temps, kept, linked>>

MakeTemporary ==
  /\ export.pc = "make"
  /\ \/ temps' = temps \cup {export.run} /\ Goes("count")
     \/ Raises /\ UNCHANGED temps
  /\ UNCHANGED <<revision, size, asked, runs, dir, kept, linked>>

\* The table's rows are counted; then they are read, in another statement.
CountRows ==
  /\ export.pc = "count"
  /\ export' = [export EXCEPT !.pc = "select", !.total = size] \/ Raises
  /\ UNCHANGED <<revision, size, asked, runs, dir, temps, kept, linked>>

AtMost(n, limit) == IF n <= limit THEN n ELSE limit

\* Mutant: no more rows are read than may be exported.
ReadOnlyLimit ==
  /\ export.pc = "select"
  /\ \/ export' = [export EXCEPT !.pc = "verify", !.rows = AtMost(size, Limit), !.of = size]
     \/ Raises
  /\ UNCHANGED <<revision, size, asked, runs, dir, temps, kept, linked>>

\* One row more than may be exported is read, and written to the temporary file.
ReadRows ==
  /\ export.pc = "select"
  /\ \/ export' = [export EXCEPT !.pc = "verify", !.rows = AtMost(size, Limit + 1), !.of = size]
     \/ Raises
  /\ UNCHANGED <<revision, size, asked, runs, dir, temps, kept, linked>>

\* As many rows as were counted, and a file that is not too large.
Verify ==
  /\ export.pc = "verify"
  /\ \/ export.rows <= Limit /\ export.rows = export.total /\ Goes("publish")
     \/ Raises
  /\ UNCHANGED <<revision, size, asked, runs, dir, temps, kept, linked>>

\* The transaction begins; the stage must still be what was asked for.
BeginPublish ==
  /\ export.pc = "publish"
  /\ \/ Mine.revision = revision /\ Goes("link")
     \/ Raises
  /\ UNCHANGED <<revision, size, asked, runs, dir, temps, kept, linked>>

\* os.link fails when the name is taken.
Link ==
  /\ export.pc = "link"
  /\ \/ /\ dir[Mine.name] = None
        /\ dir' = [dir EXCEPT ![Mine.name] = export.run]
        /\ linked' = [linked EXCEPT ![export.run] =
                        [rows |-> export.rows, of |-> export.of, revision |-> revision]]
        /\ Goes("commit")
     \/ Raises /\ UNCHANGED <<dir, linked>>
  /\ UNCHANGED <<revision, size, asked, runs, temps, kept>>

\* Mutant: a commit that fails takes the file for not published.
CommitForgets ==
  /\ export.pc = "commit"
  /\ Goes("clean") \/ Raises
  /\ UNCHANGED <<revision, size, asked, runs, dir, temps, kept, linked>>

\* A commit that fails leaves the file: StepUnknown.
Commit ==
  /\ export.pc = "commit"
  /\ \/ Goes("clean")
     \/ export' = [export EXCEPT !.pc = "clean", !.outcome = "unknown"]
  /\ UNCHANGED <<revision, size, asked, runs, dir, temps, kept, linked>>

\* The temporary file is removed, or cannot be.
Clean ==
  /\ export.pc = "clean"
  /\ Goes("record")
  /\ \/ temps' = temps \ {export.run} /\ UNCHANGED kept
     \/ export.run \in temps /\ kept' = kept \cup {export.run} /\ UNCHANGED temps
  /\ UNCHANGED <<revision, size, asked, runs, dir, linked>>

\* The step is recorded.  When success cannot be, the outcome is unknown, for the file
\* is there; when failure cannot be, the worker dies.
Record ==
  /\ export.pc = "record"
  /\ \/ /\ export.outcome = "success"
        /\ runs' = [runs EXCEPT ![export.run].step = "success"]
        /\ Goes("end")
     \/ /\ export.outcome = "success"
        /\ export' = [export EXCEPT !.outcome = "unknown"]
        /\ UNCHANGED runs
     \/ /\ export.outcome # "success"
        /\ runs' = [runs EXCEPT ![export.run] = [@ EXCEPT !.status = export.outcome, !.step = export.outcome]]
        /\ Dies
     \/ export.outcome # "success" /\ Dies /\ UNCHANGED runs
  /\ UNCHANGED <<revision, size, asked, dir, temps, kept, linked>>

End ==
  /\ export.pc = "end"
  /\ Dies
  /\ runs' = [runs EXCEPT ![export.run].status = "success"] \/ UNCHANGED runs
  /\ UNCHANGED <<revision, size, asked, dir, temps, kept, linked>>

-----------------------------------------------------------------------------
Outside == SaveStage \/ ChangeTable \/ ChangeDirectory \/ Restart \/ Recover
Asks    == ReadStage \/ TakeLock \/ Refuse \/ Admit
Works   == \/ Start \/ Begin \/ Check \/ MakeTemporary \/ CountRows \/ ReadRows \/ Verify
           \/ BeginPublish \/ Link \/ Commit \/ Clean \/ Record \/ End

Next == Outside \/ Asks \/ Works

Spec == Init /\ [][Next]_vars

-----------------------------------------------------------------------------
\* What is published is all that the table had when it was read, and no more rows than
\* may be exported, whatever was written to the table between the count and the reading
\* (stage_exports.py:126-131, lake_ingest.py:432-439).
FilesAreWhole ==
  \A r \in Run : linked[r] # None => linked[r].rows = linked[r].of /\ linked[r].rows <= Limit

\* It is published while the stage is still the one that the request had read, though
\* the stage may be saved anew at any time: of the three looks at it only the last, in
\* the transaction, decides (stage_exports.py:82, 101, 113-114, 136-141).
FilesAreAskedFor ==
  \A r \in Run : linked[r] # None => runs[r] # None /\ linked[r].revision = runs[r].revision

\* The ledger says "failed" only of an export that published nothing, and "success", of
\* the step or of the run, only of one that did, through failed commits, failed records,
\* deaths and recoveries (stage_exports.py:145-154, jobs_resident.py:536-577).
LedgerTellsOfFiles ==
  \A r \in Run : runs[r] # None =>
    /\ "failed" \in {runs[r].status, runs[r].step} => linked[r] = None
    /\ "success" \in {runs[r].status, runs[r].step} => linked[r] # None

\* A temporary file is that of the run at work, unless its removal failed or the process
\* died (stage_exports.py:155-160).
NoTemporaryLeftBehind == \A r \in temps \ kept : r = export.run

ExportsInv ==
  ExportsTypeOK /\ FilesAreWhole /\ FilesAreAskedFor /\ LedgerTellsOfFiles /\ NoTemporaryLeftBehind
=============================================================================
