------------------------------- MODULE Stages -------------------------------
(***************************************************************************)
(* One registered stage: a directory whose files are imported into a table *)
(* by explicit import, by scan or by schedule.  Source: stages_resident.py *)
(* and the stage parts of jobs_resident.py and schedule_resident.py.  What *)
(* an export does is in StageExports; here it has the lock and a run.      *)
(*                                                                         *)
(* A file is its content and its stamp (size and modification time), and a *)
(* writer may keep the stamp.  A definition is its revision and its        *)
(* meaning: the table, mode, format and key that enter a content's key.    *)
(* The jobs lock is held by the request, then by the worker, so that one   *)
(* record tells the place of both.                                         *)
(***************************************************************************)
EXTENDS Naturals, FiniteSets

CONSTANTS File,        \* names in the directory, in an order: a set of naturals
          Content,
          Stamp,
          Meaning,
          MaxRevision, \* bound: definitions saved
          MaxRows,     \* bound: ingestions of one content
          MaxScan,     \* imports of one scan: 10 in the code
          None

ASSUME StagesAssumption ==
  /\ File \subseteq Nat /\ MaxScan \in Nat \ {0}
  /\ MaxRevision \in Nat \ {0} /\ MaxRows \in Nat \ {0}

VARIABLES stage,     \* the definition
          scans,     \* the revision for which scans are scheduled, None when they are not
          disk,      \* the files of the directory
          claims,    \* stage_files: what became of each content
          rows,      \* how often each content was ingested into the table
          landed,    \* history: since its last claim it was ingested
          job,       \* the holder of the jobs lock, its place and what it knows
          open,      \* the run in the ledger that has not ended
          enabling   \* the definition that a request to schedule has read

vars == <<stage, scans, disk, claims, rows, landed, job, open, enabling>>
ledger == <<claims, open>>
table  == <<rows, landed>>

Key    == Meaning \X Content
Status == {"new", "queued", "running", "success", "failed", "unknown"}
Kind   == {"import", "retry", "scan", "tick", "export"}
Place  == {"idle", "locked", "listed", "described", "select", "read", "mark", "ingest", "ingested",
           "export", "failed", "in doubt"}

\* What the holder works on.  listing: the files a scan found, with their stamps;
\* steps: the imports left to do, first in order of their names.
Step == [file : File, stamp : Stamp, key : Key]
Job  == [pc : Place, kind : Kind, revision : 1..MaxRevision, meaning : Meaning,
         listing : [File -> Stamp \cup {None}], steps : SUBSET Step, data : Content \cup {None}]

NoFiles == [f \in File |-> None]
Idle == [pc |-> "idle", kind |-> "export", revision |-> 1, meaning |-> CHOOSE m \in Meaning : TRUE,
         listing |-> NoFiles, steps |-> {}, data |-> None]

StagesTypeOK ==
  /\ stage \in [revision : 1..MaxRevision, meaning : Meaning]
  /\ scans \in 1..MaxRevision \cup {None}
  /\ disk \in [File -> [content : Content, stamp : Stamp] \cup {None}]
  /\ claims \in [Key -> Status]
  /\ rows \in [Key -> 0..MaxRows] /\ landed \in [Key -> BOOLEAN]
  /\ job \in Job
  /\ open \in BOOLEAN
  /\ enabling \in 1..MaxRevision \cup {None}

Init ==
  /\ stage \in [revision : {1}, meaning : Meaning] /\ scans = None
  /\ disk = NoFiles
  /\ claims = [k \in Key |-> "new"]
  /\ rows = [k \in Key |-> 0] /\ landed = [k \in Key |-> FALSE]
  /\ job = Idle /\ open = FALSE /\ enabling = None

\* A tick reads the files inside its transaction; other writers of the ledger wait.
Writable == ~(job.kind = "tick" /\ job.pc \in {"locked", "listed", "described"})

-----------------------------------------------------------------------------
(* The directory's users. *)

WriteFile ==
  \E f \in File :
    /\ disk' \in { [disk EXCEPT ![f] = d] : d \in [content : Content, stamp : Stamp] \cup {None} }
    /\ UNCHANGED <<stage, scans, ledger, table, job, enabling>>

-----------------------------------------------------------------------------
(* The definition and its schedule. *)

\* save_stage: one transaction.
SaveStage ==
  /\ Writable /\ stage.revision < MaxRevision
  /\ \E m \in Meaning : stage' = [revision |-> stage.revision + 1, meaning |-> m]
  /\ scans' = None
  /\ UNCHANGED <<disk, ledger, table, job, enabling>>

\* save_schedule reads the definition, compares the version it was given, and
\* compares again in the transaction that saves.
ReadStage ==
  /\ enabling = None
  /\ enabling' = stage.revision
  /\ UNCHANGED <<stage, scans, disk, ledger, table, job>>

EnableScans ==
  /\ Writable /\ enabling # None
  /\ scans' = IF enabling = stage.revision THEN enabling ELSE scans
  /\ enabling' = None
  /\ UNCHANGED <<stage, disk, ledger, table, job>>

PauseScans ==
  /\ Writable /\ scans # None
  /\ scans' = None
  /\ UNCHANGED <<stage, disk, ledger, table, job, enabling>>

-----------------------------------------------------------------------------
(* A request: it reads the definition, takes the lock, looks at the files,  *)
(* and admits a run.                                                        *)

\* Mutant: what a lost run had claimed is free again.
SettledAsNew ==
  [k \in Key |-> IF open /\ claims[k] \in {"queued", "running"} THEN "new" ELSE claims[k]]

\* jobs._lost: what a lost run had claimed and not finished is unknown.
Settled == IF open
             THEN [k \in Key |-> IF claims[k] \in {"queued", "running"} THEN "unknown" ELSE claims[k]]
             ELSE claims

\* list_runs, get_run, list_files.
Recover ==
  /\ Writable /\ job.pc = "idle" /\ open
  /\ claims' = Settled /\ open' = FALSE
  /\ UNCHANGED <<stage, scans, disk, table, job, enabling>>

\* The definition read may be replaced before the transaction: then the request fails.
\* An import names one file and the version that its caller has seen.
AskImport(kind) ==
  /\ job.pc = "idle"
  /\ \E f \in File, s \in Stamp :
       job' = [Idle EXCEPT !.pc = "listed", !.kind = kind, !.revision = stage.revision,
                           !.meaning = stage.meaning, !.listing = [NoFiles EXCEPT ![f] = s]]
  /\ UNCHANGED <<stage, scans, disk, ledger, table, enabling>>

AskExport ==
  /\ job.pc = "idle"
  /\ job' = [Idle EXCEPT !.pc = "described", !.kind = "export", !.revision = stage.revision,
                         !.meaning = stage.meaning]
  /\ UNCHANGED <<stage, scans, disk, ledger, table, enabling>>

\* A scan of the directory, asked for or due.
StartScan(kind) ==
  /\ job.pc = "idle" /\ (kind = "tick" => scans # None)
  /\ job' = [Idle EXCEPT !.pc = "locked", !.kind = kind, !.revision = stage.revision, !.meaning = stage.meaning]
  /\ UNCHANGED <<stage, scans, disk, ledger, table, enabling>>

\* The lock is given back; a due schedule whose preflight failed is turned off.
Refuse ==
  /\ job.pc \in {"locked", "listed", "described"}
  /\ job' = Idle
  /\ scans' = IF job.kind = "tick" THEN None ELSE scans
  /\ UNCHANGED <<stage, disk, ledger, table, enabling>>

\* list_files: files that a scan may take, new in the ledger and not just written.
List ==
  /\ job.pc = "locked"
  /\ LET fresh(f) == disk[f] # None /\ Settled[<<job.meaning, disk[f].content>>] = "new"
     IN \E still \in SUBSET { f \in File : fresh(f) } :
          job' = [job EXCEPT !.pc = "listed",
                             !.listing = [f \in File |-> IF f \in still THEN disk[f].stamp ELSE None]]
  /\ UNCHANGED <<stage, scans, disk, ledger, table, enabling>>

\* _step: the stamp must be the one listed, and the file's content is its key now.
\* A scan takes each content once and at most MaxScan of them.
Listed == { f \in File : job.listing[f] # None }
StepOf(f) == [file |-> f, stamp |-> disk[f].stamp, key |-> <<job.meaning, disk[f].content>>]
Least(S, s) == \A t \in S : t.key = s.key => s.file <= t.file
Before(S, s) == { t \in S : t.file < s.file }

Describe ==
  /\ job.pc = "listed"
  /\ \A f \in Listed : disk[f] # None /\ disk[f].stamp = job.listing[f]
  /\ LET all == { StepOf(f) : f \in Listed }
         once == { s \in all : Least(all, s) }
     IN job' = [job EXCEPT !.pc = "described", !.listing = NoFiles,
                           !.steps = { s \in once : Cardinality(Before(once, s)) < MaxScan }]
  /\ UNCHANGED <<stage, scans, disk, ledger, table, enabling>>

\* _insert_run and _claim, in the transaction that settles lost runs.
Claimable(k) ==
  Settled[k] = "new" \/ (Settled[k] \in {"failed", "unknown"} /\ job.kind = "retry")

Keys == { s.key : s \in job.steps }

Admit ==
  /\ job.pc = "described"
  /\ job.revision = stage.revision
  /\ \A k \in Keys : Claimable(k)
  /\ claims' = [k \in Key |-> IF k \in Keys THEN "queued" ELSE Settled[k]]
  /\ landed' = [k \in Key |-> landed[k] /\ k \notin Keys]
  /\ open' = TRUE
  /\ job' = [job EXCEPT !.pc = IF job.kind = "export" THEN "export" ELSE "select"]
  /\ UNCHANGED <<stage, scans, disk, rows, enabling>>

\* A scan that found a content claimed meanwhile: a due one is skipped, its schedule stays.
SkipConflict ==
  /\ job.pc = "described" /\ job.kind = "tick"
  /\ \E k \in Keys : ~Claimable(k)
  /\ claims' = Settled /\ open' = FALSE
  /\ job' = Idle
  /\ UNCHANGED <<stage, scans, disk, table, enabling>>

-----------------------------------------------------------------------------
(* The worker: imports.  Any transaction may fail and kill it; then the run *)
(* stays open until it is settled.                                          *)

Current == CHOOSE s \in job.steps : \A t \in job.steps : s.file <= t.file

\* The file must still bear its stamp and lie where it lay.
Select ==
  /\ job.pc = "select" /\ job.steps # {}
  /\ LET d == disk[Current.file]
     IN job' = [job EXCEPT !.pc = IF d # None /\ d.stamp = Current.stamp THEN "read" ELSE "failed"]
  /\ UNCHANGED <<stage, scans, disk, ledger, table, enabling>>

\* Mutant: the stamp is believed.
ReadUnchecked ==
  /\ job.pc = "read"
  /\ LET d == disk[Current.file]
     IN job' = [job EXCEPT !.data = IF d = None THEN None ELSE d.content,
                           !.pc = IF d = None THEN "in doubt" ELSE "mark"]
  /\ UNCHANGED <<stage, scans, disk, ledger, table, enabling>>

\* It is read once; the bytes read must have the key that was claimed.
Read ==
  /\ job.pc = "read"
  /\ LET d == disk[Current.file]
     IN job' = [job EXCEPT !.data = IF d = None THEN None ELSE d.content,
                           !.pc = CASE d = None -> "in doubt"
                                    [] d # None /\ <<job.meaning, d.content>> = Current.key -> "mark"
                                    [] OTHER -> "failed"]
  /\ UNCHANGED <<stage, scans, disk, ledger, table, enabling>>

\* A copy of the bytes is parsed and found good, or not.
Mark ==
  /\ job.pc = "mark"
  /\ \/ Writable /\ claims' = [claims EXCEPT ![Current.key] = "running"] /\ job' = [job EXCEPT !.pc = "ingest"]
     \/ job' = [job EXCEPT !.pc = "failed"] /\ UNCHANGED claims
  /\ UNCHANGED <<stage, scans, disk, open, table, enabling>>

\* The copy is ingested, or not; and it is known, or not.
Ingest ==
  /\ job.pc = "ingest"
  /\ LET k == <<job.meaning, job.data>>
     IN \/ /\ rows[k] < MaxRows
           /\ rows' = [rows EXCEPT ![k] = @ + 1] /\ landed' = [landed EXCEPT ![k] = TRUE]
           /\ \E pc \in {"ingested", "in doubt"} : job' = [job EXCEPT !.pc = pc]
        \/ job' = [job EXCEPT !.pc = "in doubt"] /\ UNCHANGED table
  /\ UNCHANGED <<stage, scans, disk, ledger, enabling>>

RecordImport ==
  /\ job.pc = "ingested"
  /\ \/ /\ claims' = [claims EXCEPT ![Current.key] = "success"]
        /\ job' = [job EXCEPT !.pc = "select", !.steps = @ \ {Current}, !.data = None]
     \/ job' = [job EXCEPT !.pc = "in doubt"] /\ UNCHANGED claims
  /\ UNCHANGED <<stage, scans, disk, open, table, enabling>>

\* The status of a step that raised: it also counts that its claim is running.
StatusNow == IF job.pc = "in doubt" \/ claims[Current.key] = "running"
               THEN "unknown" ELSE "failed"

\* Mutant: with a failed step the whole run's claims are given up.
EndFailedForgetting ==
  /\ job.pc \in {"failed", "in doubt"}
  /\ claims' = [k \in Key |-> IF k \in Keys THEN "new" ELSE claims[k]]
  /\ open' = FALSE /\ job' = Idle
  /\ UNCHANGED <<stage, scans, disk, table, enabling>>

\* The step ends, the rest of the run is skipped, its claims are given up.
EndFailed ==
  /\ job.pc \in {"failed", "in doubt"}
  /\ claims' = [k \in Key |-> CASE k = Current.key -> StatusNow
                                [] k # Current.key /\ k \in Keys /\ claims[k] = "queued" -> "new"
                                [] OTHER -> claims[k]]
  /\ open' = FALSE /\ job' = Idle
  /\ UNCHANGED <<stage, scans, disk, table, enabling>>

EndImports ==
  /\ job.pc = "select" /\ job.steps = {}
  /\ open' = FALSE /\ job' = Idle
  /\ UNCHANGED <<stage, scans, disk, claims, table, enabling>>

\* No claim tells of exports, so that the run's end is all there is.
EndExport ==
  /\ job.pc = "export"
  /\ open' = FALSE /\ job' = Idle
  /\ UNCHANGED <<stage, scans, disk, claims, table, enabling>>

-----------------------------------------------------------------------------
\* The server stops; the lock is free, the ledger as it was.
Restart ==
  /\ job.pc # "idle" /\ job' = Idle /\ enabling' = None
  /\ UNCHANGED <<stage, scans, disk, ledger, table>>

Requests ==
  \/ AskImport("import") \/ AskImport("retry") \/ AskExport \/ StartScan("scan") \/ StartScan("tick")
  \/ Refuse \/ List \/ Describe \/ Admit \/ SkipConflict \/ Recover
Worker ==
  \/ Select \/ Read \/ Mark \/ Ingest \/ RecordImport \/ EndFailed \/ EndImports \/ EndExport

Next ==
  \/ WriteFile \/ SaveStage \/ ReadStage \/ EnableScans \/ PauseScans
  \/ Requests \/ Worker \/ Restart

Spec == Init /\ [][Next]_vars

-----------------------------------------------------------------------------
\* What the ledger says of a content is true of the table: "failed" and "success"
\* tell of its last claim what happened, and a content that ever reached the table is
\* never new again, whichever scan, retry or failure came between
\* (jobs_resident.py:544-571, stages_resident.py:243-252).
ClaimsTellTheTruth ==
  \A k \in Key :
    /\ claims[k] = "failed"  => ~landed[k]
    /\ claims[k] = "success" => landed[k]
    /\ claims[k] = "new"     => rows[k] = 0

\* Scheduled scans run for the definition that their owner had seen when the schedule
\* was turned on (stages_resident.py:84, 353-383).
ScansFitDefinition == scans # None => scans = stage.revision

\* Types; claims that are true of the table, scans that fit the definition
\* (stages_resident.py).
StagesInv == StagesTypeOK /\ ClaimsTellTheTruth /\ ScansFitDefinition

\* Only bytes whose content was claimed reach the table, while their claim is running
\* and whatever was written to the file since it was claimed (stages_resident.py:386-408).
ImportsWhatItClaimed ==
  [][\A k \in Key : rows'[k] # rows[k] => claims[k] = "running" /\ k = Current.key]_vars

\* Where a content is with the run that the server works on.
Pending == {"queued", "running"}
Resting == {"idle", "locked", "listed", "described"}

ContentPlace ==
  [k \in Key |->
     IF claims[k] \notin Pending \/ job.pc \in Resting \/ k \notin Keys THEN "nobody"
     ELSE IF claims[k] = "queued" THEN "waiting"
     ELSE CASE job.pc = "ingest"   -> "importing"
            [] job.pc = "ingested" -> "imported"
            [] OTHER               -> "in doubt"]

\* The promise of the ledger about contents.
Claims == INSTANCE StageClaims WITH claim <- claims, place <- ContentPlace, handed <- rows

\* Imports, retries and scans of a directory that changes beside them keep the promise
\* that the ledger gives of contents (stages_resident.py, jobs_resident.py:544-571).
ImplementsClaims == Claims!Spec
=============================================================================
