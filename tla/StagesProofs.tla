---------------------------- MODULE StagesProofs ----------------------------
(***************************************************************************)
(* Proofs about Stages, for any directory, any contents and definitions    *)
(* and any bounds: what the ledger tells of a content is true of the       *)
(* table, only claimed bytes are imported, and exports are whole files     *)
(* that the ledger tells the truth about.  Of the two parts of MCStages    *)
(* the imports are proved for Stages, and the exports, the instance        *)
(* Exports, under the specification TLC checks.                            *)
(*                                                                         *)
(* The invariant that carries it follows one claim through the worker: a   *)
(* run's steps have keys of their own, all of them wait, untouched, except *)
(* the current one, and what is pending belongs to the open run.           *)
(***************************************************************************)
EXTENDS MCStages, WellFoundedInduction, TLAPS

Importing == /\ job.kind # "export"
             /\ job.pc \in {"select", "read", "mark", "ingest", "ingested", "failed", "in doubt"}
Single    == {"import", "retry"}

\* The places that each kind of job goes through, and the steps it may have there.
PlaceInv ==
  /\ job.kind = "export" =>
       /\ job.steps = {}
       /\ job.pc \in {"idle", "described", "export"}
  /\ job.kind # "export" => job.pc # "export"
  /\ job.kind \in Single =>
       /\ job.pc # "locked"
       /\ \A f, g \in Listed : f = g
       /\ \A s, t \in job.steps : s = t
  /\ \A s, t \in job.steps : s.key = t.key => s = t
  /\ Importing /\ job.pc # "select" => job.steps # {}

\* A pending claim belongs to the open run, and while a worker lives to a step of its.
PendingInv ==
  /\ \A k \in Key : claims[k] \in Pending => open
  /\ Importing => \A k \in Key : claims[k] \in Pending => k \in Keys
  /\ job.pc = "export" => \A k \in Key : claims[k] \notin Pending

\* A step that has not begun: its claim is queued and nothing of it was ingested since;
\* only a retry may meet a content that was ingested before.
Waits(s) == /\ claims[s.key] = "queued"
            /\ ~landed[s.key]
            /\ job.kind # "retry" => rows[s.key] = 0

ProgressInv ==
  Importing =>
    /\ \A s \in job.steps :
         s # Current \/ job.pc \in {"select", "read", "mark", "failed"} => Waits(s)
    /\ job.pc \in {"ingest", "ingested"} => claims[Current.key] = "running"
    /\ job.pc \in {"mark", "ingest"} => <<job.meaning, job.data>> = Current.key
    /\ job.pc = "ingested" => landed[Current.key]
    /\ job.pc = "in doubt" => claims[Current.key] \in Pending

IInv == /\ StagesTypeOK /\ PlaceInv /\ PendingInv /\ ProgressInv
        /\ ClaimsTellTheTruth /\ ScansFitDefinition

-----------------------------------------------------------------------------
(* Operators. *)

\* Steps that are left have a first one, since the names are natural numbers.
LEMMA FirstStep ==
  ASSUME NEW S, S \subseteq Step, S # {}
  PROVE  \E s \in S : \A t \in S : s.file <= t.file
<1> DEFINE T == { s.file : s \in S }
<1>1. T \subseteq Nat /\ T # {}
  BY StagesAssumption DEF Step
<1>2. PICK x \in T : \A y \in T : ~ (<<y, x>> \in OpToRel(<, Nat))
  <2> HIDE DEF T
  <2> QED BY <1>1, NatLessThanWellFounded, WFMin
<1>3. \A y \in T : x <= y
  <2>1. \A m, n \in Nat : m < n => <<m, n>> \in OpToRel(<, Nat)
    BY Zenon DEF OpToRel
  <2>2. \A y \in T : ~ (y < x)
    <3> HIDE DEF T
    <3> QED BY <2>1, <1>1, <1>2
  <2>3. x \in Nat /\ \A y \in T : y \in Nat
    BY <1>1
  <2> HIDE DEF T
  <2> QED BY <2>2, <2>3
<1>4. PICK s \in S : x = s.file
  OBVIOUS
<1>5. \A t \in S : s.file <= t.file
  BY <1>3, <1>4
<1> QED BY <1>5

\* The current step is one of those that are left.
LEMMA CurrentIsAStep ==
  ASSUME job \in Job, job.steps # {}
  PROVE  Current \in job.steps
<1>1. job.steps \subseteq Step
  BY DEF Job
<1>2. \E s \in job.steps : \A t \in job.steps : s.file <= t.file
  BY <1>1, FirstStep
<1> QED BY <1>2 DEF Current

\* Nobody works when there is a definition.
LEMMA IdleIsAJob == stage.meaning \in Meaning => Idle \in Job
<1> SUFFICES ASSUME stage.meaning \in Meaning PROVE Idle \in Job
  OBVIOUS
<1>1. (CHOOSE m \in Meaning : TRUE) \in Meaning
  OBVIOUS
<1>2. NoFiles \in [File -> Stamp \cup {None}]
  BY DEF NoFiles
<1> QED BY <1>1, <1>2, StagesAssumption DEF Idle, Job, Kind, Place

\* What settling lost runs makes of the ledger.
LEMMA SettledClaims ==
  ASSUME StagesTypeOK
  PROVE  /\ Settled \in [Key -> Status]
         /\ \A k \in Key : Settled[k] = claims[k]
                           \/ (open /\ claims[k] \in Pending /\ Settled[k] = "unknown")
         /\ open => \A k \in Key : Settled[k] \notin Pending
BY DEF Settled, StagesTypeOK, Status, Pending

LEMMA KeysAreKeys == job \in Job => Keys \subseteq Key
BY DEF Keys, Job, Step

LEMMA StatusNowIsAStatus == StatusNow \in {"unknown", "failed"}
BY DEF StatusNow

-----------------------------------------------------------------------------
(* Types. *)

LEMMA InitTyped == Init => StagesTypeOK
<1> SUFFICES ASSUME Init PROVE StagesTypeOK
  OBVIOUS
<1>1. stage \in [revision : 1..MaxRevision, meaning : Meaning]
  BY StagesAssumption DEF Init
<1>2. Idle \in Job
  BY <1>1, IdleIsAJob
<1>3. disk \in [File -> [content : Content, stamp : Stamp] \cup {None}]
  BY DEF Init, NoFiles
<1>4. rows \in [Key -> 0..MaxRows]
  BY StagesAssumption DEF Init
<1>5. claims \in [Key -> Status] /\ landed \in [Key -> BOOLEAN]
  BY DEF Init, Status
<1> QED BY <1>1, <1>2, <1>3, <1>4, <1>5 DEF Init, StagesTypeOK

LEMMA UsersTyped ==
  StagesTypeOK /\ (WriteFile \/ SaveStage \/ ReadStage \/ EnableScans \/ PauseScans)
    => StagesTypeOK'
<1> SUFFICES ASSUME StagesTypeOK,
                    WriteFile \/ SaveStage \/ ReadStage \/ EnableScans \/ PauseScans
             PROVE  StagesTypeOK'
  OBVIOUS
<1> USE StagesAssumption DEF StagesTypeOK, ledger, table
<1>1. CASE WriteFile
  BY <1>1 DEF WriteFile
<1>3. CASE SaveStage
  BY <1>3 DEF SaveStage
<1>4. CASE ReadStage
  BY <1>4 DEF ReadStage
<1>5. CASE EnableScans
  BY <1>5 DEF EnableScans
<1>6. CASE PauseScans
  BY <1>6 DEF PauseScans
<1> QED BY <1>1, <1>3, <1>4, <1>5, <1>6

LEMMA DescribeTyped == StagesTypeOK /\ Describe => StagesTypeOK'
<1> SUFFICES ASSUME StagesTypeOK, Describe PROVE StagesTypeOK'
  OBVIOUS
<1> USE DEF StagesTypeOK, ledger, table
<1>1. \A f \in Listed : StepOf(f) \in Step
  <2> SUFFICES ASSUME NEW f \in Listed PROVE StepOf(f) \in Step
    OBVIOUS
  <2>1. f \in File /\ disk[f] # None
    BY DEF Describe, Listed
  <2>2. disk[f] \in [content : Content, stamp : Stamp]
    BY <2>1
  <2>3. job.meaning \in Meaning
    BY DEF Job
  <2> QED BY <2>1, <2>2, <2>3 DEF StepOf, Step, Key
<1>2. job'.steps \subseteq Step
  BY <1>1 DEF Describe, Job
<1>3. job' = [job EXCEPT !.pc = "described", !.listing = NoFiles, !.steps = job'.steps]
  BY DEF Describe, Job
<1>4. NoFiles \in [File -> Stamp \cup {None}]
  BY DEF NoFiles
<1>5. job' \in Job
  BY <1>2, <1>3, <1>4 DEF Job, Place
<1> QED BY <1>5 DEF Describe

LEMMA RequestsTyped == StagesTypeOK /\ Requests => StagesTypeOK'
<1> SUFFICES ASSUME StagesTypeOK, Requests PROVE StagesTypeOK'
  OBVIOUS
<1>i. Idle \in Job
  BY IdleIsAJob DEF StagesTypeOK
<1>k. Keys \subseteq Key
  BY KeysAreKeys DEF StagesTypeOK
<1>s. Settled \in [Key -> Status]
  BY SettledClaims
<1> USE StagesAssumption DEF StagesTypeOK, ledger, table
<1>1. ASSUME NEW kind \in {"import", "retry"}, AskImport(kind) PROVE StagesTypeOK'
  <2>1. PICK f \in File, s \in Stamp :
          job' = [Idle EXCEPT !.pc = "listed", !.kind = kind, !.revision = stage.revision,
                              !.meaning = stage.meaning, !.listing = [NoFiles EXCEPT ![f] = s]]
    BY <1>1 DEF AskImport
  <2>2. [NoFiles EXCEPT ![f] = s] \in [File -> Stamp \cup {None}]
    BY DEF NoFiles
  <2>3. job' \in Job
    BY <2>1, <2>2, <1>i DEF Job, Kind, Place
  <2> QED BY <2>3, <1>1 DEF AskImport
<1>2. CASE AskExport
  <2>1. job' \in Job
    BY <1>2, <1>i DEF AskExport, Job, Kind, Place
  <2> QED BY <2>1, <1>2 DEF AskExport
<1>3. ASSUME NEW kind \in {"scan", "tick"}, StartScan(kind) PROVE StagesTypeOK'
  <2>1. job' \in Job
    BY <1>3, <1>i DEF StartScan, Job, Kind, Place
  <2> QED BY <2>1, <1>3 DEF StartScan
<1>4. CASE Refuse
  BY <1>4, <1>i DEF Refuse
<1>5. CASE List
  <2>1. PICK still \in SUBSET File :
          job' = [job EXCEPT !.pc = "listed",
                             !.listing = [f \in File |-> IF f \in still THEN disk[f].stamp ELSE None]]
                 /\ \A f \in still : disk[f] # None
    BY <1>5 DEF List
  <2>2. [f \in File |-> IF f \in still THEN disk[f].stamp ELSE None] \in [File -> Stamp \cup {None}]
    BY <2>1
  <2>3. job' \in Job
    BY <2>1, <2>2 DEF Job, Place
  <2> QED BY <2>3, <1>5 DEF List
<1>6. CASE Describe
  BY <1>6, DescribeTyped
<1>7. CASE Admit
  <2>1. job' \in Job
    BY <1>7 DEF Admit, Job, Place
  <2>2. claims' \in [Key -> Status] /\ landed' \in [Key -> BOOLEAN]
    BY <1>7, <1>s DEF Admit, Status
  <2> QED BY <2>1, <2>2, <1>7 DEF Admit
<1>8. CASE SkipConflict
  BY <1>8, <1>i, <1>s DEF SkipConflict
<1>9. CASE Recover
  BY <1>9, <1>s DEF Recover
<1> QED BY <1>1, <1>2, <1>3, <1>4, <1>5, <1>6, <1>7, <1>8, <1>9 DEF Requests

LEMMA WorkerTyped == StagesTypeOK /\ PlaceInv /\ (Worker \/ Restart) => StagesTypeOK'
<1> SUFFICES ASSUME StagesTypeOK, PlaceInv, Worker \/ Restart PROVE StagesTypeOK'
  OBVIOUS
<1>i. Idle \in Job
  BY IdleIsAJob DEF StagesTypeOK
<1> USE StagesAssumption DEF StagesTypeOK, ledger, table
<1>1. CASE Select
  <2>1. job' \in Job
    BY <1>1 DEF Select, Job, Place
  <2> QED BY <2>1, <1>1 DEF Select
<1>2. CASE Read
  <2> DEFINE d == disk[Current.file]
             data == IF d = None THEN None ELSE d.content
             pc   == CASE d = None -> "in doubt"
                       [] d # None /\ <<job.meaning, d.content>> = Current.key -> "mark"
                       [] OTHER -> "failed"
  <2>1. job' = [job EXCEPT !.data = data, !.pc = pc]
    BY <1>2 DEF Read
  <2>2. job.steps # {}
    BY <1>2 DEF Read, PlaceInv, Importing
  <2>3. Current \in job.steps
    BY <2>2, CurrentIsAStep
  <2>6. d = None \/ d.content \in Content
    BY <2>3 DEF Job, Step
  <2>7. data \in Content \cup {None}
    BY <2>6
  <2>4. pc \in Place
    BY DEF Place
  <2>5. job' \in Job
    <3> HIDE DEF data, pc
    <3> QED BY <2>1, <2>7, <2>4 DEF Job
  <2> QED BY <2>5, <1>2 DEF Read
<1>3. CASE Mark
  <2>0. \E pc \in Place : job' = [job EXCEPT !.pc = pc]
    BY <1>3 DEF Mark, Place
  <2>1. job' \in Job
    BY <2>0 DEF Job
  <2>2. claims' \in [Key -> Status]
    BY <1>3 DEF Mark, Status
  <2> QED BY <2>1, <2>2, <1>3 DEF Mark
<1>4. CASE Ingest
  <2>0. \E pc \in Place : job' = [job EXCEPT !.pc = pc]
    BY <1>4 DEF Ingest, Place
  <2>1. job' \in Job
    BY <2>0 DEF Job
  <2>2. rows' \in [Key -> 0..MaxRows]
    <3> DEFINE k == <<job.meaning, job.data>>
    <3>1. rows' = rows \/ (rows[k] < MaxRows /\ rows' = [rows EXCEPT ![k] = @ + 1])
      BY <1>4 DEF Ingest
    <3> HIDE DEF k
    <3> QED BY <3>1
  <2>3. landed' \in [Key -> BOOLEAN]
    BY <1>4 DEF Ingest
  <2> QED BY <2>1, <2>2, <2>3, <1>4 DEF Ingest
<1>5. CASE RecordImport
  <2>1. job' \in Job
    <3> DEFINE left == job.steps \ {Current}
    <3>1. left \in SUBSET Step
      BY DEF Job
    <3>2. \/ job' = [job EXCEPT !.pc = "select", !.steps = left, !.data = None]
          \/ job' = [job EXCEPT !.pc = "in doubt"]
      BY <1>5 DEF RecordImport
    <3> HIDE DEF left
    <3>3. CASE job' = [job EXCEPT !.pc = "select", !.steps = left, !.data = None]
      <4>1. "select" \in Place
        BY DEF Place
      <4> QED BY <3>3, <3>1, <4>1 DEF Job
    <3>4. CASE job' = [job EXCEPT !.pc = "in doubt"]
      BY <3>4 DEF Job, Place
    <3> QED BY <3>2, <3>3, <3>4
  <2>2. claims' \in [Key -> Status]
    BY <1>5 DEF RecordImport, Status
  <2> QED BY <2>1, <2>2, <1>5 DEF RecordImport
<1>6. CASE EndFailed
  <2>1. claims' \in [Key -> Status]
    BY <1>6, StatusNowIsAStatus DEF EndFailed, Status
  <2> QED BY <2>1, <1>6, <1>i DEF EndFailed
<1>7. CASE EndImports
  BY <1>7, <1>i DEF EndImports
<1>8. CASE EndExport
  BY <1>8, <1>i DEF EndExport
<1>9. CASE Restart
  BY <1>9, <1>i DEF Restart
<1> QED BY <1>1, <1>2, <1>3, <1>4, <1>5, <1>6, <1>7, <1>8, <1>9 DEF Worker

LEMMA TypedStep == IInv /\ [Next]_vars => StagesTypeOK'
<1> SUFFICES ASSUME IInv, [Next]_vars PROVE StagesTypeOK'
  OBVIOUS
<1>1. CASE UNCHANGED vars
  BY <1>1 DEF IInv, StagesTypeOK, vars
<1>2. CASE Next
  BY <1>2, UsersTyped, RequestsTyped, WorkerTyped DEF IInv, Next
<1> QED BY <1>1, <1>2

-----------------------------------------------------------------------------
(* Steps that leave alone what the invariant is about, or only end a job. *)

\* The worker's part of the state, which only requests and the worker change.
Held == <<claims, open, rows, landed, job>>

Outside == \/ WriteFile \/ SaveStage \/ ReadStage \/ EnableScans \/ PauseScans
           \/ UNCHANGED vars

LEMMA CurrentStays == job'.steps = job.steps => Current' = Current
<1> SUFFICES ASSUME job'.steps = job.steps PROVE Current' = Current
  OBVIOUS
<1> QED BY Zenon DEF Current

LEMMA OutsideLeavesHeld == Outside => UNCHANGED Held
BY DEF Outside, Held, WriteFile, SaveStage, ReadStage, EnableScans, PauseScans, vars,
       ledger, table

LEMMA HeldStays ==
  PlaceInv /\ PendingInv /\ ProgressInv /\ ClaimsTellTheTruth /\ UNCHANGED Held
    => PlaceInv' /\ PendingInv' /\ ProgressInv' /\ ClaimsTellTheTruth'
<1> SUFFICES ASSUME PlaceInv, PendingInv, ProgressInv, ClaimsTellTheTruth, UNCHANGED Held
             PROVE  PlaceInv' /\ PendingInv' /\ ProgressInv' /\ ClaimsTellTheTruth'
  OBVIOUS
<1>0. claims' = claims /\ open' = open /\ rows' = rows /\ landed' = landed /\ job' = job
  BY DEF Held
<1>1. Current' = Current
  BY <1>0, CurrentStays
<1>2. PlaceInv'
  BY <1>0 DEF PlaceInv, Listed, Importing
<1>3. PendingInv'
  BY <1>0 DEF PendingInv, Importing, Keys
<1>4. ProgressInv'
  BY <1>0, <1>1 DEF ProgressInv, Importing, Waits
<1>5. ClaimsTellTheTruth'
  BY <1>0 DEF ClaimsTellTheTruth
<1> QED BY <1>2, <1>3, <1>4, <1>5

\* Scans are scheduled for the revision that is current, whoever acts.
LEMMA ScansStep == IInv /\ [Next]_vars => ScansFitDefinition'
<1> SUFFICES ASSUME ScansFitDefinition, [Next]_vars PROVE ScansFitDefinition'
  BY DEF IInv
<1> USE DEF ScansFitDefinition
<1>1. CASE SaveStage
  BY <1>1 DEF SaveStage
<1>2. CASE EnableScans
  BY <1>2 DEF EnableScans
<1>3. CASE PauseScans
  BY <1>3 DEF PauseScans
<1>4. CASE Refuse
  BY <1>4 DEF Refuse
<1>5. CASE UNCHANGED <<stage, scans>>
  BY <1>5
<1>6. (WriteFile \/ ReadStage \/ UNCHANGED vars) => UNCHANGED <<stage, scans>>
  BY DEF WriteFile, ReadStage, vars
<1>7. Requests => Refuse \/ UNCHANGED <<stage, scans>>
  BY DEF Requests, AskImport, AskExport, StartScan, List, Describe, Admit, SkipConflict, Recover
<1>8. Worker \/ Restart => UNCHANGED <<stage, scans>>
  BY DEF Worker, Restart, Select, Read, Mark, Ingest, RecordImport, EndFailed, EndImports,
         EndExport
<1> QED BY <1>1, <1>2, <1>3, <1>4, <1>5, <1>6, <1>7, <1>8 DEF Next

-----------------------------------------------------------------------------
(* Places and steps. *)

LEMMA IdleIsInPlace == job' = Idle => PlaceInv'
<1> SUFFICES ASSUME job' = Idle PROVE PlaceInv'
  OBVIOUS
<1>1. /\ job'.kind = "export" /\ job'.pc = "idle" /\ job'.steps = {}
  BY DEF Idle
<1> QED BY <1>1 DEF PlaceInv, Importing, Single

LEMMA RequestsInPlace == StagesTypeOK /\ PlaceInv /\ Requests => PlaceInv'
<1> SUFFICES ASSUME StagesTypeOK, PlaceInv, Requests PROVE PlaceInv'
  OBVIOUS
<1>j. job \in Job
  BY DEF StagesTypeOK
<1>1. ASSUME NEW kind \in {"import", "retry"}, AskImport(kind) PROVE PlaceInv'
  <2>1. PICK f \in File, s \in Stamp :
          job' = [Idle EXCEPT !.pc = "listed", !.kind = kind, !.revision = stage.revision,
                              !.meaning = stage.meaning, !.listing = [NoFiles EXCEPT ![f] = s]]
    BY <1>1 DEF AskImport
  <2>2. /\ job'.kind = kind /\ job'.pc = "listed" /\ job'.steps = {}
        /\ job'.listing = [NoFiles EXCEPT ![f] = s]
    BY <2>1 DEF Idle
  <2>3. \A g \in Listed' : g = f
    BY <2>2 DEF Listed, NoFiles
  <2> QED BY <2>2, <2>3 DEF PlaceInv, Importing, Single
<1>2. CASE AskExport
  <2>1. /\ job'.kind = "export" /\ job'.pc = "described" /\ job'.steps = {}
    BY <1>2 DEF AskExport, Idle
  <2> QED BY <2>1 DEF PlaceInv, Importing, Single
<1>3. ASSUME NEW kind \in {"scan", "tick"}, StartScan(kind) PROVE PlaceInv'
  <2>1. /\ job'.kind = kind /\ job'.pc = "locked" /\ job'.steps = {}
    BY <1>3 DEF StartScan, Idle
  <2> QED BY <2>1 DEF PlaceInv, Importing, Single
<1>4. CASE Refuse
  BY <1>4, IdleIsInPlace DEF Refuse
<1>5. CASE List
  <2>1. PICK l : job' = [job EXCEPT !.pc = "listed", !.listing = l]
    BY <1>5 DEF List
  <2>2. /\ job'.kind = job.kind /\ job'.pc = "listed" /\ job'.steps = job.steps /\ job.pc = "locked"
    BY <1>5, <1>j, <2>1 DEF Job, List
  <2> QED BY <2>2 DEF PlaceInv, Importing, Single
<1>6. CASE Describe
  <2> DEFINE all  == { StepOf(f) : f \in Listed }
             once == { s \in all : Least(all, s) }
  <2>1. /\ job'.kind = job.kind /\ job'.pc = "described" /\ job'.steps \subseteq once
        /\ job'.listing = NoFiles /\ job.pc = "listed"
    BY <1>6, <1>j DEF Job, Describe
  <2>2. ASSUME NEW s \in once, NEW t \in once, s.key = t.key PROVE s = t
    <3>1. PICK f \in Listed : s = StepOf(f)
      OBVIOUS
    <3>2. PICK g \in Listed : t = StepOf(g)
      OBVIOUS
    <3>3. s.file = f /\ t.file = g /\ f \in Nat /\ g \in Nat
      BY <3>1, <3>2, StagesAssumption DEF StepOf, Listed
    <3>4. s.file <= t.file /\ t.file <= s.file
      BY <2>2 DEF Least
    <3>5. f = g
      BY <3>3, <3>4
    <3> QED BY <3>1, <3>2, <3>5
  <2>3. job.kind \in Single => \A s, t \in all : s = t
    BY DEF PlaceInv
  <2>4. Listed' = {}
    BY <2>1 DEF Listed, NoFiles
  <2>5. \A s, t \in job'.steps : s.key = t.key => s = t
    BY <2>1, <2>2
  <2>6. job.kind # "export"
    BY <2>1 DEF PlaceInv
  <2>7. job.kind \in Single => \A s, t \in job'.steps : s = t
    BY <2>1, <2>3
  <2> HIDE DEF all, once
  <2> QED BY <2>1, <2>4, <2>5, <2>6, <2>7 DEF PlaceInv, Importing, Single
<1>7. CASE Admit
  <2>1. /\ job'.kind = job.kind /\ job'.steps = job.steps /\ job'.listing = job.listing
        /\ job'.pc = IF job.kind = "export" THEN "export" ELSE "select"
    BY <1>7, <1>j DEF Admit, Job
  <2>2. Listed' = Listed
    BY <2>1 DEF Listed
  <2> QED BY <2>1, <2>2 DEF PlaceInv, Importing, Single
<1>8. CASE SkipConflict
  BY <1>8, IdleIsInPlace DEF SkipConflict
<1>9. CASE Recover
  BY <1>9 DEF Recover, PlaceInv, Importing, Listed
<1> QED BY <1>1, <1>2, <1>3, <1>4, <1>5, <1>6, <1>7, <1>8, <1>9 DEF Requests

\* A worker's step moves on, with the steps it has or fewer.
LEMMA WorkerMoves ==
  ASSUME StagesTypeOK, PlaceInv, Worker, job' # Idle
  PROVE  /\ job'.kind = job.kind /\ job'.listing = job.listing /\ job'.meaning = job.meaning
         /\ job'.steps \subseteq job.steps
         /\ job'.steps # job.steps => job'.pc = "select"
         /\ Importing
         /\ job'.pc \in {"select", "read", "mark", "ingest", "ingested", "failed", "in doubt"}
         /\ job'.pc # "select" => job.steps # {}
<1>j. job \in Job
  BY DEF StagesTypeOK
<1> USE <1>j DEF Job
<1>1. CASE Select
  BY <1>1 DEF Select, PlaceInv, Importing
<1>2. CASE Read
  <2>1. PICK data : \E pc \in {"in doubt", "mark", "failed"} : job' = [job EXCEPT !.data = data, !.pc = pc]
    BY <1>2 DEF Read
  <2> QED BY <1>2, <2>1 DEF Read, PlaceInv, Importing
<1>3. CASE Mark
  <2>1. PICK pc \in {"ingest", "failed"} : job' = [job EXCEPT !.pc = pc]
    BY <1>3 DEF Mark
  <2> QED BY <1>3, <2>1 DEF Mark, PlaceInv, Importing
<1>4. CASE Ingest
  <2>1. PICK pc \in {"ingested", "in doubt"} : job' = [job EXCEPT !.pc = pc]
    BY <1>4 DEF Ingest
  <2> QED BY <1>4, <2>1 DEF Ingest, PlaceInv, Importing
<1>5. CASE RecordImport
  <2>1. job.pc = "ingested" /\ Importing /\ job.steps # {}
    BY <1>5 DEF RecordImport, PlaceInv, Importing
  <2>2. CASE job' = [job EXCEPT !.pc = "select", !.steps = @ \ {Current}, !.data = None]
    <3> DEFINE left == job.steps \ {Current}
    <3>1. job' = [job EXCEPT !.pc = "select", !.steps = left, !.data = None] /\ left \subseteq job.steps
      BY <2>2
    <3> HIDE DEF left
    <3> QED BY <2>1, <3>1 DEF Importing
  <2>3. CASE job' = [job EXCEPT !.pc = "in doubt"]
    BY <2>1, <2>3 DEF Importing
  <2> QED BY <1>5, <2>2, <2>3 DEF RecordImport
<1>6. ~(EndFailed \/ EndImports \/ EndExport)
  BY DEF EndFailed, EndImports, EndExport
<1> QED BY <1>1, <1>2, <1>3, <1>4, <1>5, <1>6 DEF Worker

LEMMA WorkerInPlace == StagesTypeOK /\ PlaceInv /\ (Worker \/ Restart) => PlaceInv'
<1> SUFFICES ASSUME StagesTypeOK, PlaceInv, Worker \/ Restart PROVE PlaceInv'
  OBVIOUS
<1>1. CASE job' = Idle
  BY <1>1, IdleIsInPlace
<1>2. CASE job' # Idle
  <2>1. Worker
    BY <1>2 DEF Restart
  <2>2. /\ job'.kind = job.kind /\ job'.listing = job.listing
        /\ job'.steps \subseteq job.steps
        /\ job'.steps # job.steps => job'.pc = "select"
        /\ Importing
        /\ job'.pc \in {"select", "read", "mark", "ingest", "ingested", "failed", "in doubt"}
        /\ job'.pc # "select" => job.steps # {}
    BY <2>1, <1>2, WorkerMoves
  <2>3. Listed' = Listed
    BY <2>2 DEF Listed
  <2> QED BY <2>2, <2>3 DEF PlaceInv, Importing, Single
<1> QED BY <1>1, <1>2

-----------------------------------------------------------------------------
(* The claims, from their admission to their end. *)

WorkInv == PendingInv /\ ProgressInv /\ ClaimsTellTheTruth

\* Nobody is at work: what was pending stays so, for the run that is open.
LEMMA AtRest ==
  ASSUME PendingInv, ClaimsTellTheTruth, job'.pc \in Resting, UNCHANGED <<claims, open, rows, landed>>
  PROVE  WorkInv'
BY DEF WorkInv, PendingInv, ProgressInv, ClaimsTellTheTruth, Importing, Resting, Pending

\* A run ends, or lost ones are settled.
LEMMA AtAnEnd ==
  ASSUME job'.pc = "idle", \A k \in Key : claims'[k] \notin Pending, ClaimsTellTheTruth'
  PROVE  WorkInv'
BY DEF WorkInv, PendingInv, ProgressInv, Importing

LEMMA SettledIsTrue ==
  ASSUME StagesTypeOK, PendingInv, ClaimsTellTheTruth
  PROVE  /\ \A k \in Key : Settled[k] \notin Pending
         /\ \A k \in Key : /\ Settled[k] = "failed"  => ~landed[k]
                           /\ Settled[k] = "success" => landed[k]
                           /\ Settled[k] = "new"     => claims[k] = "new" /\ rows[k] = 0
<1>1. \A k \in Key : Settled[k] = claims[k] \/ (open /\ claims[k] \in Pending /\ Settled[k] = "unknown")
  BY SettledClaims
<1>2. CASE open
  BY <1>1, <1>2, SettledClaims DEF ClaimsTellTheTruth
<1>3. CASE ~open
  BY <1>1, <1>3 DEF PendingInv, ClaimsTellTheTruth
<1> QED BY <1>2, <1>3 DEF StagesTypeOK

LEMMA AdmitWorks == IInv /\ Admit => WorkInv'
<1> SUFFICES ASSUME IInv, Admit PROVE WorkInv'
  OBVIOUS
<1>j. StagesTypeOK /\ PlaceInv /\ PendingInv /\ ClaimsTellTheTruth /\ job \in Job
  BY DEF IInv, StagesTypeOK
<1>1. /\ job'.kind = job.kind /\ job'.steps = job.steps
      /\ job'.pc = IF job.kind = "export" THEN "export" ELSE "select"
  BY <1>j DEF Admit, Job
<1>2. \A k \in Key : Settled[k] \notin Pending
  BY <1>j, SettledIsTrue
<1>3. \A k \in Key : /\ claims'[k] = IF k \in Keys THEN "queued" ELSE Settled[k]
                     /\ landed'[k] = (landed[k] /\ k \notin Keys)
                     /\ rows'[k] = rows[k]
  BY <1>j DEF Admit, StagesTypeOK
<1>4. ClaimsTellTheTruth'
  BY <1>3, <1>j, SettledIsTrue DEF ClaimsTellTheTruth
<1>5. Keys' = Keys
  BY <1>1 DEF Keys
<1>6. CASE job.kind = "export"
  <2>1. Keys = {}
    BY <1>6, <1>j DEF Keys, PlaceInv
  <2>2. \A k \in Key : claims'[k] \notin Pending
    BY <2>1, <1>2, <1>3
  <2> QED BY <2>2, <1>1, <1>4, <1>6 DEF WorkInv, PendingInv, ProgressInv, Importing
<1>7. CASE job.kind # "export"
  <2>1. PendingInv'
    BY <1>1, <1>2, <1>3, <1>5, <1>7 DEF PendingInv, Admit, Importing
  <2>2. \A s \in job.steps : s.key \in Keys /\ s.key \in Key
    BY <1>j DEF Keys, Job, Step
  <2>3. \A s \in job.steps : job.kind # "retry" => rows[s.key] = 0
    BY <2>2, <1>j, SettledIsTrue DEF Admit, Claimable
  <2>4. \A s \in job.steps : Waits(s)'
    BY <2>2, <2>3, <1>1, <1>3 DEF Waits
  <2>5. ProgressInv'
    BY <2>4, <1>1, <1>7 DEF ProgressInv, Importing
  <2> QED BY <2>1, <2>5, <1>4 DEF WorkInv
<1> QED BY <1>6, <1>7

LEMMA RequestsWork == IInv /\ Requests => WorkInv'
<1> SUFFICES ASSUME IInv, Requests PROVE WorkInv'
  OBVIOUS
<1>j. StagesTypeOK /\ PendingInv /\ ClaimsTellTheTruth /\ job \in Job
  BY DEF IInv, StagesTypeOK
<1>0. Idle.pc = "idle"
  BY DEF Idle
<1>1. ASSUME NEW kind \in {"import", "retry"}, AskImport(kind) PROVE WorkInv'
  <2>1. job'.pc = "listed"
    BY <1>1 DEF AskImport, Idle
  <2> QED BY <2>1, <1>1, <1>j, AtRest DEF AskImport, ledger, table, Resting
<1>2. CASE AskExport
  <2>1. job'.pc = "described"
    BY <1>2 DEF AskExport, Idle
  <2> QED BY <2>1, <1>2, <1>j, AtRest DEF AskExport, ledger, table, Resting
<1>3. ASSUME NEW kind \in {"scan", "tick"}, StartScan(kind) PROVE WorkInv'
  <2>1. job'.pc = "locked"
    BY <1>3 DEF StartScan, Idle
  <2> QED BY <2>1, <1>3, <1>j, AtRest DEF StartScan, ledger, table, Resting
<1>4. CASE Refuse
  BY <1>0, <1>4, <1>j, AtRest DEF Refuse, ledger, table, Resting
<1>5. CASE List
  <2>1. PICK l : job' = [job EXCEPT !.pc = "listed", !.listing = l]
    BY <1>5 DEF List
  <2>2. job'.pc = "listed"
    BY <2>1, <1>j DEF Job
  <2> QED BY <2>2, <1>5, <1>j, AtRest DEF List, ledger, table, Resting
<1>6. CASE Describe
  <2>1. job'.pc = "described"
    BY <1>6, <1>j DEF Describe, Job
  <2> QED BY <2>1, <1>6, <1>j, AtRest DEF Describe, ledger, table, Resting
<1>7. CASE Admit
  BY <1>7, AdmitWorks
<1>8. CASE SkipConflict \/ Recover
  <2>1. job'.pc = "idle" /\ claims' = Settled /\ rows' = rows /\ landed' = landed
    BY <1>8, <1>0 DEF SkipConflict, Recover, table
  <2>2. /\ \A k \in Key : claims'[k] \notin Pending
        /\ ClaimsTellTheTruth'
    BY <2>1, <1>j, SettledIsTrue DEF ClaimsTellTheTruth
  <2> QED BY <2>1, <2>2, AtAnEnd
<1> QED BY <1>1, <1>2, <1>3, <1>4, <1>5, <1>6, <1>7, <1>8 DEF Requests

\* What the invariant says of the current step and of the others.
LEMMA AtWork ==
  ASSUME IInv, Importing
  PROVE  /\ job \in Job /\ job.kind # "export" /\ job.steps \subseteq Step
         /\ \A s \in job.steps : s.key \in Key /\ s.key \in Keys
         /\ job.pc # "select" => Current \in job.steps
         /\ \A s \in job.steps : s # Current => s.key # Current.key /\ Waits(s)
         /\ job.pc \in {"select", "read", "mark", "failed"} =>
              \A s \in job.steps : Waits(s)
         /\ \A k \in Key : claims[k] \in Pending => open /\ k \in Keys
<1>1. job \in Job /\ PlaceInv /\ PendingInv /\ ProgressInv
  BY DEF IInv, StagesTypeOK
<1>2. job.pc # "select" => Current \in job.steps
  BY <1>1, CurrentIsAStep DEF PlaceInv
<1>3. job.steps \subseteq Step /\ \A s \in job.steps : s.key \in Key /\ s.key \in Keys
  BY <1>1 DEF Job, Step, Keys
<1>4. job.steps # {} => Current \in job.steps
  BY <1>1, CurrentIsAStep
<1>5. \A s \in job.steps : s # Current => s.key # Current.key
  BY <1>1, <1>4 DEF PlaceInv
<1>6. \A s \in job.steps : s # Current => Waits(s)
  BY <1>1 DEF ProgressInv
<1>7. job.pc \in {"select", "read", "mark", "failed"} => \A s \in job.steps : Waits(s)
  BY <1>1 DEF ProgressInv
<1>8. \A k \in Key : claims[k] \in Pending => open /\ k \in Keys
  BY <1>1 DEF PendingInv
<1> QED BY <1>1, <1>2, <1>3, <1>5, <1>6, <1>7, <1>8 DEF Importing

\* Steps that only move the worker on, by what they have seen of the file.
LEMMA LooksWork == IInv /\ (Select \/ Read) => WorkInv'
<1> SUFFICES ASSUME IInv, Select \/ Read PROVE WorkInv'
  OBVIOUS
<1>1. Importing /\ job.pc \in {"select", "read"} /\ (job.pc = "read" => Read) /\ (job.pc = "select" => Select)
  BY DEF IInv, Select, Read, PlaceInv, Importing
<1>j. job \in Job /\ job.kind # "export"
  BY <1>1, AtWork
<1>2. /\ job'.kind = job.kind /\ job'.steps = job.steps /\ job'.meaning = job.meaning
      /\ job'.pc \in {"read", "mark", "failed", "in doubt"}
      /\ job'.pc = "mark" => <<job'.meaning, job'.data>> = Current.key
  <2>1. CASE Select
    BY <2>1, <1>j DEF Select, Job
  <2>2. CASE Read
    <3> DEFINE d == disk[Current.file]
    <3>1. /\ job' = [job EXCEPT !.data = IF d = None THEN None ELSE d.content,
                           !.pc = CASE d = None -> "in doubt"
                                    [] d # None /\ <<job.meaning, d.content>> = Current.key -> "mark"
                                    [] OTHER -> "failed"]
      BY <2>2 DEF Read
    <3> HIDE DEF d
    <3>2. CASE d = None
      BY <3>1, <3>2, <1>j DEF Job
    <3>3. CASE d # None /\ <<job.meaning, d.content>> = Current.key
      BY <3>1, <3>3, <1>j DEF Job
    <3>4. CASE d # None /\ <<job.meaning, d.content>> # Current.key
      BY <3>1, <3>4, <1>j DEF Job
    <3> QED BY <3>2, <3>3, <3>4
  <2> QED BY <2>1, <2>2
<1>3. UNCHANGED <<claims, open, rows, landed>>
  BY DEF Select, Read, ledger, table
<1>4. Current' = Current /\ Keys' = Keys
  BY <1>2, CurrentStays DEF Keys
<1>5. ClaimsTellTheTruth'
  BY <1>3 DEF IInv, ClaimsTellTheTruth
<1>6. PendingInv'
  BY <1>1, <1>2, <1>3, <1>4, AtWork DEF PendingInv, Importing
<1>7. \A s \in job'.steps : Waits(s)'
  <2>1. \A s \in job.steps : Waits(s)
    BY <1>1, AtWork
  <2> QED BY <2>1, <1>2, <1>3 DEF Waits
<1>8. ProgressInv'
  <2>1. claims[Current.key] = "queued"
    BY <1>1, <1>j, CurrentIsAStep, AtWork DEF Waits, IInv, PlaceInv, Select
  <2> QED BY <1>2, <1>3, <1>4, <1>7, <2>1 DEF ProgressInv, Pending
<1> QED BY <1>5, <1>6, <1>8 DEF WorkInv

LEMMA MarkWorks == IInv /\ Mark => WorkInv'
<1> SUFFICES ASSUME IInv, Mark PROVE WorkInv'
  OBVIOUS
<1>1. Importing /\ job.pc = "mark"
  BY DEF IInv, Mark, PlaceInv, Importing
<1>j. /\ job \in Job /\ job.kind # "export" /\ Current \in job.steps
      /\ Current.key \in Key /\ Current.key \in Keys /\ claims \in [Key -> Status]
  BY <1>1, AtWork DEF IInv, StagesTypeOK
<1>2. UNCHANGED <<open, rows, landed>>
  BY DEF Mark, table
<1>m. <<job.meaning, job.data>> = Current.key
  BY <1>1 DEF IInv, ProgressInv
<1>3. CASE job' = [job EXCEPT !.pc = "ingest"] /\ claims' = [claims EXCEPT ![Current.key] = "running"]
  <2>1. /\ job'.kind = job.kind /\ job'.steps = job.steps /\ job'.meaning = job.meaning
        /\ job'.data = job.data /\ job'.pc = "ingest"
    BY <1>3, <1>j DEF Job
  <2>2. Current' = Current /\ Keys' = Keys
    BY <2>1, CurrentStays DEF Keys
  <2>3. /\ claims'[Current.key] = "running"
        /\ \A k \in Key : k # Current.key => claims'[k] = claims[k]
    BY <1>3, <1>j
  <2>4. ClaimsTellTheTruth'
    BY <2>3, <1>2 DEF IInv, ClaimsTellTheTruth
  <2>5. open
    BY <1>1, <1>j, AtWork DEF Waits, Pending
  <2>6. PendingInv'
    BY <2>1, <2>2, <2>3, <2>5, <1>1, <1>2, <1>j, AtWork DEF PendingInv, Importing
  <2>7. \A s \in job'.steps : s # Current => Waits(s)'
    <3>1. \A s \in job.steps : s # Current => s.key \in Key /\ s.key # Current.key /\ Waits(s)
      BY <1>1, AtWork
    <3> QED BY <3>1, <2>1, <2>3, <1>2 DEF Waits
  <2>8. ProgressInv'
    BY <2>1, <2>2, <2>3, <2>7, <1>m DEF ProgressInv
  <2> QED BY <2>4, <2>6, <2>8 DEF WorkInv
<1>4. CASE job' = [job EXCEPT !.pc = "failed"] /\ UNCHANGED claims
  <2>1. /\ job'.kind = job.kind /\ job'.steps = job.steps /\ job'.pc = "failed"
    BY <1>4, <1>j DEF Job
  <2>2. Current' = Current /\ Keys' = Keys
    BY <2>1, CurrentStays DEF Keys
  <2>3. ClaimsTellTheTruth'
    BY <1>2, <1>4 DEF IInv, ClaimsTellTheTruth
  <2>4. PendingInv'
    BY <2>1, <2>2, <1>1, <1>2, <1>4, <1>j, AtWork DEF PendingInv, Importing
  <2>5. \A s \in job'.steps : Waits(s)'
    <3>1. \A s \in job.steps : Waits(s)
      BY <1>1, AtWork
    <3> QED BY <3>1, <2>1, <1>2, <1>4 DEF Waits
  <2>6. ProgressInv'
    BY <2>1, <2>2, <2>5 DEF ProgressInv
  <2> QED BY <2>3, <2>4, <2>6 DEF WorkInv
<1> QED BY <1>3, <1>4 DEF Mark

LEMMA IngestWorks == IInv /\ Ingest => WorkInv'
<1> SUFFICES ASSUME IInv, Ingest PROVE WorkInv'
  OBVIOUS
<1>1. Importing /\ job.pc = "ingest"
  BY DEF IInv, Ingest, PlaceInv, Importing
<1>j. /\ job \in Job /\ job.kind # "export" /\ Current \in job.steps
      /\ Current.key \in Key /\ rows \in [Key -> 0..MaxRows] /\ landed \in [Key -> BOOLEAN]
  BY <1>1, AtWork DEF IInv, StagesTypeOK
<1>m. <<job.meaning, job.data>> = Current.key /\ claims[Current.key] = "running"
  BY <1>1 DEF IInv, ProgressInv
<1>2. PICK pc \in {"ingested", "in doubt"} :
        /\ job' = [job EXCEPT !.pc = pc]
        /\ \/ /\ rows' = [rows EXCEPT ![Current.key] = @ + 1]
              /\ landed' = [landed EXCEPT ![Current.key] = TRUE]
           \/ pc = "in doubt" /\ UNCHANGED <<rows, landed>>
  BY <1>m DEF Ingest, table
<1>3. /\ job'.kind = job.kind /\ job'.steps = job.steps /\ job'.pc = pc
  BY <1>2, <1>j DEF Job
<1>4. UNCHANGED <<claims, open>>
  BY DEF Ingest, ledger
<1>5. \A k \in Key : k # Current.key => rows'[k] = rows[k] /\ landed'[k] = landed[k]
  BY <1>2, <1>j
<1>6. pc = "ingested" => landed'[Current.key]
  BY <1>2, <1>j
<1>7. Current' = Current /\ Keys' = Keys
  BY <1>3, CurrentStays DEF Keys
<1>8. ClaimsTellTheTruth'
  BY <1>4, <1>5, <1>m DEF IInv, ClaimsTellTheTruth
<1>9. PendingInv'
  BY <1>1, <1>3, <1>4, <1>7, <1>j, AtWork DEF PendingInv, Importing
<1>10. \A s \in job'.steps : s # Current => Waits(s)'
  <2>1. \A s \in job.steps : s # Current => s.key \in Key /\ s.key # Current.key /\ Waits(s)
    BY <1>1, AtWork
  <2> QED BY <2>1, <1>3, <1>4, <1>5 DEF Waits
<1>11. ProgressInv'
  BY <1>3, <1>4, <1>6, <1>7, <1>10, <1>m DEF ProgressInv, Pending
<1> QED BY <1>8, <1>9, <1>11 DEF WorkInv

LEMMA RecordImportWorks == IInv /\ RecordImport => WorkInv'
<1> SUFFICES ASSUME IInv, RecordImport PROVE WorkInv'
  OBVIOUS
<1>1. Importing /\ job.pc = "ingested"
  BY DEF IInv, RecordImport, PlaceInv, Importing
<1>j. /\ job \in Job /\ job.kind # "export" /\ Current \in job.steps
      /\ Current.key \in Key /\ claims \in [Key -> Status]
  BY <1>1, AtWork DEF IInv, StagesTypeOK
<1>m. landed[Current.key] /\ claims[Current.key] = "running"
  BY <1>1 DEF IInv, ProgressInv
<1>2. UNCHANGED <<open, rows, landed>>
  BY DEF RecordImport, table
<1> DEFINE left == job.steps \ {Current}
<1>3. CASE /\ claims' = [claims EXCEPT ![Current.key] = "success"]
           /\ job' = [job EXCEPT !.pc = "select", !.steps = left, !.data = None]
  <2>1. job'.kind = job.kind /\ job'.steps = left /\ job'.pc = "select"
    <3> HIDE DEF left
    <3> QED BY <1>3, <1>j DEF Job
  <2>2. /\ claims'[Current.key] = "success"
        /\ \A k \in Key : k # Current.key => claims'[k] = claims[k]
    BY <1>3, <1>j
  <2>3. ClaimsTellTheTruth'
    BY <2>2, <1>2, <1>m DEF IInv, ClaimsTellTheTruth
  <2>4. \A k \in Key : claims'[k] \in Pending => open' /\ k \in Keys'
    <3> SUFFICES ASSUME NEW k \in Key, claims'[k] \in Pending PROVE open' /\ k \in Keys'
      OBVIOUS
    <3>1. k # Current.key
      BY <2>2 DEF Pending
    <3>2. open /\ k \in Keys
      BY <3>1, <2>2, <1>1, AtWork
    <3>3. PICK s \in job.steps : s.key = k
      BY <3>2 DEF Keys
    <3>4. s \in job'.steps
      BY <3>1, <3>3, <2>1
    <3> QED BY <3>2, <3>3, <3>4, <1>2 DEF Keys
  <2>5. PendingInv'
    BY <2>1, <2>4, <1>j DEF PendingInv
  <2>6. \A s \in job'.steps : Waits(s)'
    <3>1. \A s \in job.steps : s # Current => s.key \in Key /\ s.key # Current.key /\ Waits(s)
      BY <1>1, AtWork
    <3>2. \A s \in job'.steps : s \in job.steps /\ s # Current
      BY <2>1
    <3> QED BY <3>1, <3>2, <2>1, <2>2, <1>2 DEF Waits
  <2>7. ProgressInv'
    BY <2>1, <2>6 DEF ProgressInv
  <2> QED BY <2>3, <2>5, <2>7 DEF WorkInv
<1>4. CASE job' = [job EXCEPT !.pc = "in doubt"] /\ UNCHANGED claims
  <2>1. /\ job'.kind = job.kind /\ job'.steps = job.steps /\ job'.pc = "in doubt"
    BY <1>4, <1>j DEF Job
  <2>2. Current' = Current /\ Keys' = Keys
    BY <2>1, CurrentStays DEF Keys
  <2>3. ClaimsTellTheTruth'
    BY <1>2, <1>4 DEF IInv, ClaimsTellTheTruth
  <2>4. PendingInv'
    BY <2>1, <2>2, <1>1, <1>2, <1>4, <1>j, AtWork DEF PendingInv, Importing
  <2>5. \A s \in job'.steps : s # Current => Waits(s)'
    <3>1. \A s \in job.steps : s # Current => Waits(s)
      BY <1>1, AtWork
    <3> QED BY <3>1, <2>1, <1>2, <1>4 DEF Waits
  <2>6. ProgressInv'
    BY <2>1, <2>2, <2>5, <1>4, <1>m DEF ProgressInv, Pending
  <2> QED BY <2>3, <2>4, <2>6 DEF WorkInv
<1> QED BY <1>3, <1>4 DEF RecordImport

LEMMA EndFailedWorks == IInv /\ EndFailed => WorkInv'
<1> SUFFICES ASSUME IInv, EndFailed PROVE WorkInv'
  OBVIOUS
<1>1. Importing /\ job.pc \in {"failed", "in doubt"}
  BY DEF EndFailed, Importing, IInv, PlaceInv
<1>j. Current \in job.steps /\ Current.key \in Key
  BY <1>1, AtWork
<1>2. /\ claims'[Current.key] = StatusNow
      /\ \A k \in Key : k # Current.key =>
           claims'[k] = IF k \in Keys /\ claims[k] = "queued" THEN "new" ELSE claims[k]
      /\ rows' = rows /\ landed' = landed /\ job'.pc = "idle"
  BY <1>j DEF EndFailed, table, Idle
<1>3. \A k \in Key : k # Current.key =>
        \/ claims'[k] = claims[k] /\ claims[k] \notin Pending
        \/ claims'[k] = "new" /\ rows[k] = 0
  <2> SUFFICES ASSUME NEW k \in Key, k # Current.key
               PROVE  \/ claims'[k] = claims[k] /\ claims[k] \notin Pending
                      \/ claims'[k] = "new" /\ rows[k] = 0
    OBVIOUS
  <2>1. CASE k \in Keys
    <3>1. PICK s \in job.steps : s.key = k
      BY <2>1 DEF Keys
    <3>2. s # Current
      BY <3>1
    <3>3. Waits(s)
      BY <3>2, <1>1, AtWork
    <3>4. job.kind # "retry"
      BY <3>2, <1>j DEF IInv, PlaceInv, Single
    <3> QED BY <2>1, <3>1, <3>3, <3>4, <1>2 DEF Waits
  <2>2. CASE k \notin Keys
    <3>1. claims[k] \notin Pending
      BY <2>2, <1>1, AtWork
    <3> QED BY <3>1, <2>2, <1>2
  <2> QED BY <2>1, <2>2
<1>4. StatusNow = "failed" => ~landed[Current.key]
  BY <1>1, <1>j, AtWork DEF StatusNow, Waits
<1>5. ClaimsTellTheTruth'
  BY <1>2, <1>3, <1>4, StatusNowIsAStatus DEF IInv, ClaimsTellTheTruth
<1>6. \A k \in Key : claims'[k] \notin Pending
  BY <1>2, <1>3, StatusNowIsAStatus DEF Pending
<1> QED BY <1>2, <1>5, <1>6, AtAnEnd

\* The other ends of a run leave nothing pending behind, and an export never has any.
LEMMA OtherEndsWork == IInv /\ (EndImports \/ EndExport) => WorkInv'
<1> SUFFICES ASSUME IInv, EndImports \/ EndExport PROVE WorkInv'
  OBVIOUS
<1>0. job' = Idle
  BY DEF EndImports, EndExport
<1>4. job'.pc = "idle"
  BY <1>0 DEF Idle
<1>1. UNCHANGED <<claims, rows, landed>>
  BY DEF EndImports, EndExport, table
<1>2. ClaimsTellTheTruth'
  BY <1>1 DEF IInv, ClaimsTellTheTruth
<1>3. \A k \in Key : claims[k] \notin Pending
  <2>1. CASE EndImports
    <3>1. Importing /\ job.steps = {}
      BY <2>1 DEF EndImports, IInv, PlaceInv, Importing
    <3>2. Keys = {}
      BY <3>1 DEF Keys
    <3> QED BY <3>1, <3>2, AtWork
  <2>2. CASE EndExport
    BY <2>2 DEF EndExport, IInv, PendingInv
  <2> QED BY <2>1, <2>2
<1> QED BY <1>1, <1>2, <1>3, <1>4, AtAnEnd

LEMMA RestartWorks == IInv /\ Restart => WorkInv'
<1> SUFFICES ASSUME IInv, Restart PROVE WorkInv'
  OBVIOUS
<1>1. job'.pc \in Resting /\ UNCHANGED <<claims, open, rows, landed>>
  BY DEF Restart, Idle, Resting, ledger, table
<1> QED BY <1>1, AtRest DEF IInv

-----------------------------------------------------------------------------
(* The theorems. *)

LEMMA InitEstablishes == Init => IInv
<1> SUFFICES ASSUME Init PROVE IInv
  OBVIOUS
<1>1. StagesTypeOK
  BY InitTyped
<1>2. /\ job.kind = "export" /\ job.pc = "idle" /\ job.steps = {}
      /\ \A k \in Key : claims[k] = "new" /\ rows[k] = 0 /\ landed[k] = FALSE
      /\ scans = None
  BY DEF Init, Idle
<1> QED BY <1>1, <1>2 DEF IInv, PlaceInv, PendingInv, ProgressInv, ClaimsTellTheTruth,
           ScansFitDefinition, Importing, Single, Pending

LEMMA StepKeeps == IInv /\ [Next]_vars => IInv'
<1> SUFFICES ASSUME IInv, [Next]_vars PROVE IInv'
  OBVIOUS
<1>1. StagesTypeOK' /\ ScansFitDefinition'
  BY TypedStep, ScansStep
<1>2. CASE Outside
  BY <1>1, <1>2, OutsideLeavesHeld, HeldStays DEF IInv
<1>3. CASE Requests
  BY <1>1, <1>3, RequestsInPlace, RequestsWork DEF IInv, WorkInv
<1>4. CASE Worker \/ Restart
  <2>1. PlaceInv'
    BY <1>4, WorkerInPlace DEF IInv
  <2>2. WorkInv'
    BY <1>4, LooksWork, MarkWorks, IngestWorks, RecordImportWorks, EndFailedWorks, OtherEndsWork,
       RestartWorks DEF Worker
  <2> QED BY <1>1, <2>1, <2>2 DEF IInv, WorkInv
<1> QED BY <1>2, <1>3, <1>4 DEF Next, Outside

\* The inductive invariant holds in every state (stages_resident.py).
THEOREM Invariant == Spec => []IInv
<1> QED BY InitEstablishes, StepKeeps, PTL DEF Spec

\* What the ledger tells of a content is true of the table, whichever scans, retries,
\* failures and restarts came between, and scheduled scans run for the definition that
\* their owner had seen (jobs_resident.py:544-571, stages_resident.py:84, 243-252, 353-383).
THEOREM LedgerIsTrueOfTheTable == Spec => []StagesInv
<1>1. IInv => StagesInv
  BY DEF IInv, StagesInv
<1> QED BY <1>1, Invariant, PTL

\* What is pending belongs to a run that has not ended: whatever way a run ends, it
\* leaves no claim behind that no later request could take (jobs_resident.py:544-571).
THEOREM NothingPendsWithoutARun ==
  Spec => [](\A k \in Key : claims[k] \in Pending => open)
<1>1. IInv => \A k \in Key : claims[k] \in Pending => open
  BY DEF IInv, PendingInv
<1> QED BY <1>1, Invariant, PTL

\* Only bytes whose content was claimed reach the table, while their claim is running
\* and whatever was written to the file since (stages_resident.py:386-408).
THEOREM BytesAreTheClaimed == Spec => ImportsWhatItClaimed
<1>1. IInv /\ [Next]_vars =>
        [\A k \in Key : rows'[k] # rows[k] => claims[k] = "running" /\ k = Current.key]_vars
  <2> SUFFICES ASSUME IInv, Next, NEW k \in Key, rows'[k] # rows[k]
               PROVE  claims[k] = "running" /\ k = Current.key
    OBVIOUS
  <2>1. Ingest
    BY DEF Next, WriteFile, SaveStage, ReadStage, EnableScans, PauseScans,
           Requests, AskImport, AskExport, StartScan, Refuse, List, Describe, Admit, SkipConflict, Recover,
           Worker, Select, Read, Mark, RecordImport, EndFailed, EndImports,
           EndExport, Restart, table
  <2>2. Importing /\ job.pc = "ingest"
    BY <2>1 DEF IInv, Ingest, PlaceInv, Importing
  <2>3. <<job.meaning, job.data>> = Current.key /\ claims[Current.key] = "running"
    BY <2>2 DEF IInv, ProgressInv
  <2>4. rows \in [Key -> 0..MaxRows]
    BY DEF IInv, StagesTypeOK
  <2>5. rows' = rows \/ rows' = [rows EXCEPT ![Current.key] = @ + 1]
    BY <2>1, <2>3 DEF Ingest, table
  <2> QED BY <2>3, <2>4, <2>5
<1> QED BY <1>1, Invariant, PTL DEF Spec, ImportsWhatItClaimed

-----------------------------------------------------------------------------
(***************************************************************************)
(* The stage implements StageClaims.  Where a content is follows from what *)
(* its claim says and from where the worker is.                            *)
(***************************************************************************)
PlaceOf(c, pc) ==
  IF c \notin Pending \/ pc \in Resting THEN "nobody"
  ELSE IF c = "queued" THEN "waiting"
  ELSE CASE pc = "ingest"   -> "importing"
         [] pc = "ingested" -> "imported"
         [] OTHER           -> "in doubt"

PlacesKnown == ContentPlace = [k \in Key |-> PlaceOf(claims[k], job.pc)]

LEMMA PlacesAreKnown == IInv => PlacesKnown
<1> SUFFICES ASSUME IInv, NEW k \in Key PROVE ContentPlace[k] = PlaceOf(claims[k], job.pc)
  BY DEF PlacesKnown, ContentPlace
<1>1. claims[k] \in Pending /\ job.pc \notin Resting => k \in Keys
  <2> SUFFICES ASSUME claims[k] \in Pending, job.pc \notin Resting PROVE k \in Keys
    OBVIOUS
  <2>1. job.kind # "export"
    BY DEF IInv, PendingInv, PlaceInv, StagesTypeOK, Job, Place, Resting
  <2>2. Importing
    BY <2>1 DEF IInv, PlaceInv, StagesTypeOK, Job, Place, Resting, Importing
  <2> QED BY <2>2, AtWork
<1> QED BY <1>1 DEF ContentPlace, PlaceOf

LEMMA PlacesStayKnown == IInv' => PlacesKnown'
BY PlacesAreKnown, PTL

ClaimStep == Claims!Next \/ UNCHANGED Claims!claimVars

\* The places are the same as before, or the work is over: StageClaims changes nothing, or
\* a holder left.
LEMMA ClaimsAsTheyWere ==
  ASSUME PlacesKnown, PlacesKnown', UNCHANGED <<claims, rows>>,
         \/ \A k \in Key : PlaceOf(claims[k], job'.pc) = PlaceOf(claims[k], job.pc)
         \/ job'.pc \in Resting
  PROVE  ClaimStep
<1>1. CASE \A k \in Key : PlaceOf(claims[k], job'.pc) = PlaceOf(claims[k], job.pc)
  <2>1. ContentPlace' = ContentPlace
    BY <1>1 DEF PlacesKnown
  <2> QED BY <2>1 DEF ClaimStep, Claims!claimVars
<1>2. CASE job'.pc \in Resting
  <2>1. ContentPlace' = [k \in Key |-> "nobody"]
    BY <1>2 DEF PlacesKnown, PlaceOf
  <2>2. Claims!Crash
    BY <2>1 DEF Claims!Crash
  <2> QED BY <2>2 DEF ClaimStep, Claims!Next
<1> QED BY <1>1, <1>2

\* What settling lost runs makes of a claim is what StageClaims makes of it.
LEMMA SettlingIsLosing ==
  ASSUME IInv
  PROVE  \A k \in Key : Settled[k] = Claims!Lost(claims[k])
BY DEF IInv, PendingInv, Settled, Claims!Lost, Claims!Pending, Pending

\* Taking contents, none of them to settle what was left behind.
LEMMA TakingThem ==
  ASSUME IInv, PlacesKnown, PlacesKnown', job.pc \in Resting, NEW S \in SUBSET Key, Claims!Takeable(S),
         claims' = [k \in Key |-> IF k \in S THEN "queued" ELSE Settled[k]], rows' = rows,
         S # {} => job'.pc \notin Resting
  PROVE  ClaimStep
<1>1. Claims!Held = {}
  BY DEF PlacesKnown, PlaceOf, Claims!Held
<1>2. claims' = [k \in Key |-> IF k \in S THEN "queued" ELSE Claims!Lost(claims[k])]
  BY SettlingIsLosing
<1>3. \A k \in Key : claims'[k] \in Pending <=> k \in S
  BY <1>2 DEF Claims!Lost, Claims!Pending, Pending
<1>4. ContentPlace' = [k \in Key |-> IF k \in S THEN "waiting" ELSE "nobody"]
  <2>1. \A k \in Key : PlaceOf(claims[k], job.pc)' = IF k \in S THEN "waiting" ELSE "nobody"
    BY <1>2, <1>3 DEF PlaceOf
  <2> QED BY <2>1 DEF PlacesKnown
<1>5. Claims!Take
  BY <1>1, <1>2, <1>4 DEF Claims!Take
<1> QED BY <1>5 DEF ClaimStep, Claims!Next

LEMMA NothingIsTakeable == Claims!Takeable({})
BY DEF Claims!Takeable

LEMMA AdmitTakes ==
  ASSUME IInv, Admit, PlacesKnown, PlacesKnown'
  PROVE  ClaimStep
<1>j. job \in Job /\ Keys \subseteq Key
  BY KeysAreKeys DEF IInv, StagesTypeOK
<1>1. job.pc \in Resting /\ job'.pc \notin Resting
  BY <1>j DEF Admit, Resting, Job
<1>2. \A k \in Keys : Settled[k] = "new" => claims[k] = "new"
  BY <1>j, SettledIsTrue DEF IInv
<1>3. Claims!Takeable(Keys)
  <2>1. CASE \A k \in Keys : Settled[k] = "new"
    BY <1>2, <2>1 DEF Claims!Takeable
  <2>2. CASE \E k \in Keys : Settled[k] # "new"
    <3>1. PICK k \in Keys : Settled[k] # "new"
      BY <2>2
    <3>2. job.kind = "retry" /\ Settled[k] \in {"failed", "unknown"}
      BY <3>1 DEF Admit, Claimable
    <3>3. \A s, t \in job.steps : s = t
      BY <3>2 DEF IInv, PlaceInv, Single
    <3>4. Keys = {k}
      BY <3>1, <3>3 DEF Keys
    <3> QED BY <1>j, <3>1, <3>2, <3>4, SettlingIsLosing DEF Claims!Takeable
  <2> QED BY <2>1, <2>2
<1> QED BY <1>j, <1>1, <1>3, TakingThem DEF Admit

LEMMA RequestsClaim ==
  ASSUME IInv, Requests, PlacesKnown, PlacesKnown'
  PROVE  ClaimStep
<1>j. job \in Job
  BY DEF IInv, StagesTypeOK
<1>i. Idle.pc = "idle"
  BY DEF Idle
<1>1. CASE Admit
  BY <1>1, AdmitTakes
<1>2. CASE SkipConflict \/ Recover
  <2>1. job.pc \in Resting /\ claims' = Settled /\ rows' = rows
    BY <1>2 DEF SkipConflict, Recover, Resting, table
  <2>2. claims' = [k \in Key |-> IF k \in {} THEN "queued" ELSE Settled[k]]
    BY <2>1, SettledClaims DEF IInv
  <2> QED BY <2>1, <2>2, NothingIsTakeable, TakingThem
<1>3. ASSUME job'.pc \in Resting, UNCHANGED <<claims, rows>> PROVE ClaimStep
  BY <1>3, ClaimsAsTheyWere
<1>4. ASSUME NEW kind \in {"import", "retry"}, AskImport(kind) PROVE ClaimStep
  BY <1>3, <1>4 DEF AskImport, Idle, Resting, ledger, table
<1>5. CASE AskExport
  BY <1>3, <1>5 DEF AskExport, Idle, Resting, ledger, table
<1>6. ASSUME NEW kind \in {"scan", "tick"}, StartScan(kind) PROVE ClaimStep
  BY <1>3, <1>6 DEF StartScan, Idle, Resting, ledger, table
<1>7. CASE Refuse
  BY <1>3, <1>7, <1>i DEF Refuse, Resting, ledger, table
<1>8. CASE List
  <2>1. PICK l : job' = [job EXCEPT !.pc = "listed", !.listing = l]
    BY <1>8 DEF List
  <2> QED BY <1>3, <1>8, <1>j, <2>1 DEF List, Job, Resting, ledger, table
<1>9. CASE Describe
  BY <1>3, <1>9, <1>j DEF Describe, Job, Resting, ledger, table
<1> QED BY <1>1, <1>2, <1>4, <1>5, <1>6, <1>7, <1>8, <1>9 DEF Requests

\* The places while a worker imports: all that is pending waits but what is at hand.
LEMMA PlacesAtWork ==
  ASSUME IInv, Importing, PlacesKnown, job.pc # "select"
  PROVE  /\ Current.key \in Key /\ claims \in [Key -> Status]
         /\ Claims!Alone(Current.key)
         /\ \A k \in Key \ {Current.key} :
              ContentPlace[k] = IF claims[k] = "queued" THEN "waiting" ELSE "nobody"
         /\ ContentPlace[Current.key] = PlaceOf(claims[Current.key], job.pc)
         /\ job.pc \notin Resting
<1>1. Current.key \in Key /\ job.pc \notin Resting /\ claims \in [Key -> Status]
  BY AtWork DEF IInv, StagesTypeOK, Importing, Resting
<1>2. \A k \in Key \ {Current.key} : claims[k] \in Pending => claims[k] = "queued"
  <2> SUFFICES ASSUME NEW k \in Key \ {Current.key}, claims[k] \in Pending PROVE claims[k] = "queued"
    OBVIOUS
  <2>1. PICK s \in job.steps : s.key = k
    BY AtWork DEF Keys
  <2> QED BY <2>1, AtWork DEF Waits
<1>3. \A k \in Key \ {Current.key} :
         ContentPlace[k] = IF claims[k] = "queued" THEN "waiting" ELSE "nobody"
  BY <1>1, <1>2 DEF PlacesKnown, PlaceOf, Pending
<1> QED BY <1>1, <1>3 DEF PlacesKnown, Claims!Alone

\* The claim at hand and the place of the worker change; what else waits, waits.
LEMMA OnePlaceMoves ==
  ASSUME IInv, PlacesKnown, PlacesKnown', NEW key \in Key, Claims!Alone(key),
         \A k \in Key \ {key} : claims'[k] = claims[k],
         job.pc \notin Resting, job'.pc \notin Resting
  PROVE  ContentPlace' = [ContentPlace EXCEPT ![key] = PlaceOf(claims'[key], job'.pc)]
<1>1. \A k \in Key \ {key} : PlaceOf(claims[k], job.pc) \in {"nobody", "waiting"}
  BY DEF PlacesKnown, Claims!Alone
<1>2. \A k \in Key \ {key} : PlaceOf(claims'[k], job'.pc) = PlaceOf(claims[k], job.pc)
  BY <1>1 DEF PlaceOf
<1>3. \A k \in Key : ContentPlace'[k] = PlaceOf(claims'[k], job'.pc)
  BY DEF PlacesKnown
<1> QED BY <1>2, <1>3 DEF PlacesKnown

LEMMA WaitingStaysWaiting ==
  ASSUME NEW c \in Status, c # "running", NEW p, NEW q, p \notin Resting, q \notin Resting
  PROVE  PlaceOf(c, p) = PlaceOf(c, q)
BY DEF PlaceOf, Pending, Status

LEMMA LooksClaim ==
  ASSUME IInv, Select \/ Read, PlacesKnown, PlacesKnown'
  PROVE  ClaimStep
<1>1. Importing /\ job.pc \in {"select", "read"}
  BY DEF IInv, Select, Read, PlaceInv, Importing
<1>2. job'.pc \in {"read", "mark", "failed", "in doubt"}
  <2>1. CASE Select
    BY <2>1 DEF Select, IInv, StagesTypeOK, Job
  <2>2. CASE Read
    <3>1. PICK data : \E pc \in {"in doubt", "mark", "failed"} : job' = [job EXCEPT !.data = data, !.pc = pc]
      BY <2>2 DEF Read
    <3> QED BY <3>1 DEF IInv, StagesTypeOK, Job
  <2> QED BY <2>1, <2>2
<1>3. \A k \in Key : claims[k] \in Status /\ claims[k] # "running"
  <2> SUFFICES ASSUME NEW k \in Key, claims[k] = "running" PROVE FALSE
    BY DEF IInv, StagesTypeOK
  <2>1. k \in Keys
    BY <1>1, AtWork DEF Pending
  <2>2. PICK s \in job.steps : s.key = k
    BY <2>1 DEF Keys
  <2> QED BY <1>1, <2>2, AtWork DEF Waits
<1>4. job.pc \notin Resting /\ job'.pc \notin Resting
  BY <1>1, <1>2 DEF Resting
<1>5. \A k \in Key : PlaceOf(claims[k], job'.pc) = PlaceOf(claims[k], job.pc)
  BY <1>3, <1>4, WaitingStaysWaiting
<1>6. UNCHANGED <<claims, rows>>
  BY DEF Select, Read, ledger, table
<1> QED BY <1>5, <1>6, ClaimsAsTheyWere

LEMMA MarkClaims ==
  ASSUME IInv, Mark, PlacesKnown, PlacesKnown'
  PROVE  ClaimStep
<1>1. Importing /\ job.pc = "mark" /\ job.pc \notin Resting
  BY DEF IInv, Mark, PlaceInv, Importing, Resting
<1>2. /\ Current.key \in Key /\ claims \in [Key -> Status] /\ Claims!Alone(Current.key)
      /\ ContentPlace[Current.key] = PlaceOf(claims[Current.key], job.pc)
  BY <1>1, PlacesAtWork
<1>3. claims[Current.key] = "queued"
  BY <1>1, AtWork DEF Waits
<1>r. rows' = rows
  BY DEF Mark, table
<1>4. CASE claims' = [claims EXCEPT ![Current.key] = "running"] /\ job' = [job EXCEPT !.pc = "ingest"]
  <2>1. job'.pc = "ingest"
    BY <1>4 DEF IInv, StagesTypeOK, Job
  <2>2. ContentPlace[Current.key] = "waiting"
    BY <1>1, <1>2, <1>3 DEF PlaceOf, Pending
  <2>3. claims'[Current.key] = "running" /\ \A k \in Key \ {Current.key} : claims'[k] = claims[k]
    BY <1>2, <1>4
  <2>4. PlaceOf(claims'[Current.key], job'.pc) = "importing"
    BY <2>1, <2>3 DEF PlaceOf, Pending, Resting
  <2>5. ContentPlace' = [ContentPlace EXCEPT ![Current.key] = "importing"]
    <3>1. job'.pc \notin Resting
      BY <2>1 DEF Resting
    <3> QED BY <1>1, <1>2, <2>3, <2>4, <3>1, OnePlaceMoves
  <2>6. Claims!Begin(Current.key)
    BY <1>2, <1>4, <1>r, <2>2, <2>5 DEF Claims!Begin
  <2> QED BY <1>2, <2>2, <2>6 DEF ClaimStep, Claims!Next, Claims!Held
<1>5. CASE job' = [job EXCEPT !.pc = "failed"] /\ UNCHANGED claims
  <2>1. job'.pc = "failed" /\ job'.pc \notin Resting
    BY <1>5 DEF IInv, StagesTypeOK, Job, Resting
  <2>2. PlaceOf(claims'[Current.key], job'.pc) = PlaceOf(claims[Current.key], job.pc)
    BY <1>1, <1>2, <1>3, <1>5, <2>1, WaitingStaysWaiting
  <2>3. ContentPlace' = ContentPlace
    BY <1>1, <1>2, <1>5, <2>1, <2>2, OnePlaceMoves DEF PlacesKnown
  <2> QED BY <1>5, <1>r, <2>3 DEF ClaimStep, Claims!claimVars
<1> QED BY <1>4, <1>5 DEF Mark

LEMMA IngestClaims ==
  ASSUME IInv, Ingest, PlacesKnown, PlacesKnown'
  PROVE  ClaimStep
<1>1. Importing /\ job.pc = "ingest" /\ job.pc \notin Resting
  BY DEF IInv, Ingest, PlaceInv, Importing, Resting
<1>2. /\ Current.key \in Key /\ Claims!Alone(Current.key)
      /\ ContentPlace[Current.key] = PlaceOf(claims[Current.key], job.pc)
  BY <1>1, PlacesAtWork
<1>3. <<job.meaning, job.data>> = Current.key /\ claims[Current.key] = "running"
  BY <1>1 DEF IInv, ProgressInv
<1>4. claims' = claims
  BY DEF Ingest, ledger
<1>5. PICK pc \in {"ingested", "in doubt"} :
        /\ job' = [job EXCEPT !.pc = pc]
        /\ \/ rows' = [rows EXCEPT ![Current.key] = @ + 1]
           \/ pc = "in doubt" /\ rows' = rows
  BY <1>3 DEF Ingest, table
<1>6. job'.pc = pc /\ job'.pc \notin Resting
  BY <1>5 DEF IInv, StagesTypeOK, Job, Resting
<1>7. ContentPlace[Current.key] = "importing"
  BY <1>1, <1>2, <1>3 DEF PlaceOf, Pending
<1> DEFINE p == IF pc = "ingested" THEN "imported" ELSE "in doubt"
<1>8. ContentPlace' = [ContentPlace EXCEPT ![Current.key] = p]
  <2>1. PlaceOf(claims'[Current.key], job'.pc) = p
    BY <1>3, <1>4, <1>5, <1>6 DEF PlaceOf, Pending
  <2> HIDE DEF p
  <2> QED BY <1>1, <1>2, <1>4, <1>6, <2>1, OnePlaceMoves
<1>9. p \in {"imported", "in doubt"} /\ (pc = "in doubt" => p = "in doubt")
  BY <1>5
<1> HIDE DEF p
<1>10. Claims!Import(Current.key)
  BY <1>4, <1>5, <1>7, <1>8, <1>9 DEF Claims!Import
<1> QED BY <1>2, <1>7, <1>10 DEF ClaimStep, Claims!Next, Claims!Held

LEMMA RecordClaims ==
  ASSUME IInv, RecordImport, PlacesKnown, PlacesKnown'
  PROVE  ClaimStep
<1>1. Importing /\ job.pc = "ingested" /\ job.pc \notin Resting /\ job \in Job
  BY DEF IInv, RecordImport, PlaceInv, Importing, Resting, StagesTypeOK
<1>2. /\ Current.key \in Key /\ claims \in [Key -> Status] /\ Claims!Alone(Current.key)
      /\ ContentPlace[Current.key] = PlaceOf(claims[Current.key], job.pc)
  BY <1>1, PlacesAtWork
<1>3. claims[Current.key] = "running"
  BY <1>1 DEF IInv, ProgressInv
<1>4. ContentPlace[Current.key] = "imported"
  BY <1>1, <1>2, <1>3 DEF PlaceOf, Pending
<1>r. rows' = rows
  BY DEF RecordImport, table
<1>5. CASE /\ claims' = [claims EXCEPT ![Current.key] = "success"]
           /\ job' = [job EXCEPT !.pc = "select", !.steps = @ \ {Current}, !.data = None]
  <2>1. job'.pc = "select" /\ job'.pc \notin Resting
    <3> DEFINE left == job.steps \ {Current}
    <3>1. job' = [job EXCEPT !.pc = "select", !.steps = left, !.data = None]
      BY <1>5
    <3> HIDE DEF left
    <3> QED BY <1>1, <3>1 DEF Job, Resting
  <2>2. claims'[Current.key] = "success" /\ \A k \in Key \ {Current.key} : claims'[k] = claims[k]
    BY <1>2, <1>5
  <2>3. PlaceOf(claims'[Current.key], job'.pc) = "nobody"
    BY <2>2 DEF PlaceOf, Pending
  <2>4. ContentPlace' = [ContentPlace EXCEPT ![Current.key] = "nobody"]
    BY <1>1, <1>2, <2>1, <2>2, <2>3, OnePlaceMoves
  <2>5. Claims!Succeed(Current.key)
    BY <1>4, <1>5, <1>r, <2>4 DEF Claims!Succeed
  <2> QED BY <1>2, <1>4, <2>5 DEF ClaimStep, Claims!Next, Claims!Held
<1>6. CASE job' = [job EXCEPT !.pc = "in doubt"] /\ UNCHANGED claims
  <2>1. job'.pc = "in doubt" /\ job'.pc \notin Resting
    BY <1>1, <1>6 DEF Job, Resting
  <2>2. PlaceOf(claims'[Current.key], job'.pc) = "in doubt"
    BY <1>3, <1>6, <2>1 DEF PlaceOf, Pending
  <2>3. ContentPlace' = [ContentPlace EXCEPT ![Current.key] = "in doubt"]
    BY <1>1, <1>2, <1>6, <2>1, <2>2, OnePlaceMoves
  <2>4. Claims!Doubt(Current.key)
    BY <1>4, <1>6, <1>r, <2>3 DEF Claims!Doubt
  <2> QED BY <1>2, <1>4, <2>4 DEF ClaimStep, Claims!Next, Claims!Held
<1> QED BY <1>5, <1>6 DEF RecordImport

LEMMA EndFailedClaims ==
  ASSUME IInv, EndFailed, PlacesKnown, PlacesKnown'
  PROVE  ClaimStep
<1>1. Importing /\ job.pc \in {"failed", "in doubt"}
  BY DEF EndFailed, Importing, IInv, PlaceInv
<1>2. /\ Current.key \in Key /\ claims \in [Key -> Status] /\ Claims!Alone(Current.key)
      /\ ContentPlace[Current.key] = PlaceOf(claims[Current.key], job.pc)
      /\ \A k \in Key \ {Current.key} :
           ContentPlace[k] = IF claims[k] = "queued" THEN "waiting" ELSE "nobody"
  BY <1>1, PlacesAtWork
<1>3. \A k \in Key : claims[k] \in Pending => k \in Keys
  BY <1>1, AtWork
<1>4. rows' = rows /\ job'.pc \in Resting
  BY DEF EndFailed, Idle, Resting, table
<1>5. ContentPlace' = [k \in Key |-> "nobody"]
  BY <1>4 DEF PlacesKnown, PlaceOf
<1>6. claims' = [k \in Key |-> IF k = Current.key THEN StatusNow
                              ELSE IF ContentPlace[k] = "waiting" THEN "new" ELSE claims[k]]
  <2>1. claims' = [k \in Key |-> CASE k = Current.key -> StatusNow
                                [] k # Current.key /\ k \in Keys /\ claims[k] = "queued" -> "new"
                                [] OTHER -> claims[k]]
    BY DEF EndFailed
  <2>2. \A k \in Key \ {Current.key} : ContentPlace[k] = "waiting" <=> k \in Keys /\ claims[k] = "queued"
    BY <1>2, <1>3 DEF Pending
  <2> QED BY <2>1, <2>2
<1>7. claims[Current.key] \in Pending
  BY <1>1, AtWork DEF IInv, ProgressInv, Waits, Pending
<1>8. ContentPlace[Current.key] = IF claims[Current.key] = "queued" THEN "waiting" ELSE "in doubt"
  <2>1. job.pc = "failed" => claims[Current.key] = "queued"
    BY <1>1, AtWork DEF Waits
  <2> QED BY <1>1, <1>2, <1>7, <2>1 DEF PlaceOf, Pending, Resting
<1>9. StatusNow \in {"failed", "unknown"} /\ (ContentPlace[Current.key] = "in doubt" => StatusNow = "unknown")
  <2>1. claims[Current.key] = "running" => StatusNow = "unknown"
    BY <1>1 DEF StatusNow, Importing
  <2> QED BY <1>7, <1>8, <2>1, StatusNowIsAStatus DEF Pending
<1>10. Claims!Fail(Current.key)
  <2>1. ContentPlace[Current.key] \in {"waiting", "in doubt"}
    BY <1>8
  <2> QED BY <1>2, <1>4, <1>5, <1>6, <1>9, <2>1 DEF Claims!Fail
<1> QED BY <1>2, <1>8, <1>10 DEF ClaimStep, Claims!Next, Claims!Held

LEMMA WorkersClaim ==
  ASSUME IInv, Worker \/ Restart, PlacesKnown, PlacesKnown'
  PROVE  ClaimStep
<1>j. job \in Job
  BY DEF IInv, StagesTypeOK
<1>1. CASE EndImports \/ EndExport \/ Restart
  <2>1. job'.pc \in Resting /\ UNCHANGED <<claims, rows>>
    <3>1. job' = Idle /\ Idle.pc = "idle"
      BY <1>1 DEF EndImports, EndExport, Restart, Idle
    <3> QED BY <1>1, <3>1 DEF EndImports, EndExport, Restart, Resting, ledger, table
  <2> QED BY <2>1, ClaimsAsTheyWere
<1> QED BY <1>1, LooksClaim, MarkClaims, IngestClaims, RecordClaims, EndFailedClaims DEF Worker

\* A stage with its files, scans, imports and exports, whatever is written to its directory
\* meanwhile, keeps the promise that the ledger gives of contents: taken together, worked on
\* one at a time, none left behind, and handed over again only for itself
\* (stages_resident.py, jobs_resident.py:544-571).
THEOREM StageKeepsItsClaims == Spec => ImplementsClaims
<1>1. Init => Claims!Init
  BY DEF Init, Claims!Init, ContentPlace, Pending
<1>2. IInv /\ PlacesKnown /\ PlacesKnown' /\ [Next]_vars => [Claims!Next]_(Claims!claimVars)
  <2> SUFFICES ASSUME IInv, PlacesKnown, PlacesKnown', [Next]_vars PROVE ClaimStep
    BY DEF ClaimStep, Claims!claimVars
  <2>1. CASE Outside
    <3>1. UNCHANGED <<claims, rows, job>>
      BY <2>1, OutsideLeavesHeld DEF Held
    <3> QED BY <3>1, ClaimsAsTheyWere
  <2> QED BY <2>1, RequestsClaim, WorkersClaim DEF Next, Outside
<1> QED BY <1>1, <1>2, Invariant, PlacesAreKnown, PlacesStayKnown, PTL DEF Spec, ImplementsClaims, Claims!Spec

-----------------------------------------------------------------------------
(***************************************************************************)
(* The exports of MCStages.  What a worker knows is true: before it links  *)
(* it has published nothing, past the check its rows are the table's, and  *)
(* within the transaction the stage stays what it was.                     *)
(***************************************************************************)
Busy == {"start", "begin", "check", "make", "count", "select", "verify",
            "publish", "link", "commit", "clean", "record", "end"}
Unlinked == {"start", "begin", "check", "make", "count", "select", "verify", "publish", "link"}

\* The worker's run is one of the ledger, and what it has come to is so.
WorkerInv ==
  export.pc \in Busy =>
    /\ export.run \in Exports!Run /\ runs[export.run] # None
    /\ export.pc \in Unlinked => linked[export.run] = None
    /\ runs[export.run].status \notin Exports!Ended
    /\ export.pc # "end" => runs[export.run].step \notin Exports!Ended
    /\ export.pc \in {"commit", "end"} => linked[export.run] # None
    /\ export.outcome = "success" => export.pc \in Unlinked \/ linked[export.run] # None
    /\ export.outcome = "failed" => linked[export.run] = None

\* What it has read.
ReadInv ==
  /\ export.pc = "verify" => export.rows = Exports!AtMost(export.of, Limit + 1)
  /\ export.pc \in {"publish", "link"} => export.rows = export.of /\ export.rows <= Limit
  /\ export.pc = "link" => runs[export.run].revision = revision
  /\ export.pc \in Unlinked => export.outcome = "success"

\* A run that is yet to come has no file; when nobody works nothing is left to remove.
FutureInv == \A r \in Exports!Run : runs[r] = None => linked[r] = None

TempsInv ==
  /\ export.pc \notin Busy => export.run = 0
  /\ export.pc \notin {"count", "select", "verify", "publish", "link", "commit", "clean"} => temps \subseteq kept

RequestInv == export.pc = "admit" => asked # None

ExportIInv ==
  /\ Exports!ExportsTypeOK /\ Exports!FilesAreWhole /\ Exports!FilesAreAskedFor
  /\ Exports!LedgerTellsOfFiles /\ Exports!NoTemporaryLeftBehind
  /\ WorkerInv /\ ReadInv /\ FutureInv /\ TempsInv /\ RequestInv

\* What happens beside a worker leaves alone what it knows.
LEMMA ExportUsersStep ==
  ExportIInv /\ (Exports!SaveStage \/ Exports!ChangeTable \/ Exports!ChangeDirectory) => ExportIInv'
<1> SUFFICES ASSUME ExportIInv, Exports!SaveStage \/ Exports!ChangeTable \/ Exports!ChangeDirectory
             PROVE  ExportIInv'
  OBVIOUS
<1>i. /\ Exports!ExportsTypeOK /\ Exports!FilesAreWhole /\ Exports!FilesAreAskedFor
      /\ Exports!LedgerTellsOfFiles /\ Exports!NoTemporaryLeftBehind
      /\ WorkerInv /\ ReadInv /\ FutureInv /\ TempsInv /\ RequestInv
  BY DEF ExportIInv
<1>u. UNCHANGED <<asked, export, runs, temps, kept, linked>> /\ (export.pc = "link" => revision' = revision)
  BY DEF Exports!SaveStage, Exports!ChangeTable, Exports!ChangeDirectory, Exports!Held
<1>1. Exports!ExportsTypeOK'
  <2>1. revision' \in 1..MaxRevision
    BY <1>i, StageExportsAssumption DEF Exports!ExportsTypeOK, Exports!SaveStage, Exports!ChangeTable, Exports!ChangeDirectory
  <2>2. size' \in 0..MaxSize
    BY <1>i DEF Exports!ExportsTypeOK, Exports!SaveStage, Exports!ChangeTable, Exports!ChangeDirectory
  <2>3. dir' \in [Name -> Exports!Run \cup {Exports!Another, None}]
    <3>1. dir \in [Name -> Exports!Run \cup {Exports!Another, None}]
      BY <1>i DEF Exports!ExportsTypeOK
    <3>2. dir' = dir \/ \E n \in Name, whose \in {Exports!Another, None} : dir' = [dir EXCEPT ![n] = whose]
      BY DEF Exports!SaveStage, Exports!ChangeTable, Exports!ChangeDirectory
    <3> QED BY <3>1, <3>2
  <2> QED BY <2>1, <2>2, <2>3, <1>u, <1>i DEF Exports!ExportsTypeOK
<1>2. Exports!FilesAreWhole' /\ Exports!FilesAreAskedFor' /\ Exports!LedgerTellsOfFiles' /\ Exports!NoTemporaryLeftBehind'
  BY <1>i, <1>u DEF Exports!FilesAreWhole, Exports!FilesAreAskedFor, Exports!LedgerTellsOfFiles, Exports!NoTemporaryLeftBehind
<1>3. WorkerInv' /\ ReadInv' /\ FutureInv' /\ TempsInv' /\ RequestInv'
  BY <1>i, <1>u DEF WorkerInv, ReadInv, FutureInv, TempsInv, RequestInv, Exports!AtMost
<1> QED BY <1>1, <1>2, <1>3 DEF ExportIInv

\* A worker that only goes on, or gives up.
LEMMA ExportMoves ==
  ExportIInv /\ (Exports!Check \/ Exports!CountRows \/ Exports!ReadRows \/ Exports!Verify \/ Exports!BeginPublish \/ Exports!Commit)
    => ExportIInv'
<1> SUFFICES ASSUME ExportIInv, Exports!Check \/ Exports!CountRows \/ Exports!ReadRows \/ Exports!Verify \/ Exports!BeginPublish \/ Exports!Commit
             PROVE  ExportIInv'
  OBVIOUS
<1>i. /\ Exports!ExportsTypeOK /\ Exports!FilesAreWhole /\ Exports!FilesAreAskedFor
      /\ Exports!LedgerTellsOfFiles /\ Exports!NoTemporaryLeftBehind
      /\ WorkerInv /\ ReadInv /\ FutureInv /\ TempsInv /\ RequestInv
  BY DEF ExportIInv
<1>u. UNCHANGED <<revision, size, asked, dir, runs, temps, kept, linked>>
  BY DEF Exports!Check, Exports!CountRows, Exports!ReadRows, Exports!Verify, Exports!BeginPublish, Exports!Commit
<1>j. export \in Exports!Job /\ size \in Nat
  BY <1>i, StageExportsAssumption DEF Exports!ExportsTypeOK
<1>1. export' \in Exports!Job /\ WorkerInv' /\ ReadInv' /\ TempsInv' /\ export'.run = export.run
      /\ export'.pc # "admit"
  <2> USE <1>i, <1>u, <1>j, StageExportsAssumption DEF WorkerInv, ReadInv, TempsInv, Busy, Unlinked,
          Exports!Job, Exports!Place, Exports!Ended, Exports!Goes, Exports!Raises
  <2>1. CASE Exports!Check
    BY <2>1 DEF Exports!Check
  <2>2. CASE Exports!CountRows
    BY <2>2 DEF Exports!CountRows
  <2>3. CASE Exports!ReadRows
    <3>1. PICK n \in Nat : n = Exports!AtMost(size, Limit + 1)
      BY DEF Exports!AtMost
    <3>2. PICK m \in Nat : m = size
      BY <1>j
    <3>3. CASE export' = [export EXCEPT !.pc = "verify", !.rows = n, !.of = m]
      <4>1. export' \in Exports!Job /\ export'.pc = "verify" /\ export'.rows = n /\ export'.of = m
            /\ export'.run = export.run /\ export'.outcome = export.outcome
        BY <3>3
      <4>2. export'.rows = Exports!AtMost(export'.of, Limit + 1)
        BY <4>1, <3>1, <3>2 DEF Exports!AtMost
      <4>4. export.pc = "select"
        BY <2>3 DEF Exports!ReadRows
      <4>3. ReadInv'
        BY <4>1, <4>2, <4>4, <1>u DEF Exports!AtMost
      <4>5. WorkerInv'
        BY <4>1, <4>4
      <4>6. TempsInv'
        BY <4>1, <4>4
      <4> QED BY <4>1, <4>3, <4>5, <4>6
    <3>4. CASE Exports!Raises
      BY <2>3, <3>4 DEF Exports!ReadRows
    <3> QED BY <2>3, <3>1, <3>2, <3>3, <3>4 DEF Exports!ReadRows
  <2>4. CASE Exports!Verify
    <3>1. export.pc = "verify" /\ export.rows = Exports!AtMost(export.of, Limit + 1)
      BY <2>4 DEF Exports!Verify
    <3>2. export.rows <= Limit => export.rows = export.of
      BY <3>1 DEF Exports!AtMost
    <3>3. CASE export.rows <= Limit /\ export.rows = export.total /\ Exports!Goes("publish")
      BY <3>1, <3>2, <3>3
    <3>4. CASE Exports!Raises
      BY <3>1, <3>4
    <3> QED BY <2>4, <3>3, <3>4 DEF Exports!Verify
  <2>5. CASE Exports!BeginPublish
    BY <2>5 DEF Exports!BeginPublish, Exports!Mine
  <2>6. CASE Exports!Commit
    BY <2>6 DEF Exports!Commit
  <2> QED BY <2>1, <2>2, <2>3, <2>4, <2>5, <2>6
<1>2. Exports!ExportsTypeOK'
  BY <1>i, <1>u, <1>1 DEF Exports!ExportsTypeOK
<1>3. Exports!FilesAreWhole' /\ Exports!FilesAreAskedFor' /\ Exports!LedgerTellsOfFiles' /\ Exports!NoTemporaryLeftBehind'
  BY <1>i, <1>u, <1>1 DEF Exports!FilesAreWhole, Exports!FilesAreAskedFor, Exports!LedgerTellsOfFiles, Exports!NoTemporaryLeftBehind
<1>4. FutureInv' /\ RequestInv'
  BY <1>i, <1>u, <1>1 DEF FutureInv, RequestInv
<1> QED BY <1>1, <1>2, <1>3, <1>4 DEF ExportIInv

\* The ledger's runs are marked.
LEMMA ExportMarks == ExportIInv /\ (Exports!Start \/ Exports!Begin) => ExportIInv'
<1> SUFFICES ASSUME ExportIInv, Exports!Start \/ Exports!Begin PROVE ExportIInv'
  OBVIOUS
<1>i. /\ Exports!ExportsTypeOK /\ Exports!FilesAreWhole /\ Exports!FilesAreAskedFor
      /\ Exports!LedgerTellsOfFiles /\ Exports!NoTemporaryLeftBehind
      /\ WorkerInv /\ ReadInv /\ FutureInv /\ TempsInv /\ RequestInv
  BY DEF ExportIInv
<1>u. UNCHANGED <<revision, size, asked, dir, temps, kept, linked>> /\ export.pc \in {"start", "begin"}
  BY DEF Exports!Start, Exports!Begin
<1>j. export \in Exports!Job /\ Exports!Idle \in Exports!Job
  BY <1>i, StageExportsAssumption DEF Exports!ExportsTypeOK, Exports!Idle, Exports!Job, Exports!Place, Exports!Ended
<1>r. /\ export.run \in Exports!Run /\ runs[export.run] \in Exports!Row
      /\ runs[export.run].status \notin Exports!Ended /\ runs[export.run].step \notin Exports!Ended
      /\ linked[export.run] = None /\ temps \subseteq kept
      /\ runs \in [Exports!Run -> Exports!Row \cup {None}]
  BY <1>i, <1>u DEF WorkerInv, TempsInv, Busy, Unlinked, Exports!ExportsTypeOK
<1>1. PICK row \in Exports!Row :
        /\ runs' = [runs EXCEPT ![export.run] = row]
        /\ row.revision = runs[export.run].revision
        /\ row.status \notin Exports!Ended /\ row.step \notin Exports!Ended
  <2>1. CASE runs' = runs
    <3>1. runs' = [runs EXCEPT ![export.run] = runs[export.run]]
      BY <2>1, <1>r
    <3> QED BY <3>1, <1>r
  <2>2. CASE runs' = [runs EXCEPT ![export.run].status = "running"]
    <3> DEFINE row == [runs[export.run] EXCEPT !.status = "running"]
    <3>1. row \in Exports!Row /\ row.revision = runs[export.run].revision /\ row.status = "running"
          /\ row.step = runs[export.run].step
      BY <1>r DEF Exports!Row
    <3>2. runs' = [runs EXCEPT ![export.run] = row]
      BY <2>2, <1>r
    <3> HIDE DEF row
    <3> QED BY <3>1, <3>2, <1>r DEF Exports!Ended
  <2>3. CASE runs' = [runs EXCEPT ![export.run].step = "running"]
    <3> DEFINE row == [runs[export.run] EXCEPT !.step = "running"]
    <3>1. row \in Exports!Row /\ row.revision = runs[export.run].revision /\ row.step = "running"
          /\ row.status = runs[export.run].status
      BY <1>r DEF Exports!Row
    <3>2. runs' = [runs EXCEPT ![export.run] = row]
      BY <2>3, <1>r
    <3> HIDE DEF row
    <3> QED BY <3>1, <3>2, <1>r DEF Exports!Ended
  <2> QED BY <2>1, <2>2, <2>3 DEF Exports!Start, Exports!Begin
<1>2. /\ runs' \in [Exports!Run -> Exports!Row \cup {None}]
      /\ runs'[export.run] = row
      /\ \A r \in Exports!Run \ {export.run} : runs'[r] = runs[r]
      /\ row # None
  BY <1>1, <1>r, StageExportsAssumption
<1>3. /\ export' \in Exports!Job
      /\ \/ export' = Exports!Idle
         \/ export'.run = export.run /\ export'.pc \in {"begin", "check"}
            /\ export'.outcome = export.outcome
         \/ export'.run = export.run /\ export'.pc = "clean" /\ export'.outcome \in {"failed", "unknown"}
  BY <1>j DEF Exports!Start, Exports!Begin, Exports!Goes, Exports!Dies, Exports!Raises,
              Exports!Job, Exports!Place, Exports!Ended
<1>4. WorkerInv' /\ ReadInv' /\ TempsInv' /\ RequestInv'
  BY <1>1, <1>2, <1>3, <1>r, <1>u, <1>i DEF WorkerInv, ReadInv, TempsInv, RequestInv, Busy, Unlinked, Exports!Idle
<1>5. Exports!ExportsTypeOK'
  BY <1>i, <1>u, <1>2, <1>3 DEF Exports!ExportsTypeOK
<1>6. Exports!FilesAreWhole' /\ Exports!NoTemporaryLeftBehind'
  BY <1>i, <1>u, <1>r DEF Exports!FilesAreWhole, Exports!NoTemporaryLeftBehind
<1>7. Exports!FilesAreAskedFor' /\ FutureInv'
  BY <1>i, <1>u, <1>r, <1>1, <1>2 DEF Exports!FilesAreAskedFor, FutureInv
<1>8. Exports!LedgerTellsOfFiles'
  BY <1>i, <1>u, <1>r, <1>1, <1>2 DEF Exports!LedgerTellsOfFiles, Exports!Ended
<1> QED BY <1>4, <1>5, <1>6, <1>7, <1>8 DEF ExportIInv

\* The file's temporary copy comes and goes.
LEMMA ExportTemporaries == ExportIInv /\ (Exports!MakeTemporary \/ Exports!Clean) => ExportIInv'
<1> SUFFICES ASSUME ExportIInv, Exports!MakeTemporary \/ Exports!Clean PROVE ExportIInv'
  OBVIOUS
<1>i. /\ Exports!ExportsTypeOK /\ Exports!FilesAreWhole /\ Exports!FilesAreAskedFor
      /\ Exports!LedgerTellsOfFiles /\ Exports!NoTemporaryLeftBehind
      /\ WorkerInv /\ ReadInv /\ FutureInv /\ TempsInv /\ RequestInv
  BY DEF ExportIInv
<1>u. UNCHANGED <<revision, size, asked, runs, dir, linked>> /\ export.pc \in {"make", "clean"}
  BY DEF Exports!MakeTemporary, Exports!Clean
<1>j. export \in Exports!Job /\ temps \subseteq Exports!Run /\ kept \subseteq Exports!Run
  BY <1>i DEF Exports!ExportsTypeOK
<1>r. export.run \in Exports!Run /\ \A r \in temps \ kept : r = export.run
  BY <1>i, <1>u DEF WorkerInv, Busy, Exports!NoTemporaryLeftBehind
<1>1. CASE Exports!MakeTemporary
  <2>1. /\ export' \in Exports!Job /\ export'.run = export.run
        /\ \/ export'.pc = "count" /\ export'.outcome = export.outcome
           \/ export'.pc = "clean" /\ export'.outcome \in {"failed", "unknown"}
    BY <1>1, <1>j DEF Exports!MakeTemporary, Exports!Goes, Exports!Raises, Exports!Job, Exports!Place, Exports!Ended
  <2>2. temps' \subseteq Exports!Run /\ kept' = kept /\ \A r \in temps' \ kept' : r = export.run
    BY <1>1, <1>j, <1>r DEF Exports!MakeTemporary
  <2>3. WorkerInv' /\ ReadInv' /\ TempsInv' /\ RequestInv'
    BY <1>i, <1>1, <1>u, <2>1 DEF WorkerInv, ReadInv, TempsInv, RequestInv, Busy, Unlinked, Exports!MakeTemporary
  <2>4. Exports!ExportsTypeOK' /\ Exports!NoTemporaryLeftBehind'
    BY <1>i, <1>u, <1>j, <2>1, <2>2 DEF Exports!ExportsTypeOK, Exports!NoTemporaryLeftBehind
  <2>5. Exports!FilesAreWhole' /\ Exports!FilesAreAskedFor' /\ Exports!LedgerTellsOfFiles' /\ FutureInv'
    BY <1>i, <1>u DEF Exports!FilesAreWhole, Exports!FilesAreAskedFor, Exports!LedgerTellsOfFiles, FutureInv
  <2> QED BY <2>3, <2>4, <2>5 DEF ExportIInv
<1>2. CASE Exports!Clean
  <2>1. /\ export' \in Exports!Job /\ export'.run = export.run
        /\ export'.pc = "record" /\ export'.outcome = export.outcome /\ export.pc = "clean"
    BY <1>2, <1>j DEF Exports!Clean, Exports!Goes, Exports!Job, Exports!Place
  <2>2. temps' \subseteq Exports!Run /\ kept' \subseteq Exports!Run /\ temps' \subseteq kept'
    BY <1>2, <1>j, <1>r DEF Exports!Clean
  <2>3. WorkerInv' /\ ReadInv' /\ TempsInv' /\ RequestInv'
    BY <1>i, <1>u, <2>1, <2>2 DEF WorkerInv, ReadInv, TempsInv, RequestInv, Busy, Unlinked
  <2>4. Exports!ExportsTypeOK' /\ Exports!NoTemporaryLeftBehind'
    BY <1>i, <1>u, <1>j, <2>1, <2>2 DEF Exports!ExportsTypeOK, Exports!NoTemporaryLeftBehind
  <2>5. Exports!FilesAreWhole' /\ Exports!FilesAreAskedFor' /\ Exports!LedgerTellsOfFiles' /\ FutureInv'
    BY <1>i, <1>u DEF Exports!FilesAreWhole, Exports!FilesAreAskedFor, Exports!LedgerTellsOfFiles, FutureInv
  <2> QED BY <2>3, <2>4, <2>5 DEF ExportIInv
<1> QED BY <1>1, <1>2

\* The link: the stage is the one asked for, since the transaction holds the ledger.
LEMMA ExportLinks == ExportIInv /\ Exports!Link => ExportIInv'
<1> SUFFICES ASSUME ExportIInv, Exports!Link PROVE ExportIInv'
  OBVIOUS
<1>i. /\ Exports!ExportsTypeOK /\ Exports!FilesAreWhole /\ Exports!FilesAreAskedFor
      /\ Exports!LedgerTellsOfFiles /\ Exports!NoTemporaryLeftBehind
      /\ WorkerInv /\ ReadInv /\ FutureInv /\ TempsInv /\ RequestInv
  BY DEF ExportIInv
<1>u. UNCHANGED <<revision, size, asked, runs, temps, kept>> /\ export.pc = "link"
  BY DEF Exports!Link
<1>j. export \in Exports!Job
  BY <1>i DEF Exports!ExportsTypeOK
<1>r. /\ export.run \in Exports!Run /\ runs[export.run] # None /\ runs[export.run] \in Exports!Row
      /\ runs[export.run].status \notin Exports!Ended /\ runs[export.run].step \notin Exports!Ended
      /\ linked[export.run] = None /\ runs[export.run].revision = revision
      /\ export.rows = export.of /\ export.rows <= Limit
  BY <1>i, <1>u DEF WorkerInv, ReadInv, Busy, Unlinked, Exports!ExportsTypeOK
<1>1. /\ export' \in Exports!Job /\ export'.run = export.run
      /\ \/ export'.pc = "commit" /\ export'.outcome = export.outcome
         \/ export'.pc = "clean" /\ export'.outcome \in {"failed", "unknown"} /\ linked' = linked
  BY <1>j DEF Exports!Link, Exports!Goes, Exports!Raises, Exports!Job, Exports!Place, Exports!Ended
<1>2. Exports!NoTemporaryLeftBehind' /\ TempsInv' /\ RequestInv' /\ ReadInv'
  BY <1>i, <1>u, <1>1 DEF Exports!NoTemporaryLeftBehind, TempsInv, RequestInv, ReadInv, Busy, Unlinked
<1>3. CASE dir' = dir /\ linked' = linked /\ Exports!Raises
  <2>1. export'.pc = "clean" /\ export'.outcome \in {"failed", "unknown"}
    BY <1>3, <1>j DEF Exports!Raises, Exports!Job
  <2>2. Exports!ExportsTypeOK' /\ WorkerInv'
    BY <1>i, <1>u, <1>1, <1>3, <1>r, <2>1 DEF Exports!ExportsTypeOK, WorkerInv, Busy, Unlinked
  <2>3. Exports!FilesAreWhole' /\ Exports!FilesAreAskedFor' /\ Exports!LedgerTellsOfFiles' /\ FutureInv'
    BY <1>i, <1>u, <1>3 DEF Exports!FilesAreWhole, Exports!FilesAreAskedFor, Exports!LedgerTellsOfFiles, FutureInv
  <2> QED BY <1>2, <2>2, <2>3 DEF ExportIInv
<1>4. CASE /\ dir[Exports!Mine.name] = None
           /\ dir' = [dir EXCEPT ![Exports!Mine.name] = export.run]
           /\ linked' = [linked EXCEPT ![export.run] =
                           [rows |-> export.rows, of |-> export.of, revision |-> revision]]
           /\ Exports!Goes("commit")
  <2> DEFINE file == [rows |-> export.rows, of |-> export.of, revision |-> revision]
  <2>1. file \in Exports!Published /\ file.rows = export.rows /\ file.of = export.of
        /\ file.revision = revision
    BY <1>i, <1>j DEF Exports!Published, Exports!Job, Exports!ExportsTypeOK
  <2>2. linked' = [linked EXCEPT ![export.run] = file]
    BY <1>4
  <2> HIDE DEF file
  <2>3. /\ linked' \in [Exports!Run -> Exports!Published \cup {None}] /\ linked'[export.run] = file /\ file # None
        /\ \A r \in Exports!Run \ {export.run} : linked'[r] = linked[r]
    BY <2>1, <2>2, <1>r, <1>i, StageExportsAssumption DEF Exports!ExportsTypeOK
  <2>4. dir' \in [Name -> Exports!Run \cup {Exports!Another, None}]
    BY <1>4, <1>r, <1>i DEF Exports!ExportsTypeOK
  <2>5. Exports!ExportsTypeOK'
    BY <1>i, <1>u, <1>1, <2>3, <2>4 DEF Exports!ExportsTypeOK
  <2>6. export'.pc = "commit" /\ export'.outcome = export.outcome
    BY <1>4, <1>j DEF Exports!Goes, Exports!Job
  <2>o. export.outcome # "failed"
    BY <1>i, <1>u DEF ReadInv, Unlinked
  <2>7. WorkerInv'
    BY <1>u, <1>1, <1>r, <2>3, <2>6, <2>o DEF WorkerInv, Busy, Unlinked
  <2>8. Exports!FilesAreWhole' /\ Exports!FilesAreAskedFor'
    BY <1>i, <1>u, <1>r, <2>1, <2>3 DEF Exports!FilesAreWhole, Exports!FilesAreAskedFor
  <2>9. Exports!LedgerTellsOfFiles' /\ FutureInv'
    BY <1>i, <1>u, <1>r, <2>3 DEF Exports!LedgerTellsOfFiles, FutureInv, Exports!Ended
  <2> QED BY <1>2, <2>5, <2>7, <2>8, <2>9 DEF ExportIInv
<1> QED BY <1>3, <1>4 DEF Exports!Link

\* The step and the run are recorded, or the worker dies.
LEMMA ExportEnds == ExportIInv /\ (Exports!Record \/ Exports!End) => ExportIInv'
<1> SUFFICES ASSUME ExportIInv, Exports!Record \/ Exports!End PROVE ExportIInv'
  OBVIOUS
<1>i. /\ Exports!ExportsTypeOK /\ Exports!FilesAreWhole /\ Exports!FilesAreAskedFor
      /\ Exports!LedgerTellsOfFiles /\ Exports!NoTemporaryLeftBehind
      /\ WorkerInv /\ ReadInv /\ FutureInv /\ TempsInv /\ RequestInv
  BY DEF ExportIInv
<1>u. UNCHANGED <<revision, size, asked, dir, temps, kept, linked>> /\ export.pc \in {"record", "end"}
  BY DEF Exports!Record, Exports!End
<1>j. export \in Exports!Job /\ Exports!Idle \in Exports!Job
  BY <1>i, StageExportsAssumption DEF Exports!ExportsTypeOK, Exports!Idle, Exports!Job, Exports!Place, Exports!Ended
<1>r. /\ export.run \in Exports!Run /\ runs[export.run] \in Exports!Row
      /\ runs[export.run].status \notin Exports!Ended /\ temps \subseteq kept
      /\ runs \in [Exports!Run -> Exports!Row \cup {None}]
      /\ export.outcome = "failed" => linked[export.run] = None
      /\ export.outcome = "success" \/ export.pc = "end" => linked[export.run] # None
  BY <1>i, <1>u DEF WorkerInv, TempsInv, Busy, Unlinked, Exports!ExportsTypeOK
<1>0. "failed" \notin {runs[export.run].status, runs[export.run].step}
      \/ linked[export.run] = None
  BY <1>i, <1>r, StageExportsAssumption DEF Exports!LedgerTellsOfFiles
<1>1. PICK row \in Exports!Row :
        /\ runs' = [runs EXCEPT ![export.run] = row]
        /\ row.revision = runs[export.run].revision
        /\ "failed" \in {row.status, row.step} => linked[export.run] = None
        /\ "success" \in {row.status, row.step} => linked[export.run] # None
        /\ export'.pc \in Busy => row.status \notin Exports!Ended /\ (export'.pc # "end" => row.step \notin Exports!Ended)
  <2>1. CASE runs' = runs
    <3>1. runs' = [runs EXCEPT ![export.run] = runs[export.run]]
      BY <2>1, <1>r
    <3>2. "success" \in {runs[export.run].status, runs[export.run].step} => linked[export.run] # None
      BY <1>i, <1>r, StageExportsAssumption DEF Exports!LedgerTellsOfFiles
    <3>3. export'.pc \in Busy => runs[export.run].step \notin Exports!Ended
      BY <2>1, <1>i, <1>u, <1>j DEF Exports!Record, Exports!End, Exports!Dies, Exports!Idle, Exports!Goes, WorkerInv, Busy, Exports!Job
    <3> QED BY <3>1, <3>2, <3>3, <1>r, <1>0
  <2>2. CASE /\ export.pc = "record" /\ export.outcome = "success"
             /\ runs' = [runs EXCEPT ![export.run].step = "success"] /\ Exports!Goes("end")
    <3> DEFINE row == [runs[export.run] EXCEPT !.step = "success"]
    <3>1. row \in Exports!Row /\ row.revision = runs[export.run].revision /\ row.step = "success"
          /\ row.status = runs[export.run].status
      BY <1>r DEF Exports!Row, Exports!Ended
    <3>2. runs' = [runs EXCEPT ![export.run] = row]
      BY <2>2, <1>r
    <3>3. export'.pc = "end"
      BY <2>2, <1>j DEF Exports!Goes, Exports!Job
    <3> HIDE DEF row
    <3> QED BY <3>1, <3>2, <3>3, <2>2, <1>r DEF Exports!Ended
  <2>3. CASE /\ export.outcome # "success" /\ Exports!Dies
             /\ runs' = [runs EXCEPT ![export.run] = [@ EXCEPT !.status = export.outcome, !.step = export.outcome]]
    <3>1. PICK o \in {"failed", "unknown"} : o = export.outcome
      BY <1>j, <2>3 DEF Exports!Job, Exports!Ended
    <3> DEFINE row == [runs[export.run] EXCEPT !.status = o, !.step = o]
    <3>2. row \in Exports!Row /\ row.revision = runs[export.run].revision /\ row.step = o /\ row.status = o
      BY <1>r DEF Exports!Row, Exports!Ended
    <3>3. runs' = [runs EXCEPT ![export.run] = row]
      BY <2>3, <3>1, <1>r
    <3>4. export'.pc \notin Busy
      BY <2>3 DEF Exports!Dies, Exports!Idle, Busy
    <3> HIDE DEF row
    <3> QED BY <3>1, <3>2, <3>3, <3>4, <1>r
  <2>4. CASE /\ export.pc = "end" /\ Exports!Dies
             /\ runs' = [runs EXCEPT ![export.run].status = "success"]
    <3> DEFINE row == [runs[export.run] EXCEPT !.status = "success"]
    <3>1. row \in Exports!Row /\ row.revision = runs[export.run].revision /\ row.status = "success"
          /\ row.step = runs[export.run].step
      BY <1>r DEF Exports!Row, Exports!Ended
    <3>2. runs' = [runs EXCEPT ![export.run] = row]
      BY <2>4, <1>r
    <3>3. export'.pc \notin Busy
      BY <2>4 DEF Exports!Dies, Exports!Idle, Busy
    <3>4. runs[export.run].step # "failed"
      BY <1>0, <1>r, <2>4
    <3> HIDE DEF row
    <3> QED BY <3>1, <3>2, <3>3, <3>4, <2>4, <1>r
  <2> QED BY <2>1, <2>2, <2>3, <2>4 DEF Exports!Record, Exports!End
<1>2. /\ runs' \in [Exports!Run -> Exports!Row \cup {None}]
      /\ runs'[export.run] = row
      /\ \A r \in Exports!Run \ {export.run} : runs'[r] = runs[r]
      /\ row # None
  BY <1>1, <1>r, StageExportsAssumption
<1>3. /\ export' \in Exports!Job
      /\ \/ export' = Exports!Idle
         \/ /\ export'.run = export.run
            /\ \/ export'.pc = "end" /\ export'.outcome = "success" /\ export.outcome = "success"
               \/ export'.pc = "record" /\ export'.outcome = "unknown"
  BY <1>j DEF Exports!Record, Exports!End, Exports!Goes, Exports!Dies,
              Exports!Job, Exports!Place, Exports!Ended
<1>4. WorkerInv' /\ ReadInv' /\ TempsInv' /\ RequestInv'
  BY <1>1, <1>2, <1>3, <1>r, <1>u, <1>i DEF WorkerInv, ReadInv, TempsInv, RequestInv, Busy, Unlinked, Exports!Idle
<1>5. Exports!ExportsTypeOK'
  BY <1>i, <1>u, <1>2, <1>3 DEF Exports!ExportsTypeOK
<1>6. Exports!FilesAreWhole' /\ Exports!NoTemporaryLeftBehind'
  BY <1>i, <1>u, <1>r DEF Exports!FilesAreWhole, Exports!NoTemporaryLeftBehind
<1>7. Exports!FilesAreAskedFor' /\ FutureInv'
  BY <1>i, <1>u, <1>r, <1>1, <1>2, StageExportsAssumption DEF Exports!FilesAreAskedFor, FutureInv
<1>8. Exports!LedgerTellsOfFiles'
  BY <1>i, <1>u, <1>r, <1>1, <1>2 DEF Exports!LedgerTellsOfFiles
<1> QED BY <1>4, <1>5, <1>6, <1>7, <1>8 DEF ExportIInv

\* Nobody has the lock: the ledger's runs may be settled.
LEMMA LostRow ==
  ASSUME NEW row \in Exports!Row \cup {None}
  PROVE  /\ Exports!Lost(row) \in Exports!Row \cup {None}
         /\ row = None <=> Exports!Lost(row) = None
         /\ row # None =>
              /\ Exports!Lost(row).revision = row.revision
              /\ "failed" \in {Exports!Lost(row).status, Exports!Lost(row).step} =>
                   "failed" \in {row.status, row.step}
              /\ "success" \in {Exports!Lost(row).status, Exports!Lost(row).step} =>
                   "success" \in {row.status, row.step}
<1>1. CASE row = None \/ row.status \in Exports!Ended
  BY <1>1, StageExportsAssumption DEF Exports!Lost
<1>2. CASE row # None /\ row.status \notin Exports!Ended
  <2>1. PICK s \in {"pending", "running", "skipped"} \cup Exports!Ended :
          s = CASE row.step = "running" -> "unknown" [] row.step = "pending" -> "skipped" [] OTHER -> row.step
    BY <1>2 DEF Exports!Row, Exports!Ended
  <2>2. Exports!Lost(row) = [row EXCEPT !.status = "unknown", !.step = s]
    BY <1>2, <2>1 DEF Exports!Lost
  <2>3. s \in {"failed", "success"} => s = row.step
    BY <2>1
  <2>4. row \in Exports!Row
    BY <1>2
  <2>5. /\ Exports!Lost(row) \in Exports!Row
        /\ Exports!Lost(row).revision = row.revision /\ Exports!Lost(row).status = "unknown"
        /\ Exports!Lost(row).step = s
    BY <2>2, <2>4 DEF Exports!Row, Exports!Ended
  <2> QED BY <1>2, <2>3, <2>5, StageExportsAssumption
<1> QED BY <1>1, <1>2

\* No request and no worker is at work, or a request that has no run yet.
LEMMA ExportRequests ==
  ExportIInv /\ (Exports!ReadStage \/ Exports!TakeLock \/ Exports!Refuse) => ExportIInv'
<1> SUFFICES ASSUME ExportIInv, Exports!ReadStage \/ Exports!TakeLock \/ Exports!Refuse PROVE ExportIInv'
  OBVIOUS
<1>i. /\ Exports!ExportsTypeOK /\ Exports!FilesAreWhole /\ Exports!FilesAreAskedFor
      /\ Exports!LedgerTellsOfFiles /\ Exports!NoTemporaryLeftBehind
      /\ WorkerInv /\ ReadInv /\ FutureInv /\ TempsInv /\ RequestInv
  BY DEF ExportIInv
<1>u. UNCHANGED <<revision, size, runs, dir, temps, kept, linked>>
  BY DEF Exports!ReadStage, Exports!TakeLock, Exports!Refuse
<1>j. Exports!Idle \in Exports!Job /\ [Exports!Idle EXCEPT !.pc = "admit"] \in Exports!Job
  BY StageExportsAssumption DEF Exports!Idle, Exports!Job, Exports!Place, Exports!Ended
<1>1. asked' \in Exports!Request \cup {None}
  BY <1>i DEF Exports!ReadStage, Exports!TakeLock, Exports!Refuse, Exports!Request, Exports!ExportsTypeOK
<1>2. \/ export' = export /\ export.pc # "admit"
      \/ export.pc \in {"idle", "admit"} /\ export' = Exports!Idle
      \/ /\ export.pc \in {"idle", "admit"} /\ export' = [Exports!Idle EXCEPT !.pc = "admit"]
         /\ asked' = asked /\ asked # None
  BY <1>i DEF Exports!ReadStage, Exports!TakeLock, Exports!Refuse, RequestInv
<1>3. \/ export' = export /\ export.pc # "admit"
      \/ /\ export.pc \notin Busy /\ export'.pc \in {"idle", "admit"} /\ export'.run = 0 /\ export' \in Exports!Job
         /\ export'.pc = "admit" => asked' # None
  BY <1>2, <1>j DEF Busy, Exports!Idle
<1>4. Exports!ExportsTypeOK'
  BY <1>i, <1>u, <1>1, <1>3 DEF Exports!ExportsTypeOK
<1>5. WorkerInv' /\ ReadInv' /\ TempsInv' /\ RequestInv'
  BY <1>i, <1>u, <1>3 DEF WorkerInv, ReadInv, TempsInv, RequestInv, Busy, Unlinked, Exports!AtMost
<1>6. Exports!NoTemporaryLeftBehind'
  BY <1>i, <1>u, <1>3 DEF Exports!NoTemporaryLeftBehind, TempsInv, Busy
<1>7. Exports!FilesAreWhole' /\ Exports!FilesAreAskedFor' /\ Exports!LedgerTellsOfFiles' /\ FutureInv'
  BY <1>i, <1>u DEF Exports!FilesAreWhole, Exports!FilesAreAskedFor, Exports!LedgerTellsOfFiles, FutureInv
<1> QED BY <1>4, <1>5, <1>6, <1>7 DEF ExportIInv

\* The process dies, and lost runs are settled.
LEMMA ExportLosses == ExportIInv /\ (Exports!Restart \/ Exports!Recover) => ExportIInv'
<1> SUFFICES ASSUME ExportIInv, Exports!Restart \/ Exports!Recover PROVE ExportIInv'
  OBVIOUS
<1>i. /\ Exports!ExportsTypeOK /\ Exports!FilesAreWhole /\ Exports!FilesAreAskedFor
      /\ Exports!LedgerTellsOfFiles /\ Exports!NoTemporaryLeftBehind
      /\ WorkerInv /\ ReadInv /\ FutureInv /\ TempsInv /\ RequestInv
  BY DEF ExportIInv
<1>1. CASE Exports!Restart
  <2>u. UNCHANGED <<revision, size, runs, dir, temps, linked>> /\ kept' = kept \cup temps /\ asked' = None
        /\ export' = Exports!Idle
    BY <1>1 DEF Exports!Restart
  <2>1. export' \in Exports!Job /\ export'.pc = "idle" /\ export'.run = 0
    BY <2>u, StageExportsAssumption DEF Exports!Idle, Exports!Job, Exports!Place, Exports!Ended
  <2>2. Exports!ExportsTypeOK'
    BY <1>i, <2>u, <2>1 DEF Exports!ExportsTypeOK
  <2>3. WorkerInv' /\ ReadInv' /\ TempsInv' /\ RequestInv' /\ Exports!NoTemporaryLeftBehind'
    BY <2>u, <2>1 DEF WorkerInv, ReadInv, TempsInv, RequestInv, Busy, Unlinked, Exports!NoTemporaryLeftBehind
  <2>4. Exports!FilesAreWhole' /\ Exports!FilesAreAskedFor' /\ Exports!LedgerTellsOfFiles' /\ FutureInv'
    BY <1>i, <2>u DEF Exports!FilesAreWhole, Exports!FilesAreAskedFor, Exports!LedgerTellsOfFiles, FutureInv
  <2> QED BY <2>2, <2>3, <2>4 DEF ExportIInv
<1>2. CASE Exports!Recover
  <2>u. UNCHANGED <<revision, size, asked, export, dir, temps, kept, linked>> /\ export.pc = "idle"
        /\ runs' = [r \in Exports!Run |-> Exports!Lost(runs[r])]
    BY <1>2 DEF Exports!Recover, Exports!Settled
  <2>1. \A r \in Exports!Run : runs[r] \in Exports!Row \cup {None}
    BY <1>i DEF Exports!ExportsTypeOK
  <2>2. \A r \in Exports!Run :
          /\ runs'[r] \in Exports!Row \cup {None}
          /\ runs[r] = None <=> runs'[r] = None
          /\ runs[r] # None =>
               /\ runs'[r].revision = runs[r].revision
               /\ "failed" \in {runs'[r].status, runs'[r].step} => "failed" \in {runs[r].status, runs[r].step}
               /\ "success" \in {runs'[r].status, runs'[r].step} => "success" \in {runs[r].status, runs[r].step}
    <3> TAKE r \in Exports!Run
    <3>1. runs'[r] = Exports!Lost(runs[r])
      BY <2>u
    <3>2. PICK row \in Exports!Row \cup {None} : row = runs[r]
      BY <2>1
    <3> QED BY <3>1, <3>2, LostRow
  <2>3. Exports!ExportsTypeOK'
    BY <1>i, <2>u, <2>2 DEF Exports!ExportsTypeOK
  <2>4. WorkerInv' /\ ReadInv' /\ TempsInv' /\ RequestInv' /\ Exports!NoTemporaryLeftBehind'
    BY <1>i, <2>u DEF WorkerInv, ReadInv, TempsInv, RequestInv, Busy, Unlinked, Exports!NoTemporaryLeftBehind
  <2>5. Exports!FilesAreWhole' /\ Exports!FilesAreAskedFor'
    BY <1>i, <2>u, <2>2 DEF Exports!FilesAreWhole, Exports!FilesAreAskedFor
  <2>6. Exports!LedgerTellsOfFiles' /\ FutureInv'
    BY <1>i, <2>u, <2>2 DEF Exports!LedgerTellsOfFiles, FutureInv
  <2> QED BY <2>3, <2>4, <2>5, <2>6 DEF ExportIInv
<1> QED BY <1>1, <1>2

\* A run is admitted, for the stage as it is, and those that were lost are settled.
LEMMA ExportAdmits == ExportIInv /\ Exports!Admit => ExportIInv'
<1> SUFFICES ASSUME ExportIInv, Exports!Admit PROVE ExportIInv'
  OBVIOUS
<1>i. /\ Exports!ExportsTypeOK /\ Exports!FilesAreWhole /\ Exports!FilesAreAskedFor
      /\ Exports!LedgerTellsOfFiles /\ Exports!NoTemporaryLeftBehind
      /\ WorkerInv /\ ReadInv /\ FutureInv /\ TempsInv /\ RequestInv
  BY DEF ExportIInv
<1>u. UNCHANGED <<revision, size, dir, temps, kept, linked>> /\ asked' = None /\ export.pc = "admit"
  BY DEF Exports!Admit
<1>1. PICK new \in Exports!Run :
        /\ runs[new] = None
        /\ runs' = [Exports!Settled EXCEPT ![new] = [status |-> "queued", step |-> "pending",
                                                     revision |-> asked.revision, name |-> asked.name]]
        /\ export' \in {Exports!Idle, [Exports!Idle EXCEPT !.pc = "start", !.run = new]}
  BY DEF Exports!Admit
<1> DEFINE row == [status |-> "queued", step |-> "pending", revision |-> asked.revision, name |-> asked.name]
<1>2. asked \in Exports!Request
  BY <1>i, <1>u DEF RequestInv, Exports!ExportsTypeOK
<1>3. row \in Exports!Row /\ row.status = "queued" /\ row.step = "pending"
  BY <1>2 DEF Exports!Row, Exports!Request
<1>4. runs' = [Exports!Settled EXCEPT ![new] = row]
  BY <1>1
<1> HIDE DEF row
<1>5. \A r \in Exports!Run : runs[r] \in Exports!Row \cup {None}
  BY <1>i DEF Exports!ExportsTypeOK
<1>6. \A r \in Exports!Run \ {new} :
        /\ runs'[r] \in Exports!Row \cup {None}
        /\ runs[r] = None <=> runs'[r] = None
        /\ runs[r] # None =>
             /\ runs'[r].revision = runs[r].revision
             /\ "failed" \in {runs'[r].status, runs'[r].step} => "failed" \in {runs[r].status, runs[r].step}
             /\ "success" \in {runs'[r].status, runs'[r].step} => "success" \in {runs[r].status, runs[r].step}
  <2> TAKE r \in Exports!Run \ {new}
  <2>1. runs'[r] = Exports!Lost(runs[r])
    BY <1>4 DEF Exports!Settled
  <2>2. PICK old \in Exports!Row \cup {None} : old = runs[r]
    BY <1>5
  <2> QED BY <2>1, <2>2, LostRow
<1>7. runs'[new] = row /\ runs' \in [Exports!Run -> Exports!Row \cup {None}] /\ row # None
  <2>1. Exports!Settled \in [Exports!Run -> Exports!Row \cup {None}]
    <3> SUFFICES ASSUME NEW r \in Exports!Run PROVE Exports!Lost(runs[r]) \in Exports!Row \cup {None}
      BY DEF Exports!Settled
    <3>1. PICK old \in Exports!Row \cup {None} : old = runs[r]
      BY <1>5
    <3> QED BY <3>1, LostRow
  <2> QED BY <2>1, <1>3, <1>4, StageExportsAssumption
<1>8. /\ export' \in Exports!Job
      /\ \/ export'.pc = "idle" /\ export'.run = 0
         \/ export'.pc = "start" /\ export'.run = new /\ export'.outcome = "success"
  <2>1. new \in 0..MaxExports /\ 0 \in 0..MaxExports
    BY StageExportsAssumption DEF Exports!Run
  <2>2. Exports!Idle \in Exports!Job /\ Exports!Idle.pc = "idle" /\ Exports!Idle.run = 0 /\ Exports!Idle.outcome = "success"
    BY <2>1 DEF Exports!Idle, Exports!Job, Exports!Place, Exports!Ended
  <2>3. CASE export' = Exports!Idle
    BY <2>2, <2>3
  <2>4. CASE export' = [Exports!Idle EXCEPT !.pc = "start", !.run = new]
    BY <2>1, <2>2, <2>4 DEF Exports!Job, Exports!Place
  <2> QED BY <1>1, <2>3, <2>4
<1>9. linked[new] = None /\ temps \subseteq kept
  BY <1>i, <1>u, <1>1 DEF FutureInv, TempsInv
<1>10. Exports!ExportsTypeOK'
  BY <1>i, <1>u, <1>7, <1>8 DEF Exports!ExportsTypeOK
<1>11. WorkerInv' /\ ReadInv' /\ TempsInv' /\ RequestInv' /\ Exports!NoTemporaryLeftBehind'
  BY <1>u, <1>3, <1>7, <1>8, <1>9 DEF WorkerInv, ReadInv, TempsInv, RequestInv, Busy, Unlinked,
       Exports!NoTemporaryLeftBehind, Exports!Ended
<1>12. Exports!FilesAreWhole' /\ Exports!FilesAreAskedFor'
  BY <1>i, <1>u, <1>6, <1>9 DEF Exports!FilesAreWhole, Exports!FilesAreAskedFor
<1>13. Exports!LedgerTellsOfFiles' /\ FutureInv'
  BY <1>i, <1>u, <1>3, <1>6, <1>7, <1>9 DEF Exports!LedgerTellsOfFiles, FutureInv
<1> QED BY <1>10, <1>11, <1>12, <1>13 DEF ExportIInv

LEMMA ExportInit == Exports!Init => ExportIInv
<1> SUFFICES ASSUME Exports!Init PROVE ExportIInv
  OBVIOUS
<1>1. export.pc = "idle" /\ export.run = 0 /\ export \in Exports!Job
  BY StageExportsAssumption DEF Exports!Init, Exports!Idle, Exports!Job, Exports!Place, Exports!Ended
<1>2. Exports!ExportsTypeOK
  BY <1>1, StageExportsAssumption DEF Exports!Init, Exports!ExportsTypeOK
<1>3. Exports!FilesAreWhole /\ Exports!FilesAreAskedFor /\ Exports!LedgerTellsOfFiles /\ Exports!NoTemporaryLeftBehind
  BY DEF Exports!Init, Exports!FilesAreWhole, Exports!FilesAreAskedFor, Exports!LedgerTellsOfFiles, Exports!NoTemporaryLeftBehind
<1>4. WorkerInv /\ ReadInv /\ FutureInv /\ TempsInv /\ RequestInv
  BY <1>1 DEF Exports!Init, WorkerInv, ReadInv, FutureInv, TempsInv, RequestInv, Busy, Unlinked
<1> QED BY <1>2, <1>3, <1>4 DEF ExportIInv

LEMMA ExportStep == ExportIInv /\ [StageNext]_<<part, vars, exportVars>> => ExportIInv'
<1> SUFFICES ASSUME ExportIInv, [StageNext]_<<part, vars, exportVars>> PROVE ExportIInv'
  OBVIOUS
<1>1. CASE UNCHANGED exportVars
  BY <1>1 DEF exportVars, ExportIInv, Exports!ExportsTypeOK, Exports!FilesAreWhole, Exports!FilesAreAskedFor,
       Exports!LedgerTellsOfFiles, Exports!NoTemporaryLeftBehind, WorkerInv, ReadInv, FutureInv, TempsInv, RequestInv
<1>2. CASE Exports!Next
  BY <1>2, ExportUsersStep, ExportMoves, ExportMarks, ExportTemporaries, ExportLinks, ExportEnds, ExportRequests,
     ExportLosses, ExportAdmits DEF Exports!Next, Exports!Outside, Exports!Asks, Exports!Works
<1> QED BY <1>1, <1>2 DEF StageNext

\* In every state an export that was published is whole and was published for the stage as
\* its request had read it, under a name that nothing had; the ledger says of a run that it
\* failed or succeeded only if it is so; and temporary files remain only where their removal
\* failed or the process died, for any limit and any tables, names and numbers of exports
\* (stage_exports.py:79-160, jobs_resident.py:511-577).
THEOREM ExportsAreWholeAndTold == StageSpec => []ExportsInv
<1>1. StageInit => ExportIInv
  BY ExportInit DEF StageInit
<1>2. ExportIInv => ExportsInv
  BY DEF ExportIInv, ExportsInv, Exports!ExportsInv
<1> QED BY <1>1, <1>2, ExportStep, PTL DEF StageSpec
=============================================================================
