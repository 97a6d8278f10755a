------------------------------ MODULE Recovery ------------------------------
(***************************************************************************)
(* disaster_recovery.py: a backup that collects the state files and the     *)
(* warehouse into one archive, and restores that put an archive back into   *)
(* a state directory and, on request, into a warehouse, while the server    *)
(* runs, the machine is lost, and processes die.                            *)
(*                                                                          *)
(* The state files are the WAP registry (which also stands for the AI       *)
(* configuration), the ledger of jobs, and the dbt models.  A restore takes *)
(* files, tables and views in the order of its archive; here it takes them  *)
(* in any.                                                                  *)
(***************************************************************************)
EXTENDS Naturals

CONSTANTS Proc,       \* the restores
          Options,    \* the options they may be given: whether dry, whether with SQL
          Table,      \* tables of the warehouse
          View,       \* its views
          Needs,      \* what each view selects from
          Chunks,     \* the INSERTs that restore each table, as it is at first
          MaxWrites,  \* bound: changes of the registry
          MaxBackups, \* bound: backups begun
          MaxDamage,  \* bound: disasters
          None

Relation == Table \cup View
File     == {"registry", "ledger", "models"}

ASSUME RecoveryAssumption ==
  /\ Needs \in [View -> SUBSET Relation] /\ Table \cap View = {}
  /\ None \notin Nat /\ Options \subseteq [dry : BOOLEAN, sql : BOOLEAN]
  /\ Chunks \in [Table -> Nat] /\ MaxWrites \in Nat /\ MaxBackups \in Nat /\ MaxDamage \in Nat

VARIABLES live,       \* the state directory and the models
          warehouse,  \* the relations there are; of a table, the chunks of rows in it
          archive,    \* the backup at its path
          taking,     \* what the backup has collected
          listed,     \* the relations that it has yet to read
          bpc,        \* its place
          backups,    \* how many were begun
          pc,         \* the place of each restore
          dry, sql,   \* its options
          got,        \* the archive it has read
          tables,     \* the tables it has left to create
          inserts,    \* how many INSERTs each table has left
          round,      \* the views of this round
          views,      \* those of them that it has left to try
          pending,    \* those that failed
          places,     \* the files it has left to place
          switched,   \* history: schedules were switched on since the restore
          disasters,  \* history: how often everything was lost
          twice       \* history: the restores of which an INSERT took effect twice

backing   == <<archive, taking, listed, bpc, backups>>
plan      == <<tables, inserts, round, views, pending, places>>
restoring == <<pc, dry, sql, got, plan>>
history   == <<switched, disasters, twice>>
vars == <<live, warehouse, backing, restoring, history>>

Ledger  == [from : {"here", "archive"}, on : BOOLEAN]
Version == 0..MaxWrites
Files   == [registry : Version \cup {None}, ledger : Ledger \cup {None}, models : {0, None}]
Stock   == { w \in [Relation -> Nat \cup {None}] : \A v \in View : w[v] \in {0, None} }
Archive == [files : Files, stock : Stock, whole : BOOLEAN]
NoFiles == [registry |-> None, ledger |-> None, models |-> None]
NoStock == [r \in Relation |-> None]
Bare    == [files |-> NoFiles, stock |-> NoStock, whole |-> TRUE]

RestorePlace == {"read", "check", "tables", "views", "files", "done", "failed", "crashed"}

TypeOK ==
  /\ live \in Files /\ warehouse \in Stock
  /\ archive \in Archive \cup {None} /\ taking \in Archive /\ listed \subseteq Relation
  /\ bpc \in {"idle", "ledger", "models", "catalog", "relations", "temporary", "publish"}
  /\ backups \in 0..MaxBackups
  /\ pc \in [Proc -> RestorePlace]
  /\ dry \in [Proc -> BOOLEAN] /\ sql \in [Proc -> BOOLEAN] /\ got \in [Proc -> Archive]
  /\ tables \in [Proc -> SUBSET Table] /\ inserts \in [Proc -> [Table -> Nat]]
  /\ round \in [Proc -> SUBSET View] /\ views \in [Proc -> SUBSET View]
  /\ pending \in [Proc -> SUBSET View] /\ places \in [Proc -> SUBSET File]
  /\ switched \in BOOLEAN /\ disasters \in 0..MaxDamage
  /\ twice \subseteq Proc

\* A machine that has been running: all relations are there.
Init ==
  /\ live = [registry |-> 0, ledger |-> [from |-> "here", on |-> TRUE], models |-> 0]
  /\ warehouse = [r \in Relation |-> IF r \in Table THEN Chunks[r] ELSE 0]
  /\ archive = None /\ taking = Bare /\ listed = {} /\ bpc = "idle" /\ backups = 0
  /\ pc = [p \in Proc |-> "read"] /\ \E given \in [Proc -> Options] :
       dry = [p \in Proc |-> given[p].dry] /\ sql = [p \in Proc |-> given[p].sql]
  /\ got = [p \in Proc |-> Bare]
  /\ tables = [p \in Proc |-> {}] /\ inserts = [p \in Proc |-> [t \in Table |-> 0]]
  /\ round = [p \in Proc |-> {}] /\ views = round /\ pending = round /\ places = round
  /\ switched = FALSE /\ disasters = 0 /\ twice = {}

-----------------------------------------------------------------------------
(* The server and the world. *)

SaveRegistry ==
  /\ \E v \in Version : v = (IF live["registry"] = None THEN 0 ELSE live["registry"] + 1)
                        /\ live' = [live EXCEPT !["registry"] = v]
  /\ UNCHANGED <<warehouse, backing, restoring, history>>

\* Opening the ledger makes it, empty.
OpenLedger ==
  /\ live["ledger"] = None
  /\ live' = [live EXCEPT !["ledger"] = [from |-> "here", on |-> FALSE]]
  /\ UNCHANGED <<warehouse, backing, restoring, history>>

\* Somebody enables a schedule.
SwitchOn ==
  /\ live["ledger"] # None /\ ~live["ledger"].on
  /\ live' = [live EXCEPT !["ledger"].on = TRUE] /\ switched' = TRUE
  /\ UNCHANGED <<warehouse, backing, restoring, disasters, twice>>

Running(p) == pc[p] \notin {"read", "done", "failed", "crashed"}

\* The server writes to a table; a warehouse that is being restored it leaves alone.
WriteTable ==
  /\ \A p \in Proc : ~Running(p)
  /\ \E t \in Table : /\ warehouse[t] # None
                      /\ \E n \in 0..Chunks[t] : warehouse' = [warehouse EXCEPT ![t] = n]
  /\ UNCHANGED <<live, backing, restoring, history>>

\* The machine is lost, with its state, its warehouse and whatever runs on it; the
\* archive was kept elsewhere.
Disaster ==
  /\ disasters < MaxDamage /\ archive # None
  /\ live' = NoFiles /\ warehouse' = NoStock /\ bpc' = "idle" /\ taking' = Bare /\ listed' = {}
  /\ pc' = [p \in Proc |-> IF Running(p) THEN "crashed" ELSE pc[p]]
  /\ disasters' = disasters + 1 /\ switched' = FALSE
  /\ UNCHANGED <<archive, backups, dry, sql, got, plan, twice>>

\* The archive is truncated or altered on its way.
Damage ==
  /\ archive # None /\ archive.whole
  /\ archive' = [archive EXCEPT !.whole = FALSE]
  /\ UNCHANGED <<live, warehouse, taking, listed, bpc, backups, restoring, history>>

-----------------------------------------------------------------------------
(* backup *)

Collects(file) == taking' = [taking EXCEPT !.files[file] = live[file]]

TakeRegistry ==
  /\ bpc = "idle" /\ bpc' = "ledger"
  /\ backups < MaxBackups /\ backups' = backups + 1
  /\ taking' = [Bare EXCEPT !.files["registry"] = live["registry"]]
  /\ UNCHANGED <<live, warehouse, archive, listed, restoring, history>>

\* SQLite's own backup: what is committed, as of one moment.
TakeLedger ==
  /\ bpc = "ledger" /\ bpc' = "models" /\ Collects("ledger")
  /\ UNCHANGED <<live, warehouse, archive, listed, backups, restoring, history>>

TakeModels ==
  /\ bpc = "models" /\ bpc' = "catalog" /\ Collects("models")
  /\ UNCHANGED <<live, warehouse, archive, listed, backups, restoring, history>>

\* The relations are listed, then read one by one, over one connection.
ListCatalog ==
  /\ bpc = "catalog" /\ bpc' = "relations"
  /\ listed' = { r \in Relation : warehouse[r] # None }
  /\ UNCHANGED <<live, warehouse, archive, taking, backups, restoring, history>>

\* What a relation is and holds by now; one that has gone fails the backup.
TakeRelation ==
  /\ bpc = "relations"
  /\ \E r \in listed :
       /\ warehouse[r] # None
       /\ taking' = [taking EXCEPT !.stock[r] = warehouse[r]]
       /\ listed' = listed \ {r}
  /\ UNCHANGED <<live, warehouse, archive, bpc, backups, restoring, history>>

CatalogTaken ==
  /\ bpc = "relations" /\ listed = {} /\ bpc' = "temporary"
  /\ UNCHANGED <<live, warehouse, archive, taking, listed, backups, restoring, history>>

\* Mutant: the archive is written at its path.
WriteInPlace ==
  /\ bpc = "temporary" /\ bpc' = "publish"
  /\ archive' = [taking EXCEPT !.whole = FALSE]
  /\ UNCHANGED <<live, warehouse, taking, listed, backups, restoring, history>>

WriteTemporary ==
  /\ bpc = "temporary" /\ bpc' = "publish"
  /\ UNCHANGED <<live, warehouse, archive, taking, listed, backups, restoring, history>>

Publish ==
  /\ bpc = "publish" /\ bpc' = "idle"
  /\ archive' = taking /\ taking' = Bare
  /\ UNCHANGED <<live, warehouse, listed, backups, restoring, history>>

\* A query or a write fails: the temporary file is removed.  A crash leaves it.
BackupFails ==
  /\ bpc # "idle" /\ bpc' = "idle" /\ taking' = Bare /\ listed' = {}
  /\ UNCHANGED <<live, warehouse, archive, backups, restoring, history>>

-----------------------------------------------------------------------------
(* restore *)

Goes(p, place) == pc' = [pc EXCEPT ![p] = place]
Fails(p) == Goes(p, "failed") /\ UNCHANGED plan

\* Mutant: the schedules of the archive stay as they were.
AsTheyWere(files) ==
  [files EXCEPT !["ledger"] = IF @ = None THEN None ELSE [from |-> "archive", on |-> @.on]]

\* A restored ledger comes with its schedules paused.
Paused(files) ==
  [files EXCEPT !["ledger"] = IF @ = None THEN None ELSE [from |-> "archive", on |-> FALSE]]

\* What an archive has.
TablesOf(stock)    == { t \in Table : stock[t] # None }
InsertsOf(stock)   == [t \in Table |-> IF stock[t] = None THEN 0 ELSE stock[t]]
ViewsOf(stock)     == { v \in View : stock[v] # None }
FilesOf(files)     == { f \in File : files[f] # None }

\* The archive is validated as a whole, and its SQL planned, before anything is written.
Read(p) ==
  /\ pc[p] = "read" /\ archive # None
  /\ \/ /\ archive.whole /\ Goes(p, "check")
        /\ got' = [got EXCEPT ![p] = [archive EXCEPT !.files = Paused(@)]]
     \/ Goes(p, "failed") /\ UNCHANGED got
  /\ UNCHANGED <<live, warehouse, backing, dry, sql, plan, history>>

Check(p) ==
  /\ pc[p] = "check"
  /\ IF got[p].files["ledger"] # None /\ live["ledger"] # None THEN Fails(p)
     ELSE IF dry[p] THEN Goes(p, "done") /\ UNCHANGED plan
     ELSE /\ Goes(p, IF sql[p] THEN "tables" ELSE "files")
          /\ tables' = [tables EXCEPT ![p] = TablesOf(got[p].stock)]
          /\ inserts' = [inserts EXCEPT ![p] = InsertsOf(got[p].stock)]
          /\ round' = [round EXCEPT ![p] = ViewsOf(got[p].stock)] /\ views' = [views EXCEPT ![p] = round'[p]]
          /\ places' = [places EXCEPT ![p] = FilesOf(got[p].files)]
          /\ UNCHANGED pending
  /\ UNCHANGED <<live, warehouse, backing, dry, sql, got, history>>

\* A statement takes effect; then its answer may still be lost.
Proceeds(p) == UNCHANGED pc \/ Goes(p, "failed")

\* The tables are created; CREATE TABLE fails for one that is there.
CreateTable(p, t) ==
  /\ pc[p] = "tables" /\ t \in tables[p]
  /\ warehouse[t] = None /\ warehouse' = [warehouse EXCEPT ![t] = 0]
  /\ tables' = [tables EXCEPT ![p] = @ \ {t}] /\ Proceeds(p)
  /\ UNCHANGED <<live, backing, dry, sql, got, inserts, round, views, pending, places, history>>

\* Then they are filled.  An INSERT fails for a table that is not there; when the
\* connection breaks it is posted again, and can take effect twice.
InsertChunk(p, t) ==
  /\ pc[p] = "tables" /\ tables[p] = {} /\ inserts[p][t] > 0 /\ warehouse[t] # None
  /\ \E n \in {1, 2} : /\ warehouse' = [warehouse EXCEPT ![t] = @ + n]
                        /\ twice' = IF n = 2 THEN twice \cup {p} ELSE twice
  /\ inserts' = [inserts EXCEPT ![p][t] = @ - 1] /\ Proceeds(p)
  /\ UNCHANGED <<live, backing, dry, sql, got, tables, round, views, pending, places, switched, disasters>>

Filled(p) == tables[p] = {} /\ \A t \in Table : inserts[p][t] = 0

TablesFail(p) ==
  /\ pc[p] = "tables" /\ ~Filled(p) /\ Fails(p)
  /\ UNCHANGED <<live, warehouse, backing, dry, sql, got, history>>

TablesDone(p) ==
  /\ pc[p] = "tables" /\ Filled(p)
  /\ Goes(p, "views")
  /\ UNCHANGED <<live, warehouse, backing, dry, sql, got, plan, history>>

\* Each view of the round is tried; one that fails waits for the next.
TryView(p, v) ==
  /\ pc[p] = "views" /\ v \in views[p]
  /\ \/ /\ warehouse[v] = None /\ \A r \in Needs[v] : warehouse[r] # None
        /\ warehouse' = [warehouse EXCEPT ![v] = 0]
        /\ UNCHANGED pending \/ pending' = [pending EXCEPT ![p] = @ \cup {v}]
     \/ UNCHANGED warehouse /\ pending' = [pending EXCEPT ![p] = @ \cup {v}]
  /\ views' = [views EXCEPT ![p] = @ \ {v}]
  /\ UNCHANGED <<live, backing, pc, dry, sql, got, tables, inserts, round, places, history>>

ToFiles(p)   == Goes(p, "files") /\ UNCHANGED plan
NextRound(p) ==
  /\ round' = [round EXCEPT ![p] = pending[p]] /\ views' = [views EXCEPT ![p] = pending[p]]
  /\ pending' = [pending EXCEPT ![p] = {}] /\ UNCHANGED <<pc, tables, inserts, places>>

\* Mutant: there is one round.
OneRound(p) ==
  /\ pc[p] = "views" /\ views[p] = {}
  /\ ToFiles(p)
  /\ UNCHANGED <<live, warehouse, backing, dry, sql, got, history>>

\* Mutant: another round follows for as long as a view is missing.
RoundAfterRound(p) ==
  /\ pc[p] = "views" /\ views[p] = {}
  /\ IF pending[p] = {} THEN ToFiles(p) ELSE NextRound(p)
  /\ UNCHANGED <<live, warehouse, backing, dry, sql, got, history>>

\* A round that restored no view is the last.
RoundEnds(p) ==
  /\ pc[p] = "views" /\ views[p] = {}
  /\ IF round[p] = {} THEN ToFiles(p)
     ELSE IF pending[p] = round[p] THEN Fails(p) ELSE NextRound(p)
  /\ UNCHANGED <<live, warehouse, backing, dry, sql, got, history>>

\* A temporary file takes the place of the old one; the ledger is linked, which
\* fails when there is one.
Places(p, file) ==
  /\ file = "ledger" => live["ledger"] = None
  /\ live' = [live EXCEPT ![file] = got[p].files[file]]

\* A file is placed; the temporary file is removed unless the process dies.
PlaceFile(p, f) ==
  /\ pc[p] = "files" /\ f \in places[p]
  /\ Places(p, f) /\ places' = [places EXCEPT ![p] = @ \ {f}]
  /\ switched' = (switched /\ f # "ledger")
  /\ UNCHANGED <<warehouse, backing, pc, dry, sql, got, tables, inserts, round, views, pending, disasters, twice>>

FilesFail(p) ==
  /\ pc[p] = "files" /\ places[p] # {} /\ Fails(p)
  /\ UNCHANGED <<live, warehouse, backing, dry, sql, got, history>>

FilesDone(p) ==
  /\ pc[p] = "files" /\ places[p] = {}
  /\ Goes(p, "done")
  /\ UNCHANGED <<live, warehouse, backing, dry, sql, got, plan, history>>

RestoreStep(p) ==
  \/ Check(p) \/ TablesFail(p) \/ TablesDone(p) \/ RoundEnds(p) \/ FilesFail(p) \/ FilesDone(p)
  \/ \E t \in Table : CreateTable(p, t) \/ InsertChunk(p, t)
  \/ \E v \in View : TryView(p, v)
  \/ \E f \in File : PlaceFile(p, f)

RestoreDies(p) ==
  /\ Running(p)
  /\ Goes(p, "crashed")
  /\ UNCHANGED <<live, warehouse, backing, dry, sql, got, plan, history>>

Next ==
  \/ SaveRegistry \/ OpenLedger \/ SwitchOn \/ WriteTable \/ Disaster \/ Damage
  \/ TakeRegistry \/ TakeLedger \/ TakeModels
  \/ ListCatalog \/ TakeRelation \/ CatalogTaken \/ WriteTemporary \/ Publish \/ BackupFails
  \/ \E p \in Proc : Read(p) \/ RestoreStep(p) \/ RestoreDies(p)

\* A restore that has begun goes on: it is one loop of one process.
Spec == Init /\ [][Next]_vars /\ \A p \in Proc : WF_vars(RestoreStep(p))

-----------------------------------------------------------------------------
(* Properties *)

\* A restore never touches a ledger that is there, though the server may make one
\* between the check and the moment the file is placed
\* (disaster_recovery.py:264-265, 308-312).
LedgerIsKept ==
  [][live["ledger"] # None /\ live'["ledger"] # live["ledger"] /\ live'["ledger"] # None
       => UNCHANGED restoring]_vars

\* A schedule of a restored ledger runs only if somebody has switched it on since
\* (disaster_recovery.py:239-251).
RestoredSchedulesRest ==
  live["ledger"] # None /\ live["ledger"].from = "archive" /\ live["ledger"].on => switched

\* Types, and schedules that rest after a restore (_pause_restored_schedules).
RecoveryInv == TypeOK /\ RestoredSchedulesRest

\* What is at the archive's path is a complete backup, unless it was damaged there:
\* the step that changes it puts a whole one in its place, or damages a whole one
\* (disaster_recovery.py:107-129).
ArchivesArriveWhole ==
  [][archive' # archive => \/ archive'.whole
                           \/ archive # None /\ archive' = [archive EXCEPT !.whole = FALSE]]_vars

\* A restore that reports success has restored all it was asked for: each view, and
\* each table with all its rows, and with those only unless an INSERT of its own ran
\* twice, whatever views need each other, whatever another restore did meanwhile, and
\* though an earlier one stopped half way (disaster_recovery.py:285-301).
SuccessIsComplete ==
  [][\A p \in Proc : pc[p] = "files" /\ pc'[p] = "done" /\ sql[p]
       => \A r \in Relation : got[p].stock[r] # None =>
            \/ warehouse[r] = got[p].stock[r]
            \/ p \in twice /\ r \in Table /\ warehouse[r] # None /\ warehouse[r] > got[p].stock[r]]_vars

\* What a restore says and what it left behind agree, in the ledger and in the
\* warehouse (restore).
RestoreIsHonest == LedgerIsKept /\ SuccessIsComplete

\* A restore comes to an end, also when views need something that is not there.
RestoresEnd == \A p \in Proc : pc[p] = "check" ~> pc[p] \in {"done", "failed", "crashed"}
=============================================================================
