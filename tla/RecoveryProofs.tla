---------------------------- MODULE RecoveryProofs ----------------------------
(***************************************************************************)
(* Theorems about Recovery, for every set of restores, tables and views,   *)
(* every number of INSERTs, backups and disasters.                         *)
(***************************************************************************)
EXTENDS Recovery, TLAPS

\* What the backup collects is complete; only the archive at its path is ever damaged.
TakingInv == taking.whole

\* A ledger that a restore has read has its schedules paused.
PausedInv ==
  \A p \in Proc : LET ledger == got[p].files["ledger"]
                  IN  ledger # None => ledger.on = FALSE

\* A restore that writes to the warehouse, or has and is about to report success.
Writes(p) == sql[p] /\ pc[p] \in {"tables", "views", "files"}

Wanted(p, r) == got[p].stock[r] # None

\* The tables that a restore has made.  No other restore inserts into them.
Made(p, t) == Writes(p) /\ Wanted(p, t) /\ t \notin tables[p]

\* The rows of a table: those that are there and those still to be inserted are those
\* of the archive, or more once an INSERT ran twice.
RowsFit(p, t) ==
  /\ warehouse[t] # None
  /\ \/ warehouse[t] + inserts[p][t] = got[p].stock[t]
     \/ p \in twice /\ warehouse[t] + inserts[p][t] > got[p].stock[t]

TablesInv ==
  \A p \in Proc : Writes(p) =>
    \A t \in Table :
      /\ Wanted(p, t) <=> Made(p, t) \/ t \in tables[p]
      /\ t \in tables[p] => inserts[p][t] = got[p].stock[t]
      /\ Made(p, t) => RowsFit(p, t)
      /\ inserts[p][t] > 0 => Wanted(p, t)
      /\ pc[p] # "tables" => t \notin tables[p] /\ inserts[p][t] = 0

\* Two restores never made the same table: CREATE TABLE fails for the second, and
\* what both made before a disaster is gone with both.
MadeOnce == \A p, q \in Proc : \A t \in Table : Made(p, t) /\ Made(q, t) => p = q

\* A view of the archive is there, or is tried in this round, or waits for the next.
ViewsInv ==
  \A p \in Proc :
    /\ pc[p] \in {"read", "check", "tables"} => pending[p] = {}
    /\ pc[p] \in {"tables", "views"} => pending[p] \cup views[p] \subseteq round[p]
    /\ Writes(p) => \A v \in View : Wanted(p, v) =>
         \/ pc[p] # "files" /\ v \in views[p]
         \/ pc[p] # "files" /\ v \in pending[p]
         \/ warehouse[v] # None

\* Only a restore that was asked for it goes through the SQL, and only files of its
\* archive are placed.
PlanInv ==
  \A p \in Proc : /\ pc[p] \in {"tables", "views"} => sql[p]
                  /\ places[p] \subseteq FilesOf(got[p].files)
                  /\ pc[p] \in {"read", "check"} => places[p] = {}

SqlInv == PausedInv /\ TablesInv /\ MadeOnce /\ ViewsInv /\ PlanInv

IInv == RecoveryInv /\ TakingInv /\ SqlInv

(***************************************************************************)
(* Types                                                                   *)
(***************************************************************************)
LEMMA FilesType ==
  ASSUME NEW files \in Files
  PROVE  Paused(files) \in Files /\ FilesOf(files) \subseteq File
BY DEF Files, File, Ledger, Paused, FilesOf

LEMMA FileType == ASSUME NEW files \in Files, NEW f \in File, NEW other \in Files
                  PROVE  [files EXCEPT ![f] = other[f]] \in Files
BY DEF Files, File

LEMMA BareType == Bare \in Archive /\ NoStock \in Stock /\ NoFiles \in Files
BY DEF Bare, Archive, Files, Stock, NoFiles, NoStock, Relation

LEMMA StockType ==
  ASSUME NEW stock \in Stock
  PROVE  /\ TablesOf(stock) \subseteq Table /\ ViewsOf(stock) \subseteq View
         /\ InsertsOf(stock) \in [Table -> Nat]
         /\ \A t \in Table : stock[t] \in Nat \cup {None}
         /\ \A v \in View : stock[v] \in {0, None}
BY DEF Stock, Relation, TablesOf, ViewsOf, InsertsOf

\* A table is created or filled, or a view is created.
LEMMA StockStep ==
  ASSUME NEW stock \in Stock, NEW r \in Relation, NEW n \in Nat, r \in View => n = 0
  PROVE  [stock EXCEPT ![r] = n] \in Stock
BY DEF Stock, Relation

LEMMA ArchiveType ==
  ASSUME NEW a \in Archive
  PROVE  /\ a.files \in Files /\ a.stock \in Stock /\ a.whole \in BOOLEAN
         /\ \A x \in Files : [a EXCEPT !.files = x] \in Archive
         /\ \A x \in Stock : [a EXCEPT !.stock = x] \in Archive
         /\ \A x \in BOOLEAN : [a EXCEPT !.whole = x] \in Archive
<1>1. a.files \in Files /\ a.stock \in Stock /\ a.whole \in BOOLEAN
  BY DEF Archive
<1>2. \A x \in Files : [a EXCEPT !.files = x] \in Archive
  BY DEF Archive
<1>3. \A x \in Stock : [a EXCEPT !.stock = x] \in Archive
  BY DEF Archive
<1>4. \A x \in BOOLEAN : [a EXCEPT !.whole = x] \in Archive
  BY DEF Archive
<1> QED
  BY <1>1, <1>2, <1>3, <1>4

LEMMA TypeInit == Init => TypeOK
<1> SUFFICES ASSUME Init PROVE TypeOK
  OBVIOUS
<1>1. live \in Files
  BY RecoveryAssumption DEF Init, Files, Ledger, Version
<1>2. warehouse \in Stock
  BY RecoveryAssumption DEF Init, Stock, Relation
<1>3. archive \in Archive \cup {None} /\ taking \in Archive /\ got \in [Proc -> Archive]
  BY BareType DEF Init
<1>8. listed \subseteq Relation
  BY DEF Init
<1>4. bpc \in {"idle", "ledger", "models", "catalog", "relations", "temporary", "publish"} /\ pc \in [Proc -> RestorePlace]
  BY DEF Init, RestorePlace
<1>7. /\ backups \in 0..MaxBackups
      /\ switched \in BOOLEAN /\ disasters \in 0..MaxDamage /\ twice \subseteq Proc
  <2>1. backups = 0 /\ switched = FALSE /\ disasters = 0 /\ twice = {}
    BY DEF Init
  <2>2. MaxBackups \in Nat /\ MaxDamage \in Nat
    BY RecoveryAssumption
  <2>3. backups \in 0..MaxBackups /\ disasters \in 0..MaxDamage
    BY <2>1, <2>2
  <2> QED
    BY <2>1, <2>3
<1>5. dry \in [Proc -> BOOLEAN] /\ sql \in [Proc -> BOOLEAN]
  <2>1. PICK given \in [Proc -> Options] :
          dry = [p \in Proc |-> given[p].dry] /\ sql = [p \in Proc |-> given[p].sql]
    BY DEF Init
  <2>2. \A p \in Proc : given[p].dry \in BOOLEAN /\ given[p].sql \in BOOLEAN
    BY RecoveryAssumption
  <2> QED
    BY <2>1, <2>2
<1>6. /\ tables \in [Proc -> SUBSET Table] /\ inserts \in [Proc -> [Table -> Nat]]
      /\ round \in [Proc -> SUBSET View] /\ views \in [Proc -> SUBSET View]
      /\ pending \in [Proc -> SUBSET View] /\ places \in [Proc -> SUBSET File]
  BY DEF Init
<1> QED
  BY <1>1, <1>2, <1>3, <1>4, <1>5, <1>6, <1>7, <1>8 DEF TypeOK

\* The server, the world and the backup.
LEMMA TypeBeside ==
  ASSUME TypeOK, \/ SaveRegistry \/ OpenLedger \/ SwitchOn \/ WriteTable \/ Disaster \/ Damage
                 \/ TakeRegistry \/ TakeLedger \/ TakeModels
                 \/ ListCatalog \/ TakeRelation \/ CatalogTaken \/ WriteTemporary
                 \/ Publish \/ BackupFails
  PROVE  TypeOK'
<1> USE RecoveryAssumption
<1>a. /\ \A x \in Version : [live EXCEPT !["registry"] = x] \in Files
      /\ \A x \in Ledger : [live EXCEPT !["ledger"] = x] \in Files
  BY DEF TypeOK, Files
<1>b. \A f \in File : [taking EXCEPT !.files[f] = live[f]] \in Archive
  <2> SUFFICES ASSUME NEW f \in File PROVE [taking EXCEPT !.files[f] = live[f]] \in Archive
    OBVIOUS
  <2>1. [taking.files EXCEPT ![f] = live[f]] \in Files
    BY FileType, ArchiveType DEF TypeOK
  <2>2. [taking EXCEPT !.files[f] = live[f]] = [taking EXCEPT !.files = [taking.files EXCEPT ![f] = live[f]]]
    OBVIOUS
  <2> QED
    BY <2>1, <2>2, ArchiveType DEF TypeOK
<1>1. CASE SaveRegistry
  <2>1. live' \in Files
    BY <1>1, <1>a DEF SaveRegistry
  <2> QED
    BY <1>1, <2>1 DEF TypeOK, SaveRegistry, backing, restoring, plan, history
<1>2. CASE OpenLedger
  <2>1. [from |-> "here", on |-> FALSE] \in Ledger
    BY DEF Ledger
  <2> QED
    BY <1>2, <2>1, <1>a DEF TypeOK, OpenLedger, backing, restoring, plan, history
<1>3. CASE SwitchOn
  <2>1. live["ledger"] \in Ledger
    BY <1>3 DEF SwitchOn, TypeOK, Files
  <2>2. [live["ledger"] EXCEPT !.on = TRUE] \in Ledger
    BY <2>1 DEF Ledger
  <2>3. live' = [live EXCEPT !["ledger"] = [live["ledger"] EXCEPT !.on = TRUE]]
    BY <1>3 DEF SwitchOn
  <2>4. live' \in Files
    BY <2>2, <2>3, <1>a
  <2> QED
    BY <1>3, <2>4 DEF TypeOK, SwitchOn, backing, restoring, plan, history
<1>4. CASE Disaster
  <2>1. pc' \in [Proc -> RestorePlace]
    BY <1>4 DEF Disaster, TypeOK, RestorePlace
  <2>2. disasters' \in 0..MaxDamage
    BY <1>4 DEF Disaster, TypeOK
  <2> QED
    BY <1>4, <2>1, <2>2, BareType DEF TypeOK, Disaster, plan
<1>5. CASE Damage
  <2>1. archive' \in Archive
    BY <1>5, ArchiveType DEF Damage, TypeOK
  <2> QED
    BY <1>5, <2>1 DEF TypeOK, Damage, restoring, plan, history
<1>6. CASE TakeRegistry
  <2>1. taking' \in Archive
    <3>1. [NoFiles EXCEPT !["registry"] = live["registry"]] \in Files
      BY FileType, BareType DEF TypeOK, File
    <3>2. taking' = [Bare EXCEPT !.files = [NoFiles EXCEPT !["registry"] = live["registry"]]]
      BY <1>6 DEF TakeRegistry, Bare
    <3> QED
      BY <3>1, <3>2, ArchiveType, BareType
  <2>2. backups' \in 0..MaxBackups
    BY <1>6 DEF TakeRegistry, TypeOK
  <2> QED
    BY <1>6, <2>1, <2>2 DEF TypeOK, TakeRegistry, restoring, plan, history
<1>7. CASE TakeLedger
  BY <1>7, <1>b DEF TypeOK, TakeLedger, Collects, File, restoring, plan, history
<1>8. CASE TakeModels
  BY <1>8, <1>b DEF TypeOK, TakeModels, Collects, File, restoring, plan, history
<1>9. CASE TakeRelation
  <2>1. PICK r \in listed : /\ warehouse[r] # None
                            /\ taking' = [taking EXCEPT !.stock[r] = warehouse[r]]
                            /\ listed' = listed \ {r}
    BY <1>9 DEF TakeRelation
  <2>2. r \in Relation /\ warehouse[r] \in Nat /\ (r \in View => warehouse[r] = 0)
    BY <2>1 DEF TypeOK, Stock
  <2>3. [taking.stock EXCEPT ![r] = warehouse[r]] \in Stock
    BY <2>2, ArchiveType, StockStep DEF TypeOK
  <2>4. taking' = [taking EXCEPT !.stock = [taking.stock EXCEPT ![r] = warehouse[r]]]
    BY <2>1
  <2>5. taking' \in Archive
    BY <2>3, <2>4, ArchiveType DEF TypeOK
  <2>6. listed' \subseteq Relation
    BY <2>1 DEF TypeOK
  <2> QED
    BY <1>9, <2>5, <2>6 DEF TypeOK, TakeRelation, restoring, plan, history
<1>13. CASE ListCatalog
  BY <1>13 DEF TypeOK, ListCatalog, restoring, plan, history
<1>14. CASE CatalogTaken
  BY <1>14 DEF TypeOK, CatalogTaken, restoring, plan, history
<1>15. CASE WriteTable
  <2>a. PICK t \in Table : \E n \in 0..Chunks[t] : warehouse' = [warehouse EXCEPT ![t] = n]
    BY <1>15 DEF WriteTable
  <2>1. PICK n \in 0..Chunks[t] : warehouse' = [warehouse EXCEPT ![t] = n]
    BY <2>a
  <2>2. n \in Nat /\ t \in Relation /\ t \notin View
    BY <2>1 DEF Relation
  <2>3. warehouse' \in Stock
    BY <2>1, <2>2, StockStep DEF TypeOK
  <2> QED
    BY <1>15, <2>3 DEF TypeOK, WriteTable, backing, restoring, plan, history
<1>10. CASE WriteTemporary
  BY <1>10 DEF TypeOK, WriteTemporary, restoring, plan, history
<1>11. CASE Publish
  BY <1>11, BareType DEF TypeOK, Publish, restoring, plan, history
<1>12. CASE BackupFails
  BY <1>12, BareType DEF TypeOK, BackupFails, restoring, plan, history
<1> QED
  BY <1>1, <1>2, <1>3, <1>4, <1>5, <1>6, <1>7, <1>8, <1>9, <1>10, <1>11, <1>12,
     <1>13, <1>14, <1>15

\* A restore goes to a place of a restore.
LEMMA GoesType ==
  ASSUME TypeOK, NEW p \in Proc, NEW place \in RestorePlace, Goes(p, place)
  PROVE  pc' \in [Proc -> RestorePlace]
BY DEF TypeOK, Goes

LEMMA TypeRestore ==
  ASSUME TypeOK, NEW p \in Proc, Read(p) \/ RestoreStep(p) \/ RestoreDies(p)
  PROVE  TypeOK'
<1> USE RecoveryAssumption
<1>a. \A place \in RestorePlace : Goes(p, place) => pc' \in [Proc -> RestorePlace]
  BY GoesType
<1>b. Fails(p) => pc' \in [Proc -> RestorePlace] /\ UNCHANGED plan
  BY <1>a DEF Fails, RestorePlace
<1>1. CASE Read(p)
  <2>1. pc' \in [Proc -> RestorePlace]
    BY <1>1, <1>a DEF Read, RestorePlace
  <2>2. archive \in Archive
    BY <1>1 DEF Read, TypeOK
  <2>3. [archive EXCEPT !.files = Paused(@)] \in Archive
    <3>1. [archive EXCEPT !.files = Paused(@)] = [archive EXCEPT !.files = Paused(archive.files)]
      OBVIOUS
    <3> QED
      BY <2>2, <3>1, ArchiveType, FilesType
  <2>4. got' \in [Proc -> Archive]
    BY <1>1, <2>3 DEF Read, TypeOK
  <2> QED
    BY <1>1, <2>1, <2>4 DEF TypeOK, Read, backing, plan, history
<1>2. CASE Check(p)
  <2>1. pc' \in [Proc -> RestorePlace]
    BY <1>2, <1>a, <1>b DEF Check, RestorePlace
  <2>2. CASE UNCHANGED plan
    BY <1>2, <2>1, <2>2 DEF TypeOK, Check, plan, backing, history
  <2>3. CASE /\ tables' = [tables EXCEPT ![p] = TablesOf(got[p].stock)]
             /\ inserts' = [inserts EXCEPT ![p] = InsertsOf(got[p].stock)]
             /\ round' = [round EXCEPT ![p] = ViewsOf(got[p].stock)] /\ views' = [views EXCEPT ![p] = round'[p]]
             /\ places' = [places EXCEPT ![p] = FilesOf(got[p].files)]
             /\ UNCHANGED pending
    <3>1. got[p].stock \in Stock /\ got[p].files \in Files
      BY ArchiveType DEF TypeOK
    <3>2. /\ tables' \in [Proc -> SUBSET Table] /\ inserts' \in [Proc -> [Table -> Nat]]
          /\ round' \in [Proc -> SUBSET View] /\ places' \in [Proc -> SUBSET File]
      BY <2>3, <3>1, StockType, FilesType DEF TypeOK
    <3>3. views' \in [Proc -> SUBSET View] /\ pending' \in [Proc -> SUBSET View]
      BY <2>3, <3>2 DEF TypeOK
    <3> QED
      BY <1>2, <2>1, <3>2, <3>3 DEF TypeOK, Check, backing, history
  <2> QED
    BY <1>2, <2>2, <2>3 DEF Check, Fails
<1>3. ASSUME NEW t \in Table, CreateTable(p, t)
      PROVE  TypeOK'
  <2>1. pc' \in [Proc -> RestorePlace]
    BY <1>3, <1>a DEF CreateTable, Proceeds, RestorePlace, TypeOK
  <2>2. warehouse' \in Stock
    BY <1>3, StockStep DEF CreateTable, TypeOK, Relation
  <2>3. tables' \in [Proc -> SUBSET Table]
    BY <1>3 DEF CreateTable, TypeOK
  <2> QED
    BY <1>3, <2>1, <2>2, <2>3 DEF TypeOK, CreateTable, backing, history
<1>4. ASSUME NEW t \in Table, InsertChunk(p, t)
      PROVE  TypeOK'
  <2>1. pc' \in [Proc -> RestorePlace]
    BY <1>4, <1>a DEF InsertChunk, Proceeds, RestorePlace, TypeOK
  <2>2. warehouse' \in Stock
    <3>1. PICK n \in {1, 2} : warehouse' = [warehouse EXCEPT ![t] = @ + n]
      BY <1>4 DEF InsertChunk
    <3>2. warehouse[t] \in Nat
      BY <1>4, StockType DEF InsertChunk, TypeOK
    <3>3. warehouse[t] + n \in Nat /\ t \in Relation /\ t \notin View
      BY <3>2 DEF Relation
    <3> QED
      BY <3>1, <3>3, StockStep DEF TypeOK
  <2>3. inserts' \in [Proc -> [Table -> Nat]] /\ twice' \subseteq Proc
    <3>1. inserts[p][t] - 1 \in Nat
      BY <1>4 DEF InsertChunk, TypeOK
    <3>2. inserts' \in [Proc -> [Table -> Nat]]
      BY <1>4, <3>1 DEF InsertChunk, TypeOK
    <3> QED
      BY <1>4, <3>2 DEF InsertChunk, TypeOK
  <2> QED
    BY <1>4, <2>1, <2>2, <2>3 DEF TypeOK, InsertChunk, backing
<1>5. CASE TablesFail(p)
  BY <1>5, <1>b DEF TypeOK, TablesFail, plan, backing, history
<1>6. CASE TablesDone(p)
  BY <1>6, <1>a DEF TypeOK, TablesDone, RestorePlace, plan, backing, history
<1>7. ASSUME NEW v \in View, TryView(p, v)
      PROVE  TypeOK'
  <2>1. warehouse' \in Stock
    BY <1>7, StockStep DEF TryView, TypeOK, Relation
  <2>a. /\ views \in [Proc -> SUBSET View] /\ pending \in [Proc -> SUBSET View]
        /\ views' = [views EXCEPT ![p] = @ \ {v}]
        /\ pending' = pending \/ pending' = [pending EXCEPT ![p] = @ \cup {v}]
    BY <1>7 DEF TryView, TypeOK
  <2>2. views' \in [Proc -> SUBSET View]
    BY <2>a
  <2>3. pending' \in [Proc -> SUBSET View]
    BY <2>a
  <2> HIDE <2>a
  <2> QED
    BY <1>7, <2>1, <2>2, <2>3 DEF TypeOK, TryView, backing, history
<1>8. CASE RoundEnds(p)
  <2>1. pc' \in [Proc -> RestorePlace]
    BY <1>8, <1>a, <1>b DEF RoundEnds, ToFiles, NextRound, RestorePlace, TypeOK
  <2>2. CASE UNCHANGED plan
    BY <1>8, <2>1, <2>2 DEF TypeOK, RoundEnds, plan, backing, history
  <2>3. CASE NextRound(p)
    BY <1>8, <2>1, <2>3 DEF TypeOK, RoundEnds, NextRound, backing, history
  <2> QED
    BY <1>8, <2>2, <2>3 DEF RoundEnds, ToFiles, Fails
<1>9. ASSUME NEW f \in File, PlaceFile(p, f)
      PROVE  TypeOK'
  <2>1. live' \in Files
    BY <1>9, FileType, ArchiveType DEF PlaceFile, Places, TypeOK
  <2>2. places' \in [Proc -> SUBSET File] /\ switched' \in BOOLEAN
    BY <1>9 DEF PlaceFile, TypeOK
  <2> QED
    BY <1>9, <2>1, <2>2 DEF TypeOK, PlaceFile, backing
<1>10. CASE FilesFail(p)
  BY <1>10, <1>b DEF TypeOK, FilesFail, plan, backing, history
<1>11. CASE FilesDone(p)
  BY <1>11, <1>a DEF TypeOK, FilesDone, RestorePlace, plan, backing, history
<1>12. CASE RestoreDies(p)
  BY <1>12, <1>a DEF TypeOK, RestoreDies, RestorePlace, plan, backing, history
<1> QED
  BY <1>1, <1>2, <1>3, <1>4, <1>5, <1>6, <1>7, <1>8, <1>9, <1>10, <1>11, <1>12 DEF RestoreStep

LEMMA TypeNext ==
  ASSUME TypeOK, [Next]_vars
  PROVE  TypeOK'
<1>1. CASE Next
  BY <1>1, TypeBeside, TypeRestore DEF Next
<1>2. CASE UNCHANGED vars
  BY <1>2 DEF TypeOK, vars, backing, restoring, plan, history
<1> QED
  BY <1>1, <1>2

(***************************************************************************)
(* What restores have made, and have still to do                           *)
(***************************************************************************)
LEMMA SqlInit == Init => SqlInv
BY DEF Init, SqlInv, PausedInv, TablesInv, MadeOnce, Made, ViewsInv, PlanInv, Writes, Bare, NoFiles

LEMMA SqlBeside ==
  ASSUME SqlInv, UNCHANGED <<warehouse, restoring, twice>>
  PROVE  SqlInv'
<1> USE DEF restoring, plan, Writes, Wanted, Made
<1>1. PausedInv' /\ PlanInv'
  BY DEF SqlInv, PausedInv, PlanInv
<1>2. TablesInv'
  BY DEF SqlInv, TablesInv, RowsFit
<1>3. MadeOnce' /\ ViewsInv'
  BY DEF SqlInv, MadeOnce, ViewsInv
<1> QED
  BY <1>1, <1>2, <1>3 DEF SqlInv

\* No restore survives the loss of the machine.
LEMMA SqlDisaster ==
  ASSUME TypeOK, SqlInv, Disaster
  PROVE  SqlInv'
<1>1. \A p \in Proc : /\ pc'[p] \in {"read", "done", "failed", "crashed"}
                      /\ pc'[p] = "read" => pc[p] = "read"
  BY DEF Disaster, Running, TypeOK, RestorePlace
<1>2. \A p \in Proc : ~Writes(p)'
  BY <1>1 DEF Writes
<1>3. UNCHANGED <<sql, got, tables, inserts, round, views, pending, places>>
  BY DEF Disaster, plan
<1>4. PausedInv' /\ PlanInv'
  BY <1>1, <1>3 DEF SqlInv, PausedInv, PlanInv
<1>5. TablesInv' /\ MadeOnce' /\ ViewsInv'
  BY <1>1, <1>2, <1>3 DEF SqlInv, TablesInv, MadeOnce, Made, ViewsInv
<1> QED
  BY <1>4, <1>5 DEF SqlInv

\* A restore ends, in whatever way.
LEMMA SqlEnds ==
  ASSUME TypeOK, SqlInv, NEW p \in Proc, NEW place \in {"done", "failed", "crashed"}, Goes(p, place),
         UNCHANGED <<warehouse, sql, got, plan, twice>>
  PROVE  SqlInv'
<1>1. \A q \in Proc : pc'[q] = IF q = p THEN place ELSE pc[q]
  BY DEF Goes, TypeOK
<1>2. UNCHANGED <<tables, inserts, round, views, pending, places>>
  BY DEF plan
<1>3. \A q \in Proc : Writes(q)' => Writes(q) /\ pc'[q] = pc[q]
  BY <1>1 DEF Writes
<1>4. PausedInv' /\ PlanInv'
  BY <1>1, <1>2 DEF SqlInv, PausedInv, PlanInv
<1>5. TablesInv'
  BY <1>2, <1>3 DEF SqlInv, TablesInv, Made, Wanted, RowsFit
<1>6. MadeOnce'
  BY <1>2, <1>3 DEF SqlInv, MadeOnce, Made, Wanted
<1>7. ViewsInv'
  BY <1>1, <1>2, <1>3 DEF SqlInv, ViewsInv, Wanted
<1> QED
  BY <1>4, <1>5, <1>6, <1>7 DEF SqlInv

LEMMA SqlRead ==
  ASSUME TypeOK, SqlInv, NEW p \in Proc, Read(p)
  PROVE  SqlInv'
<1>1. CASE Goes(p, "failed") /\ UNCHANGED got
  BY <1>1, SqlEnds DEF Read, history
<1>2. CASE /\ archive.whole /\ Goes(p, "check")
           /\ got' = [got EXCEPT ![p] = [archive EXCEPT !.files = Paused(@)]]
  <2>1. /\ \A q \in Proc : pc'[q] = IF q = p THEN "check" ELSE pc[q]
        /\ pc[p] = "read" /\ archive \in Archive
    BY <1>2 DEF Goes, TypeOK, Read
  <2>2. UNCHANGED <<warehouse, sql, twice, tables, inserts, round, views, pending, places>>
    BY DEF Read, plan, history
  <2>3. \A q \in Proc : q # p => got'[q] = got[q]
    BY <1>2 DEF TypeOK
  <2>4. got'[p].files = Paused(archive.files)
    BY <1>2, <2>1 DEF TypeOK, Archive
  <2>5. LET ledger == got'[p].files["ledger"] IN ledger # None => ledger.on = FALSE
    <3>1. archive.files \in Files
      BY <2>1, ArchiveType
    <3> QED
      BY <2>4, <3>1 DEF Paused, Files
  <2>6. PausedInv'
    BY <2>3, <2>5 DEF SqlInv, PausedInv
  <2>7. PlanInv'
    BY <2>1, <2>2, <2>3 DEF SqlInv, PlanInv
  <2>8. \A q \in Proc : Writes(q)' => q # p /\ Writes(q) /\ got'[q] = got[q] /\ pc'[q] = pc[q]
    BY <2>1, <2>2, <2>3 DEF Writes
  <2>9. TablesInv'
    BY <2>2, <2>8 DEF SqlInv, TablesInv, Made, Wanted, RowsFit
  <2>10. MadeOnce'
    BY <2>2, <2>8 DEF SqlInv, MadeOnce, Made, Wanted
  <2>11. ViewsInv'
    BY <2>1, <2>2, <2>8 DEF SqlInv, ViewsInv, Wanted
  <2> QED
    BY <2>6, <2>7, <2>9, <2>10, <2>11 DEF SqlInv
<1> QED
  BY <1>1, <1>2 DEF Read

\* A plan is made: all tables, INSERTs, views and files of the archive are to do.
LEMMA SqlCheck ==
  ASSUME TypeOK, SqlInv, NEW p \in Proc, Check(p)
  PROVE  SqlInv'
<1>1. CASE Fails(p)
  BY <1>1, SqlEnds DEF Check, Fails, history
<1>2. CASE Goes(p, "done") /\ UNCHANGED plan
  BY <1>2, SqlEnds DEF Check, history
<1>3. CASE /\ Goes(p, IF sql[p] THEN "tables" ELSE "files")
           /\ tables' = [tables EXCEPT ![p] = TablesOf(got[p].stock)]
           /\ inserts' = [inserts EXCEPT ![p] = InsertsOf(got[p].stock)]
           /\ round' = [round EXCEPT ![p] = ViewsOf(got[p].stock)] /\ views' = [views EXCEPT ![p] = round'[p]]
           /\ places' = [places EXCEPT ![p] = FilesOf(got[p].files)]
           /\ UNCHANGED pending
  <2>1. /\ \A q \in Proc : pc'[q] = IF q # p THEN pc[q] ELSE IF sql[p] THEN "tables" ELSE "files"
        /\ pc[p] = "check" /\ UNCHANGED <<warehouse, sql, got, twice, pending>>
    BY <1>3 DEF Goes, TypeOK, Check, history
  <2>2. /\ tables'[p] = TablesOf(got[p].stock) /\ inserts'[p] = InsertsOf(got[p].stock)
        /\ views'[p] = ViewsOf(got[p].stock) /\ round'[p] = views'[p] /\ pending[p] = {} /\ places'[p] = FilesOf(got[p].files)
    BY <1>3, <2>1 DEF TypeOK, SqlInv, ViewsInv
  <2>3. \A q \in Proc : q # p => /\ tables'[q] = tables[q] /\ inserts'[q] = inserts[q] /\ round'[q] = round[q]
                                 /\ views'[q] = views[q] /\ places'[q] = places[q]
    BY <1>3 DEF TypeOK
  <2>4. \A q \in Proc : q # p => (Writes(q)' <=> Writes(q)) /\ pc'[q] = pc[q]
    BY <2>1 DEF Writes
  <2>5. \A t \in Table : /\ t \in tables'[p] <=> Wanted(p, t)'
                         /\ t \in tables'[p] => inserts'[p][t] = got'[p].stock[t]
                         /\ inserts'[p][t] > 0 => Wanted(p, t)'
                         /\ ~Made(p, t)'
    BY <2>1, <2>2 DEF TablesOf, InsertsOf, Wanted, Made
  <2>6. Writes(p)' => pc'[p] = "tables"
    BY <2>1 DEF Writes
  <2>7. PausedInv' /\ PlanInv'
    BY <2>1, <2>2, <2>3 DEF SqlInv, PausedInv, PlanInv
  <2>8. TablesInv'
    <3> SUFFICES ASSUME NEW q \in Proc, Writes(q)', NEW t \in Table
                 PROVE  /\ Wanted(q, t)' <=> Made(q, t)' \/ t \in tables'[q]
                        /\ t \in tables'[q] => inserts'[q][t] = got'[q].stock[t]
                        /\ Made(q, t)' => RowsFit(q, t)'
                        /\ inserts'[q][t] > 0 => Wanted(q, t)'
                        /\ pc'[q] # "tables" => t \notin tables'[q] /\ inserts'[q][t] = 0
      BY DEF TablesInv
    <3>1. CASE q = p
      BY <3>1, <2>5, <2>6
    <3>2. CASE q # p
      BY <3>2, <2>1, <2>3, <2>4 DEF SqlInv, TablesInv, Made, Wanted, RowsFit
    <3> QED
      BY <3>1, <3>2
  <2>9. MadeOnce'
    BY <2>1, <2>3, <2>4, <2>5 DEF SqlInv, MadeOnce, Made, Wanted
  <2>10. \A v \in View : Wanted(p, v)' => v \in views'[p]
    BY <2>1, <2>2 DEF Wanted, ViewsOf
  <2>11. ViewsInv'
    <3> SUFFICES ASSUME NEW q \in Proc
                 PROVE  /\ pc'[q] \in {"read", "check", "tables"} => pending'[q] = {}
                        /\ pc'[q] \in {"tables", "views"} => pending'[q] \cup views'[q] \subseteq round'[q]
                        /\ Writes(q)' => \A v \in View : Wanted(q, v)' =>
                             \/ pc'[q] # "files" /\ v \in views'[q]
                             \/ pc'[q] # "files" /\ v \in pending'[q]
                             \/ warehouse'[v] # None
      BY DEF ViewsInv
    <3>1. CASE q = p
      <4>1. pending'[p] = {} /\ round'[p] = views'[p]
        BY <2>1, <2>2
      <4> QED
        BY <3>1, <4>1, <2>6, <2>10
    <3>2. CASE q # p
      BY <3>2, <2>1, <2>3, <2>4 DEF SqlInv, ViewsInv, Wanted
    <3> QED
      BY <3>1, <3>2
  <2> QED
    BY <2>7, <2>8, <2>9, <2>11 DEF SqlInv
<1> QED
  BY <1>1, <1>2, <1>3 DEF Check

\* A table that one restore creates was not there, so that no other has made it.
LEMMA SqlCreate ==
  ASSUME TypeOK, SqlInv, NEW p \in Proc, NEW t \in Table, CreateTable(p, t)
  PROVE  SqlInv'
<1> USE RecoveryAssumption
<1>1. /\ pc[p] = "tables" /\ t \in tables[p] /\ warehouse[t] = None
      /\ \A r \in Relation : warehouse'[r] = IF r = t THEN 0 ELSE warehouse[r]
      /\ \A q \in Proc : tables'[q] = IF q = p THEN tables[p] \ {t} ELSE tables[q]
      /\ \A q \in Proc : pc'[q] = pc[q] \/ (q = p /\ pc'[q] = "failed")
      /\ UNCHANGED <<sql, got, inserts, round, views, pending, places, twice>>
  <2>1. pc[p] = "tables" /\ t \in tables[p] /\ warehouse[t] = None
    BY DEF CreateTable
  <2>2. \A r \in Relation : warehouse'[r] = IF r = t THEN 0 ELSE warehouse[r]
    BY DEF CreateTable, TypeOK, Stock
  <2>3. \A q \in Proc : tables'[q] = IF q = p THEN tables[p] \ {t} ELSE tables[q]
    BY DEF CreateTable, TypeOK
  <2>4. \A q \in Proc : pc'[q] = pc[q] \/ (q = p /\ pc'[q] = "failed")
    <3>1. UNCHANGED pc \/ pc' = [pc EXCEPT ![p] = "failed"]
      BY DEF CreateTable, Proceeds, Goes
    <3> QED
      BY <3>1 DEF TypeOK
  <2>5. UNCHANGED <<sql, got, inserts, round, views, pending, places, twice>>
    BY DEF CreateTable, history
  <2> QED
    BY <2>1, <2>2, <2>3, <2>4, <2>5
<1>2. \A q \in Proc : Writes(q)' => Writes(q) /\ pc'[q] = pc[q]
  BY <1>1 DEF Writes
<1>3. PausedInv' /\ PlanInv'
  BY <1>1 DEF SqlInv, PausedInv, PlanInv
<1>4. \A q \in Proc : Writes(q) => ~Made(q, t)
  BY <1>1 DEF SqlInv, TablesInv, RowsFit
<1>5. inserts[p][t] = got[p].stock[t] /\ inserts[p][t] \in Nat /\ Writes(p)
  BY <1>1 DEF SqlInv, TablesInv, PlanInv, TypeOK, Writes
<1>6. TablesInv'
  <2> SUFFICES ASSUME NEW q \in Proc, Writes(q)', NEW u \in Table
               PROVE  /\ Wanted(q, u)' <=> Made(q, u)' \/ u \in tables'[q]
                      /\ u \in tables'[q] => inserts'[q][u] = got'[q].stock[u]
                      /\ Made(q, u)' => RowsFit(q, u)'
                      /\ inserts'[q][u] > 0 => Wanted(q, u)'
                      /\ pc'[q] # "tables" => u \notin tables'[q] /\ inserts'[q][u] = 0
    BY DEF TablesInv
  <2>1. Writes(q) /\ pc'[q] = pc[q]
    BY <1>2
  <2>2. CASE u # t
    <3>1. warehouse'[u] = warehouse[u] /\ (u \in tables'[q] <=> u \in tables[q])
      BY <1>1, <2>2 DEF Relation
    <3> QED
      BY <1>1, <2>1, <3>1 DEF SqlInv, TablesInv, Made, Wanted, RowsFit
  <2>3. CASE u = t /\ q # p
    <3>1. ~Made(q, t)' /\ (t \in tables'[q] <=> t \in tables[q])
      BY <1>1, <1>4, <2>1, <2>3 DEF Made, Wanted
    <3> QED
      BY <1>1, <2>1, <2>3, <3>1, <1>4 DEF SqlInv, TablesInv, Wanted
  <2>4. CASE u = t /\ q = p
    <3>1. warehouse'[t] = 0 /\ t \notin tables'[p] /\ Wanted(p, t) /\ pc'[p] = "tables"
      BY <1>1, <1>5, <2>1, <2>4 DEF Relation, SqlInv, TablesInv
    <3>2. RowsFit(p, t)'
      BY <1>1, <1>5, <3>1 DEF RowsFit
    <3> QED
      BY <1>1, <2>4, <3>1, <3>2, <2>1 DEF Made, Wanted
  <2> QED
    BY <2>2, <2>3, <2>4
<1>7. MadeOnce'
  <2> SUFFICES ASSUME NEW q1 \in Proc, NEW q2 \in Proc, NEW u \in Table, Made(q1, u)', Made(q2, u)'
               PROVE  q1 = q2
    BY DEF MadeOnce
  <2>1. ASSUME NEW q \in Proc, Made(q, u)' PROVE Writes(q) /\ (Made(q, u) \/ (q = p /\ u = t))
    <3>1. Writes(q) /\ got'[q] = got[q] /\ u \notin tables'[q]
      BY <1>1, <1>2, <2>1 DEF Made
    <3>2. u \notin tables[q] \/ (q = p /\ u = t)
      <4>1. tables'[q] = IF q = p THEN tables[p] \ {t} ELSE tables[q]
        BY <1>1
      <4> QED
        BY <3>1, <4>1
    <3> QED
      BY <2>1, <3>1, <3>2 DEF Made, Wanted
  <2> QED
    BY <2>1, <1>4 DEF SqlInv, MadeOnce
<1>8. ViewsInv'
  <2>1. \A v \in View : warehouse'[v] = warehouse[v]
    BY <1>1 DEF Relation
  <2> QED
    BY <1>1, <1>2, <2>1 DEF SqlInv, ViewsInv, Wanted
<1> QED
  BY <1>3, <1>6, <1>7, <1>8 DEF SqlInv

\* A restore inserts into the tables that it has made, of which others have made none.
LEMMA SqlInsert ==
  ASSUME TypeOK, SqlInv, NEW p \in Proc, NEW t \in Table, InsertChunk(p, t)
  PROVE  SqlInv'
<1> USE RecoveryAssumption
<1>1. PICK n \in {1, 2} : /\ warehouse' = [warehouse EXCEPT ![t] = @ + n]
                           /\ twice' = IF n = 2 THEN twice \cup {p} ELSE twice
  BY DEF InsertChunk
<1>2. /\ pc[p] = "tables" /\ tables[p] = {} /\ inserts[p][t] > 0 /\ warehouse[t] \in Nat
      /\ warehouse'[t] = warehouse[t] + n
      /\ \A r \in Relation : r # t => warehouse'[r] = warehouse[r]
      /\ \A q \in Proc : pc'[q] = pc[q] \/ (q = p /\ pc'[q] = "failed")
      /\ UNCHANGED <<sql, got, tables, round, views, pending, places>>
  <2>1. pc[p] = "tables" /\ tables[p] = {} /\ inserts[p][t] > 0 /\ warehouse[t] # None
    BY DEF InsertChunk
  <2>2. warehouse[t] \in Nat
    BY <2>1, StockType DEF TypeOK
  <2>3. warehouse'[t] = warehouse[t] + n /\ \A r \in Relation : r # t => warehouse'[r] = warehouse[r]
    BY <1>1 DEF TypeOK, Stock, Relation
  <2>4. \A q \in Proc : pc'[q] = pc[q] \/ (q = p /\ pc'[q] = "failed")
    <3>1. UNCHANGED pc \/ pc' = [pc EXCEPT ![p] = "failed"]
      BY DEF InsertChunk, Proceeds, Goes
    <3> QED
      BY <3>1 DEF TypeOK
  <2>5. UNCHANGED <<sql, got, tables, round, views, pending, places>>
    BY DEF InsertChunk
  <2> QED
    BY <2>1, <2>2, <2>3, <2>4, <2>5
<1>3. /\ inserts'[p][t] = inserts[p][t] - 1 /\ inserts[p][t] \in Nat
      /\ \A q \in Proc : \A u \in Table : q # p \/ u # t => inserts'[q][u] = inserts[q][u]
  BY DEF InsertChunk, TypeOK
<1>4. \A q \in Proc : Writes(q)' => Writes(q) /\ pc'[q] = pc[q]
  BY <1>2 DEF Writes
<1>5. Made(p, t)
  BY <1>2 DEF SqlInv, TablesInv, PlanInv, Writes, Made
<1>6. PausedInv' /\ PlanInv'
  BY <1>2 DEF SqlInv, PausedInv, PlanInv
<1>7. \A q \in Proc : \A u \in Table : Made(q, u)' => Made(q, u)
  BY <1>2, <1>4 DEF Made, Wanted
<1>8. twice \subseteq twice' /\ (n = 2 => p \in twice')
  BY <1>1
<1>9. TablesInv'
  <2> SUFFICES ASSUME NEW q \in Proc, Writes(q)', NEW u \in Table
               PROVE  /\ Wanted(q, u)' <=> Made(q, u)' \/ u \in tables'[q]
                      /\ u \in tables'[q] => inserts'[q][u] = got'[q].stock[u]
                      /\ Made(q, u)' => RowsFit(q, u)'
                      /\ inserts'[q][u] > 0 => Wanted(q, u)'
                      /\ pc'[q] # "tables" => u \notin tables'[q] /\ inserts'[q][u] = 0
    BY DEF TablesInv
  <2>1. Writes(q) /\ pc'[q] = pc[q]
    BY <1>4
  <2>2. CASE u # t
    <3>1. warehouse'[u] = warehouse[u] /\ inserts'[q][u] = inserts[q][u]
      BY <1>2, <1>3, <2>2 DEF Relation
    <3> QED
      BY <1>2, <1>8, <2>1, <3>1 DEF SqlInv, TablesInv, Made, Wanted, RowsFit
  <2>3. CASE u = t /\ q # p
    <3>1. ~Made(q, t)' /\ inserts'[q][t] = inserts[q][t]
      BY <1>3, <1>5, <1>7, <2>3 DEF SqlInv, MadeOnce
    <3>2. ~Made(q, t)
      BY <1>5, <2>3 DEF SqlInv, MadeOnce
    <3> QED
      BY <1>2, <2>1, <2>3, <3>1, <3>2 DEF SqlInv, TablesInv, Wanted
  <2>4. CASE u = t /\ q = p
    <3>1. RowsFit(p, t) /\ Wanted(p, t) /\ got[p].stock[t] \in Nat
      <4>1. RowsFit(p, t) /\ Wanted(p, t)
        BY <1>5, <2>1, <2>4 DEF SqlInv, TablesInv, Made
      <4>2. got[p].stock \in Stock
        BY ArchiveType DEF TypeOK
      <4> QED
        BY <4>1, <4>2, StockType DEF Wanted
    <3>2. RowsFit(p, t)'
      <4>1. warehouse'[t] + inserts'[p][t] = warehouse[t] + inserts[p][t] + (n - 1)
        BY <1>2, <1>3
      <4>2. warehouse'[t] \in Nat
        BY <1>2
      <4>3. CASE n = 1
        BY <1>2, <1>3, <1>8, <3>1, <4>1, <4>2, <4>3 DEF RowsFit
      <4>4. CASE n = 2
        BY <1>2, <1>3, <1>8, <3>1, <4>1, <4>2, <4>4 DEF RowsFit
      <4> QED
        BY <4>3, <4>4
    <3>3. Made(p, t)' /\ Wanted(p, t)' /\ t \notin tables'[p] /\ pc'[p] = "tables"
      BY <1>2, <1>5, <2>1, <2>4 DEF Made, Wanted
    <3> QED
      BY <2>4, <3>2, <3>3
  <2> QED
    BY <2>2, <2>3, <2>4
<1>10. MadeOnce'
  BY <1>7 DEF SqlInv, MadeOnce
<1>11. ViewsInv'
  <2>1. \A v \in View : warehouse'[v] = warehouse[v]
    BY <1>2 DEF Relation
  <2> QED
    BY <1>2, <1>4, <2>1 DEF SqlInv, ViewsInv, Wanted
<1> QED
  BY <1>6, <1>9, <1>10, <1>11 DEF SqlInv

LEMMA SqlTablesDone ==
  ASSUME TypeOK, SqlInv, NEW p \in Proc, TablesDone(p)
  PROVE  SqlInv'
<1>1. /\ pc[p] = "tables" /\ \A q \in Proc : pc'[q] = IF q = p THEN "views" ELSE pc[q]
      /\ tables[p] = {} /\ \A t \in Table : inserts[p][t] = 0
      /\ UNCHANGED <<warehouse, sql, got, tables, inserts, round, views, pending, places, twice>>
  BY DEF TablesDone, Filled, Goes, TypeOK, plan, history
<1>2. \A q \in Proc : Writes(q)' <=> Writes(q)
  BY <1>1 DEF Writes
<1>3. PausedInv' /\ PlanInv'
  BY <1>1 DEF SqlInv, PausedInv, PlanInv
<1>4. TablesInv'
  BY <1>1, <1>2 DEF SqlInv, TablesInv, Made, Wanted, RowsFit
<1>5. MadeOnce'
  BY <1>1, <1>2 DEF SqlInv, MadeOnce, Made, Wanted
<1>6. ViewsInv'
  BY <1>1, <1>2 DEF SqlInv, ViewsInv, Wanted
<1> QED
  BY <1>3, <1>4, <1>5, <1>6 DEF SqlInv

\* A view is there, or waits, once it was tried.
LEMMA SqlView ==
  ASSUME TypeOK, SqlInv, NEW p \in Proc, NEW v \in View, TryView(p, v)
  PROVE  SqlInv'
<1> USE RecoveryAssumption
<1>1. /\ pc[p] = "views" /\ v \in views[p]
      /\ \A q \in Proc : views'[q] = IF q = p THEN views[p] \ {v} ELSE views[q]
      /\ \A q \in Proc : pending'[q] = pending[q] \/ (q = p /\ pending'[q] = pending[p] \cup {v})
      /\ \A r \in Relation : r # v => warehouse'[r] = warehouse[r]
      /\ warehouse'[v] # None \/ (v \in pending'[p] /\ warehouse'[v] = warehouse[v])
      /\ UNCHANGED <<pc, sql, got, tables, inserts, round, places, twice>>
  <2>1. /\ pc[p] = "views" /\ v \in views[p]
        /\ UNCHANGED <<pc, sql, got, tables, inserts, round, places, twice>>
    BY DEF TryView, history
  <2>2. \A q \in Proc : views'[q] = IF q = p THEN views[p] \ {v} ELSE views[q]
    BY DEF TryView, TypeOK
  <2>3. \A q \in Proc : pending'[q] = pending[q] \/ (q = p /\ pending'[q] = pending[p] \cup {v})
    <3>1. UNCHANGED pending \/ pending' = [pending EXCEPT ![p] = pending[p] \cup {v}]
      BY DEF TryView
    <3> QED
      BY <3>1 DEF TypeOK
  <2>4. \A r \in Relation : r # v => warehouse'[r] = warehouse[r]
    BY DEF TryView, TypeOK, Stock
  <2>5. warehouse'[v] # None \/ (v \in pending'[p] /\ warehouse'[v] = warehouse[v])
    <3>1. None # 0
      OBVIOUS
    <3>2. CASE warehouse' = [warehouse EXCEPT ![v] = 0]
      BY <3>1, <3>2 DEF TypeOK, Stock, Relation
    <3>3. CASE UNCHANGED warehouse /\ pending' = [pending EXCEPT ![p] = pending[p] \cup {v}]
      BY <3>3 DEF TypeOK
    <3> QED
      BY <3>2, <3>3 DEF TryView
  <2> QED
    BY <2>1, <2>2, <2>3, <2>4, <2>5
<1>2. \A t \in Table : warehouse'[t] = warehouse[t]
  BY <1>1 DEF Relation
<1>3. \A q \in Proc : Writes(q)' <=> Writes(q)
  BY <1>1 DEF Writes
<1>4. PausedInv' /\ PlanInv'
  BY <1>1 DEF SqlInv, PausedInv, PlanInv
<1>5. TablesInv'
  BY <1>1, <1>2, <1>3 DEF SqlInv, TablesInv, Made, Wanted, RowsFit
<1>6. MadeOnce'
  BY <1>1, <1>3 DEF SqlInv, MadeOnce, Made, Wanted
<1>7. ViewsInv'
  <2> SUFFICES ASSUME NEW q \in Proc
               PROVE  /\ pc'[q] \in {"read", "check", "tables"} => pending'[q] = {}
                      /\ pc'[q] \in {"tables", "views"} => pending'[q] \cup views'[q] \subseteq round'[q]
                      /\ Writes(q)' => \A w \in View : Wanted(q, w)' =>
                           \/ pc'[q] # "files" /\ w \in views'[q]
                           \/ pc'[q] # "files" /\ w \in pending'[q]
                           \/ warehouse'[w] # None
    BY DEF ViewsInv
  <2>1. views[p] \subseteq round[p]
    BY <1>1 DEF SqlInv, ViewsInv
  <2>2. /\ pc'[q] \in {"read", "check", "tables"} => pending'[q] = {}
        /\ pc'[q] \in {"tables", "views"} => pending'[q] \cup views'[q] \subseteq round'[q]
    BY <1>1, <2>1 DEF SqlInv, ViewsInv
  <2>3. ASSUME Writes(q)', NEW w \in View, Wanted(q, w)', pc'[q] # "files"
        PROVE  w \in views'[q] \/ w \in pending'[q] \/ warehouse'[w] # None
    <3>1. w \in views[q] \/ w \in pending[q] \/ warehouse[w] # None
      BY <1>1, <1>3, <2>3 DEF SqlInv, ViewsInv, Wanted
    <3>2. w = v \/ warehouse'[w] = warehouse[w]
      BY <1>1 DEF Relation
    <3>3. pending[q] \subseteq pending'[q]
      BY <1>1
    <3> QED
      BY <1>1, <3>1, <3>2, <3>3
  <2>4. ASSUME Writes(q)', NEW w \in View, Wanted(q, w)', pc'[q] = "files"
        PROVE  warehouse'[w] # None
    <3>1. warehouse[w] # None /\ q # p
      BY <1>1, <1>3, <2>4 DEF SqlInv, ViewsInv, Wanted
    <3> QED
      BY <1>1, <3>1 DEF Relation
  <2> QED
    BY <2>2, <2>3, <2>4
<1> QED
  BY <1>4, <1>5, <1>6, <1>7 DEF SqlInv

LEMMA SqlRound ==
  ASSUME TypeOK, SqlInv, NEW p \in Proc, RoundEnds(p)
  PROVE  SqlInv'
<1>1. CASE Fails(p)
  BY <1>1, SqlEnds DEF RoundEnds, Fails, history
<1>2. CASE round[p] = {} /\ ToFiles(p)
  <2>1. /\ pc[p] = "views" /\ \A q \in Proc : pc'[q] = IF q = p THEN "files" ELSE pc[q]
        /\ views[p] = {} /\ round[p] = {}
        /\ UNCHANGED <<warehouse, sql, got, tables, inserts, round, views, pending, places, twice>>
    BY <1>2 DEF RoundEnds, ToFiles, Goes, TypeOK, plan, history
  <2>2. pending[p] = {}
    BY <2>1 DEF SqlInv, ViewsInv
  <2>3. \A q \in Proc : Writes(q)' <=> Writes(q)
    BY <2>1 DEF SqlInv, PlanInv, Writes
  <2>4. PausedInv' /\ PlanInv'
    BY <2>1 DEF SqlInv, PausedInv, PlanInv
  <2>5. TablesInv'
    BY <2>1, <2>3 DEF SqlInv, TablesInv, Made, Wanted, RowsFit
  <2>6. MadeOnce'
    BY <2>1, <2>3 DEF SqlInv, MadeOnce, Made, Wanted
  <2>7. ViewsInv'
    BY <2>1, <2>2, <2>3 DEF SqlInv, ViewsInv, Wanted
  <2> QED
    BY <2>4, <2>5, <2>6, <2>7 DEF SqlInv
<1>3. CASE NextRound(p)
  <2>1. /\ pc[p] = "views" /\ views[p] = {}
        /\ \A q \in Proc : /\ round'[q] = IF q = p THEN pending[p] ELSE round[q]
                           /\ views'[q] = IF q = p THEN pending[p] ELSE views[q]
                           /\ pending'[q] = IF q = p THEN {} ELSE pending[q]
        /\ UNCHANGED <<warehouse, pc, sql, got, tables, inserts, places, twice>>
    BY <1>3 DEF RoundEnds, NextRound, TypeOK, history
  <2>2. \A q \in Proc : Writes(q)' <=> Writes(q)
    BY <2>1 DEF Writes
  <2>3. PausedInv' /\ PlanInv'
    BY <2>1 DEF SqlInv, PausedInv, PlanInv
  <2>4. TablesInv'
    BY <2>1, <2>2 DEF SqlInv, TablesInv, Made, Wanted, RowsFit
  <2>5. MadeOnce'
    BY <2>1, <2>2 DEF SqlInv, MadeOnce, Made, Wanted
  <2>6. ViewsInv'
    BY <2>1, <2>2 DEF SqlInv, ViewsInv, Wanted
  <2> QED
    BY <2>3, <2>4, <2>5, <2>6 DEF SqlInv
<1> QED
  BY <1>1, <1>2, <1>3 DEF RoundEnds

LEMMA SqlPlace ==
  ASSUME TypeOK, SqlInv, NEW p \in Proc, NEW f \in File, PlaceFile(p, f)
  PROVE  SqlInv'
<1>1. /\ pc[p] = "files" /\ \A q \in Proc : places'[q] \subseteq places[q]
      /\ UNCHANGED <<warehouse, pc, sql, got, tables, inserts, round, views, pending, twice>>
  BY DEF PlaceFile, TypeOK
<1>2. PausedInv' /\ PlanInv'
  BY <1>1 DEF SqlInv, PausedInv, PlanInv
<1>3. \A q \in Proc : Writes(q)' <=> Writes(q)
  BY <1>1 DEF Writes
<1>4. TablesInv'
  BY <1>1, <1>3 DEF SqlInv, TablesInv, Made, Wanted, RowsFit
<1>5. MadeOnce' /\ ViewsInv'
  BY <1>1, <1>3 DEF SqlInv, MadeOnce, ViewsInv, Made, Wanted
<1> QED
  BY <1>2, <1>4, <1>5 DEF SqlInv

\* The server writes while no restore is at its SQL or its files.
LEMMA SqlWrite ==
  ASSUME TypeOK, SqlInv, WriteTable
  PROVE  SqlInv'
<1>1. UNCHANGED <<restoring, twice>> /\ \A p \in Proc : ~Running(p)
  BY DEF WriteTable, history
<1>2. \A p \in Proc : ~Writes(p)'
  BY <1>1 DEF Running, Writes, restoring
<1>3. PausedInv' /\ PlanInv'
  BY <1>1 DEF SqlInv, PausedInv, PlanInv, restoring, plan
<1>4. TablesInv' /\ MadeOnce'
  BY <1>2 DEF TablesInv, MadeOnce, Made
<1>5. ViewsInv'
  BY <1>1, <1>2 DEF SqlInv, ViewsInv, restoring, plan
<1> QED
  BY <1>3, <1>4, <1>5 DEF SqlInv

LEMMA SqlNext ==
  ASSUME TypeOK, SqlInv, [Next]_vars
  PROVE  SqlInv'
<1>1. CASE UNCHANGED vars
  BY <1>1, SqlBeside DEF vars, history
<1>2. CASE \/ SaveRegistry \/ OpenLedger \/ SwitchOn \/ Damage
           \/ TakeRegistry \/ TakeLedger \/ TakeModels
           \/ ListCatalog \/ TakeRelation \/ CatalogTaken \/ WriteTemporary
           \/ Publish \/ BackupFails
  <2>1. UNCHANGED <<warehouse, restoring, twice>>
    BY <1>2 DEF SaveRegistry, OpenLedger, SwitchOn, Damage, TakeRegistry, TakeLedger, TakeModels,
                ListCatalog, TakeRelation, CatalogTaken, WriteTemporary, Publish, BackupFails, history
  <2> QED
    BY <2>1, SqlBeside
<1>3. CASE Disaster
  BY <1>3, SqlDisaster
<1>5. CASE WriteTable
  BY <1>5, SqlWrite
<1>4. ASSUME NEW p \in Proc, Read(p) \/ RestoreStep(p) \/ RestoreDies(p)
      PROVE  SqlInv'
  <2>1. CASE TablesFail(p) \/ FilesFail(p) \/ FilesDone(p) \/ RestoreDies(p)
    BY <2>1, SqlEnds DEF TablesFail, FilesFail, Fails, FilesDone, RestoreDies, history
  <2>2. CASE \/ Read(p) \/ Check(p) \/ TablesDone(p) \/ RoundEnds(p)
             \/ \E t \in Table : CreateTable(p, t) \/ InsertChunk(p, t)
             \/ \E v \in View : TryView(p, v)
             \/ \E f \in File : PlaceFile(p, f)
    BY <2>2, SqlRead, SqlCheck, SqlTablesDone, SqlRound, SqlCreate, SqlInsert, SqlView, SqlPlace
  <2> QED
    BY <1>4, <2>1, <2>2 DEF RestoreStep
<1> QED
  BY <1>1, <1>2, <1>3, <1>4, <1>5 DEF Next

(***************************************************************************)
(* The backup, and the schedules of the ledger                             *)
(***************************************************************************)
LEMMA TakingNext ==
  ASSUME TypeOK, TakingInv, [Next]_vars
  PROVE  TakingInv'
<1>1. CASE UNCHANGED vars
  BY <1>1 DEF TakingInv, vars, backing
<1>2. CASE \/ SaveRegistry \/ OpenLedger \/ SwitchOn \/ WriteTable \/ Damage
           \/ ListCatalog \/ CatalogTaken \/ WriteTemporary
           \/ \E p \in Proc : Read(p) \/ RestoreStep(p) \/ RestoreDies(p)
  <2>1. UNCHANGED taking
    BY <1>2 DEF SaveRegistry, OpenLedger, SwitchOn, WriteTable, Damage, ListCatalog, CatalogTaken, WriteTemporary, Read, RestoreStep, RestoreDies,
                Check, TablesFail, TablesDone, RoundEnds, FilesFail, FilesDone, CreateTable, InsertChunk,
                TryView, PlaceFile, backing
  <2> QED
    BY <2>1 DEF TakingInv
<1>3. CASE Disaster \/ Publish \/ BackupFails \/ TakeRegistry
  BY <1>3 DEF Disaster, Publish, BackupFails, TakeRegistry, TakingInv, Bare
<1>4. CASE TakeLedger \/ TakeModels \/ TakeRelation
  BY <1>4 DEF TakeLedger, TakeModels, TakeRelation, Collects, TakingInv, TypeOK, Archive
<1> QED
  BY <1>1, <1>2, <1>3, <1>4 DEF Next

\* A ledger comes from an archive with its schedules paused; only SwitchOn turns them on.
LEMMA RestNext ==
  ASSUME TypeOK, PausedInv, PlanInv, RestoredSchedulesRest, [Next]_vars
  PROVE  RestoredSchedulesRest'
<1>1. CASE UNCHANGED live["ledger"] /\ UNCHANGED switched
  BY <1>1 DEF RestoredSchedulesRest
<1>2. CASE SaveRegistry
  <2>1. UNCHANGED live["ledger"] /\ UNCHANGED switched
    BY <1>2 DEF SaveRegistry, history, TypeOK, Files
  <2> QED
    BY <2>1, <1>1
<1>3. CASE OpenLedger
  BY <1>3 DEF OpenLedger, RestoredSchedulesRest, TypeOK, Files
<1>4. CASE SwitchOn
  BY <1>4 DEF SwitchOn, RestoredSchedulesRest
<1>5. CASE Disaster
  BY <1>5 DEF Disaster, RestoredSchedulesRest, NoFiles
<1>6. CASE \/ UNCHANGED vars \/ WriteTable \/ Damage
           \/ TakeRegistry \/ TakeLedger \/ TakeModels
           \/ ListCatalog \/ TakeRelation \/ CatalogTaken \/ WriteTemporary
           \/ Publish \/ BackupFails
  BY <1>1, <1>6 DEF vars, history, WriteTable, Damage, TakeRegistry, TakeLedger, TakeModels, ListCatalog,
                    TakeRelation, CatalogTaken, WriteTemporary, Publish, BackupFails
<1>7. ASSUME NEW p \in Proc, NEW f \in File, PlaceFile(p, f)
      PROVE  RestoredSchedulesRest'
  <2>1. CASE f # "ledger"
    <3>1. UNCHANGED live["ledger"] /\ (switched => switched')
      BY <1>7, <2>1 DEF PlaceFile, Places, TypeOK, Files
    <3> QED
      BY <3>1 DEF RestoredSchedulesRest
  <2>2. CASE f = "ledger"
    <3>1. live'["ledger"] = got[p].files["ledger"]
      BY <1>7, <2>2 DEF PlaceFile, Places, TypeOK, Files
    <3> QED
      BY <3>1 DEF PausedInv, RestoredSchedulesRest
  <2> QED
    BY <2>1, <2>2
<1>8. ASSUME NEW p \in Proc, Read(p) \/ RestoreStep(p) \/ RestoreDies(p),
             ~\E f \in File : PlaceFile(p, f)
      PROVE  UNCHANGED live /\ UNCHANGED switched
  BY <1>8 DEF Read, RestoreStep, RestoreDies, Check, TablesFail, TablesDone, RoundEnds, FilesFail, FilesDone,
              CreateTable, InsertChunk, TryView, history
<1> QED
  BY <1>1, <1>2, <1>3, <1>4, <1>5, <1>6, <1>7, <1>8 DEF Next

LEMMA InvInit == Init => IInv
<1>1. Init => RestoredSchedulesRest /\ TakingInv
  BY DEF Init, RestoredSchedulesRest, TakingInv, Bare
<1> QED
  BY <1>1, TypeInit, SqlInit DEF IInv, RecoveryInv

LEMMA InvNext == IInv /\ [Next]_vars => IInv'
<1> SUFFICES ASSUME IInv, [Next]_vars PROVE IInv'
  OBVIOUS
<1>1. TypeOK' /\ SqlInv'
  BY TypeNext, SqlNext DEF IInv, RecoveryInv
<1>2. TakingInv'
  BY TakingNext DEF IInv, RecoveryInv
<1>3. RestoredSchedulesRest'
  BY RestNext DEF IInv, RecoveryInv, SqlInv
<1> QED
  BY <1>1, <1>2, <1>3 DEF IInv, RecoveryInv

\* What restores have made and still have to do fits what they read, in every state.
THEOREM Invariant == Spec => []IInv
BY InvInit, InvNext, PTL DEF Spec

\* The schedules of a restored ledger rest until somebody switches one on, whatever
\* the server, the machine and other restores do (_pause_restored_schedules).
THEOREM RestoredLedgersRest == Spec => []RecoveryInv
<1>1. IInv => RecoveryInv
  BY DEF IInv
<1> QED
  BY <1>1, Invariant, PTL

(***************************************************************************)
(* What a step does                                                        *)
(***************************************************************************)
LEMMA ArrivesStep ==
  ASSUME TypeOK, TakingInv, [Next]_vars, archive' # archive
  PROVE  archive'.whole \/ (archive # None /\ archive' = [archive EXCEPT !.whole = FALSE])
<1>1. CASE Publish
  BY <1>1 DEF Publish, TakingInv
<1>2. CASE Damage
  BY <1>2 DEF Damage
<1>3. ~(UNCHANGED vars \/ SaveRegistry \/ OpenLedger \/ SwitchOn \/ WriteTable \/ Disaster \/ TakeRegistry
        \/ TakeLedger \/ TakeModels \/ ListCatalog \/ TakeRelation \/ CatalogTaken \/ WriteTemporary \/ BackupFails)
  BY DEF vars, backing, SaveRegistry, OpenLedger, SwitchOn, WriteTable, Disaster, TakeRegistry, TakeLedger,
         TakeModels, ListCatalog, TakeRelation, CatalogTaken, WriteTemporary, BackupFails
<1>4. ~\E p \in Proc : Read(p) \/ RestoreStep(p) \/ RestoreDies(p)
  BY DEF backing, Read, RestoreStep, RestoreDies, Check, TablesFail, TablesDone, RoundEnds, FilesFail, FilesDone,
         CreateTable, InsertChunk, TryView, PlaceFile
<1> QED
  BY <1>1, <1>2, <1>3, <1>4 DEF Next

\* What is at the archive's path is a complete backup, or a complete one that was
\* damaged there: never what a failed or unfinished backup wrote (backup).
THEOREM ArchivesAreComplete == Spec => ArchivesArriveWhole
<1>1. IInv /\ [Next]_vars =>
        [archive' # archive => \/ archive'.whole
                               \/ (archive # None /\ archive' = [archive EXCEPT !.whole = FALSE])]_vars
  BY ArrivesStep DEF IInv, RecoveryInv
<1> QED
  BY <1>1, Invariant, PTL DEF Spec, ArchivesArriveWhole

LEMMA KeptStep ==
  ASSUME TypeOK, [Next]_vars, live["ledger"] # None, live'["ledger"] # live["ledger"], live'["ledger"] # None
  PROVE  UNCHANGED restoring
<1>1. CASE SwitchOn
  BY <1>1 DEF SwitchOn
<1>2. ~(UNCHANGED vars \/ SaveRegistry \/ OpenLedger \/ WriteTable \/ Disaster \/ Damage)
  BY DEF vars, SaveRegistry, OpenLedger, WriteTable, Disaster, Damage, NoFiles, TypeOK, Files
<1>3. ~(TakeRegistry \/ TakeLedger \/ TakeModels \/ ListCatalog \/ TakeRelation \/ CatalogTaken
        \/ WriteTemporary \/ Publish \/ BackupFails)
  BY DEF TakeRegistry, TakeLedger, TakeModels, ListCatalog, TakeRelation, CatalogTaken, WriteTemporary, Publish, BackupFails
<1>4. ~\E p \in Proc : Read(p) \/ RestoreStep(p) \/ RestoreDies(p)
  <2>1. ~\E p \in Proc, f \in File : PlaceFile(p, f)
    BY DEF PlaceFile, Places, TypeOK, Files
  <2> QED
    BY <2>1 DEF Read, RestoreStep, RestoreDies, Check, TablesFail, TablesDone, RoundEnds, FilesFail, FilesDone,
                CreateTable, InsertChunk, TryView
<1> QED
  BY <1>1, <1>2, <1>3, <1>4 DEF Next

\* A restore is about to report success: all it has read is there.
LEMMA AllThere ==
  ASSUME IInv, NEW p \in Proc, pc[p] = "files", sql[p], NEW r \in Relation, got[p].stock[r] # None
  PROVE  \/ warehouse[r] = got[p].stock[r]
         \/ p \in twice /\ r \in Table /\ warehouse[r] # None /\ warehouse[r] > got[p].stock[r]
<1>1. Writes(p) /\ Wanted(p, r)
  BY DEF Writes, Wanted
<1>2. got[p].stock \in Stock /\ warehouse \in Stock
  BY ArchiveType DEF IInv, RecoveryInv, TypeOK
<1>3. CASE r \in View
  <2>1. warehouse[r] # None
    BY <1>1, <1>3 DEF IInv, SqlInv, ViewsInv
  <2> QED
    BY <1>2, <1>3, <2>1, StockType
<1>4. CASE r \in Table
  <2>1. Made(p, r) /\ inserts[p][r] = 0
    BY <1>1, <1>4 DEF IInv, SqlInv, TablesInv
  <2>2. RowsFit(p, r)
    BY <1>1, <1>4, <2>1 DEF IInv, SqlInv, TablesInv
  <2>3. warehouse[r] \in Nat
    BY <1>2, <1>4, <2>2, StockType DEF RowsFit
  <2> QED
    BY <1>4, <2>1, <2>2, <2>3 DEF RowsFit
<1> QED
  BY <1>3, <1>4 DEF Relation

\* A restore never touches a ledger that is there, and one that reports success has
\* restored every table and view it was asked for, with nothing beside them in its
\* tables but what its own INSERT brought twice (restore).
THEOREM RestoresAreHonest == Spec => RestoreIsHonest
<1>1. IInv /\ [Next]_vars =>
        [live["ledger"] # None /\ live'["ledger"] # live["ledger"] /\ live'["ledger"] # None
           => UNCHANGED restoring]_vars
  BY KeptStep DEF IInv, RecoveryInv
<1>2. IInv /\ [Next]_vars =>
        [\A p \in Proc : pc[p] = "files" /\ pc'[p] = "done" /\ sql[p]
           => \A r \in Relation : got[p].stock[r] # None =>
                \/ warehouse[r] = got[p].stock[r]
                \/ p \in twice /\ r \in Table /\ warehouse[r] # None /\ warehouse[r] > got[p].stock[r]]_vars
  BY AllThere
<1>3. Spec => LedgerIsKept
  BY <1>1, Invariant, PTL DEF Spec, LedgerIsKept
<1>4. Spec => SuccessIsComplete
  BY <1>2, Invariant, PTL DEF Spec, SuccessIsComplete
<1> QED
  BY <1>3, <1>4 DEF RestoreIsHonest
=============================================================================
