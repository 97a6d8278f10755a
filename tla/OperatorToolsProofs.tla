--------------------------- MODULE OperatorToolsProofs ---------------------------
(***************************************************************************)
(* Theorems about what operators run beside the server, under the          *)
(* specification TLC checks.                                               *)
(***************************************************************************)
EXTENDS MCOperatorTools, TLAPS

(***************************************************************************)
(* Object storage.  The copy at the destination is that of the export that  *)
(* is at work on it, so nobody else is past the rename.  As long as nobody  *)
(* has written to the bucket, what an export has listed and downloaded is   *)
(* the bucket, key by key; and a restore has found each key that it looked  *)
(* at empty, and filled each that it passed again.                          *)
(***************************************************************************)

Pages == Len(KeyOrder)

\* Whose copy is at the destination.
CopyOf(e) ==
  /\ epc[e] \in {"sync", "remove", "done"} => dest # None /\ dest.by = e
  /\ epc[e] \in {"sync", "done"} => dest.whole

\* What is known of the k-th key, from place to place.
ListInv(e, i) ==
  (epc[e] = "get" \/ (epc[e] = "list" /\ i < at[e])) => listed[e][KeyOrder[i]] = SizeOf(bucket[KeyOrder[i]])
GetInv(e, i) ==
  (epc[e] \in {"seal", "check", "publish"} \/ (epc[e] = "get" /\ i < at[e])) =>
    records[e][KeyOrder[i]] = bucket[KeyOrder[i]]
SealInv(e, i) == epc[e] \in {"sync", "done"} => dest.records[KeyOrder[i]] = bucket[KeyOrder[i]]

ExportOf(e) ==
  /\ at[e] \in 1..Pages /\ (epc[e] \notin {"list", "get"} => at[e] = 1)
  /\ seen[e] # None /\ epc[e] # "begin" =>
       /\ seen[e] = bucket
       /\ \A i \in 1..Pages : ListInv(e, i) /\ GetInv(e, i) /\ SealInv(e, i)

\* What the restore has found and put back, at the i-th key.
LookInv(i) == rpc = "look" /\ i < next => KeyOrder[i] \notin found /\ (quiet => bucket[KeyOrder[i]] = None)
PutInv(i) ==
  /\ (rpc \in {"put", "verify"} /\ i < next) \/ rpc = "done" => bucket[KeyOrder[i]] = plan[KeyOrder[i]]
  /\ (rpc \in {"put", "verify"} /\ i > next) \/ (rpc = "put" /\ i = next) => bucket[KeyOrder[i]] = None

RestoreInv ==
  /\ \A k \in Key : bucket[k] # Forged
  /\ next \in 1..Pages
  /\ rpc = "look" => \A k \in found : bucket[k] # None
  /\ rpc \in {"put", "verify", "done"} => found = {}
  /\ \A i \in 1..Pages : LookInv(i) /\ (quiet => PutInv(i))

StorageIInv == TypeOK /\ (\A e \in Export : CopyOf(e) /\ ExportOf(e)) /\ RestoreInv

LEMMA Listing ==
  /\ Pages \in Nat \ {0}
  /\ \A i \in 1..Pages : KeyOrder[i] \in Key
  /\ \A i, j \in 1..Pages : KeyOrder[i] = KeyOrder[j] => i = j
  /\ \A k \in Key : \E i \in 1..Pages : k = KeyOrder[i]
<1>1. KeyOrder \in Seq(Key) /\ KeyOrder # <<>>
  BY StorageAssumption
<1>2. Pages \in Nat \ {0} /\ DOMAIN KeyOrder = 1..Pages
  BY <1>1 DEF Pages
<1>3. \A i, j \in 1..Pages : KeyOrder[i] = KeyOrder[j] => i = j
  BY <1>2, StorageAssumption DEF IsInjective
<1>4. \A k \in Key : \E i \in 1..Pages : k = KeyOrder[i]
  BY <1>2 DEF Key, ToSet
<1>5. \A i \in 1..Pages : KeyOrder[i] \in Key
  BY <1>2 DEF Key, ToSet
<1> QED
  BY <1>2, <1>3, <1>4, <1>5

LEMMA Sizing ==
  ASSUME NEW c \in Content \cup {None}
  PROVE  SizeOf(c) \in Range(Size) \cup {None} /\ (SizeOf(c) = None => c = None)
BY StorageAssumption DEF SizeOf, Range

\* At the beginning the invariant holds.
LEMMA StorageInit ==
  ASSUME Init
  PROVE  StorageIInv
<1>1. Nothing \in [Key -> Content \cup {None}] /\ Nothing \in [Key -> Range(Size) \cup {None}]
  BY DEF Nothing
<1>2. TypeOK
  BY <1>1, Listing, StorageAssumption DEF Init, TypeOK, ExportPlace, RestorePlace, Pages, Objects
<1>3. \A e \in Export : CopyOf(e) /\ ExportOf(e)
  BY Listing DEF Init, CopyOf, ExportOf
<1>4. RestoreInv
  BY Listing DEF Init, RestoreInv, LookInv, PutInv
<1> QED
  BY <1>2, <1>3, <1>4 DEF StorageIInv

\* Nobody else is at work on the copy at the destination.
LEMMA OneCopy ==
  ASSUME StorageIInv, NEW e \in Export, NEW d \in Export, d # e,
         dest = None \/ epc[e] \in {"sync", "remove", "done"}
  PROVE  epc[d] \notin {"sync", "remove", "done"}
BY DEF StorageIInv, CopyOf

\* What a step of an export leaves to another.
LEMMA OtherExport ==
  ASSUME StorageIInv, NEW d \in Export,
         epc'[d] = epc[d], at'[d] = at[d], listed'[d] = listed[d], records'[d] = records[d],
         seen'[d] = seen[d], UNCHANGED bucket,
         UNCHANGED dest \/ epc[d] \notin {"sync", "remove", "done"}
  PROVE  CopyOf(d)' /\ ExportOf(d)'
<1>1. CopyOf(d) /\ ExportOf(d)
  BY DEF StorageIInv
<1>2. CopyOf(d)'
  BY <1>1 DEF CopyOf
<1>3. ExportOf(d)'
  BY <1>1 DEF ExportOf, ListInv, GetInv, SealInv, SizeOf
<1> QED
  BY <1>2, <1>3

\* A step of an export that leaves the bucket to the world leaves the restore as it is.
LEMMA RestoreUntouched ==
  ASSUME StorageIInv, UNCHANGED world
  PROVE  RestoreInv'
<1>1. UNCHANGED <<bucket, rpc, next, plan, found, quiet>>
  BY DEF world, restoring
<1> QED
  BY <1>1 DEF StorageIInv, RestoreInv, LookInv, PutInv

\* The steps of an export keep the invariant.
LEMMA ExportKeeps ==
  ASSUME StorageIInv, NEW e \in Export, ExportStep(e)
  PROVE  StorageIInv'
<1>1. TypeOK /\ CopyOf(e) /\ ExportOf(e)
  BY DEF StorageIInv
<1>2. /\ epc \in [Export -> ExportPlace] /\ at \in [Export -> 1..Pages + 1]
      /\ listed \in [Export -> [Key -> Range(Size) \cup {None}]]
      /\ records \in [Export -> [Key -> Content \cup {None}]]
      /\ seen \in [Export -> Objects \cup {None}] /\ dest \in Copy \cup {None} /\ bucket \in Objects
  BY <1>1 DEF TypeOK, Pages
<1>3. \A k \in Key : bucket[k] \in Content \cup {None}
  BY <1>2 DEF StorageIInv, RestoreInv, Objects
<1>4. at[e] \in 1..Pages /\ KeyOrder[at[e]] \in Key
  BY <1>1, Listing DEF ExportOf
<1>5. Nothing \in [Key -> Content \cup {None}] /\ Nothing \in [Key -> Range(Size) \cup {None}]
  BY DEF Nothing
<1>6. UNCHANGED world
  BY DEF ExportStep, Begin, ListPage, Get, Seal, CheckDestination, Publish, Sync, TakeBack,
         ExportFails, ExportDies
<1>7. UNCHANGED <<bucket, writes, rpc, next, plan, found, quiet>>
  BY <1>6 DEF world, restoring
<1>8. \A place : Goes(e, place) =>
        /\ epc'[e] = place /\ \A d \in Export : d # e => epc'[d] = epc[d]
        /\ place \in ExportPlace => epc' \in [Export -> ExportPlace]
  BY <1>2 DEF Goes
<1>9. \A place : Ends(e, place) =>
        /\ Goes(e, place) /\ at'[e] = 1
        /\ \A d \in Export : d # e => at'[d] = at[d] /\ listed'[d] = listed[d] /\ records'[d] = records[d]
        /\ at' \in [Export -> 1..Pages + 1]
        /\ listed' \in [Export -> [Key -> Range(Size) \cup {None}]]
        /\ records' \in [Export -> [Key -> Content \cup {None}]]
  BY <1>2, <1>5, Listing DEF Ends
<1>10. \A place \in {"get", "seal"} : Advance(e, place) =>
        /\ IF at[e] < Pages THEN at'[e] = at[e] + 1 /\ epc'[e] = epc[e] ELSE at'[e] = 1 /\ epc'[e] = place
        /\ \A d \in Export : d # e => at'[d] = at[d] /\ epc'[d] = epc[d]
        /\ at' \in [Export -> 1..Pages + 1] /\ epc' \in [Export -> ExportPlace]
  BY <1>2, <1>4, <1>8, Listing DEF Advance, Pages, ExportPlace
<1>11. RestoreInv'
  BY <1>6, RestoreUntouched
<1>12. ASSUME CopyOf(e)', ExportOf(e)', TypeOK',
              \A d \in Export : d # e => CopyOf(d)' /\ ExportOf(d)'
       PROVE  StorageIInv'
  BY <1>11, <1>12 DEF StorageIInv
<1>13. CASE Begin(e)
  <2>1. /\ epc'[e] \in {"failed", "list"} /\ epc' \in [Export -> ExportPlace] /\ epc[e] = "begin"
        /\ \A d \in Export : d # e => epc'[d] = epc[d]
    BY <1>8, <1>13 DEF Begin, ExportPlace
  <2>2. /\ seen' \in [Export -> Objects \cup {None}] /\ seen'[e] = bucket
        /\ \A d \in Export : d # e => seen'[d] = seen[d]
        /\ UNCHANGED <<dest, at, listed, records>>
    BY <1>2, <1>13 DEF Begin
  <2>3. TypeOK'
    BY <1>1, <1>7, <2>1, <2>2 DEF TypeOK
  <2>4. CopyOf(e)' /\ ExportOf(e)'
    BY <1>1, <1>7, <2>1, <2>2 DEF CopyOf, ExportOf, ListInv, GetInv, SealInv
  <2>5. \A d \in Export : d # e => CopyOf(d)' /\ ExportOf(d)'
    BY <1>7, <2>1, <2>2, OtherExport
  <2> QED
    BY <1>12, <2>3, <2>4, <2>5
<1>14. CASE ListPage(e)
  <2> DEFINE k == KeyOrder[at[e]]
  <2>1. /\ epc[e] = "list" /\ UNCHANGED <<dest, records, seen>>
        /\ listed'[e] = [listed[e] EXCEPT ![k] = SizeOf(bucket[k])]
        /\ \A d \in Export : d # e => listed'[d] = listed[d]
    BY <1>2, <1>14 DEF ListPage
  <2>2. SizeOf(bucket[k]) \in Range(Size) \cup {None}
    BY <1>3, <1>4, Sizing
  <2>3. listed' \in [Export -> [Key -> Range(Size) \cup {None}]]
    BY <1>2, <1>4, <1>14, <2>2 DEF ListPage
  <2>4. Advance(e, "get")
    BY <1>14 DEF ListPage
  <2>5. TypeOK'
    BY <1>1, <1>7, <1>10, <2>1, <2>3, <2>4 DEF TypeOK, Pages
  <2>6. at'[e] \in 1..Pages /\ (epc'[e] \notin {"list", "get"} => at'[e] = 1)
    BY <1>4, <1>10, <2>1, <2>4, Listing
  <2>7. (epc'[e] = "list" /\ at'[e] = at[e] + 1) \/ (epc'[e] = "get" /\ at'[e] = 1 /\ at[e] = Pages)
    BY <1>4, <1>10, <2>1, <2>4, Listing
  <2>8. ASSUME seen'[e] # None
        PROVE  seen'[e] = bucket' /\ \A i \in 1..Pages : (ListInv(e, i) /\ GetInv(e, i) /\ SealInv(e, i))'
    <3>1. seen[e] = bucket /\ \A i \in 1..Pages : ListInv(e, i)
      BY <1>1, <2>1, <2>8 DEF ExportOf
    <3>2. SUFFICES ASSUME NEW i \in 1..Pages
                   PROVE  (ListInv(e, i) /\ GetInv(e, i) /\ SealInv(e, i))'
      BY <1>7, <2>1, <3>1
    <3>3. GetInv(e, i)' /\ SealInv(e, i)'
      BY <1>4, <2>7 DEF GetInv, SealInv
    <3>4. KeyOrder[i] \in Key /\ (i # at[e] => KeyOrder[i] # k)
      BY <1>4, Listing
    <3>5. listed'[e][KeyOrder[i]] = IF i = at[e] THEN SizeOf(bucket[KeyOrder[i]]) ELSE listed[e][KeyOrder[i]]
      BY <1>2, <2>1, <3>4
    <3>6. i <= at[e] => listed'[e][KeyOrder[i]] = SizeOf(bucket[KeyOrder[i]])
      BY <1>4, <2>1, <3>1, <3>5 DEF ListInv
    <3>7. ListInv(e, i)'
      BY <1>4, <1>7, <2>7, <3>6 DEF ListInv, SizeOf
    <3> QED
      BY <3>3, <3>7
  <2>9. CopyOf(e)' /\ ExportOf(e)'
    BY <2>6, <2>7, <2>8 DEF CopyOf, ExportOf
  <2>10. \A d \in Export : d # e => CopyOf(d)' /\ ExportOf(d)'
    BY <1>7, <1>10, <2>1, <2>4, OtherExport
  <2> QED
    BY <1>12, <2>5, <2>9, <2>10
<1>15. CASE Get(e)
  <2> DEFINE k == KeyOrder[at[e]]
             got == IF listed[e][k] = None THEN None ELSE bucket[k]
  <2>1. /\ epc[e] = "get" /\ UNCHANGED <<dest, listed, seen>>
        /\ records'[e] = [records[e] EXCEPT ![k] = got]
        /\ \A d \in Export : d # e => records'[d] = records[d]
        /\ Advance(e, "seal")
    BY <1>2, <1>15 DEF Get
  <2>2. got \in Content \cup {None}
    BY <1>3, <1>4
  <2>3. records' \in [Export -> [Key -> Content \cup {None}]]
    BY <1>2, <1>4, <1>15, <2>2 DEF Get
  <2>4. TypeOK'
    BY <1>1, <1>7, <1>10, <2>1, <2>3 DEF TypeOK, Pages
  <2>5. \/ epc'[e] = "get" /\ at'[e] = at[e] + 1 /\ at'[e] \in 1..Pages
        \/ epc'[e] = "seal" /\ at'[e] = 1 /\ at[e] = Pages
    BY <1>4, <1>10, <2>1, Listing
  <2>6. at'[e] \in 1..Pages /\ (epc'[e] \notin {"list", "get"} => at'[e] = 1)
    BY <2>5, Listing
  <2>7. ASSUME seen'[e] # None
        PROVE  seen'[e] = bucket' /\ \A i \in 1..Pages : (ListInv(e, i) /\ GetInv(e, i) /\ SealInv(e, i))'
    <3>1. seen[e] = bucket /\ \A i \in 1..Pages : ListInv(e, i) /\ GetInv(e, i)
      BY <1>1, <2>1, <2>7 DEF ExportOf
    <3>2. SUFFICES ASSUME NEW i \in 1..Pages
                   PROVE  (ListInv(e, i) /\ GetInv(e, i) /\ SealInv(e, i))'
      BY <1>7, <2>1, <3>1
    <3>3. ListInv(e, i)' /\ SealInv(e, i)'
      BY <1>7, <2>1, <2>5, <3>1 DEF ListInv, SealInv, SizeOf
    <3>4. KeyOrder[i] \in Key /\ (i # at[e] => KeyOrder[i] # k)
      BY <1>4, Listing
    <3>5. records'[e][KeyOrder[i]] = IF i = at[e] THEN got ELSE records[e][KeyOrder[i]]
      BY <1>2, <2>1, <3>4
    <3>6. got = bucket[k]
      <4>1. listed[e][k] = SizeOf(bucket[k])
        BY <1>4, <2>1, <3>1 DEF ListInv
      <4> QED
        BY <1>3, <1>4, <4>1, Sizing
    <3>7. i <= at[e] => records'[e][KeyOrder[i]] = bucket[KeyOrder[i]]
      BY <1>4, <2>1, <3>1, <3>5, <3>6 DEF GetInv
    <3>8. GetInv(e, i)'
      BY <1>4, <1>7, <2>5, <3>7 DEF GetInv
    <3> QED
      BY <3>3, <3>8
  <2>8. CopyOf(e)' /\ ExportOf(e)'
    BY <2>6, <2>5, <2>7 DEF CopyOf, ExportOf
  <2>9. \A d \in Export : d # e => CopyOf(d)' /\ ExportOf(d)'
    BY <1>7, <1>10, <2>1, OtherExport
  <2> QED
    BY <1>12, <2>4, <2>8, <2>9
<1>16. CASE Seal(e)
  <2>1. /\ epc[e] = "seal" /\ epc'[e] = "check" /\ epc' \in [Export -> ExportPlace]
        /\ \A d \in Export : d # e => epc'[d] = epc[d]
        /\ UNCHANGED <<dest, at, listed, records, seen>>
    BY <1>8, <1>16 DEF Seal, ExportPlace
  <2>2. TypeOK'
    BY <1>1, <1>7, <2>1 DEF TypeOK
  <2>3. CopyOf(e)' /\ ExportOf(e)'
    BY <1>1, <1>7, <2>1 DEF CopyOf, ExportOf, ListInv, GetInv, SealInv
  <2>4. \A d \in Export : d # e => CopyOf(d)' /\ ExportOf(d)'
    BY <1>7, <2>1, OtherExport
  <2> QED
    BY <1>12, <2>2, <2>3, <2>4
\* An export that ends without having been published, or that leaves its copy behind.
<1>17. ASSUME Ends(e, "failed") \/ Ends(e, "crashed"), UNCHANGED <<dest, seen>>, epc[e] # "begin"
       PROVE  StorageIInv'
  <2>1. /\ epc'[e] \in {"failed", "crashed"} /\ epc' \in [Export -> ExportPlace] /\ at'[e] = 1
        /\ \A d \in Export : d # e => epc'[d] = epc[d]
        /\ \A d \in Export : d # e => at'[d] = at[d] /\ listed'[d] = listed[d] /\ records'[d] = records[d]
    BY <1>8, <1>9, <1>17 DEF ExportPlace
  <2>2. TypeOK'
    BY <1>1, <1>7, <1>9, <1>17, <2>1 DEF TypeOK, Pages
  <2>3. seen'[e] # None /\ epc[e] # "begin" => seen'[e] = bucket'
    BY <1>1, <1>7, <1>17 DEF ExportOf
  <2>4. CopyOf(e)'
    BY <2>1 DEF CopyOf
  <2>5. epc[e] # "begin" => ExportOf(e)'
    BY <2>1, <2>3, Listing DEF ExportOf, ListInv, GetInv, SealInv
  <2>6. \A d \in Export : d # e => CopyOf(d)' /\ ExportOf(d)'
    BY <1>7, <1>17, <2>1, OtherExport
  <2> QED
    BY <1>12, <1>17, <2>2, <2>4, <2>5, <2>6
<1>18. CASE CheckDestination(e)
  <2>1. CASE dest # None
    BY <1>17, <1>18, <2>1 DEF CheckDestination
  <2>2. CASE dest = None
    <3>1. /\ epc[e] = "check" /\ epc'[e] = "publish" /\ epc' \in [Export -> ExportPlace]
          /\ \A d \in Export : d # e => epc'[d] = epc[d]
          /\ UNCHANGED <<dest, at, listed, records, seen>>
      BY <1>8, <1>18, <2>2 DEF CheckDestination, ExportPlace
    <3>2. TypeOK'
      BY <1>1, <1>7, <3>1 DEF TypeOK
    <3>3. CopyOf(e)' /\ ExportOf(e)'
      BY <1>1, <1>7, <3>1 DEF CopyOf, ExportOf, ListInv, GetInv, SealInv
    <3>4. \A d \in Export : d # e => CopyOf(d)' /\ ExportOf(d)'
      BY <1>7, <3>1, OtherExport
    <3> QED
      BY <1>12, <3>2, <3>3, <3>4
  <2> QED
    BY <2>1, <2>2
<1>19. CASE Publish(e)
  <2>1. /\ epc[e] = "publish" /\ epc'[e] = "sync" /\ epc' \in [Export -> ExportPlace]
        /\ \A d \in Export : d # e => epc'[d] = epc[d]
        /\ dest = None /\ dest' = Staged(e) /\ UNCHANGED <<at, listed, records, seen>>
    BY <1>8, <1>19 DEF Publish, ExportPlace
  <2>2. Staged(e) \in Copy
    BY <1>2 DEF Staged, Copy
  <2>3. TypeOK'
    BY <1>1, <1>7, <2>1, <2>2 DEF TypeOK
  <2>4. dest' # None /\ dest'.by = e /\ dest'.whole /\ dest'.records = records[e]
    BY <2>1, <2>2, StorageAssumption DEF Staged
  <2>5. CopyOf(e)'
    BY <2>1, <2>4 DEF CopyOf
  <2>6. ExportOf(e)'
    BY <1>1, <1>7, <2>1, <2>4 DEF ExportOf, ListInv, GetInv, SealInv
  <2>7. \A d \in Export : d # e => CopyOf(d)' /\ ExportOf(d)'
    BY <1>7, <2>1, OtherExport, OneCopy
  <2> QED
    BY <1>12, <2>3, <2>5, <2>6, <2>7
<1>20. CASE Sync(e)
  <2>1. epc[e] = "sync" /\ dest # None /\ dest \in Copy /\ dest.by = e /\ dest.whole /\ UNCHANGED seen
    BY <1>1, <1>2, <1>20 DEF Sync, CopyOf
  <2>2. PICK place \in {"done", "remove"} :
          /\ Ends(e, place)
          /\ IF place = "done" THEN UNCHANGED dest ELSE dest' = [dest EXCEPT !.whole = FALSE]
    BY <1>20 DEF Sync
  <2>3. /\ epc'[e] = place /\ epc' \in [Export -> ExportPlace] /\ at'[e] = 1
        /\ \A d \in Export : d # e => epc'[d] = epc[d]
        /\ \A d \in Export : d # e => at'[d] = at[d] /\ listed'[d] = listed[d] /\ records'[d] = records[d]
    BY <1>8, <1>9, <2>2 DEF ExportPlace
  <2>4. dest' \in Copy /\ dest' # None /\ dest'.by = e /\ (place = "done" => dest'.whole /\ dest' = dest)
    <3>1. CASE place = "done"
      BY <2>1, <2>2, <3>1
    <3>2. CASE place = "remove"
      <4>1. dest' = [dest EXCEPT !.whole = FALSE]
        BY <2>2, <3>2
      <4>2. dest' \in Copy /\ dest'.by = e
        BY <2>1, <4>1 DEF Copy
      <4> QED
        BY <3>2, <4>2, StorageAssumption
    <3> QED
      BY <3>1, <3>2
  <2>5. TypeOK'
    BY <1>1, <1>7, <1>9, <2>1, <2>2, <2>3, <2>4 DEF TypeOK, Pages
  <2>6. CopyOf(e)'
    BY <2>3, <2>4 DEF CopyOf
  <2>7. seen'[e] # None => seen'[e] = bucket' /\ \A i \in 1..Pages : SealInv(e, i)
    BY <1>1, <1>7, <2>1 DEF ExportOf
  <2>8. ExportOf(e)'
    BY <1>7, <2>1, <2>3, <2>4, <2>7, Listing DEF ExportOf, ListInv, GetInv, SealInv
  <2>9. \A d \in Export : d # e => CopyOf(d)' /\ ExportOf(d)'
    BY <1>7, <2>1, <2>3, OtherExport, OneCopy
  <2> QED
    BY <1>12, <2>5, <2>6, <2>8, <2>9
<1>21. CASE TakeBack(e)
  <2>1. /\ epc[e] = "remove" /\ epc'[e] = "failed" /\ epc' \in [Export -> ExportPlace]
        /\ \A d \in Export : d # e => epc'[d] = epc[d]
        /\ dest' = None /\ UNCHANGED <<at, listed, records, seen>>
    BY <1>8, <1>21 DEF TakeBack, ExportPlace
  <2>2. TypeOK'
    BY <1>1, <1>7, <2>1 DEF TypeOK
  <2>3. CopyOf(e)' /\ ExportOf(e)'
    BY <1>1, <1>7, <2>1 DEF CopyOf, ExportOf, ListInv, GetInv, SealInv
  <2>4. \A d \in Export : d # e => CopyOf(d)' /\ ExportOf(d)'
    BY <1>7, <2>1, OtherExport, OneCopy
  <2> QED
    BY <1>12, <2>2, <2>3, <2>4
<1>22. CASE ExportFails(e)
  BY <1>17, <1>22 DEF ExportFails
<1>23. CASE ExportDies(e)
  BY <1>17, <1>23 DEF ExportDies
<1> QED
  BY <1>13, <1>14, <1>15, <1>16, <1>18, <1>19, <1>20, <1>21, <1>22, <1>23 DEF ExportStep

\* The steps of the restore.
LEMMA RestoreKeeps ==
  ASSUME StorageIInv, RestoreStep
  PROVE  StorageIInv'
<1>1. TypeOK /\ RestoreInv /\ \A e \in Export : CopyOf(e) /\ ExportOf(e)
  BY DEF StorageIInv
<1>2. UNCHANGED <<writes, dest, epc, at, listed, records>>
  BY DEF RestoreStep, Preflight, Look, Skip, Put, Verify, RestoreFails, others, exporting
<1>3. next \in 1..Pages /\ KeyOrder[next] \in Key /\ bucket \in Objects /\ plan \in [Key -> Content \cup {None}]
  BY <1>1, Listing DEF TypeOK, RestoreInv
<1>4. UNCHANGED <<bucket, seen>> => \A e \in Export : CopyOf(e)' /\ ExportOf(e)'
  BY <1>2, OtherExport
<1>5. CASE Preflight
  <2>1. /\ dest # None /\ dest \in Copy /\ plan' = dest.records /\ rpc' = "look" /\ next' = 1
        /\ found' = { k \in Key : bucket[k] # None } /\ quiet' = TRUE /\ UNCHANGED <<bucket, seen>>
    BY <1>1, <1>5 DEF Preflight, others, TypeOK
  <2>2. TypeOK'
    BY <1>1, <1>2, <2>1, Listing DEF TypeOK, Copy, RestorePlace, Pages
  <2>3. RestoreInv'
    BY <1>1, <2>1, Listing DEF RestoreInv, LookInv, PutInv
  <2> QED
    BY <1>4, <2>1, <2>2, <2>3 DEF StorageIInv
<1>6. CASE Look
  <2>1. rpc = "look" /\ bucket[KeyOrder[next]] = None /\ UNCHANGED <<bucket, seen, plan, found, quiet>>
    BY <1>6 DEF Look, others
  <2>2. \/ next < Pages /\ next' = next + 1 /\ rpc' = "look"
        \/ next = Pages /\ next' = 1 /\ rpc' = "put"
    BY <1>3, <1>6, <2>1, Listing DEF Look, Pages
  <2>3. next' \in 1..Pages
    BY <1>3, <2>2, Listing
  <2>4. TypeOK'
    BY <1>1, <1>2, <2>1, <2>2, <2>3, Listing DEF TypeOK, RestorePlace, Pages
  <2>5. \A i \in 1..Pages : i <= next => KeyOrder[i] \notin found /\ (quiet => bucket[KeyOrder[i]] = None)
    BY <1>1, <1>3, <2>1 DEF RestoreInv, LookInv
  <2>6. rpc' = "put" => found' = {}
    <3>1. found \subseteq Key /\ UNCHANGED found
      BY <1>1, <2>1 DEF TypeOK
    <3>2. ASSUME rpc' = "put", NEW k \in Key
          PROVE  k \notin found
      <4>1. PICK i \in 1..Pages : k = KeyOrder[i]
        BY Listing
      <4>2. i <= next
        BY <2>1, <2>2, <3>2, <4>1, Listing
      <4> QED
        BY <2>5, <4>1, <4>2
    <3> QED
      BY <3>1, <3>2
  <2>7. \A i \in 1..Pages : LookInv(i)' /\ (quiet' => PutInv(i)')
    BY <1>3, <2>1, <2>2, <2>5 DEF LookInv, PutInv
  <2>8. RestoreInv'
    BY <1>1, <2>1, <2>2, <2>3, <2>6, <2>7 DEF RestoreInv
  <2> QED
    BY <1>4, <2>1, <2>4, <2>8 DEF StorageIInv
\* Skip and Verify: the key is as the plan wants it.
<1>7. ASSUME rpc \in {"put", "verify"}, quiet => bucket[KeyOrder[next]] = plan[KeyOrder[next]], Following,
             UNCHANGED <<bucket, seen, plan, found, quiet>>
      PROVE  StorageIInv'
  <2>1. \/ next < Pages /\ next' = next + 1 /\ rpc' = "put"
        \/ next = Pages /\ next' = 1 /\ rpc' = "done"
    BY <1>3, <1>7, Listing DEF Following, Pages
  <2>2. next' \in 1..Pages
    BY <1>3, <2>1, Listing
  <2>3. TypeOK'
    BY <1>1, <1>2, <1>7, <2>1, <2>2, Listing DEF TypeOK, RestorePlace, Pages
  <2>4. ASSUME quiet, NEW i \in 1..Pages
        PROVE  /\ i <= next => bucket[KeyOrder[i]] = plan[KeyOrder[i]]
               /\ i > next => bucket[KeyOrder[i]] = None
    BY <1>1, <1>3, <1>7, <2>4 DEF RestoreInv, PutInv
  <2>5. \A i \in 1..Pages : LookInv(i)' /\ (quiet' => PutInv(i)')
    BY <1>3, <1>7, <2>1, <2>4 DEF LookInv, PutInv
  <2>6. RestoreInv'
    BY <1>1, <1>7, <2>1, <2>2, <2>5 DEF RestoreInv
  <2> QED
    BY <1>4, <1>7, <2>3, <2>6 DEF StorageIInv
<1>8. CASE Skip
  <2>1. rpc = "put" /\ plan[KeyOrder[next]] = None /\ Following /\ UNCHANGED <<bucket, seen, plan, found, quiet>>
    BY <1>8 DEF Skip, others
  <2>2. quiet => bucket[KeyOrder[next]] = None
    BY <1>1, <1>3, <2>1 DEF RestoreInv, PutInv
  <2> QED
    BY <1>7, <2>1, <2>2
<1>9. CASE Put
  <2>1. /\ rpc = "put" /\ plan[KeyOrder[next]] # None /\ rpc' \in {"verify", "failed"}
        /\ bucket' = [bucket EXCEPT ![KeyOrder[next]] = plan[KeyOrder[next]]]
        /\ seen' = [e \in Export |-> None] /\ UNCHANGED <<next, plan, found, quiet>>
    BY <1>9 DEF Put
  <2>2. plan[KeyOrder[next]] \in Content /\ plan[KeyOrder[next]] # Forged
    BY <1>3, <2>1, StorageAssumption
  <2>3. bucket' \in Objects /\ \A k \in Key : bucket'[k] # Forged
    BY <1>1, <1>3, <2>1, <2>2 DEF Objects, RestoreInv
  <2>4. TypeOK'
    BY <1>1, <1>2, <2>1, <2>3 DEF TypeOK, RestorePlace
  <2>5. \A e \in Export : CopyOf(e)' /\ ExportOf(e)'
    BY <1>1, <1>2, <2>1 DEF CopyOf, ExportOf
  <2>6. ASSUME NEW i \in 1..Pages
        PROVE  LookInv(i)' /\ (quiet' => PutInv(i)')
    <3>1. KeyOrder[i] \in Key /\ (i # next => KeyOrder[i] # KeyOrder[next])
      BY <1>3, Listing
    <3>2. bucket'[KeyOrder[i]] = IF i = next THEN plan[KeyOrder[next]] ELSE bucket[KeyOrder[i]]
      BY <1>3, <2>1, <3>1 DEF Objects
    <3>3. quiet => PutInv(i)
      BY <1>1 DEF RestoreInv
    <3>4. quiet' => PutInv(i)'
      BY <1>3, <2>1, <3>2, <3>3 DEF PutInv
    <3> QED
      BY <2>1, <3>4 DEF LookInv
  <2>7. RestoreInv'
    BY <1>1, <1>3, <2>1, <2>3, <2>6 DEF RestoreInv
  <2> QED
    BY <2>4, <2>5, <2>7 DEF StorageIInv
<1>10. CASE Verify
  BY <1>7, <1>10 DEF Verify, others
<1>11. CASE RestoreFails
  <2>1. rpc' = "failed" /\ UNCHANGED <<bucket, seen, next, plan, found, quiet>>
    BY <1>11 DEF RestoreFails, others
  <2>2. TypeOK'
    BY <1>1, <1>2, <2>1 DEF TypeOK, RestorePlace
  <2>3. RestoreInv'
    BY <1>1, <2>1 DEF RestoreInv, LookInv, PutInv
  <2> QED
    BY <1>4, <2>1, <2>2, <2>3 DEF StorageIInv
<1> QED
  BY <1>5, <1>6, <1>8, <1>9, <1>10, <1>11 DEF RestoreStep

\* The steps of the world.
LEMMA WorldKeeps ==
  ASSUME StorageIInv, Write \/ Lose \/ Alter \/ UNCHANGED vars
  PROVE  StorageIInv'
<1>1. TypeOK /\ RestoreInv /\ \A e \in Export : CopyOf(e) /\ ExportOf(e)
  BY DEF StorageIInv
<1>2. UNCHANGED <<epc, at, listed, records, rpc, next, plan>>
  BY DEF Write, Lose, Alter, vars, exporting, restoring
<1>3. CASE Write
  <2>1. PICK k \in Key, c \in Content \cup {None} : bucket' = [bucket EXCEPT ![k] = c] /\ found' = found \ {k}
    BY <1>3 DEF Write
  <2>2. /\ writes' = writes + 1 /\ writes < MaxWrites /\ seen' = [e \in Export |-> None] /\ quiet' = FALSE
        /\ UNCHANGED dest
    BY <1>3 DEF Write
  <2>3. bucket' \in Objects /\ \A j \in Key : bucket'[j] # Forged /\ (j # k => bucket'[j] = bucket[j])
    BY <1>1, <2>1, StorageAssumption DEF TypeOK, Objects, RestoreInv
  <2>4. TypeOK'
    <3>1. writes' \in 0..MaxWrites /\ seen' \in [Export -> Objects \cup {None}]
      BY <1>1, <2>2, StorageAssumption DEF TypeOK
    <3>2. found' \subseteq Key /\ quiet' \in BOOLEAN /\ dest' \in Copy \cup {None}
      BY <1>1, <2>1, <2>2 DEF TypeOK
    <3> QED
      BY <1>1, <1>2, <2>3, <3>1, <3>2 DEF TypeOK
  <2>5. \A e \in Export : CopyOf(e)' /\ ExportOf(e)'
    BY <1>1, <1>2, <2>2 DEF CopyOf, ExportOf
  <2>6. RestoreInv'
    BY <1>1, <1>2, <2>1, <2>2, <2>3 DEF RestoreInv, LookInv, TypeOK
  <2> QED
    BY <2>4, <2>5, <2>6 DEF StorageIInv
<1>4. CASE Lose
  <2>1. /\ rpc = "begin" /\ bucket' = Nothing /\ seen' = [e \in Export |-> None]
        /\ UNCHANGED <<writes, dest, found, quiet>>
    BY <1>4 DEF Lose
  <2>2. bucket' \in Objects /\ \A j \in Key : bucket'[j] # Forged
    BY <2>1, StorageAssumption DEF Nothing, Objects
  <2>3. TypeOK'
    BY <1>1, <1>2, <2>1, <2>2 DEF TypeOK
  <2>4. \A e \in Export : CopyOf(e)' /\ ExportOf(e)'
    BY <1>1, <1>2, <2>1 DEF CopyOf, ExportOf
  <2>5. RestoreInv'
    BY <1>1, <1>2, <2>1, <2>2 DEF RestoreInv, LookInv, PutInv
  <2> QED
    BY <2>3, <2>4, <2>5 DEF StorageIInv
<1>5. CASE Alter
  <2>1. PICK c \in Content : dest # None /\ dest' = [dest EXCEPT !.altered = @ \cup {c}]
    BY <1>5 DEF Alter
  <2>2. dest \in Copy /\ UNCHANGED <<bucket, writes, seen, found, quiet>>
    BY <1>1, <1>5, <2>1 DEF TypeOK, Alter
  <2>3. dest' \in Copy /\ dest'.by = dest.by /\ dest'.whole = dest.whole /\ dest'.records = dest.records
    BY <2>1, <2>2 DEF Copy
  <2>4. TypeOK'
    BY <1>1, <1>2, <2>2, <2>3 DEF TypeOK
  <2>5. \A e \in Export : CopyOf(e)' /\ ExportOf(e)'
    BY <1>1, <1>2, <2>2, <2>3, StorageAssumption DEF CopyOf, ExportOf, ListInv, GetInv, SealInv, SizeOf
  <2>6. RestoreInv'
    BY <1>1, <1>2, <2>2 DEF RestoreInv, LookInv, PutInv
  <2> QED
    BY <2>4, <2>5, <2>6 DEF StorageIInv
<1>6. CASE UNCHANGED vars
  <2>1. UNCHANGED <<bucket, writes, dest, seen, found, quiet>>
    BY <1>6 DEF vars
  <2>2. TypeOK'
    BY <1>1, <1>2, <2>1 DEF TypeOK
  <2>3. RestoreInv'
    BY <1>1, <1>2, <2>1 DEF RestoreInv, LookInv, PutInv
  <2> QED
    BY <1>2, <2>1, <2>2, <2>3, OtherExport DEF StorageIInv
<1> QED
  BY <1>3, <1>4, <1>5, <1>6

\* Every step keeps the invariant.
LEMMA StorageStep ==
  ASSUME StorageIInv, [Next]_vars
  PROVE  StorageIInv'
BY ExportKeeps, RestoreKeeps, WorldKeeps DEF Next

\* The invariant gives the property.
LEMMA StorageGives ==
  ASSUME StorageIInv
  PROVE  StorageInv
<1>1. TypeOK /\ RestoreInv /\ \A e \in Export : CopyOf(e) /\ ExportOf(e)
  BY DEF StorageIInv
<1>2. DoneExportsStay
  BY <1>1 DEF DoneExportsStay, CopyOf
<1>3. QuietExportsAreExact
  <2> SUFFICES ASSUME NEW e \in Export, epc[e] = "done", seen[e] # None
               PROVE  dest.records = seen[e]
    BY DEF QuietExportsAreExact
  <2>1. dest \in Copy /\ seen[e] = bucket /\ bucket \in Objects
    BY <1>1 DEF TypeOK, CopyOf, ExportOf
  <2>2. \A k \in Key : dest.records[k] = bucket[k]
    BY <1>1, Listing DEF ExportOf, SealInv
  <2> QED
    BY <2>1, <2>2 DEF Copy, Objects
<1>4. rpc = "done" /\ quiet => bucket = plan
  <2> SUFFICES ASSUME rpc = "done", quiet
               PROVE  bucket = plan
    OBVIOUS
  <2>1. \A k \in Key : bucket[k] = plan[k]
    BY <1>1, Listing DEF RestoreInv, PutInv
  <2> QED
    BY <1>1, <2>1 DEF TypeOK, Objects
<1> QED
  BY <1>1, <1>2, <1>3, <1>4 DEF StorageInv, RestoredIsExported, RestoreInv

\* Only Put moves the restore and the bucket at once, and it has found nothing.
LEMMA RestoreSpares ==
  ASSUME StorageIInv, [Next]_vars, restoring' # restoring
  PROVE  \A k \in found : bucket'[k] = bucket[k]
<1>1. CASE RestoreStep
  <2>1. CASE Put
    BY <2>1 DEF StorageIInv, RestoreInv, Put
  <2>2. CASE Preflight \/ Look \/ Skip \/ Verify \/ RestoreFails
    BY <2>2 DEF Preflight, Look, Skip, Verify, RestoreFails, others
  <2> QED
    BY <1>1, <2>1, <2>2 DEF RestoreStep
<1>2. CASE \E e \in Export : ExportStep(e)
  BY <1>2 DEF ExportStep, Begin, ListPage, Get, Seal, CheckDestination, Publish, Sync, TakeBack,
              ExportFails, ExportDies, world
<1>3. CASE Write \/ Lose \/ Alter \/ UNCHANGED vars
  BY <1>3 DEF Write, Lose, Alter, vars
<1> QED
  BY <1>1, <1>2, <1>3 DEF Next

(***************************************************************************)
(* The smoke test.  Unless an answer was lost or a deletion refused, the    *)
(* test knows of what it has made, and has deleted it where it says so.     *)
(***************************************************************************)

Tests  == [pc : Smoke!Place, bucket : BOOLEAN, object : BOOLEAN, left : 0..Attempts, lost : BOOLEAN]
Stores == [bucket : BOOLEAN, object : BOOLEAN]
Knows(test, there) ==
  /\ test.pc \in {"create", "put", "get", "delete"} => ~test.lost
  /\ ~test.lost =>
       /\ there.bucket => test.bucket
       /\ there.object => test.object
       /\ test.pc \in {"converge", "drop", "clean bucket", "done", "failed"} => ~there.object
       /\ test.pc \in {"done", "failed"} => ~there.bucket

SmokeIInv == smoke \in Tests /\ store \in Stores /\ Knows(smoke, store)

LEMMA SmokeInit ==
  ASSUME Smoke!Init
  PROVE  SmokeIInv
BY ToolsAssumption DEF SmokeIInv, Knows, Tests, Stores, Smoke!Init, Smoke!Place

\* A request that fails, or whose answer is lost, leads to the clean-up.
LEMMA SmokeRequests ==
  ASSUME SmokeIInv, NEW effect \in Stores, NEW done \in Tests, Knows(done, effect),
         Smoke!Requests(effect, done)
  PROVE  SmokeIInv'
<1>1. CASE store' = effect /\ smoke' = done
  BY <1>1 DEF SmokeIInv
<1>2. CASE /\ store' \in {store, effect}
           /\ smoke' = [smoke EXCEPT !.pc = "clean object", !.lost = @ \/ store' # store]
  <2>1. store' \in Stores
    BY <1>2 DEF SmokeIInv
  <2>2. smoke' \in Tests
    BY <1>2 DEF SmokeIInv, Tests, Smoke!Place
  <2>3. /\ smoke'.pc = "clean object" /\ smoke'.object = smoke.object /\ smoke'.bucket = smoke.bucket
        /\ smoke'.lost <=> (smoke.lost \/ store' # store)
    BY <1>2 DEF SmokeIInv, Tests
  <2> QED
    BY <2>1, <2>2, <2>3 DEF SmokeIInv, Knows
<1> QED
  BY <1>1, <1>2 DEF Smoke!Requests

LEMMA OneLess ==
  ASSUME NEW n \in 0..Attempts, n > 0
  PROVE  n - 1 \in 0..Attempts
BY ToolsAssumption

\* Deleting the bucket.
LEMMA SmokeDropping ==
  ASSUME SmokeIInv, NEW last \in {"done", "failed"}, smoke.pc \in {"drop", "clean bucket"}, Smoke!Drops(last)
  PROVE  SmokeIInv'
<1>1. CASE /\ ~store.object /\ store' = [store EXCEPT !.bucket = FALSE]
           /\ smoke' = [smoke EXCEPT !.pc = last, !.bucket = FALSE]
  <2>1. store' \in Stores /\ store'.bucket = FALSE /\ store'.object = store.object
    BY <1>1 DEF SmokeIInv, Stores
  <2>2. smoke' \in Tests
    BY <1>1 DEF SmokeIInv, Tests, Smoke!Place
  <2>3. /\ smoke'.pc = last /\ smoke'.bucket = FALSE /\ smoke'.object = smoke.object
        /\ smoke'.lost = smoke.lost
    BY <1>1 DEF SmokeIInv, Tests
  <2>4. Knows(smoke', store')
    BY <1>1, <2>1, <2>3 DEF SmokeIInv, Knows
  <2> QED
    BY <2>1, <2>2, <2>4 DEF SmokeIInv
<1>2. CASE smoke.left > 0 /\ smoke' = [smoke EXCEPT !.left = @ - 1] /\ UNCHANGED store
  <2>1. smoke' \in Tests
    <3>1. smoke.left - 1 \in 0..Attempts
      BY <1>2, OneLess DEF SmokeIInv, Tests
    <3> QED
      BY <1>2, <3>1 DEF SmokeIInv, Tests
  <2>2. smoke'.pc = smoke.pc /\ smoke'.bucket = smoke.bucket /\ smoke'.object = smoke.object /\ smoke'.lost = smoke.lost
    BY <1>2 DEF SmokeIInv, Tests
  <2> QED
    BY <1>2, <2>1, <2>2 DEF SmokeIInv, Knows
<1> QED
  BY <1>1, <1>2 DEF Smoke!Drops

\* The clean-up and the retries change nothing but the place and what is left.
LEMMA SmokeMoves ==
  ASSUME SmokeIInv, NEW place \in {"converge", "drop", "clean object", "clean bucket", "done", "failed"},
         NEW left \in 0..Attempts, NEW lost \in BOOLEAN,
         smoke.lost => lost,
         smoke' = [smoke EXCEPT !.pc = place, !.left = left, !.lost = lost], UNCHANGED store,
         place \in {"converge", "drop", "clean bucket", "done", "failed"} => lost \/ ~store.object,
         place \in {"done", "failed"} => lost \/ ~store.bucket
  PROVE  SmokeIInv'
<1>1. smoke' \in Tests
  BY DEF SmokeIInv, Tests, Smoke!Place
<1>2. smoke'.pc = place /\ smoke'.bucket = smoke.bucket /\ smoke'.object = smoke.object /\ smoke'.lost = lost
  BY DEF SmokeIInv, Tests
<1> QED
  BY <1>1, <1>2 DEF SmokeIInv, Knows

LEMMA SmokeStep ==
  ASSUME SmokeIInv, [Smoke!Next]_smokeVars
  PROVE  SmokeIInv'
<1>1. smoke \in Tests /\ store \in Stores /\ Knows(smoke, store) /\ Attempts \in 0..Attempts
  BY ToolsAssumption DEF SmokeIInv
<1>2. CASE Smoke!SmokeCreates
  <2> DEFINE effect == [store EXCEPT !.bucket = TRUE]
             done   == [smoke EXCEPT !.pc = "put", !.bucket = TRUE]
  <2>1. effect \in Stores /\ effect.bucket = TRUE /\ effect.object = store.object
    BY <1>1 DEF Stores
  <2>2. done \in Tests
    BY <1>1 DEF Tests, Smoke!Place
  <2>3. done.pc = "put" /\ done.bucket = TRUE /\ done.object = smoke.object /\ done.lost = smoke.lost
    BY <1>1 DEF Tests
  <2>4. Smoke!Requests(effect, done)
    BY <1>2 DEF Smoke!SmokeCreates
  <2> HIDE DEF effect, done
  <2>5. Knows(done, effect)
    BY <1>1, <1>2, <2>1, <2>3 DEF Knows, Smoke!SmokeCreates
  <2> QED
    BY <2>1, <2>2, <2>4, <2>5, SmokeRequests
<1>3. CASE Smoke!SmokePuts
  <2> DEFINE effect == [store EXCEPT !.object = TRUE]
             done   == [smoke EXCEPT !.pc = "get", !.object = TRUE]
  <2>1. effect \in Stores /\ effect.object = TRUE /\ effect.bucket = store.bucket
    BY <1>1 DEF Stores
  <2>2. done \in Tests
    BY <1>1 DEF Tests, Smoke!Place
  <2>3. done.pc = "get" /\ done.object = TRUE /\ done.bucket = smoke.bucket /\ done.lost = smoke.lost
    BY <1>1 DEF Tests
  <2>4. Smoke!Requests(effect, done)
    BY <1>3 DEF Smoke!SmokePuts
  <2> HIDE DEF effect, done
  <2>5. Knows(done, effect)
    BY <1>1, <1>3, <2>1, <2>3 DEF Knows, Smoke!SmokePuts
  <2> QED
    BY <2>1, <2>2, <2>4, <2>5, SmokeRequests
<1>4. CASE Smoke!SmokeGets
  <2> DEFINE done == [smoke EXCEPT !.pc = "delete"]
  <2>1. done \in Tests
    BY <1>1 DEF Tests, Smoke!Place
  <2>2. done.pc = "delete" /\ done.object = smoke.object /\ done.bucket = smoke.bucket /\ done.lost = smoke.lost
    BY <1>1 DEF Tests
  <2>3. Smoke!Requests(store, done)
    BY <1>4 DEF Smoke!SmokeGets
  <2> HIDE DEF done
  <2>4. Knows(done, store)
    BY <1>1, <1>4, <2>2 DEF Knows, Smoke!SmokeGets
  <2> QED
    BY <1>1, <2>1, <2>3, <2>4, SmokeRequests
<1>5. CASE Smoke!SmokeDeletes
  <2>1. PICK gone \in BOOLEAN :
          Smoke!Requests([store EXCEPT !.object = ~gone],
                         [smoke EXCEPT !.pc = "converge", !.object = FALSE, !.left = Attempts, !.lost = ~gone])
    BY <1>5 DEF Smoke!SmokeDeletes
  <2> DEFINE effect == [store EXCEPT !.object = ~gone]
             done   == [smoke EXCEPT !.pc = "converge", !.object = FALSE, !.left = Attempts, !.lost = ~gone]
  <2>2. effect \in Stores /\ effect.object = ~gone /\ effect.bucket = store.bucket
    BY <1>1 DEF Stores
  <2>3. done \in Tests
    BY <1>1 DEF Tests, Smoke!Place
  <2>4. done.pc = "converge" /\ done.bucket = smoke.bucket /\ done.lost = ~gone
    BY <1>1 DEF Tests
  <2>5. smoke.pc = "delete"
    BY <1>5 DEF Smoke!SmokeDeletes
  <2>6. Smoke!Requests(effect, done)
    BY <2>1
  <2> HIDE DEF effect, done
  <2>7. Knows(done, effect)
    BY <1>1, <2>2, <2>4, <2>5 DEF Knows
  <2> QED
    BY <2>2, <2>3, <2>6, <2>7, SmokeRequests
<1>6. CASE Smoke!SmokeConverges
  <2>1. smoke.pc = "converge"
    BY <1>6 DEF Smoke!SmokeConverges
  <2>2. CASE /\ smoke.left > 0 /\ ~store.object
             /\ smoke' = [smoke EXCEPT !.pc = "drop", !.left = Attempts] /\ UNCHANGED store
    <3>1. smoke' = [smoke EXCEPT !.pc = "drop", !.left = Attempts, !.lost = smoke.lost]
      BY <1>1, <2>2 DEF Tests
    <3> QED
      BY <1>1, <2>2, <3>1, SmokeMoves DEF Tests
  <2>3. CASE /\ smoke.left > 0 /\ store.object
             /\ \E gone \in BOOLEAN :
                  Smoke!Requests([store EXCEPT !.object = ~gone], [smoke EXCEPT !.left = @ - 1])
    <3>1. PICK gone \in BOOLEAN :
            Smoke!Requests([store EXCEPT !.object = ~gone], [smoke EXCEPT !.left = @ - 1])
      BY <2>3
    <3> DEFINE effect == [store EXCEPT !.object = ~gone]
               done   == [smoke EXCEPT !.left = @ - 1]
    <3>2. effect \in Stores
      BY <1>1 DEF Stores
    <3>3. done \in Tests
      BY <1>1, <2>3, ToolsAssumption DEF Tests
    <3>4. done.pc = smoke.pc /\ done.lost = smoke.lost
      BY <1>1 DEF Tests
    <3>5. Smoke!Requests(effect, done)
      BY <3>1
    <3>6. smoke.lost
      BY <1>1, <2>1, <2>3 DEF Knows
    <3> HIDE DEF effect, done
    <3>7. Knows(done, effect)
      BY <2>1, <3>4, <3>6 DEF Knows
    <3> QED
      BY <3>2, <3>3, <3>5, <3>7, SmokeRequests
  <2>4. CASE smoke' = [smoke EXCEPT !.pc = "clean object"] /\ UNCHANGED store
    <3>1. smoke' = [smoke EXCEPT !.pc = "clean object", !.left = smoke.left, !.lost = smoke.lost]
      BY <1>1, <2>4 DEF Tests
    <3> QED
      BY <1>1, <2>4, <3>1, SmokeMoves DEF Tests
  <2> QED
    BY <1>6, <2>2, <2>3, <2>4 DEF Smoke!SmokeConverges
<1>7. CASE Smoke!SmokeDrops
  <2>1. smoke.pc = "drop"
    BY <1>7 DEF Smoke!SmokeDrops
  <2>2. CASE Smoke!Drops("done")
    BY <2>1, <2>2, SmokeDropping
  <2>3. CASE smoke' = [smoke EXCEPT !.pc = "clean bucket", !.left = Attempts] /\ UNCHANGED store
    <3>1. smoke' = [smoke EXCEPT !.pc = "clean bucket", !.left = Attempts, !.lost = smoke.lost]
      BY <1>1, <2>3 DEF Tests
    <3>2. smoke.lost \/ ~store.object
      BY <1>1, <2>1 DEF Knows
    <3> QED
      BY <1>1, <2>3, <3>1, <3>2, SmokeMoves DEF Tests
  <2> QED
    BY <1>7, <2>2, <2>3 DEF Smoke!SmokeDrops
<1>8. CASE Smoke!SmokeCleansObject
  <2>1. PICK deleted \in BOOLEAN :
          /\ store' = [store EXCEPT !.object = @ /\ ~(smoke.object /\ deleted)]
          /\ smoke' = [smoke EXCEPT !.pc = "clean bucket", !.left = Attempts, !.lost = @ \/ ~deleted]
    BY <1>8 DEF Smoke!SmokeCleansObject
  <2>2. /\ store' \in Stores /\ store'.bucket = store.bucket
        /\ store'.object <=> (store.object /\ ~(smoke.object /\ deleted))
    BY <1>1, <2>1 DEF Stores
  <2>3. smoke' \in Tests
    BY <1>1, <2>1 DEF Tests, Smoke!Place
  <2>4. /\ smoke'.pc = "clean bucket" /\ smoke'.bucket = smoke.bucket /\ smoke'.object = smoke.object
        /\ smoke'.lost <=> (smoke.lost \/ ~deleted)
    BY <1>1, <2>1 DEF Tests
  <2>5. Knows(smoke', store')
    BY <1>1, <2>2, <2>4 DEF Knows
  <2> QED
    BY <2>2, <2>3, <2>5 DEF SmokeIInv
<1>9. CASE Smoke!SmokeCleansBucket
  <2>1. smoke.pc = "clean bucket" /\ (smoke.lost \/ ~store.object)
    BY <1>1, <1>9 DEF Smoke!SmokeCleansBucket, Knows
  <2>2. CASE ~smoke.bucket /\ smoke' = [smoke EXCEPT !.pc = "failed"] /\ UNCHANGED store
    <3>1. smoke' = [smoke EXCEPT !.pc = "failed", !.left = smoke.left, !.lost = smoke.lost]
      BY <1>1, <2>2 DEF Tests
    <3>2. smoke.lost \/ ~store.bucket
      BY <1>1, <2>2 DEF Knows
    <3> QED
      BY <1>1, <2>1, <2>2, <3>1, <3>2, SmokeMoves DEF Tests
  <2>3. CASE Smoke!Drops("failed")
    BY <2>1, <2>3, SmokeDropping
  <2>4. CASE smoke' = [smoke EXCEPT !.pc = "failed", !.lost = @ \/ ~store.object] /\ UNCHANGED store
    <3> DEFINE lost == smoke.lost \/ ~store.object
    <3>1. smoke' = [smoke EXCEPT !.pc = "failed", !.left = smoke.left, !.lost = lost]
      BY <1>1, <2>4 DEF Tests
    <3>2. lost \in BOOLEAN /\ lost
      BY <2>1
    <3> HIDE DEF lost
    <3> QED
      BY <1>1, <2>4, <3>1, <3>2, SmokeMoves DEF Tests
  <2> QED
    BY <1>9, <2>2, <2>3, <2>4 DEF Smoke!SmokeCleansBucket
<1>10. CASE UNCHANGED smokeVars
  BY <1>10 DEF smokeVars, SmokeIInv
<1> QED
  BY <1>2, <1>3, <1>4, <1>5, <1>6, <1>7, <1>8, <1>9, <1>10 DEF Smoke!Next

LEMMA SmokeGives ==
  ASSUME SmokeIInv
  PROVE  SmokeInv
BY DEF SmokeIInv, Tests, Stores, Knows, SmokeInv, Smoke!SmokeInv, Smoke!TypeOK, Smoke!SmokeLeavesNothing

(***************************************************************************)
(* The bootstrap job.  As long as pods work one after the other, the one    *)
(* at work has loaded the table that is there, and its place tells how far  *)
(* the fixture is.                                                          *)
(***************************************************************************)

Working(p) == Bootstrap!Working(p)
BootstrapAlone == \A p, q \in Pod : Working(p) /\ Working(q) => p = q

\* What the pod at work knows.
Bootstraps == {"post", "namespace", "table", "create", "contract", "file", "append", "mark", "list", "read"}
Cleanups   == {"drop", "purge", "empty", "delete"}
PodInv(p) ==
  /\ Working(p) => report # "cleaned" /\ (report = "passed" => ~pod[p].cleans)
  /\ pod[p].pc \in Bootstraps => ~pod[p].cleans
  /\ pod[p].pc \in Cleanups => pod[p].cleans
  /\ pod[p].pc \in {"contract", "read"} => pod[p].seen = table
  /\ pod[p].pc \in {"file", "append"} => table # None /\ pod[p].seen.born = table.born /\ table.entries = 0
  /\ pod[p].pc = "mark" => table # None /\ pod[p].seen.born = table.born /\ table.entries = 1
  /\ pod[p].pc \in {"purge", "empty", "delete"} => table = None
  /\ pod[p].pc = "purge" => (file /\ pod[p].seen.entries = 0 => orphaned)
  /\ pod[p].pc = "delete" => ~namespace

\* Every file is one that a table has, that a pod is about to append, or to purge, or it
\* is an orphan; a table without its marker lacks it because of a pod that died.
NobodyAt(places) == \A p \in Pod : pod[p].pc \notin places
FileInv ==
  /\ table = None /\ NobodyAt({"purge"}) => (file => orphaned)
  /\ table # None /\ table.entries = 0 /\ NobodyAt({"append"}) => (file => orphaned)

BootstrapIInv ==
  /\ Bootstrap!TypeOK
  /\ namespace => catalog # "none"
  /\ table # None => namespace
  /\ ~beside =>
       /\ BootstrapAlone /\ \A p \in Pod : PodInv(p)
       /\ FileInv
       /\ Bootstrap!AppendedOnce /\ Bootstrap!PassedStays /\ Bootstrap!CleanedIsEmpty

\* The same, told of the one pod that may be at work.
Resting == {"idle", "passed", "cleaned"}
OnlyOne(p) ==
  /\ \A q \in Pod : q # p => pod[q].pc \in Resting
  /\ PodInv(p)
  /\ table = None /\ pod[p].pc # "purge" => (file => orphaned)
  /\ table # None =>
       /\ table.entries <= 1
       /\ table.entries = 0 /\ pod[p].pc # "append" => (file => orphaned)
       /\ table.entries = 1 /\ ~table.marker => cut \/ pod[p].pc = "mark"
  /\ report = "passed" => table # None /\ table.entries = 1 /\ table.marker /\ file
  /\ report = "cleaned" => catalog = "none" /\ ~namespace /\ table = None /\ (file => orphaned)

Pods == [Pod -> [pc : Bootstrap!Place, cleans : BOOLEAN, seen : Bootstrap!Table]]

\* What a step of a pod does to the pods.
PodBecomes(p, place, cleans, known) ==
  /\ pod' \in Pods /\ \A q \in Pod : q # p => pod'[q] = pod[q]
  /\ pod'[p].pc = place /\ pod'[p].cleans = cleans /\ pod'[p].seen = known

LEMMA PodGoes ==
  ASSUME pod \in Pods, NEW p \in Pod, NEW place \in Bootstrap!Place, Bootstrap!Goes(p, place)
  PROVE  PodBecomes(p, place, pod[p].cleans, pod[p].seen)
BY DEF Pods, Bootstrap!Goes, PodBecomes

LEMMA PodLoads ==
  ASSUME pod \in Pods, NEW p \in Pod, NEW place \in Bootstrap!Place, NEW known \in Bootstrap!Table,
         pod' = [pod EXCEPT ![p].pc = place, ![p].seen = known]
  PROVE  PodBecomes(p, place, pod[p].cleans, known)
<1> DEFINE new == [pod[p] EXCEPT !.pc = place, !.seen = known]
<1>1. new \in [pc : Bootstrap!Place, cleans : BOOLEAN, seen : Bootstrap!Table]
  BY DEF Pods
<1>2. new.pc = place /\ new.cleans = pod[p].cleans /\ new.seen = known
  BY DEF Pods
<1>3. pod' = [pod EXCEPT ![p] = new]
  BY DEF Pods
<1> HIDE DEF new
<1> QED
  BY <1>1, <1>2, <1>3 DEF PodBecomes, Pods

LEMMA AloneKnows ==
  ASSUME BootstrapIInv, ~beside, NEW p \in Pod, \A q \in Pod : q # p => ~Working(q)
  PROVE  OnlyOne(p)
<1>1. \A q \in Pod : q # p => pod[q].pc \in Resting
  BY DEF Working, Bootstrap!Working, Resting
<1>2. \A q \in Pod : q # p => pod[q].pc \notin {"purge", "append", "mark"}
  BY <1>1 DEF Resting
<1>3. PodInv(p) /\ FileInv /\ Bootstrap!AppendedOnce /\ Bootstrap!PassedStays /\ Bootstrap!CleanedIsEmpty
  BY DEF BootstrapIInv
<1> QED
  BY <1>1, <1>2, <1>3 DEF OnlyOne, FileInv, NobodyAt, Bootstrap!AppendedOnce, Bootstrap!PassedStays,
                          Bootstrap!CleanedIsEmpty, Bootstrap!At

LEMMA KnowsAlone ==
  ASSUME NEW p \in Pod, Bootstrap!TypeOK', (namespace => catalog # "none")', (table # None => namespace)',
         beside' \/ OnlyOne(p)'
  PROVE  BootstrapIInv'
<1>1. CASE beside'
  BY <1>1 DEF BootstrapIInv
<1>2. CASE OnlyOne(p)'
  <2>1. \A q \in Pod : q # p => pod'[q].pc \in Resting
    BY <1>2 DEF OnlyOne
  <2>2. \A q \in Pod : PodInv(q)'
    BY <1>2, <2>1 DEF OnlyOne, PodInv, Working, Bootstrap!Working, Resting, Bootstraps, Cleanups
  <2>3. BootstrapAlone'
    BY <2>1 DEF BootstrapAlone, Working, Bootstrap!Working, Resting
  <2>4. FileInv'
    BY <1>2 DEF OnlyOne, FileInv, NobodyAt
  <2>5. (Bootstrap!AppendedOnce /\ Bootstrap!PassedStays /\ Bootstrap!CleanedIsEmpty)'
    BY <1>2 DEF OnlyOne, Bootstrap!AppendedOnce, Bootstrap!PassedStays, Bootstrap!CleanedIsEmpty, Bootstrap!At
  <2> QED
    BY <2>2, <2>3, <2>4, <2>5 DEF BootstrapIInv
<1> QED
  BY <1>1, <1>2

LEMMA FirstTable == Bootstrap!Fresh(0) \in Bootstrap!Table
<1>1. 0 \in 0..MaxStarts /\ 0 \in 0..2
  BY ToolsAssumption
<1> QED
  BY <1>1 DEF Bootstrap!Fresh, Bootstrap!Table, Bootstrap!Entries

\* The steps of a pod keep the invariant.
LEMMA PodKeeps ==
  ASSUME BootstrapIInv, NEW p \in Pod, Working(p),
         \/ Bootstrap!Fails(p) \/ Bootstrap!Catalog(p) \/ Bootstrap!Post(p) \/ Bootstrap!Namespace(p)
         \/ Bootstrap!FindTable(p) \/ Bootstrap!Create(p) \/ Bootstrap!Contract(p) \/ Bootstrap!WriteFile(p)
         \/ Bootstrap!Append(p) \/ Bootstrap!Mark(p) \/ Bootstrap!List(p) \/ Bootstrap!Read(p)
         \/ Bootstrap!Drop(p) \/ Bootstrap!Purge(p) \/ Bootstrap!DropNamespace(p) \/ Bootstrap!DeleteCatalog(p)
  PROVE  BootstrapIInv'
<1>1. /\ pod \in Pods /\ table \in Bootstrap!Table \cup {None} /\ None \notin Bootstrap!Table
      /\ starts \in 0..MaxStarts /\ namespace \in BOOLEAN /\ file \in BOOLEAN
      /\ catalog \in {"none", "reviewed", "other"} /\ report \in {"nothing", "passed", "cleaned"}
      /\ beside \in BOOLEAN /\ cut \in BOOLEAN /\ orphaned \in BOOLEAN
      /\ (namespace => catalog # "none") /\ (table # None => namespace)
      /\ pod[p].seen \in Bootstrap!Table /\ pod[p].pc \in Bootstrap!Place
  BY ToolsAssumption DEF BootstrapIInv, Bootstrap!TypeOK, Pods
<1>2. ~beside => OnlyOne(p)
  BY AloneKnows DEF BootstrapIInv, BootstrapAlone
<1>3. UNCHANGED <<starts, beside>> /\ beside' = beside
  BY DEF Bootstrap!Fails, Bootstrap!Catalog, Bootstrap!Post, Bootstrap!Namespace, Bootstrap!FindTable, Bootstrap!Reads,
         Bootstrap!Create, Bootstrap!Contract, Bootstrap!WriteFile, Bootstrap!Append, Bootstrap!Mark, Bootstrap!List,
         Bootstrap!Read, Bootstrap!Drop, Bootstrap!Purge, Bootstrap!DropNamespace, Bootstrap!DeleteCatalog,
         Bootstrap!history, Bootstrap!store
\* It is enough that types are kept, and what is known of a pod alone.
<1>4. ASSUME NEW place, NEW cleans, NEW known, PodBecomes(p, place, cleans, known),
             table' \in Bootstrap!Table \cup {None} /\ namespace' \in BOOLEAN /\ file' \in BOOLEAN,
             catalog' \in {"none", "reviewed", "other"} /\ report' \in {"nothing", "passed", "cleaned"},
             cut' \in BOOLEAN /\ orphaned' \in BOOLEAN,
             (namespace' => catalog' # "none") /\ (table' # None => namespace'),
             ~beside => OnlyOne(p)'
      PROVE  BootstrapIInv'
  <2>1. Bootstrap!TypeOK'
    BY <1>1, <1>3, <1>4 DEF Bootstrap!TypeOK, PodBecomes, Pods
  <2> QED
    BY <1>3, <1>4, <2>1, KnowsAlone
<1> USE <1>1, <1>2, <1>3
<1>5. CASE Bootstrap!Fails(p)
  <2>1. /\ pod' = [pod EXCEPT ![p] = Bootstrap!NoPod]
        /\ cut' = (cut \/ pod[p].pc = "mark") /\ orphaned' = (orphaned \/ pod[p].pc = "append" \/ pod[p].pc = "purge")
        /\ UNCHANGED <<catalog, namespace, table, file, report>>
    BY <1>5 DEF Bootstrap!Fails, Bootstrap!At, Bootstrap!store
  <2>2. Bootstrap!NoPod \in [pc : Bootstrap!Place, cleans : BOOLEAN, seen : Bootstrap!Table]
    BY ToolsAssumption DEF Bootstrap!NoPod, Bootstrap!Fresh, Bootstrap!Table, Bootstrap!Place, Bootstrap!Entries
  <2>3. PodBecomes(p, "idle", FALSE, Bootstrap!Fresh(0))
    BY <2>1, <2>2 DEF PodBecomes, Pods, Bootstrap!NoPod
  <2>4. ~beside => OnlyOne(p)'
    BY <2>1, <2>3 DEF OnlyOne, PodInv, PodBecomes, Working, Bootstrap!Working, Resting, Bootstraps, Cleanups
  <2> QED
    BY <1>4, <2>1, <2>3, <2>4
<1>6. CASE Bootstrap!Catalog(p)
  <2>1. CASE pod[p].cleans /\ catalog = "none"
    <3>1. /\ pod[p].pc = "catalog" /\ report' = "cleaned" /\ UNCHANGED <<catalog, namespace, table, file, cut, orphaned>>
          /\ Bootstrap!Goes(p, "cleaned")
      BY <1>6, <2>1 DEF Bootstrap!Catalog, Bootstrap!At, Bootstrap!store
    <3>2. PodBecomes(p, "cleaned", pod[p].cleans, pod[p].seen)
      BY <3>1, PodGoes DEF Bootstrap!Place
    <3>3. ~beside => OnlyOne(p)'
      BY <2>1, <3>1, <3>2 DEF OnlyOne, PodInv, PodBecomes, Working, Bootstrap!Working, Resting, Bootstraps, Cleanups
    <3> QED
      BY <1>4, <3>1, <3>2, <3>3
  <2>2. CASE ~(pod[p].cleans /\ catalog = "none")
    <3> DEFINE place == IF pod[p].cleans THEN "drop" ELSE IF catalog = "none" THEN "post" ELSE "namespace"
    <3>1. /\ pod[p].pc = "catalog" /\ UNCHANGED <<catalog, namespace, table, file, cut, orphaned, report>>
          /\ Bootstrap!Goes(p, place)
      BY <1>6, <2>2 DEF Bootstrap!Catalog, Bootstrap!At, Bootstrap!store
    <3>2. place \in Bootstrap!Place
      BY DEF Bootstrap!Place
    <3>3. \/ place = "drop" /\ pod[p].cleans
          \/ place \in {"post", "namespace"} /\ ~pod[p].cleans
      OBVIOUS
    <3> HIDE DEF place
    <3>4. PodBecomes(p, place, pod[p].cleans, pod[p].seen)
      BY <3>1, <3>2, PodGoes
    <3>5. ~beside => OnlyOne(p)'
      BY <3>1, <3>3, <3>4 DEF OnlyOne, PodInv, PodBecomes, Working, Bootstrap!Working, Resting, Bootstraps, Cleanups
    <3> QED
      BY <1>4, <3>1, <3>4, <3>5
  <2> QED
    BY <2>1, <2>2
<1>7. CASE Bootstrap!Post(p)
  <2>1. /\ pod[p].pc = "post" /\ catalog = "none" /\ catalog' = "reviewed"
        /\ UNCHANGED <<namespace, table, file, cut, orphaned, report>>
        /\ Bootstrap!Goes(p, "namespace")
    BY <1>7 DEF Bootstrap!Post, Bootstrap!At, Bootstrap!Reads, Bootstrap!store, Bootstrap!history
  <2>2. PodBecomes(p, "namespace", pod[p].cleans, pod[p].seen)
    BY <2>1, PodGoes DEF Bootstrap!Place
  <2>3. ~beside => OnlyOne(p)'
    BY <2>1, <2>2 DEF OnlyOne, PodInv, PodBecomes, Working, Bootstrap!Working, Resting, Bootstraps, Cleanups
  <2> QED
    BY <1>4, <2>1, <2>2, <2>3
<1>8. CASE Bootstrap!Namespace(p)
  <2>1. /\ pod[p].pc = "namespace" /\ catalog # "none" /\ namespace' = TRUE
        /\ UNCHANGED <<catalog, table, file, cut, orphaned, report>>
        /\ Bootstrap!Goes(p, "table")
    BY <1>8 DEF Bootstrap!Namespace, Bootstrap!At, Bootstrap!Reads, Bootstrap!store, Bootstrap!history
  <2>2. PodBecomes(p, "table", pod[p].cleans, pod[p].seen)
    BY <2>1, PodGoes DEF Bootstrap!Place
  <2>3. ~beside => OnlyOne(p)'
    BY <2>1, <2>2 DEF OnlyOne, PodInv, PodBecomes, Working, Bootstrap!Working, Resting, Bootstraps, Cleanups
  <2> QED
    BY <1>4, <2>1, <2>2, <2>3
<1>9. CASE Bootstrap!FindTable(p)
  <2> DEFINE place == IF table = None THEN "create" ELSE "contract"
             known == IF table = None THEN pod[p].seen ELSE table
  <2>1. /\ pod[p].pc = "table" /\ UNCHANGED <<catalog, namespace, table, file, cut, orphaned, report>>
        /\ pod' = [pod EXCEPT ![p].pc = place, ![p].seen = known]
    BY <1>9 DEF Bootstrap!FindTable, Bootstrap!At, Bootstrap!Reads, Bootstrap!store, Bootstrap!history
  <2>2. place \in Bootstrap!Place /\ known \in Bootstrap!Table
    BY DEF Bootstrap!Place
  <2>3. \/ place = "create" /\ table = None
        \/ place = "contract" /\ known = table
    OBVIOUS
  <2> HIDE DEF place, known
  <2>4. PodBecomes(p, place, pod[p].cleans, known)
    BY <2>1, <2>2, PodLoads
  <2>5. ~beside => OnlyOne(p)'
    BY <2>1, <2>3, <2>4 DEF OnlyOne, PodInv, PodBecomes, Working, Bootstrap!Working, Resting, Bootstraps, Cleanups
  <2> QED
    BY <1>4, <2>1, <2>4, <2>5
<1>10. CASE Bootstrap!Create(p)
  <2>1. /\ pod[p].pc = "create" /\ namespace /\ table = None /\ table' = Bootstrap!Fresh(starts)
        /\ UNCHANGED <<catalog, namespace, file, cut, orphaned, report>>
        /\ pod' = [pod EXCEPT ![p].pc = "contract", ![p].seen = Bootstrap!Fresh(starts)]
    BY <1>10 DEF Bootstrap!Create, Bootstrap!At, Bootstrap!history
  <2>2. Bootstrap!Fresh(starts) \in Bootstrap!Table
    BY DEF Bootstrap!Fresh, Bootstrap!Table, Bootstrap!Entries
  <2>3. PodBecomes(p, "contract", pod[p].cleans, Bootstrap!Fresh(starts))
    BY <2>1, <2>2, PodLoads DEF Bootstrap!Place
  <2>4. table'.entries = 0 /\ table' # None
    BY <2>1, <2>2 DEF Bootstrap!Fresh
  <2>5. ~beside => OnlyOne(p)'
    <3> SUFFICES ASSUME ~beside
                 PROVE  OnlyOne(p)'
      OBVIOUS
    <3>1. pod'[p].pc = "contract" /\ pod'[p].seen = table' /\ pod'[p].cleans = pod[p].cleans
      BY <2>1, <2>3 DEF PodBecomes
    <3>2. report # "cleaned" /\ report # "passed" /\ ~pod[p].cleans /\ (file => orphaned)
      BY <2>1 DEF OnlyOne, PodInv, Working, Bootstrap!Working, Bootstraps
    <3>3. PodInv(p)'
      BY <2>1, <3>1, <3>2 DEF PodInv, Working, Bootstrap!Working, Bootstraps, Cleanups
    <3>4. \A q \in Pod : q # p => pod'[q].pc \in Resting
      BY <2>3 DEF OnlyOne, PodBecomes
    <3>5. UNCHANGED <<file, cut, orphaned, report>>
      BY <2>1
    <3> QED
      BY <2>4, <3>1, <3>2, <3>3, <3>4, <3>5 DEF OnlyOne
  <2> QED
    BY <1>4, <2>1, <2>2, <2>3, <2>5
<1>11. CASE Bootstrap!Contract(p)
  <2> DEFINE place == IF pod[p].seen.entries > 0 THEN "list" ELSE "file"
  <2>1. /\ pod[p].pc = "contract" /\ UNCHANGED <<catalog, namespace, table, file, cut, orphaned, report>>
        /\ Bootstrap!Goes(p, place)
    BY <1>11 DEF Bootstrap!Contract, Bootstrap!At, Bootstrap!Reads, Bootstrap!store, Bootstrap!history
  <2>2. place \in Bootstrap!Place
    BY DEF Bootstrap!Place
  <2>3. pod[p].seen.entries \in 0..2
    BY DEF Bootstrap!Table, Bootstrap!Entries
  <2>4. \/ place = "list" /\ pod[p].seen.entries > 0
        \/ place = "file" /\ pod[p].seen.entries = 0
    BY <2>3
  <2> HIDE DEF place
  <2>5. PodBecomes(p, place, pod[p].cleans, pod[p].seen)
    BY <2>1, <2>2, PodGoes
  <2>6. ~beside => OnlyOne(p)'
    BY <2>1, <2>4, <2>5 DEF OnlyOne, PodInv, PodBecomes, Working, Bootstrap!Working, Resting, Bootstraps, Cleanups
  <2> QED
    BY <1>4, <2>1, <2>5, <2>6
<1>12. CASE Bootstrap!WriteFile(p)
  <2>1. /\ pod[p].pc = "file" /\ file' = TRUE
        /\ UNCHANGED <<catalog, namespace, table, cut, orphaned, report>>
        /\ Bootstrap!Goes(p, "append")
    BY <1>12 DEF Bootstrap!WriteFile, Bootstrap!At, Bootstrap!Reads, Bootstrap!store, Bootstrap!history
  <2>2. PodBecomes(p, "append", pod[p].cleans, pod[p].seen)
    BY <2>1, PodGoes DEF Bootstrap!Place
  <2>3. ~beside => OnlyOne(p)'
    BY <2>1, <2>2 DEF OnlyOne, PodInv, PodBecomes, Working, Bootstrap!Working, Resting, Bootstraps, Cleanups
  <2> QED
    BY <1>4, <2>1, <2>2, <2>3
<1>13. CASE Bootstrap!Append(p)
  <2>1. /\ pod[p].pc = "append" /\ table \in Bootstrap!Table /\ pod[p].seen.born = table.born
        /\ table' = [table EXCEPT !.entries = IF @ < 2 THEN @ + 1 ELSE @]
        /\ UNCHANGED <<catalog, namespace, file, cut, orphaned, report>>
        /\ Bootstrap!Goes(p, "mark")
    BY <1>13 DEF Bootstrap!Append, Bootstrap!At, Bootstrap!SameTable, Bootstrap!history
  <2>2. PodBecomes(p, "mark", pod[p].cleans, pod[p].seen)
    BY <2>1, PodGoes DEF Bootstrap!Place
  <2>3. /\ table' \in Bootstrap!Table /\ table'.born = table.born /\ table'.marker = table.marker
        /\ table.entries = 0 => table'.entries = 1
    BY <2>1 DEF Bootstrap!Table, Bootstrap!Entries
  <2>4. ~beside => OnlyOne(p)'
    BY <2>1, <2>2, <2>3 DEF OnlyOne, PodInv, PodBecomes, Working, Bootstrap!Working, Resting, Bootstraps, Cleanups
  <2> QED
    BY <1>4, <2>1, <2>2, <2>3, <2>4
<1>14. CASE Bootstrap!Mark(p)
  <2>1. /\ pod[p].pc = "mark" /\ table \in Bootstrap!Table /\ table' = [table EXCEPT !.marker = TRUE]
        /\ UNCHANGED <<catalog, namespace, file, cut, orphaned, report>>
        /\ Bootstrap!Goes(p, "list")
    BY <1>14 DEF Bootstrap!Mark, Bootstrap!At, Bootstrap!SameTable, Bootstrap!history
  <2>2. PodBecomes(p, "list", pod[p].cleans, pod[p].seen)
    BY <2>1, PodGoes DEF Bootstrap!Place
  <2>3. table' \in Bootstrap!Table /\ table'.marker = TRUE /\ table'.entries = table.entries
    BY <2>1 DEF Bootstrap!Table
  <2>4. ~beside => OnlyOne(p)'
    BY <2>1, <2>2, <2>3 DEF OnlyOne, PodInv, PodBecomes, Working, Bootstrap!Working, Resting, Bootstraps, Cleanups
  <2> QED
    BY <1>4, <2>1, <2>2, <2>3, <2>4
<1>15. CASE Bootstrap!List(p)
  <2>1. /\ pod[p].pc = "list" /\ table \in Bootstrap!Table
        /\ UNCHANGED <<catalog, namespace, table, file, cut, orphaned, report>>
        /\ pod' = [pod EXCEPT ![p].pc = "read", ![p].seen = table]
    BY <1>15 DEF Bootstrap!List, Bootstrap!At, Bootstrap!SameTable, Bootstrap!Reads, Bootstrap!store, Bootstrap!history
  <2>2. PodBecomes(p, "read", pod[p].cleans, table)
    BY <2>1, PodLoads DEF Bootstrap!Place
  <2>3. ~beside => OnlyOne(p)'
    BY <2>1, <2>2 DEF OnlyOne, PodInv, PodBecomes, Working, Bootstrap!Working, Resting, Bootstraps, Cleanups
  <2> QED
    BY <1>4, <2>1, <2>2, <2>3
<1>16. CASE Bootstrap!Read(p)
  <2>1. /\ pod[p].pc = "read" /\ pod[p].seen.marker /\ pod[p].seen.entries = 1 /\ file /\ report' = "passed"
        /\ UNCHANGED <<catalog, namespace, table, file, cut, orphaned>>
        /\ Bootstrap!Goes(p, "passed")
    BY <1>16 DEF Bootstrap!Read, Bootstrap!At, Bootstrap!Reads, Bootstrap!store, Bootstrap!history
  <2>2. PodBecomes(p, "passed", pod[p].cleans, pod[p].seen)
    BY <2>1, PodGoes DEF Bootstrap!Place
  <2>3. ~beside => OnlyOne(p)'
    BY <2>1, <2>2 DEF OnlyOne, PodInv, PodBecomes, Working, Bootstrap!Working, Resting, Bootstraps, Cleanups
  <2> QED
    BY <1>4, <2>1, <2>2, <2>3
<1>17. CASE Bootstrap!Drop(p)
  <2> DEFINE place == IF table = None THEN "empty" ELSE "purge"
             known == IF table = None THEN pod[p].seen ELSE table
  <2>1. /\ pod[p].pc = "drop" /\ table' = None /\ UNCHANGED <<catalog, namespace, file, cut, orphaned, report>>
        /\ IF table = None THEN Bootstrap!Goes(p, "empty")
                           ELSE pod' = [pod EXCEPT ![p].pc = "purge", ![p].seen = table]
    BY <1>17 DEF Bootstrap!Drop, Bootstrap!At, Bootstrap!Goes, Bootstrap!history
  <2>2. PodBecomes(p, place, pod[p].cleans, known)
    BY <2>1, PodGoes, PodLoads DEF Bootstrap!Place
  <2>3. \/ place = "empty" /\ table = None
        \/ place = "purge" /\ table # None /\ known = table
    OBVIOUS
  <2> HIDE DEF place, known
  <2>4. ~beside => OnlyOne(p)'
    BY <2>1, <2>2, <2>3 DEF OnlyOne, PodInv, PodBecomes, Working, Bootstrap!Working, Resting, Bootstraps, Cleanups
  <2> QED
    BY <1>4, <2>1, <2>2, <2>4
<1>18. CASE Bootstrap!Purge(p)
  <2>1. /\ pod[p].pc = "purge" /\ file' = (file /\ pod[p].seen.entries = 0)
        /\ UNCHANGED <<catalog, namespace, table, cut, orphaned, report>>
        /\ Bootstrap!Goes(p, "empty")
    BY <1>18 DEF Bootstrap!Purge, Bootstrap!At, Bootstrap!history
  <2>2. PodBecomes(p, "empty", pod[p].cleans, pod[p].seen)
    BY <2>1, PodGoes DEF Bootstrap!Place
  <2>3. ~beside => OnlyOne(p)'
    BY <2>1, <2>2 DEF OnlyOne, PodInv, PodBecomes, Working, Bootstrap!Working, Resting, Bootstraps, Cleanups
  <2> QED
    BY <1>4, <2>1, <2>2, <2>3
<1>19. CASE Bootstrap!DropNamespace(p)
  <2>1. /\ pod[p].pc = "empty" /\ table = None /\ namespace' = FALSE
        /\ UNCHANGED <<catalog, table, file, cut, orphaned, report>>
        /\ Bootstrap!Goes(p, "delete")
    BY <1>19 DEF Bootstrap!DropNamespace, Bootstrap!At, Bootstrap!Reads, Bootstrap!store, Bootstrap!history
  <2>2. PodBecomes(p, "delete", pod[p].cleans, pod[p].seen)
    BY <2>1, PodGoes DEF Bootstrap!Place
  <2>3. ~beside => OnlyOne(p)'
    BY <2>1, <2>2 DEF OnlyOne, PodInv, PodBecomes, Working, Bootstrap!Working, Resting, Bootstraps, Cleanups
  <2> QED
    BY <1>4, <2>1, <2>2, <2>3
<1>20. CASE Bootstrap!DeleteCatalog(p)
  <2>1. /\ pod[p].pc = "delete" /\ ~namespace /\ catalog' = "none" /\ report' = "cleaned"
        /\ UNCHANGED <<namespace, table, file, cut, orphaned>>
        /\ Bootstrap!Goes(p, "cleaned")
    BY <1>20 DEF Bootstrap!DeleteCatalog, Bootstrap!At, Bootstrap!Reads, Bootstrap!store, Bootstrap!history
  <2>2. PodBecomes(p, "cleaned", pod[p].cleans, pod[p].seen)
    BY <2>1, PodGoes DEF Bootstrap!Place
  <2>3. ~beside => OnlyOne(p)'
    BY <2>1, <2>2 DEF OnlyOne, PodInv, PodBecomes, Working, Bootstrap!Working, Resting, Bootstraps, Cleanups
  <2> QED
    BY <1>4, <2>1, <2>2, <2>3
<1> QED
  BY <1>5, <1>6, <1>7, <1>8, <1>9, <1>10, <1>11, <1>12, <1>13, <1>14, <1>15, <1>16, <1>17, <1>18, <1>19, <1>20

\* A start keeps the invariant.
LEMMA StartKeeps ==
  ASSUME BootstrapIInv, NEW p \in Pod, Bootstrap!Start(p)
  PROVE  BootstrapIInv'
<1>1. /\ ~Working(p) /\ starts < MaxStarts /\ starts' = starts + 1
      /\ beside' = (beside \/ \E q \in Pod \ {p} : Working(q))
      /\ UNCHANGED <<catalog, namespace, table, file, cut, orphaned>>
  BY DEF Bootstrap!Start, Working, Bootstrap!store
<1>2. PICK cleans \in BOOLEAN :
        /\ pod' = [pod EXCEPT ![p] = [Bootstrap!NoPod EXCEPT !.pc = "catalog", !.cleans = cleans]]
        /\ report' = IF report = "passed" /\ ~cleans THEN report ELSE "nothing"
  BY DEF Bootstrap!Start
<1> DEFINE new == [Bootstrap!NoPod EXCEPT !.pc = "catalog", !.cleans = cleans]
<1>3. new \in [pc : Bootstrap!Place, cleans : BOOLEAN, seen : Bootstrap!Table]
  BY FirstTable DEF Bootstrap!NoPod, Bootstrap!Place
<1>4. new.pc = "catalog" /\ new.cleans = cleans
  BY DEF Bootstrap!NoPod
<1>5. pod' = [pod EXCEPT ![p] = new] /\ pod \in Pods
  BY <1>2 DEF BootstrapIInv, Bootstrap!TypeOK, Pods
<1> HIDE DEF new
<1>6. PodBecomes(p, "catalog", cleans, new.seen)
  BY <1>3, <1>4, <1>5 DEF PodBecomes, Pods
<1>7. Bootstrap!TypeOK'
  <2>1. starts' \in 0..MaxStarts /\ report' \in {"nothing", "passed", "cleaned"} /\ beside' \in BOOLEAN
    BY <1>1, <1>2, ToolsAssumption DEF BootstrapIInv, Bootstrap!TypeOK
  <2> QED
    BY <1>1, <1>6, <2>1 DEF BootstrapIInv, Bootstrap!TypeOK, PodBecomes, Pods
<1>8. ~beside' => OnlyOne(p)
  BY <1>1, AloneKnows
<1>9. ~beside' => OnlyOne(p)'
  BY <1>1, <1>2, <1>6, <1>8 DEF OnlyOne, PodInv, PodBecomes, Working, Bootstrap!Working, Resting, Bootstraps, Cleanups
<1> QED
  BY <1>1, <1>7, <1>9, KnowsAlone DEF BootstrapIInv

LEMMA BootstrapInit ==
  ASSUME Bootstrap!Init
  PROVE  BootstrapIInv
<1> DEFINE odd == [Bootstrap!Fresh(0) EXCEPT !.fits = FALSE]
<1>1. odd \in Bootstrap!Table /\ odd.entries = 0
  BY FirstTable DEF Bootstrap!Table, Bootstrap!Fresh
<1>2. table \in {None, odd}
  BY DEF Bootstrap!Init
<1> HIDE DEF odd
<1>3. table # None => table.entries = 0
  BY <1>1, <1>2
<1>7. pod \in Pods
  BY FirstTable DEF Bootstrap!Init, Pods, Bootstrap!NoPod, Bootstrap!Place
<1>8. Bootstrap!TypeOK
  <2>1. starts \in 0..MaxStarts /\ table \in Bootstrap!Table \cup {None}
    BY <1>1, <1>2, ToolsAssumption DEF Bootstrap!Init
  <2>2. /\ catalog \in {"none", "reviewed", "other"} /\ namespace \in BOOLEAN /\ file \in BOOLEAN
        /\ beside \in BOOLEAN /\ cut \in BOOLEAN /\ orphaned \in BOOLEAN
        /\ report \in {"nothing", "passed", "cleaned"}
    BY DEF Bootstrap!Init
  <2> QED
    BY <1>7, <2>1, <2>2 DEF Bootstrap!TypeOK, Pods
<1>4. \A p \in Pod : pod[p].pc = "idle"
  BY DEF Bootstrap!Init, Bootstrap!NoPod
<1>5. (namespace => catalog # "none") /\ (table # None => namespace)
  BY DEF Bootstrap!Init
<1>6. file = FALSE /\ report = "nothing"
  BY DEF Bootstrap!Init
<1> QED
  BY <1>3, <1>4, <1>5, <1>6, <1>8
  DEF BootstrapIInv, BootstrapAlone, PodInv, Working, Bootstrap!Working, Bootstraps, Cleanups, FileInv, NobodyAt,
      Bootstrap!AppendedOnce, Bootstrap!PassedStays, Bootstrap!CleanedIsEmpty

LEMMA BootstrapStep ==
  ASSUME BootstrapIInv, [Bootstrap!Next]_bootstrapVars
  PROVE  BootstrapIInv'
<1>1. CASE Bootstrap!Next
  <2>1. PICK p \in Pod :
          \/ Bootstrap!Start(p)
          \/ Bootstrap!Fails(p) \/ Bootstrap!Catalog(p) \/ Bootstrap!Post(p) \/ Bootstrap!Namespace(p)
          \/ Bootstrap!FindTable(p) \/ Bootstrap!Create(p) \/ Bootstrap!Contract(p) \/ Bootstrap!WriteFile(p)
          \/ Bootstrap!Append(p) \/ Bootstrap!Mark(p) \/ Bootstrap!List(p) \/ Bootstrap!Read(p)
          \/ Bootstrap!Drop(p) \/ Bootstrap!Purge(p) \/ Bootstrap!DropNamespace(p) \/ Bootstrap!DeleteCatalog(p)
    BY <1>1 DEF Bootstrap!Next
  <2>2. CASE Bootstrap!Start(p)
    BY <2>2, StartKeeps
  <2>3. CASE ~Bootstrap!Start(p)
    <3>1. Working(p)
      BY <2>1, <2>3 DEF Working, Bootstrap!Working, Bootstrap!At, Bootstrap!Fails, Bootstrap!Catalog, Bootstrap!Post,
         Bootstrap!Namespace, Bootstrap!FindTable, Bootstrap!Create, Bootstrap!Contract, Bootstrap!WriteFile,
         Bootstrap!Append, Bootstrap!Mark, Bootstrap!List, Bootstrap!Read, Bootstrap!Drop, Bootstrap!Purge,
         Bootstrap!DropNamespace, Bootstrap!DeleteCatalog
    <3> QED
      BY <2>1, <2>3, <3>1, PodKeeps
  <2> QED
    BY <2>2, <2>3
<1>2. CASE UNCHANGED bootstrapVars
  <2>1. UNCHANGED <<catalog, namespace, table, file, pod, starts, beside, cut, orphaned, report>>
    BY <1>2 DEF bootstrapVars
  <2> QED
    BY <2>1 DEF BootstrapIInv, BootstrapAlone, PodInv, Working, Bootstrap!Working, FileInv, NobodyAt,
      Bootstrap!AppendedOnce, Bootstrap!PassedStays, Bootstrap!CleanedIsEmpty, Bootstrap!TypeOK, Bootstrap!At
<1> QED
  BY <1>1, <1>2

LEMMA BootstrapGives ==
  ASSUME BootstrapIInv
  PROVE  BootstrapInv
BY DEF BootstrapIInv, BootstrapInv, Bootstrap!BootstrapInv, Bootstrap!AppendedOnce, Bootstrap!PassedStays,
       Bootstrap!CleanedIsEmpty

(***************************************************************************)
(* The experiment runner.  A plan tells of each suspension from before it   *)
(* is asked for until it has been lifted, and what the pointer leads to is  *)
(* the plan of the last run that began to write, or a fresh one whose       *)
(* predecessor it names.                                                    *)
(***************************************************************************)

Recovered == Experiment!Recovered
FluxNames == Experiment!Flux
Tells(p, f) == plans[p].entries[f].changed \/ plans[p].entries[f].pending
Fixed(pt) == pt # None => (pt.previous # None => plans[pt.run].status # "prepared")
Applies == {"suspend", "ask", "confirm", "patch", "write"}

\* What any plan says.
PlanInv(p) ==
  /\ plans[p].status \in {"none", "prepared", "resumed"} => \A f \in FluxNames : ~Tells(p, f)
  /\ \A f \in FluxNames : Tells(p, f) => ~plans[p].entries[f].previous
  /\ hands = 0 /\ plans[p].status \notin {"none", "prepared"} =>
       \A f \in FluxNames : ~plans[p].entries[f].previous => ~given[f]

\* A pointer names plans that exist.
Named(pt) ==
  pt # None => /\ plans[pt.run].status # "none"
               /\ pt.previous # None => plans[pt.previous].status # "none"

\* What holds while a command has the lock.
HeirInv ==
  cmd.inherited # None =>
    /\ cmd.inherited # cmd.run /\ cmd.active # None /\ cmd.active.run = cmd.inherited
    /\ plans[cmd.inherited].status \in {"applied", "apply-failed"}
    /\ cmd.pc # "reserve" => pointer = [run |-> cmd.run, previous |-> cmd.inherited]
    /\ cmd.pc = "reserve" => pointer = cmd.active
    /\ cmd.pc \notin {"resume", "lift", "lifted"}
    /\ cmd.pc = "leave" => Experiment!Mine.status # "resumed"
LonerInv == cmd.inherited = None => (pointer = None \/ (pointer.run = cmd.run /\ Fixed(pointer)))
StageInv ==
  /\ cmd.pc \in {"reserve", "check"} => Experiment!Mine.status = "prepared" /\ cmd.at = 1
  /\ cmd.pc = "check" => pointer # None
  /\ cmd.pc \in Applies => Experiment!Mine.status = "applying" /\ pointer # None
  /\ cmd.pc \in {"suspend", "ask", "confirm", "lift", "lifted"} => cmd.at \in {1, 2}
  /\ cmd.pc \in {"patch", "write"} => cmd.at \in 1..Resources
  /\ cmd.pc \in {"ask", "confirm"} => Experiment!Entries.pending
  /\ cmd.pc \in {"lift", "lifted"} =>
       /\ Experiment!Mine.status \notin {"none", "prepared", "resumed"}
       /\ \A f \in FluxNames : ~Experiment!Mine.entries[f].pending
       /\ cmd.at = 1 => ~Experiment!Mine.entries["child"].changed
  /\ cmd.pc = "lifted" => ~ours[Experiment!At]
  /\ cmd.pc = "write" => /\ cmd.seen <= live[cmd.at].version
                         /\ cmd.seen = live[cmd.at].version => live[cmd.at].content = Experiment!Mine.before[cmd.at]
CommandInv ==
  cmd.pc # "idle" => /\ cmd.run # None /\ Experiment!Mine.status # "none"
                     /\ Named(cmd.active) /\ HeirInv /\ LonerInv /\ StageInv

\* What the reconcilers are, as long as no operator has touched them.
HeldInv ==
  hands = 0 => \A f \in FluxNames : /\ ours[f] => flux[f].suspended /\ ~given[f]
                                   /\ ~ours[f] => (flux[f].suspended <=> given[f])
UntouchedInv ==
  /\ HeldInv
  /\ hands = 0 =>
       /\ cmd.pc \in {"suspend", "ask"} /\ cmd.at = 2 => flux["root"].suspended
       /\ cmd.pc = "confirm" => \A i \in 1..cmd.at : flux[Experiment!Order[i]].suspended
       /\ cmd.pc \in {"patch", "write"} => \A f \in FluxNames : flux[f].suspended

ExperimentIInv ==
  /\ Experiment!TypeOK /\ Experiment!NothingForgotten
  /\ \A p \in Plan : PlanInv(p)
  /\ Named(pointer) /\ CommandInv /\ UntouchedInv

-----------------------------------------------------------------------------
Commands == [pc : Experiment!Place, run : Plan \cup {None}, active : Experiment!Pointer \cup {None},
             inherited : Plan \cup {None}, at : 1..2 \cup 1..Resources, seen : Nat]
Plans    == [Plan -> Experiment!Record]
Scope    == [FluxNames -> Experiment!Entry]
Flags    == [FluxNames -> BOOLEAN]
Reconcilers == [FluxNames -> [suspended : BOOLEAN, uid : 0..1]]
Lives    == [1..Resources -> [content : Experiment!Contents, version : Nat]]

\* What a step of a command does to itself and to its plan.
CommandBecomes(place, at0, seen0) ==
  /\ cmd' \in Commands /\ cmd'.pc = place /\ cmd'.at = at0 /\ cmd'.seen = seen0
  /\ cmd'.run = cmd.run /\ cmd'.inherited = cmd.inherited /\ cmd'.active = cmd.active
PlanBecomes(status, entries) ==
  /\ plans' \in Plans /\ \A p \in Plan : p # cmd.run => plans'[p] = plans[p]
  /\ plans'[cmd.run].status = status /\ plans'[cmd.run].entries = entries
  /\ plans'[cmd.run].before = plans[cmd.run].before
Told(entries, f) == entries[f].changed \/ entries[f].pending

LEMMA ExperimentTypes ==
  ASSUME ExperimentIInv
  PROVE  /\ cmd \in Commands /\ plans \in Plans /\ pointer \in Experiment!Pointer \cup {None}
         /\ flux \in Reconcilers /\ live \in Lives /\ ours \in Flags /\ given \in Flags
         /\ hands \in 0..MaxHands /\ MaxHands \in Nat /\ Resources \in Nat \ {0}
         /\ FluxNames = {"root", "child"} /\ Recovered \in Experiment!Pointer \cup {None}
         /\ None \notin Plan /\ None \notin Experiment!Pointer
         /\ cmd.pc # "idle" => cmd.run \in Plan
         /\ cmd.at \in {1, 2} => Experiment!At \in FluxNames
<1>1. cmd \in Commands /\ plans \in Plans /\ pointer \in Experiment!Pointer \cup {None}
  BY DEF ExperimentIInv, Experiment!TypeOK, Commands, Plans
<1>5. flux \in Reconcilers /\ live \in Lives /\ ours \in Flags /\ given \in Flags /\ hands \in 0..MaxHands
  BY DEF ExperimentIInv, Experiment!TypeOK, Reconcilers, Lives, Flags, FluxNames
<1>2. Recovered \in Experiment!Pointer \cup {None}
  BY <1>1 DEF Recovered, Experiment!Recovered, Experiment!Pointer
<1>3. cmd.pc # "idle" => cmd.run \in Plan
  BY <1>1 DEF ExperimentIInv, CommandInv, Commands
<1>4. cmd.at \in {1, 2} => Experiment!At \in FluxNames
  BY DEF FluxNames, Experiment!Flux, Experiment!At, Experiment!Order
<1> QED
  BY <1>1, <1>2, <1>3, <1>4, <1>5, ToolsAssumption DEF FluxNames, Experiment!Flux

LEMMA CommandGoes ==
  ASSUME cmd \in Commands, NEW place \in Experiment!Place, Experiment!Goes(place)
  PROVE  CommandBecomes(place, cmd.at, cmd.seen)
BY DEF Experiment!Goes, Commands, CommandBecomes

LEMMA CommandMoves ==
  ASSUME cmd \in Commands, NEW place \in Experiment!Place, NEW at0 \in 1..2 \cup 1..Resources,
         cmd' = [cmd EXCEPT !.at = at0, !.pc = place]
  PROVE  CommandBecomes(place, at0, cmd.seen)
BY DEF Commands, CommandBecomes

LEMMA PlanStays ==
  ASSUME plans \in Plans, cmd.run \in Plan, UNCHANGED plans
  PROVE  PlanBecomes(plans[cmd.run].status, plans[cmd.run].entries)
BY DEF PlanBecomes

LEMMA PlanSaved ==
  ASSUME plans \in Plans, cmd.run \in Plan, NEW plan0 \in Experiment!Record, Experiment!Saves(plan0),
         plan0.before = plans[cmd.run].before
  PROVE  PlanBecomes(plan0.status, plan0.entries)
BY DEF PlanBecomes, Plans, Experiment!Saves

LEMMA StatusSaved ==
  ASSUME plans \in Plans, cmd.run \in Plan, NEW status \in Experiment!Status, Experiment!Ends(status)
  PROVE  PlanBecomes(status, plans[cmd.run].entries) /\ Experiment!Goes("leave")
<1> DEFINE new == [plans[cmd.run] EXCEPT !.status = status]
<1>1. new \in Experiment!Record
  BY DEF Plans, Experiment!Record
<1>2. new.status = status /\ new.entries = plans[cmd.run].entries /\ new.before = plans[cmd.run].before
  BY DEF Plans, Experiment!Record
<1>3. Experiment!Saves(new) /\ Experiment!Goes("leave")
  BY DEF Experiment!Ends, Experiment!Mine
<1> HIDE DEF new
<1> QED
  BY <1>1, <1>2, <1>3, PlanSaved

LEMMA EntrySaved ==
  ASSUME plans \in Plans, cmd.run \in Plan, Experiment!At \in FluxNames, NEW entry \in Experiment!Entry,
         Experiment!SavesEntry(entry)
  PROVE  \E entries \in Scope :
           /\ PlanBecomes(plans[cmd.run].status, entries)
           /\ entries[Experiment!At] = entry
           /\ \A f \in FluxNames : f # Experiment!At => entries[f] = plans[cmd.run].entries[f]
<1> DEFINE new == [plans[cmd.run] EXCEPT !.entries[Experiment!At] = entry]
           entries == [plans[cmd.run].entries EXCEPT ![Experiment!At] = entry]
<1>1. plans[cmd.run] \in Experiment!Record /\ plans[cmd.run].entries \in Scope
  BY DEF Plans, Experiment!Record, Scope, FluxNames
<1>2. entries \in Scope /\ entries[Experiment!At] = entry
      /\ \A f \in FluxNames : f # Experiment!At => entries[f] = plans[cmd.run].entries[f]
  BY <1>1 DEF Scope
<1>3. new = [plans[cmd.run] EXCEPT !.entries = entries]
  BY <1>1 DEF Experiment!Record
<1> HIDE DEF entries
<1>4. new \in Experiment!Record
  BY <1>1, <1>2, <1>3 DEF Experiment!Record, Scope, FluxNames
<1>5. new.status = plans[cmd.run].status /\ new.entries = entries /\ new.before = plans[cmd.run].before
  BY <1>1, <1>3 DEF Experiment!Record
<1>6. Experiment!Saves(new)
  BY DEF Experiment!SavesEntry, Experiment!Mine
<1> HIDE DEF new
<1> QED
  BY <1>2, <1>4, <1>5, <1>6, PlanSaved

\* A step of a command between its first write and its end: what has to be shown of it.
LEMMA CommandStep ==
  ASSUME ExperimentIInv, cmd.pc \notin {"idle", "reserve", "check"},
         NEW place \in Experiment!Place \ {"idle", "reserve", "check", "resume"}, NEW at0, NEW seen0,
         NEW status, NEW entries,
         CommandBecomes(place, at0, seen0), PlanBecomes(status, entries), UNCHANGED <<pointer, hands>>,
         flux' \in Reconcilers, live' \in Lives, ours' \in Flags, given' \in Flags,
         place \in {"lift", "lifted"} => cmd.pc \in {"resume", "lift", "lifted"},
         \/ status = plans[cmd.run].status
         \/ plans[cmd.run].status \notin {"none", "prepared"} /\ status \notin {"none", "prepared"},
         status = "resumed" => status = plans[cmd.run].status \/ cmd.pc = "lift",
         status \in {"none", "prepared", "resumed"} => \A f \in FluxNames : ~Told(entries, f),
         \A f \in FluxNames : /\ entries[f].previous = plans[cmd.run].entries[f].previous
                              /\ Told(entries, f) => ~entries[f].previous
                              /\ ours'[f] /\ ours[f] /\ Tells(cmd.run, f) => Told(entries, f)
                              /\ ours'[f] /\ ~ours[f] => cmd.pc \in Applies /\ Told(entries, f)
                              /\ given'[f] => given[f],
         StageInv', UntouchedInv'
  PROVE  ExperimentIInv'
<1>1. /\ cmd \in Commands /\ plans \in Plans /\ cmd.run \in Plan /\ None \notin Plan
      /\ FluxNames = {"root", "child"}
  BY ExperimentTypes
<1>2. HeirInv /\ LonerInv /\ StageInv /\ plans[cmd.run].status # "none"
  BY DEF ExperimentIInv, CommandInv, Experiment!Mine
<1>3. /\ plans' \in Plans /\ (\A p \in Plan : p # cmd.run => plans'[p] = plans[p])
      /\ plans'[cmd.run].status = status /\ plans'[cmd.run].entries = entries
  BY DEF PlanBecomes
<1>4. /\ cmd'.pc = place /\ cmd'.run = cmd.run /\ cmd'.inherited = cmd.inherited /\ cmd'.active = cmd.active
  BY DEF CommandBecomes
<1>5. \A p \in Plan : plans'[p].status = "prepared" <=> plans[p].status = "prepared"
  BY <1>1, <1>3
<1>6. Recovered' = Recovered
  BY <1>5, ExperimentTypes DEF Recovered, Experiment!Recovered, Experiment!Pointer
<1>7. cmd.pc \in Applies => Recovered # None /\ Recovered.run = cmd.run
  BY <1>2, ExperimentTypes DEF StageInv, HeirInv, LonerInv, Recovered, Experiment!Recovered, Experiment!Mine, Applies
<1>8. Experiment!NothingForgotten'
  <2> SUFFICES ASSUME NEW f \in FluxNames, ours'[f]
               PROVE  (Recovered # None /\ Tells(Recovered.run, f))'
    BY DEF Experiment!NothingForgotten, FluxNames, Recovered, Tells
  <2>1. CASE ours[f]
    <3>1. Recovered # None /\ Tells(Recovered.run, f)
      BY <2>1 DEF ExperimentIInv, Experiment!NothingForgotten, FluxNames, Recovered, Tells
    <3>2. Recovered.run \in Plan
      BY <3>1, ExperimentTypes DEF Experiment!Pointer
    <3>3. Tells(Recovered.run, f)'
      <4>1. CASE Recovered.run = cmd.run
        BY <1>3, <1>6, <2>1, <3>1, <4>1 DEF Tells, Told
      <4>2. CASE Recovered.run # cmd.run
        BY <1>3, <1>6, <3>1, <3>2, <4>2 DEF Tells
      <4> QED
        BY <4>1, <4>2
    <3> QED
      BY <1>6, <3>1, <3>3
  <2>2. CASE ~ours[f]
    <3>1. cmd.pc \in Applies /\ Told(entries, f)
      BY <2>2
    <3> QED
      BY <1>3, <1>6, <1>7, <3>1 DEF Tells, Told
  <2> QED
    BY <2>1, <2>2
<1>9. \A p \in Plan : PlanInv(p)'
  <2> SUFFICES ASSUME NEW p \in Plan
               PROVE  PlanInv(p)'
    OBVIOUS
  <2>1. PlanInv(p) /\ PlanInv(cmd.run)
    BY <1>1 DEF ExperimentIInv
  <2>2. CASE p # cmd.run
    BY <1>3, <2>1, <2>2 DEF PlanInv, Tells
  <2>3. CASE p = cmd.run
    <3>1. (plans[p].status \in {"none", "prepared", "resumed"} => \A f \in FluxNames : ~Tells(p, f))'
      BY <1>3, <2>3 DEF Tells, Told
    <3>2. (\A f \in FluxNames : Tells(p, f) => ~plans[p].entries[f].previous)'
      BY <1>3, <2>3 DEF Tells, Told
    <3>3. (hands = 0 /\ plans[p].status \notin {"none", "prepared"} =>
             \A f \in FluxNames : ~plans[p].entries[f].previous => ~given[f])'
      BY <1>3, <2>1, <2>3 DEF PlanInv
    <3> QED
      BY <3>1, <3>2, <3>3 DEF PlanInv
  <2> QED
    BY <2>2, <2>3
<1>10. Named(pointer)' /\ Named(cmd.active)'
  <2>1. \A p \in Plan : plans[p].status # "none" => plans'[p].status # "none"
    BY <1>1, <1>3
  <2>2. \A pt \in Experiment!Pointer \cup {None} : Named(pt) => Named(pt)'
    BY <1>1, <2>1 DEF Named, Experiment!Pointer
  <2>3. Named(pointer) /\ Named(cmd.active) /\ pointer \in Experiment!Pointer \cup {None}
        /\ cmd.active \in Experiment!Pointer \cup {None}
    BY ExperimentTypes DEF ExperimentIInv, CommandInv, Commands
  <2> HIDE DEF Named
  <2>4. \A pt : pointer' = pt => (Named(pointer)' <=> Named(pt)')
    BY DEF Named
  <2>5. \A pt : cmd'.active = pt => (Named(cmd.active)' <=> Named(pt)')
    BY DEF Named
  <2> QED
    BY <1>4, <2>2, <2>3, <2>4, <2>5
<1>11. HeirInv'
  <2> SUFFICES ASSUME cmd.inherited # None
               PROVE  HeirInv'
    BY <1>4 DEF HeirInv
  <2>1. /\ cmd.inherited \in Plan /\ cmd.inherited # cmd.run /\ cmd.active # None
        /\ cmd.active.run = cmd.inherited /\ plans[cmd.inherited].status \in {"applied", "apply-failed"}
        /\ pointer = [run |-> cmd.run, previous |-> cmd.inherited]
        /\ cmd.pc \notin {"resume", "lift", "lifted"}
    BY <1>1, <1>2 DEF HeirInv, Commands
  <2>2. plans'[cmd.inherited] = plans[cmd.inherited]
    BY <1>3, <2>1
  <2>3. status # "resumed"
    <3>1. cmd.pc \in Applies \cup {"leave"}
      BY <1>1, <2>1 DEF Applies, Commands, Experiment!Place
    <3>2. plans[cmd.run].status # "resumed"
      BY <1>2, <3>1 DEF HeirInv, StageInv, Experiment!Mine
    <3> QED
      BY <2>1, <3>2
  <2>4. Experiment!Mine' = plans'[cmd.run]
    BY <1>4 DEF Experiment!Mine
  <2> QED
    BY <1>3, <1>4, <2>1, <2>2, <2>3, <2>4 DEF HeirInv
<1>12. LonerInv'
  BY <1>1, <1>2, <1>3, <1>4, <1>5 DEF LonerInv, Fixed
<1>13. CommandInv'
  BY <1>1, <1>2, <1>3, <1>4, <1>10, <1>11, <1>12 DEF CommandInv, Experiment!Mine
<1>14. Experiment!TypeOK'
  BY <1>3, ExperimentTypes DEF CommandBecomes, Experiment!TypeOK, Commands, Plans, Lives, Reconcilers, Flags, FluxNames
<1> QED
  BY <1>8, <1>9, <1>10, <1>13, <1>14 DEF ExperimentIInv

-----------------------------------------------------------------------------
(* The commands, from their first write to their end *)

\* What the steps that set a reconciler do.
LEMMA ReconcilerSet ==
  ASSUME flux \in Reconcilers, ours \in Flags, Experiment!At \in FluxNames, NEW value \in BOOLEAN,
         Experiment!Sets(value)
  PROVE  /\ flux' \in Reconcilers /\ ours' \in Flags
         /\ flux[Experiment!At].suspended = ~value
         /\ flux'[Experiment!At].suspended = value /\ ours'[Experiment!At] = value
         /\ \A f \in FluxNames : f # Experiment!At => flux'[f] = flux[f] /\ ours'[f] = ours[f]
BY DEF Experiment!Sets, Reconcilers, Flags

\* How a command ends.
LEMMA CommandEnds ==
  ASSUME ExperimentIInv, cmd.pc \in Applies \cup {"lift"},
         NEW status \in {"applied", "apply-failed", "resumed", "resume-failed"},
         status = "resumed" => cmd.pc = "lift" /\ \A f \in FluxNames : ~Tells(cmd.run, f),
         Experiment!Ends(status), UNCHANGED <<pointer, hands, given>>,
         flux' \in Reconcilers, live' \in Lives, ours' \in Flags,
         \A f \in FluxNames : ours'[f] /\ ~ours[f] => cmd.pc \in Applies /\ Tells(cmd.run, f),
         HeldInv'
  PROVE  ExperimentIInv'
<1>1. cmd \in Commands /\ plans \in Plans /\ cmd.run \in Plan /\ given \in Flags /\ cmd.pc \in Experiment!Place
  BY ExperimentTypes DEF Applies, Commands
<1>2. PlanBecomes(status, plans[cmd.run].entries) /\ Experiment!Goes("leave")
  BY <1>1, StatusSaved DEF Experiment!Status
<1>3. CommandBecomes("leave", cmd.at, cmd.seen)
  BY <1>1, <1>2, CommandGoes DEF Experiment!Place
<1>4. plans[cmd.run].status \notin {"none", "prepared"}
  BY DEF ExperimentIInv, CommandInv, StageInv, Experiment!Mine, Applies
<1>5. StageInv' /\ UntouchedInv'
  BY <1>3 DEF StageInv, UntouchedInv, CommandBecomes, Applies
<1>6. \A f \in FluxNames : Tells(cmd.run, f) <=> Told(plans[cmd.run].entries, f)
  BY DEF Tells, Told
<1>7. \A f \in FluxNames : Told(plans[cmd.run].entries, f) => ~plans[cmd.run].entries[f].previous
  BY <1>1, <1>6 DEF ExperimentIInv, PlanInv
<1> DEFINE entries == plans[cmd.run].entries
<1> HIDE DEF entries
<1> QED
  BY <1>1, <1>2, <1>3, <1>4, <1>5, <1>6, <1>7, CommandStep DEF Experiment!Place, Applies, entries

LEMMA OnwardGoes ==
  ASSUME ExperimentIInv, Experiment!Onward, cmd.pc \in {"suspend", "confirm"}, cmd.at \in {1, 2}
  PROVE  CommandBecomes(IF cmd.at = 1 THEN "suspend" ELSE "patch", 3 - cmd.at, cmd.seen)
<1>1. cmd \in Commands
  BY ExperimentTypes
<1>2. 3 - cmd.at \in 1..2 \cup 1..Resources
  OBVIOUS
<1> QED
  BY <1>1, <1>2, CommandMoves DEF Experiment!Onward, Experiment!Place

\* A step of a command that leaves its plan as it is.
LEMMA CommandPasses ==
  ASSUME ExperimentIInv, cmd.pc \notin {"idle", "reserve", "check"},
         NEW place \in Experiment!Place \ {"idle", "reserve", "check", "resume"}, NEW at0, NEW seen0,
         CommandBecomes(place, at0, seen0), UNCHANGED <<plans, pointer, hands, given>>,
         flux' \in Reconcilers, live' \in Lives, ours' \in Flags,
         place \in {"lift", "lifted"} => cmd.pc \in {"resume", "lift", "lifted"},
         \A f \in FluxNames : ours'[f] /\ ~ours[f] => cmd.pc \in Applies /\ Tells(cmd.run, f),
         StageInv', UntouchedInv'
  PROVE  ExperimentIInv'
<1>1. cmd \in Commands /\ plans \in Plans /\ cmd.run \in Plan /\ given \in Flags
  BY ExperimentTypes
<1> DEFINE entries == plans[cmd.run].entries
           status  == plans[cmd.run].status
<1>2. PlanBecomes(status, entries)
  BY <1>1, PlanStays
<1>3. \A f \in FluxNames : Tells(cmd.run, f) <=> Told(entries, f)
  BY DEF Tells, Told
<1>4. \A f \in FluxNames : Told(entries, f) => ~entries[f].previous
  BY <1>1, <1>3 DEF ExperimentIInv, PlanInv
<1>5. status \in {"none", "prepared", "resumed"} => \A f \in FluxNames : ~Told(entries, f)
  BY <1>1, <1>3 DEF ExperimentIInv, PlanInv
<1>6. \A f \in FluxNames : /\ entries[f].previous = plans[cmd.run].entries[f].previous
                           /\ Told(entries, f) => ~entries[f].previous
                           /\ ours'[f] /\ ours[f] /\ Tells(cmd.run, f) => Told(entries, f)
                           /\ ours'[f] /\ ~ours[f] => cmd.pc \in Applies /\ Told(entries, f)
                           /\ given'[f] => given[f]
  BY <1>3, <1>4
<1>7. status = plans[cmd.run].status
  OBVIOUS
<1> HIDE DEF entries, status
<1> QED
  BY <1>1, <1>2, <1>5, <1>6, <1>7, CommandStep

\* A step of a command that changes an entry of its plan, and no reconciler.
LEMMA CommandTells ==
  ASSUME ExperimentIInv, cmd.pc \in {"suspend", "confirm", "lifted"}, cmd.at \in {1, 2},
         NEW place \in Experiment!Place \ {"idle", "reserve", "check", "resume"}, NEW at0, NEW seen0,
         CommandBecomes(place, at0, seen0), UNCHANGED <<flux, live, pointer, hands, ours, given>>,
         NEW entry \in Experiment!Entry, Experiment!SavesEntry(entry),
         entry.previous = Experiment!Entries.previous,
         entry.changed \/ entry.pending => ~entry.previous,
         ours[Experiment!At] => entry.changed \/ entry.pending,
         entry.changed \/ entry.pending => plans[cmd.run].status \notin {"none", "prepared", "resumed"},
         place \in {"lift", "lifted"} => cmd.pc \in {"resume", "lift", "lifted"},
         \A entries \in Scope :
           /\ PlanBecomes(plans[cmd.run].status, entries) /\ entries[Experiment!At] = entry
           /\ \A f \in FluxNames : f # Experiment!At => entries[f] = plans[cmd.run].entries[f]
           => StageInv' /\ UntouchedInv'
  PROVE  ExperimentIInv'
<1>1. /\ cmd \in Commands /\ plans \in Plans /\ cmd.run \in Plan /\ Experiment!At \in FluxNames
      /\ given \in Flags /\ flux \in Reconcilers /\ live \in Lives /\ ours \in Flags
  BY ExperimentTypes
<1>2. PICK entries \in Scope :
        /\ PlanBecomes(plans[cmd.run].status, entries) /\ entries[Experiment!At] = entry
        /\ \A f \in FluxNames : f # Experiment!At => entries[f] = plans[cmd.run].entries[f]
  BY <1>1, EntrySaved
<1>3. \A f \in FluxNames : Tells(cmd.run, f) <=> Told(plans[cmd.run].entries, f)
  BY DEF Tells, Told
<1>4. \A f \in FluxNames : Told(plans[cmd.run].entries, f) => ~plans[cmd.run].entries[f].previous
  BY <1>1, <1>3 DEF ExperimentIInv, PlanInv
<1>5. plans[cmd.run].status \in {"none", "prepared", "resumed"} => \A f \in FluxNames : ~Told(plans[cmd.run].entries, f)
  BY <1>1, <1>3 DEF ExperimentIInv, PlanInv
<1>6. plans[cmd.run].status \in {"none", "prepared", "resumed"} => \A f \in FluxNames : ~Told(entries, f)
  BY <1>2, <1>5 DEF Told
<1>7. Experiment!Entries.previous = plans[cmd.run].entries[Experiment!At].previous
  BY DEF Experiment!Entries, Experiment!Mine
<1>8. \A f \in FluxNames : /\ entries[f].previous = plans[cmd.run].entries[f].previous
                           /\ Told(entries, f) => ~entries[f].previous
                           /\ ours'[f] /\ ours[f] /\ Tells(cmd.run, f) => Told(entries, f)
                           /\ ours'[f] /\ ~ours[f] => cmd.pc \in Applies /\ Told(entries, f)
                           /\ given'[f] => given[f]
  BY <1>2, <1>3, <1>4, <1>7 DEF Told
<1>9. StageInv' /\ UntouchedInv'
  BY <1>2
<1> QED
  BY <1>1, <1>2, <1>6, <1>8, <1>9, CommandStep

LEMMA SuspendKeeps ==
  ASSUME ExperimentIInv, Experiment!Suspend
  PROVE  ExperimentIInv'
<1>1. /\ cmd \in Commands /\ plans \in Plans /\ cmd.run \in Plan /\ flux \in Reconcilers /\ ours \in Flags
      /\ live \in Lives /\ Resources \in Nat \ {0} /\ hands \in Nat /\ FluxNames = {"root", "child"}
  BY ExperimentTypes DEF Experiment!Suspend
<1>2. /\ cmd.pc = "suspend" /\ cmd.at \in {1, 2} /\ plans[cmd.run].status = "applying" /\ pointer # None
      /\ HeldInv /\ (hands = 0 /\ cmd.at = 2 => flux["root"].suspended)
  BY DEF ExperimentIInv, CommandInv, StageInv, UntouchedInv, Experiment!Suspend, Applies, Experiment!Mine
<1>3. UNCHANGED <<flux, live, pointer, ours, given, hands>>
  BY DEF Experiment!Suspend, Experiment!history
<1>4. HeldInv'
  BY <1>2, <1>3 DEF HeldInv
<1>5. CASE /\ flux[Experiment!At] = [suspended |-> TRUE, uid |-> Experiment!Entries.uid]
           /\ Experiment!Onward /\ UNCHANGED plans
  <2>1. CommandBecomes(IF cmd.at = 1 THEN "suspend" ELSE "patch", 3 - cmd.at, cmd.seen)
    BY <1>2, <1>5, OnwardGoes
  <2>2. flux[Experiment!Order[cmd.at]].suspended
    BY <1>5 DEF Experiment!At
  <2>3. CASE cmd.at = 1
    <3>1. CommandBecomes("suspend", 2, cmd.seen)
      BY <2>1, <2>3
    <3>2. StageInv' /\ UntouchedInv'
      BY <1>1, <1>2, <1>3, <1>4, <1>5, <2>2, <2>3, <3>1
         DEF StageInv, UntouchedInv, CommandBecomes, Applies, Experiment!Mine, Experiment!Order
    <3> QED
      BY <1>1, <1>2, <1>3, <1>5, <3>1, <3>2, CommandPasses DEF Experiment!Place
  <2>4. CASE cmd.at = 2
    <3>1. CommandBecomes("patch", 1, cmd.seen)
      BY <2>1, <2>4
    <3>2. hands = 0 => \A f \in FluxNames : flux[f].suspended
      BY <1>1, <1>2, <2>2, <2>4 DEF Experiment!Order
    <3>3. StageInv' /\ UntouchedInv'
      BY <1>1, <1>2, <1>3, <1>4, <1>5, <3>1, <3>2
         DEF StageInv, UntouchedInv, CommandBecomes, Applies, Experiment!Mine
    <3> QED
      BY <1>1, <1>2, <1>3, <1>5, <3>1, <3>3, CommandPasses DEF Experiment!Place
  <2> QED
    BY <1>2, <2>3, <2>4
<1>6. CASE /\ ~Experiment!Entries.previous /\ ~Experiment!Entries.changed
           /\ Experiment!SavesEntry([Experiment!Entries EXCEPT !.pending = TRUE])
           /\ Experiment!Goes("ask")
  <2> DEFINE entry == [Experiment!Entries EXCEPT !.pending = TRUE]
  <2>1. Experiment!Entries \in Experiment!Entry
    BY <1>1, <1>2, ExperimentTypes DEF Experiment!Entries, Experiment!Mine, Plans, Experiment!Record, FluxNames
  <2>2. entry \in Experiment!Entry /\ entry.pending /\ entry.previous = Experiment!Entries.previous
    BY <2>1 DEF Experiment!Entry
  <2>3. Experiment!SavesEntry(entry)
    BY <1>6
  <2> HIDE DEF entry
  <2>4. CommandBecomes("ask", cmd.at, cmd.seen)
    BY <1>1, <1>6, CommandGoes DEF Experiment!Place
  <2>5. ASSUME NEW entries \in Scope, PlanBecomes(plans[cmd.run].status, entries), entries[Experiment!At] = entry
        PROVE  StageInv' /\ UntouchedInv'
    <3>1. Experiment!Mine'.status = "applying" /\ Experiment!Entries'.pending
      BY <1>2, <2>2, <2>4, <2>5 DEF PlanBecomes, CommandBecomes, Experiment!Mine, Experiment!Entries, Experiment!At
    <3>2. StageInv'
      BY <1>2, <1>3, <2>4, <3>1 DEF StageInv, CommandBecomes, Applies
    <3>3. UntouchedInv'
      BY <1>2, <1>3, <1>4, <2>4 DEF UntouchedInv, CommandBecomes
    <3> QED
      BY <3>2, <3>3
  <2> QED
    BY <1>1, <1>2, <1>3, <1>6, <2>2, <2>3, <2>4, <2>5, CommandTells DEF Experiment!Place
<1>7. CASE Experiment!Ends("apply-failed")
  BY <1>1, <1>2, <1>3, <1>4, <1>7, CommandEnds DEF Applies
<1> QED
  BY <1>5, <1>6, <1>7 DEF Experiment!Suspend

LEMMA AskKeeps ==
  ASSUME ExperimentIInv, Experiment!Ask
  PROVE  ExperimentIInv'
<1>1. /\ cmd \in Commands /\ plans \in Plans /\ cmd.run \in Plan /\ flux \in Reconcilers /\ ours \in Flags
      /\ live \in Lives /\ given \in Flags /\ Resources \in Nat \ {0} /\ hands \in Nat
      /\ FluxNames = {"root", "child"}
  BY ExperimentTypes DEF Experiment!Ask
<1>2. /\ cmd.pc = "ask" /\ cmd.at \in {1, 2} /\ plans[cmd.run].status = "applying" /\ pointer # None
      /\ HeldInv /\ (hands = 0 /\ cmd.at = 2 => flux["root"].suspended) /\ Experiment!Entries.pending
      /\ Experiment!At \in FluxNames
  BY ExperimentTypes DEF ExperimentIInv, CommandInv, StageInv, UntouchedInv, Experiment!Ask, Applies, Experiment!Mine
<1>3. UNCHANGED <<live, pointer, given, hands>>
  BY DEF Experiment!Ask
<1>4. Tells(cmd.run, Experiment!At)
  BY <1>2 DEF Tells, Experiment!Entries, Experiment!Mine
<1>5. CASE Experiment!Sets(TRUE) /\ ((Experiment!Goes("confirm") /\ UNCHANGED plans) \/ Experiment!Ends("apply-failed"))
  <2>1. /\ flux' \in Reconcilers /\ ours' \in Flags
        /\ flux[Experiment!At].suspended = ~TRUE
        /\ flux'[Experiment!At].suspended = TRUE /\ ours'[Experiment!At] = TRUE
        /\ \A f \in FluxNames : f # Experiment!At => flux'[f] = flux[f] /\ ours'[f] = ours[f]
    BY <1>1, <1>2, <1>5, ReconcilerSet
  <2>2. HeldInv'
    BY <1>1, <1>2, <1>3, <2>1 DEF HeldInv
  <2>3. \A f \in FluxNames : ours'[f] /\ ~ours[f] => cmd.pc \in Applies /\ Tells(cmd.run, f)
    BY <1>2, <1>4, <2>1 DEF Applies
  <2>4. CASE Experiment!Ends("apply-failed")
    BY <1>1, <1>2, <1>3, <2>1, <2>2, <2>3, <2>4, CommandEnds DEF Applies
  <2>5. CASE Experiment!Goes("confirm") /\ UNCHANGED plans
    <3>1. CommandBecomes("confirm", cmd.at, cmd.seen)
      BY <1>1, <2>5, CommandGoes DEF Experiment!Place
    <3>2. Experiment!Mine' = Experiment!Mine /\ Experiment!Entries' = Experiment!Entries
      BY <2>5, <3>1 DEF CommandBecomes, Experiment!Mine, Experiment!Entries, Experiment!At
    <3>3. StageInv'
      BY <1>2, <1>3, <3>1, <3>2 DEF StageInv, CommandBecomes, Applies, Experiment!Mine
    <3>4. hands = 0 => \A i \in 1..cmd.at : flux'[Experiment!Order[i]].suspended
      <4>1. CASE cmd.at = 1
        BY <2>1, <4>1 DEF Experiment!At
      <4>2. CASE cmd.at = 2
        <5>1. Experiment!At = "child" /\ Experiment!Order[1] = "root" /\ Experiment!Order[2] = "child"
          BY <4>2 DEF Experiment!At, Experiment!Order
        <5>2. flux'["root"] = flux["root"]
          BY <1>1, <2>1, <5>1
        <5> QED
          BY <1>2, <2>1, <4>2, <5>1, <5>2
      <4> QED
        BY <1>2, <4>1, <4>2
    <3>5. UntouchedInv'
      BY <1>3, <2>2, <3>1, <3>4 DEF UntouchedInv, CommandBecomes
    <3> QED
      BY <1>1, <1>2, <1>3, <2>1, <2>3, <2>5, <3>1, <3>3, <3>5, CommandPasses DEF Experiment!Place
  <2> QED
    BY <1>5, <2>4, <2>5
<1>6. CASE UNCHANGED <<flux, ours>> /\ Experiment!Ends("apply-failed")
  <2>1. HeldInv'
    BY <1>2, <1>3, <1>6 DEF HeldInv
  <2> QED
    BY <1>1, <1>2, <1>3, <1>6, <2>1, CommandEnds DEF Applies
<1> QED
  BY <1>5, <1>6 DEF Experiment!Ask

LEMMA ConfirmKeeps ==
  ASSUME ExperimentIInv, Experiment!Confirm
  PROVE  ExperimentIInv'
<1>1. /\ cmd \in Commands /\ plans \in Plans /\ cmd.run \in Plan /\ flux \in Reconcilers
      /\ Resources \in Nat \ {0} /\ hands \in Nat /\ FluxNames = {"root", "child"}
  BY ExperimentTypes DEF Experiment!Confirm
<1>2. /\ cmd.pc = "confirm" /\ cmd.at \in {1, 2} /\ plans[cmd.run].status = "applying" /\ pointer # None
      /\ HeldInv /\ (hands = 0 => \A i \in 1..cmd.at : flux[Experiment!Order[i]].suspended)
      /\ Experiment!Entries.pending
  BY DEF ExperimentIInv, CommandInv, StageInv, UntouchedInv, Experiment!Confirm, Applies, Experiment!Mine
<1>3. UNCHANGED <<flux, live, pointer, ours, given, hands>> /\ Experiment!Onward
  BY DEF Experiment!Confirm, Experiment!history
<1>4. HeldInv'
  BY <1>2, <1>3 DEF HeldInv
<1> DEFINE entry == [Experiment!Entries EXCEPT !.changed = TRUE, !.pending = FALSE]
<1>5. Experiment!Entries \in Experiment!Entry /\ Experiment!Entries = plans[cmd.run].entries[Experiment!At]
      /\ Experiment!At \in FluxNames
  BY <1>1, <1>2, ExperimentTypes DEF Experiment!Entries, Experiment!Mine, Plans, Experiment!Record, FluxNames
<1>6. entry \in Experiment!Entry /\ entry.changed /\ entry.previous = Experiment!Entries.previous
  BY <1>5 DEF Experiment!Entry
<1>7. Experiment!SavesEntry(entry)
  BY DEF Experiment!Confirm
<1> HIDE DEF entry
<1>8. ~entry.previous
  BY <1>1, <1>2, <1>5, <1>6 DEF ExperimentIInv, PlanInv, Tells
<1>9. CommandBecomes(IF cmd.at = 1 THEN "suspend" ELSE "patch", 3 - cmd.at, cmd.seen)
  BY <1>2, <1>3, OnwardGoes
<1>10. CASE cmd.at = 1
  <2>1. CommandBecomes("suspend", 2, cmd.seen)
    BY <1>9, <1>10
  <2>2. hands = 0 => flux["root"].suspended
    BY <1>2, <1>10 DEF Experiment!Order
  <2>3. ASSUME NEW entries \in Scope, PlanBecomes(plans[cmd.run].status, entries)
        PROVE  StageInv' /\ UntouchedInv'
    <3>1. Experiment!Mine'.status = "applying"
      BY <1>2, <2>1, <2>3 DEF PlanBecomes, CommandBecomes, Experiment!Mine
    <3>2. StageInv'
      BY <1>2, <1>3, <2>1, <3>1 DEF StageInv, CommandBecomes, Applies
    <3>3. UntouchedInv'
      BY <1>3, <1>4, <2>1, <2>2 DEF UntouchedInv, CommandBecomes
    <3> QED
      BY <3>2, <3>3
  <2> QED
    BY <1>2, <1>3, <1>6, <1>7, <1>8, <2>1, <2>3, CommandTells DEF Experiment!Place
<1>11. CASE cmd.at = 2
  <2>1. CommandBecomes("patch", 1, cmd.seen)
    BY <1>9, <1>11
  <2>2. hands = 0 => \A f \in FluxNames : flux[f].suspended
    BY <1>1, <1>2, <1>11 DEF Experiment!Order
  <2>3. ASSUME NEW entries \in Scope, PlanBecomes(plans[cmd.run].status, entries)
        PROVE  StageInv' /\ UntouchedInv'
    <3>1. Experiment!Mine'.status = "applying"
      BY <1>2, <2>1, <2>3 DEF PlanBecomes, CommandBecomes, Experiment!Mine
    <3>2. StageInv'
      BY <1>1, <1>2, <1>3, <2>1, <3>1 DEF StageInv, CommandBecomes, Applies
    <3>3. UntouchedInv'
      BY <1>3, <1>4, <2>1, <2>2 DEF UntouchedInv, CommandBecomes
    <3> QED
      BY <3>2, <3>3
  <2> QED
    BY <1>2, <1>3, <1>6, <1>7, <1>8, <2>1, <2>3, CommandTells DEF Experiment!Place
<1> QED
  BY <1>2, <1>10, <1>11

LEMMA PatchKeeps ==
  ASSUME ExperimentIInv, Experiment!Patch
  PROVE  ExperimentIInv'
<1>1. /\ cmd \in Commands /\ plans \in Plans /\ cmd.run \in Plan /\ flux \in Reconcilers /\ ours \in Flags
      /\ live \in Lives
  BY ExperimentTypes DEF Experiment!Patch
<1>2. /\ cmd.pc = "patch" /\ cmd.at \in 1..Resources /\ plans[cmd.run].status = "applying" /\ pointer # None
      /\ HeldInv /\ (hands = 0 => \A f \in FluxNames : flux[f].suspended)
  BY DEF ExperimentIInv, CommandInv, StageInv, UntouchedInv, Experiment!Patch, Applies, Experiment!Mine
<1>3. UNCHANGED <<flux, live, pointer, ours, given, hands>>
  BY DEF Experiment!Patch, Experiment!history
<1>4. HeldInv'
  BY <1>2, <1>3 DEF HeldInv
<1>5. CASE /\ live[cmd.at].content = Experiment!Mine.before[cmd.at]
           /\ cmd' = [cmd EXCEPT !.pc = "write", !.seen = live[cmd.at].version]
           /\ UNCHANGED plans
  <2>1. live[cmd.at].version \in Nat
    BY <1>1, <1>2 DEF Lives
  <2>2. CommandBecomes("write", cmd.at, live[cmd.at].version)
    BY <1>1, <1>5, <2>1 DEF CommandBecomes, Commands, Experiment!Place
  <2>3. Experiment!Mine' = Experiment!Mine
    BY <1>5, <2>2 DEF CommandBecomes, Experiment!Mine
  <2>4. StageInv'
    BY <1>2, <1>3, <1>5, <2>1, <2>2, <2>3 DEF StageInv, CommandBecomes, Applies, Experiment!Mine
  <2>5. UntouchedInv'
    BY <1>2, <1>3, <1>4, <2>2 DEF UntouchedInv, CommandBecomes
  <2> QED
    BY <1>1, <1>2, <1>3, <1>5, <2>2, <2>4, <2>5, CommandPasses DEF Experiment!Place
<1>6. CASE Experiment!Ends("apply-failed")
  BY <1>1, <1>2, <1>3, <1>4, <1>6, CommandEnds DEF Applies
<1> QED
  BY <1>5, <1>6 DEF Experiment!Patch

LEMMA WriteKeeps ==
  ASSUME ExperimentIInv, Experiment!Write
  PROVE  ExperimentIInv'
<1>1. /\ cmd \in Commands /\ plans \in Plans /\ cmd.run \in Plan /\ flux \in Reconcilers /\ ours \in Flags
      /\ live \in Lives /\ Resources \in Nat \ {0}
  BY ExperimentTypes DEF Experiment!Write
<1>2. /\ cmd.pc = "write" /\ cmd.at \in 1..Resources /\ plans[cmd.run].status = "applying" /\ pointer # None
      /\ HeldInv /\ (hands = 0 => \A f \in FluxNames : flux[f].suspended)
  BY DEF ExperimentIInv, CommandInv, StageInv, UntouchedInv, Experiment!Write, Applies, Experiment!Mine
<1>3. UNCHANGED <<flux, pointer, ours, given, hands>>
  BY DEF Experiment!Write, Experiment!history
<1>4. HeldInv'
  BY <1>2, <1>3 DEF HeldInv
<1>5. live' \in Lives
  <2>1. CASE live' = live
    BY <1>1, <2>1
  <2>2. CASE Experiment!Written
    BY <1>1, <1>2, <2>2 DEF Experiment!Written, Lives, Experiment!Contents
  <2> QED
    BY <2>1, <2>2 DEF Experiment!Write
<1>6. CASE Experiment!Ends("apply-failed") \/ Experiment!Ends("applied")
  BY <1>1, <1>2, <1>3, <1>4, <1>5, <1>6, CommandEnds DEF Applies
<1>7. CASE cmd.at < Resources /\ cmd' = [cmd EXCEPT !.at = @ + 1, !.pc = "patch"] /\ UNCHANGED plans
  <2>1. cmd.at + 1 \in 1..Resources
    BY <1>1, <1>2, <1>7
  <2>2. CommandBecomes("patch", cmd.at + 1, cmd.seen)
    BY <1>1, <1>7, <2>1, CommandMoves DEF Experiment!Place
  <2>3. Experiment!Mine' = Experiment!Mine
    BY <1>7, <2>2 DEF CommandBecomes, Experiment!Mine
  <2>4. StageInv'
    BY <1>2, <1>3, <1>7, <2>1, <2>2, <2>3 DEF StageInv, CommandBecomes, Applies, Experiment!Mine
  <2>5. UntouchedInv'
    BY <1>2, <1>3, <1>4, <2>2 DEF UntouchedInv, CommandBecomes
  <2> QED
    BY <1>1, <1>2, <1>3, <1>5, <1>7, <2>2, <2>4, <2>5, CommandPasses DEF Experiment!Place
<1> QED
  BY <1>6, <1>7 DEF Experiment!Write, Experiment!Written

LEMMA ResumeKeeps ==
  ASSUME ExperimentIInv, Experiment!Resume
  PROVE  ExperimentIInv'
<1>1. /\ cmd \in Commands /\ plans \in Plans /\ cmd.run \in Plan /\ flux \in Reconcilers /\ ours \in Flags
      /\ live \in Lives
  BY ExperimentTypes DEF Experiment!Resume
<1>2. cmd.pc = "resume" /\ HeldInv
  BY DEF ExperimentIInv, UntouchedInv, Experiment!Resume
<1>3. UNCHANGED <<flux, live, plans, pointer, ours, given, hands>>
  BY DEF Experiment!Resume, Experiment!history
<1>4. HeldInv'
  BY <1>2, <1>3 DEF HeldInv
<1>5. CASE /\ Experiment!Mine.status \in {"applied", "apply-failed", "applying", "resume-failed"}
           /\ \A f \in FluxNames : ~Experiment!Mine.entries[f].pending
           /\ cmd' = [cmd EXCEPT !.pc = "lift", !.at = 2]
  <2>1. CommandBecomes("lift", 2, cmd.seen)
    <3>1. cmd' = [cmd EXCEPT !.at = 2, !.pc = "lift"]
      BY <1>1, <1>5 DEF Commands
    <3>2. 2 \in 1..2 \cup 1..Resources
      OBVIOUS
    <3> QED
      BY <1>1, <3>1, <3>2, CommandMoves DEF Experiment!Place
  <2>2. Experiment!Mine' = Experiment!Mine
    BY <1>3, <2>1 DEF CommandBecomes, Experiment!Mine
  <2>3. StageInv'
    BY <1>5, <2>1, <2>2 DEF StageInv, CommandBecomes, Applies
  <2>4. UntouchedInv'
    BY <1>3, <1>4, <2>1 DEF UntouchedInv, CommandBecomes
  <2> QED
    BY <1>1, <1>2, <1>3, <2>1, <2>3, <2>4, CommandPasses DEF Experiment!Place
<1>6. CASE Experiment!Goes("leave")
  <2>1. CommandBecomes("leave", cmd.at, cmd.seen)
    BY <1>1, <1>6, CommandGoes DEF Experiment!Place
  <2>2. StageInv' /\ UntouchedInv'
    BY <1>4, <2>1 DEF StageInv, UntouchedInv, CommandBecomes, Applies
  <2> QED
    BY <1>1, <1>2, <1>3, <2>1, <2>2, CommandPasses DEF Experiment!Place
<1> QED
  BY <1>5, <1>6 DEF Experiment!Resume, FluxNames

LEMMA LiftKeeps ==
  ASSUME ExperimentIInv, Experiment!Lift
  PROVE  ExperimentIInv'
<1>1. /\ cmd \in Commands /\ plans \in Plans /\ cmd.run \in Plan /\ flux \in Reconcilers /\ ours \in Flags
      /\ live \in Lives /\ given \in Flags /\ FluxNames = {"root", "child"}
  BY ExperimentTypes DEF Experiment!Lift
<1>2. /\ cmd.pc = "lift" /\ cmd.at \in {1, 2} /\ HeldInv /\ Experiment!At \in FluxNames
      /\ plans[cmd.run].status \notin {"none", "prepared", "resumed"}
      /\ \A f \in FluxNames : ~plans[cmd.run].entries[f].pending
      /\ cmd.at = 1 => ~plans[cmd.run].entries["child"].changed
  BY ExperimentTypes DEF ExperimentIInv, CommandInv, StageInv, UntouchedInv, Experiment!Lift, Experiment!Mine
<1>3. UNCHANGED <<live, pointer, given, hands>>
  BY DEF Experiment!Lift
<1>4. Experiment!Entries = plans[cmd.run].entries[Experiment!At]
  BY DEF Experiment!Entries, Experiment!Mine
<1>5. CASE ~Experiment!Entries.changed /\ Experiment!Downward /\ UNCHANGED <<flux, ours>>
  <2>1. HeldInv'
    BY <1>2, <1>3, <1>5 DEF HeldInv
  <2>2. CASE cmd.at = 2
    <3>1. CommandBecomes("lift", 1, cmd.seen) /\ UNCHANGED plans
      <4>1. cmd' = [cmd EXCEPT !.at = 1, !.pc = "lift"] /\ UNCHANGED plans
        BY <1>5, <2>2 DEF Experiment!Downward
      <4>2. 1 \in 1..2 \cup 1..Resources
        OBVIOUS
      <4> QED
        BY <1>1, <4>1, <4>2, CommandMoves DEF Experiment!Place
    <3>2. Experiment!At = "child"
      BY <2>2 DEF Experiment!At, Experiment!Order
    <3>3. Experiment!Mine' = plans[cmd.run]
      BY <3>1 DEF CommandBecomes, Experiment!Mine
    <3>4. StageInv' /\ UntouchedInv'
      BY <1>2, <1>4, <1>5, <2>1, <3>1, <3>2, <3>3 DEF StageInv, UntouchedInv, CommandBecomes, Applies
    <3> QED
      BY <1>1, <1>2, <1>3, <1>5, <3>1, <3>4, CommandPasses DEF Experiment!Place
  <2>3. CASE cmd.at = 1
    <3>1. Experiment!Ends("resumed")
      BY <1>5, <2>3 DEF Experiment!Downward
    <3>2. Experiment!At = "root"
      BY <2>3 DEF Experiment!At, Experiment!Order
    <3>3. \A f \in FluxNames : ~Tells(cmd.run, f)
      BY <1>1, <1>2, <1>4, <1>5, <2>3, <3>2 DEF Tells
    <3> QED
      BY <1>1, <1>2, <1>3, <1>5, <2>1, <3>1, <3>3, CommandEnds
  <2> QED
    BY <1>2, <2>2, <2>3
<1>6. CASE /\ Experiment!Entries.changed /\ Experiment!Sets(FALSE)
           /\ (Experiment!Goes("lifted") /\ UNCHANGED plans) \/ Experiment!Ends("resume-failed")
  <2>1. /\ flux' \in Reconcilers /\ ours' \in Flags
        /\ flux'[Experiment!At].suspended = FALSE /\ ours'[Experiment!At] = FALSE
        /\ \A f \in FluxNames : f # Experiment!At => flux'[f] = flux[f] /\ ours'[f] = ours[f]
    BY <1>1, <1>2, <1>6, ReconcilerSet
  <2>2. hands = 0 => ~given[Experiment!At]
    BY <1>1, <1>2, <1>4, <1>6 DEF ExperimentIInv, PlanInv, Tells
  <2>3. HeldInv'
    BY <1>1, <1>2, <1>3, <2>1, <2>2 DEF HeldInv
  <2>4. \A f \in FluxNames : ~(ours'[f] /\ ~ours[f])
    BY <2>1
  <2>5. CASE Experiment!Ends("resume-failed")
    BY <1>1, <1>2, <1>3, <2>1, <2>3, <2>4, <2>5, CommandEnds
  <2>6. CASE Experiment!Goes("lifted") /\ UNCHANGED plans
    <3>1. CommandBecomes("lifted", cmd.at, cmd.seen)
      BY <1>1, <2>6, CommandGoes DEF Experiment!Place
    <3>2. Experiment!Mine' = plans[cmd.run] /\ Experiment!At' = Experiment!At
      BY <2>6, <3>1 DEF CommandBecomes, Experiment!Mine, Experiment!At
    <3>3. StageInv'
      BY <1>2, <2>1, <3>1, <3>2 DEF StageInv, CommandBecomes, Applies
    <3>4. UntouchedInv'
      BY <2>3, <3>1 DEF UntouchedInv, CommandBecomes
    <3> QED
      BY <1>1, <1>2, <1>3, <2>1, <2>4, <2>6, <3>1, <3>3, <3>4, CommandPasses DEF Experiment!Place
  <2> QED
    BY <1>6, <2>5, <2>6
<1>7. CASE Experiment!Entries.changed /\ UNCHANGED <<flux, ours>> /\ Experiment!Ends("resume-failed")
  <2>1. HeldInv'
    BY <1>2, <1>3, <1>7 DEF HeldInv
  <2> QED
    BY <1>1, <1>2, <1>3, <1>7, <2>1, CommandEnds
<1> QED
  BY <1>5, <1>6, <1>7 DEF Experiment!Lift

LEMMA LiftedKeeps ==
  ASSUME ExperimentIInv, Experiment!Lifted
  PROVE  ExperimentIInv'
<1>1. /\ cmd \in Commands /\ plans \in Plans /\ cmd.run \in Plan /\ FluxNames = {"root", "child"}
  BY ExperimentTypes DEF Experiment!Lifted
<1>2. /\ cmd.pc = "lifted" /\ cmd.at \in {1, 2} /\ HeldInv /\ ~ours[Experiment!At]
      /\ plans[cmd.run].status \notin {"none", "prepared", "resumed"}
      /\ \A f \in FluxNames : ~plans[cmd.run].entries[f].pending
      /\ cmd.at = 1 => ~plans[cmd.run].entries["child"].changed
  BY DEF ExperimentIInv, CommandInv, StageInv, UntouchedInv, Experiment!Lifted, Experiment!Mine
<1>3. UNCHANGED <<flux, live, pointer, ours, given, hands>>
  BY DEF Experiment!Lifted, Experiment!history
<1>4. HeldInv'
  BY <1>2, <1>3 DEF HeldInv
<1> DEFINE entry == [Experiment!Entries EXCEPT !.changed = FALSE]
<1>5. Experiment!Entries \in Experiment!Entry /\ Experiment!Entries = plans[cmd.run].entries[Experiment!At]
      /\ Experiment!At \in FluxNames
  BY <1>1, <1>2, ExperimentTypes DEF Experiment!Entries, Experiment!Mine, Plans, Experiment!Record, FluxNames
<1>6. /\ entry \in Experiment!Entry /\ ~entry.changed /\ entry.previous = Experiment!Entries.previous
      /\ entry.pending = Experiment!Entries.pending
  BY <1>5 DEF Experiment!Entry
<1>7. Experiment!SavesEntry(entry)
  BY DEF Experiment!Lifted
<1> HIDE DEF entry
<1>8. ~entry.pending
  BY <1>2, <1>5, <1>6
<1>9. CommandBecomes("lift", cmd.at, cmd.seen)
  BY <1>1, CommandGoes DEF Experiment!Lifted, Experiment!Place
<1>10. ASSUME NEW entries \in Scope, PlanBecomes(plans[cmd.run].status, entries), entries[Experiment!At] = entry,
              \A f \in FluxNames : f # Experiment!At => entries[f] = plans[cmd.run].entries[f]
       PROVE  StageInv' /\ UntouchedInv'
  <2>1. Experiment!Mine'.status = plans[cmd.run].status /\ Experiment!Mine'.entries = entries
    BY <1>9, <1>10 DEF PlanBecomes, CommandBecomes, Experiment!Mine
  <2>2. \A f \in FluxNames : ~entries[f].pending
    BY <1>2, <1>8, <1>10
  <2>3. cmd.at = 1 => ~entries["child"].changed
    BY <1>1, <1>2, <1>6, <1>10
  <2>4. StageInv'
    BY <1>2, <1>9, <2>1, <2>2, <2>3 DEF StageInv, CommandBecomes, Applies
  <2>5. UntouchedInv'
    BY <1>4, <1>9 DEF UntouchedInv, CommandBecomes
  <2> QED
    BY <2>4, <2>5
<1> QED
  BY <1>2, <1>3, <1>6, <1>7, <1>8, <1>9, <1>10, CommandTells DEF Experiment!Place

-----------------------------------------------------------------------------
(* Everything else *)

LEMMA ExperimentInitially ==
  ASSUME Experiment!Init
  PROVE  ExperimentIInv
<1> USE DEF Experiment!Init
<1>1. FluxNames = {"root", "child"} /\ Resources \in Nat \ {0} /\ MaxHands \in Nat
  BY ToolsAssumption DEF FluxNames, Experiment!Flux
<1>2. Experiment!NoPlan \in Experiment!Record /\ Experiment!NoPlan.status = "none"
      /\ \A f \in FluxNames : ~Experiment!NoPlan.entries[f].changed /\ ~Experiment!NoPlan.entries[f].pending
  BY DEF Experiment!NoPlan, Experiment!NoEntries, Experiment!Record, Experiment!Entry, Experiment!Status,
         Experiment!Contents, FluxNames
<1>3. \A p \in Plan : plans[p] = Experiment!NoPlan
  OBVIOUS
<1>4. cmd \in Commands /\ cmd.pc = "idle"
  BY <1>1 DEF Commands, Experiment!Idle, Experiment!Place
<1>5. flux \in Reconcilers /\ (\A f \in FluxNames : given[f] = flux[f].suspended) /\ given \in Flags
      /\ ours \in Flags /\ \A f \in FluxNames : ~ours[f]
  BY DEF Reconcilers, Flags, FluxNames
<1>6. live \in Lives /\ plans \in Plans
  BY <1>2 DEF Lives, Plans, Experiment!Contents
<1>11. pointer = None /\ hands \in 0..MaxHands
  BY <1>1
<1>7. Experiment!TypeOK
  <2> HIDE DEF Experiment!Init
  <2> QED
    BY <1>4, <1>5, <1>6, <1>11 DEF Experiment!TypeOK, Commands, Plans, Lives, Reconcilers, Flags, FluxNames
<1>8. \A p \in Plan : PlanInv(p)
  BY <1>2, <1>3 DEF PlanInv, Tells
<1>9. UntouchedInv
  BY <1>4, <1>5 DEF UntouchedInv, HeldInv
<1>10. Experiment!NothingForgotten
  BY <1>5 DEF Experiment!NothingForgotten, FluxNames
<1> QED
  BY <1>4, <1>7, <1>8, <1>9, <1>10 DEF ExperimentIInv, Named, CommandInv

\* What every state remembers.
LEMMA Remembered ==
  ASSUME ExperimentIInv
  PROVE  /\ \A f \in FluxNames : ours[f] => Recovered # None /\ Tells(Recovered.run, f)
         /\ Recovered # None => Recovered.run \in Plan /\ plans[Recovered.run].status # "none"
<1>1. \A f \in FluxNames : ours[f] => Recovered # None /\ Tells(Recovered.run, f)
  BY DEF ExperimentIInv, Experiment!NothingForgotten, FluxNames, Recovered, Tells
<1>2. Recovered # None => Recovered.run \in Plan
  BY ExperimentTypes DEF Experiment!Pointer
<1>3. Recovered # None => plans[Recovered.run].status # "none"
  BY ExperimentTypes DEF ExperimentIInv, Named, Recovered, Experiment!Recovered, Experiment!Pointer
<1> QED
  BY <1>1, <1>2, <1>3

\* Who does not take over from another run and is to begin, or has ended, holds nothing.
LEMMA LonerHoldsNothing ==
  ASSUME ExperimentIInv, cmd.pc # "idle", cmd.inherited = None,
         \A f \in FluxNames : ~Tells(cmd.run, f)
  PROVE  \A f \in FluxNames : ~ours[f]
<1>1. pointer = None \/ (pointer.run = cmd.run /\ Fixed(pointer))
  BY DEF ExperimentIInv, CommandInv, LonerInv
<1>2. Recovered = pointer
  BY <1>1 DEF Recovered, Experiment!Recovered, Fixed
<1> QED
  BY <1>1, <1>2, Remembered

\* A step that leaves the plans and the pointer alone, and the command too unless it dies.
LEMMA OthersStep ==
  ASSUME ExperimentIInv, UNCHANGED <<plans, pointer>>, cmd' = cmd \/ cmd' = Experiment!Idle,
         flux' \in Reconcilers, live' \in Lives, ours' \in Flags, given' \in Flags, hands' \in 0..MaxHands,
         \A f \in FluxNames : ours'[f] => ours[f],
         hands' = 0 => hands = 0 /\ \A f \in FluxNames : given'[f] => given[f],
         cmd' = cmd /\ cmd.pc # "idle" => StageInv', UntouchedInv'
  PROVE  ExperimentIInv'
<1>1. cmd \in Commands /\ plans \in Plans /\ pointer \in Experiment!Pointer \cup {None}
  BY ExperimentTypes
<1>2. Experiment!Idle \in Commands /\ Experiment!Idle.pc = "idle"
  BY DEF Commands, Experiment!Idle, Experiment!Place
<1>3. cmd' \in Commands
  BY <1>1, <1>2
<1>4. Experiment!TypeOK'
  BY <1>1, <1>3 DEF Experiment!TypeOK, Commands, Plans, Lives, Reconcilers, Flags, FluxNames
<1>5. Recovered' = Recovered
  BY DEF Recovered, Experiment!Recovered
<1>6. Experiment!NothingForgotten'
  BY <1>5, Remembered DEF Experiment!NothingForgotten, FluxNames, Recovered, Tells
<1>7. \A p \in Plan : PlanInv(p)'
  BY DEF ExperimentIInv, PlanInv, Tells
<1>8. Named(pointer)'
  BY DEF ExperimentIInv, Named
<1>9. CommandInv'
  <2>1. CASE cmd' = cmd /\ cmd.pc # "idle"
    <3>1. cmd.run # None /\ Experiment!Mine.status # "none" /\ Named(cmd.active) /\ HeirInv /\ LonerInv
      BY <2>1 DEF ExperimentIInv, CommandInv
    <3>2. HeirInv'
      BY <2>1, <3>1 DEF HeirInv, Experiment!Mine
    <3>3. LonerInv'
      BY <2>1, <3>1 DEF LonerInv, Fixed
    <3>4. (cmd.run # None /\ Experiment!Mine.status # "none" /\ Named(cmd.active))'
      BY <2>1, <3>1 DEF Experiment!Mine, Named
    <3> QED
      BY <2>1, <3>2, <3>3, <3>4 DEF CommandInv
  <2>2. CASE cmd'.pc = "idle"
    BY <2>2 DEF CommandInv
  <2> QED
    BY <1>2, <2>1, <2>2
<1> QED
  BY <1>4, <1>6, <1>7, <1>8, <1>9 DEF ExperimentIInv

LEMMA DiesKeeps ==
  ASSUME ExperimentIInv, Experiment!Dies
  PROVE  ExperimentIInv'
<1>1. cmd.pc # "idle" /\ cmd' = Experiment!Idle /\ Experiment!Idle.pc = "idle"
      /\ UNCHANGED <<flux, live, plans, pointer, ours, given, hands>>
  BY DEF Experiment!Dies, Experiment!history, Experiment!Idle
<1>2. UntouchedInv'
  BY <1>1 DEF ExperimentIInv, UntouchedInv, HeldInv
<1> QED
  BY <1>1, <1>2, ExperimentTypes, OthersStep

LEMMA HandOnFluxKeeps ==
  ASSUME ExperimentIInv, NEW f \in FluxNames, Experiment!HandOnFlux(f)
  PROVE  ExperimentIInv'
<1>1. /\ flux \in Reconcilers /\ ours \in Flags /\ given \in Flags /\ live \in Lives
      /\ hands \in 0..MaxHands /\ MaxHands \in Nat
  BY ExperimentTypes
<1>2. UNCHANGED <<live, plans, pointer, cmd, given>> /\ hands' \in 0..MaxHands /\ hands' # 0
  BY <1>1 DEF Experiment!HandOnFlux
<1>3. flux' \in Reconcilers
  <2>1. CASE flux' = [flux EXCEPT ![f].suspended = ~@]
    BY <1>1, <2>1 DEF Reconcilers
  <2>2. CASE flux' = [flux EXCEPT ![f] = [suspended |-> FALSE, uid |-> 1]]
    <3>1. [suspended |-> FALSE, uid |-> 1] \in [suspended : BOOLEAN, uid : 0..1]
      OBVIOUS
    <3> QED
      BY <1>1, <2>2, <3>1 DEF Reconcilers
  <2> QED
    BY <2>1, <2>2 DEF Experiment!HandOnFlux
<1>4. ours' \in Flags /\ \A g \in FluxNames : ours'[g] => ours[g]
  BY <1>1 DEF Experiment!HandOnFlux, Flags
<1>5. UntouchedInv'
  BY <1>2 DEF UntouchedInv, HeldInv
<1>6. cmd.pc # "idle" => StageInv'
  <2> SUFFICES ASSUME cmd.pc # "idle"
               PROVE  StageInv'
    OBVIOUS
  <2>1. StageInv /\ (cmd.at \in {1, 2} => Experiment!At \in FluxNames)
    BY ExperimentTypes DEF ExperimentIInv, CommandInv
  <2> QED
    BY <1>2, <1>4, <2>1 DEF StageInv, Experiment!Mine, Experiment!Entries, Experiment!At
<1> QED
  BY <1>1, <1>2, <1>3, <1>4, <1>5, <1>6, OthersStep

\* An object gets another version, and another content.
LEMMA LiveStep ==
  ASSUME ExperimentIInv, NEW i \in 1..Resources, NEW content \in {"git", "hand"},
         live' = [live EXCEPT ![i] = [content |-> content, version |-> @.version + 1]],
         UNCHANGED <<flux, plans, pointer, cmd, ours, given>>,
         hands' \in 0..MaxHands, hands' = 0 => hands = 0
  PROVE  ExperimentIInv'
<1>1. flux \in Reconcilers /\ ours \in Flags /\ given \in Flags /\ live \in Lives
  BY ExperimentTypes
<1>2. live' \in Lives
  BY <1>1 DEF Lives, Experiment!Contents
<1>3. live'[i].version = live[i].version + 1 /\ live[i].version \in Nat
      /\ \A j \in 1..Resources : j # i => live'[j] = live[j]
  BY <1>1 DEF Lives
<1>4. UntouchedInv'
  BY DEF ExperimentIInv, UntouchedInv, HeldInv
<1>5. cmd.pc # "idle" => StageInv'
  <2> SUFFICES ASSUME cmd.pc # "idle"
               PROVE  StageInv'
    OBVIOUS
  <2>1. StageInv
    BY DEF ExperimentIInv, CommandInv
  <2>2. cmd.seen \in Nat
    BY ExperimentTypes DEF Commands
  <2>3. (cmd.pc = "write" => /\ cmd.seen <= live[cmd.at].version
                             /\ cmd.seen = live[cmd.at].version => live[cmd.at].content = Experiment!Mine.before[cmd.at])'
    <3>1. CASE cmd.at = i
      BY <1>3, <2>1, <2>2, <3>1 DEF StageInv
    <3>2. CASE cmd.at # i
      BY <1>3, <2>1, <3>2 DEF StageInv, Experiment!Mine
    <3> QED
      BY <3>1, <3>2
  <2> QED
    BY <2>1, <2>3 DEF StageInv, Experiment!Mine, Experiment!Entries, Experiment!At
<1> QED
  BY <1>1, <1>2, <1>4, <1>5, OthersStep

LEMMA ReconcilesChildKeeps ==
  ASSUME ExperimentIInv, Experiment!ReconcilesChild
  PROVE  ExperimentIInv'
<1>1. /\ flux \in Reconcilers /\ ours \in Flags /\ given \in Flags /\ live \in Lives
      /\ hands \in 0..MaxHands /\ FluxNames = {"root", "child"}
  BY ExperimentTypes
<1>2. UNCHANGED <<live, plans, pointer, cmd, hands>>
  BY DEF Experiment!ReconcilesChild
<1>3. flux' \in Reconcilers /\ flux'["root"] = flux["root"] /\ flux'["child"].suspended = FALSE
  BY <1>1 DEF Experiment!ReconcilesChild, Reconcilers
<1>4. ours' \in Flags /\ ours'["root"] = ours["root"] /\ ours'["child"] = FALSE
  BY <1>1 DEF Experiment!ReconcilesChild, Flags
<1>5. given' \in Flags /\ given'["root"] = given["root"] /\ given'["child"] = FALSE
  BY <1>1 DEF Experiment!ReconcilesChild, Flags
<1>6. HeldInv'
  BY <1>1, <1>2, <1>3, <1>4, <1>5 DEF ExperimentIInv, UntouchedInv, HeldInv
<1>7. ~flux["root"].suspended
  BY DEF Experiment!ReconcilesChild
<1>8. ASSUME cmd.pc # "idle"
      PROVE  StageInv'
  <2>1. StageInv /\ (cmd.at \in {1, 2} => Experiment!At \in FluxNames)
    BY <1>8, ExperimentTypes DEF ExperimentIInv, CommandInv
  <2>2. \A f \in FluxNames : ours'[f] => ours[f]
    BY <1>1, <1>4
  <2> QED
    BY <1>2, <2>1, <2>2 DEF StageInv, Experiment!Mine, Experiment!Entries, Experiment!At
<1>9. hands = 0 => cmd.pc \notin {"confirm", "patch", "write"}
  <2>1. cmd.pc = "confirm" => 1 \in 1..cmd.at /\ Experiment!Order[1] = "root"
    BY DEF ExperimentIInv, CommandInv, StageInv, Experiment!Order
  <2> QED
    BY <1>1, <1>7, <2>1 DEF ExperimentIInv, UntouchedInv
<1>10. UntouchedInv'
  BY <1>2, <1>3, <1>6, <1>9 DEF ExperimentIInv, UntouchedInv
<1>11. \A f \in FluxNames : (ours'[f] => ours[f]) /\ (given'[f] => given[f])
  BY <1>1, <1>4, <1>5
<1> QED
  BY <1>1, <1>2, <1>3, <1>4, <1>5, <1>8, <1>10, <1>11, OthersStep

LEMMA PrepareKeeps ==
  ASSUME ExperimentIInv, NEW p \in Plan, Experiment!Prepare(p)
  PROVE  ExperimentIInv'
<1>1. /\ cmd \in Commands /\ plans \in Plans /\ pointer \in Experiment!Pointer \cup {None}
      /\ flux \in Reconcilers /\ live \in Lives /\ ours \in Flags /\ given \in Flags /\ hands \in 0..MaxHands
  BY ExperimentTypes
<1>2. cmd.pc = "idle" /\ plans[p].status = "none" /\ UNCHANGED <<flux, live, pointer, cmd, ours, given, hands>>
  BY DEF Experiment!Prepare, Experiment!history
<1> DEFINE plan0 == [Experiment!NoPlan EXCEPT !.status = "prepared", !.before = Experiment!Live]
<1>3. plans' = [plans EXCEPT ![p] = plan0]
  BY DEF Experiment!Prepare
<1>4. Experiment!Live \in [1..Resources -> Experiment!Contents]
  BY <1>1 DEF Lives, Experiment!Live
<1>5. /\ plan0.status = "prepared" /\ plan0.before = Experiment!Live /\ plan0.entries = Experiment!NoEntries
      /\ plan0 \in Experiment!Record
  <2>1. Experiment!NoEntries \in [Experiment!Flux -> Experiment!Entry]
    BY DEF Experiment!NoEntries, Experiment!Entry
  <2>2. Experiment!NoPlan \in Experiment!Record /\ Experiment!NoPlan.entries = Experiment!NoEntries
    BY <2>1 DEF Experiment!NoPlan, Experiment!Record, Experiment!Status, Experiment!Contents
  <2> QED
    BY <1>4, <2>2 DEF Experiment!Record, Experiment!Status
<1> HIDE DEF plan0
<1>6. plans' \in Plans /\ plans'[p] = plan0 /\ \A q \in Plan : q # p => plans'[q] = plans[q]
  BY <1>1, <1>3, <1>5 DEF Plans
<1>7. \A f \in FluxNames : ~Tells(p, f) /\ ~Told(Experiment!NoEntries, f)
  BY <1>2 DEF ExperimentIInv, PlanInv, Told, Experiment!NoEntries, FluxNames
<1>8. pointer # None => pointer.run # p
  BY <1>2 DEF ExperimentIInv, Named
<1>9. Recovered' = Recovered
  BY <1>1, <1>2, <1>6, <1>8 DEF Recovered, Experiment!Recovered, Experiment!Pointer
<1>10. Experiment!NothingForgotten'
  <2> SUFFICES ASSUME NEW f \in FluxNames, ours'[f]
               PROVE  (Recovered # None /\ Tells(Recovered.run, f))'
    BY DEF Experiment!NothingForgotten, FluxNames, Recovered, Tells
  <2>1. Recovered # None /\ Tells(Recovered.run, f) /\ Recovered.run \in Plan
    BY <1>2, Remembered
  <2>2. Recovered.run # p
    BY <1>7, <2>1
  <2> QED
    BY <1>6, <1>9, <2>1, <2>2 DEF Tells
<1>11. \A q \in Plan : PlanInv(q)'
  <2> SUFFICES ASSUME NEW q \in Plan
               PROVE  PlanInv(q)'
    OBVIOUS
  <2>1. CASE q = p
    BY <1>5, <1>6, <1>7, <2>1 DEF PlanInv, Tells, Told
  <2>2. CASE q # p
    BY <1>2, <1>6, <2>2 DEF ExperimentIInv, PlanInv, Tells
  <2> QED
    BY <2>1, <2>2
<1>12. Named(pointer)'
  BY <1>1, <1>2, <1>5, <1>6 DEF ExperimentIInv, Named, Experiment!Pointer
<1>13. CommandInv' /\ UntouchedInv'
  BY <1>2 DEF ExperimentIInv, CommandInv, UntouchedInv, HeldInv
<1>14. Experiment!TypeOK'
  BY <1>1, <1>2, <1>6 DEF Experiment!TypeOK, Commands, Plans, Lives, Reconcilers, Flags, FluxNames
<1> QED
  BY <1>10, <1>11, <1>12, <1>13, <1>14 DEF ExperimentIInv

\* What the pointer becomes when it is recovered.
LEMMA RecoveredIs ==
  ASSUME ExperimentIInv
  PROVE  /\ Fixed(Recovered) /\ Named(Recovered)
         /\ Fixed(pointer) => Recovered = pointer
         /\ pointer # None /\ ~Fixed(pointer) => Recovered = [run |-> pointer.previous, previous |-> None]
BY ExperimentTypes DEF Recovered, Experiment!Recovered, Fixed, Named, ExperimentIInv, Experiment!Pointer

\* A step of the pointer, the plans keeping what they tell of, where the plan that the
\* recovered pointer leads to stays the same.
LEMMA PointerStep ==
  ASSUME ExperimentIInv, UNCHANGED <<flux, live, ours, given, hands>>,
         cmd' \in Commands, plans' \in Plans, pointer' \in Experiment!Pointer \cup {None},
         \A p \in Plan : /\ \A f \in FluxNames : plans'[p].entries[f] = plans[p].entries[f]
                         /\ plans'[p].status = plans[p].status
                            \/ {plans'[p].status, plans[p].status} \cap {"none", "prepared", "resumed"} = {},
         \A f \in FluxNames : ours[f] => Recovered' # None /\ Recovered.run = Recovered'.run,
         Named(pointer'), CommandInv',
         cmd'.pc \in {"idle", "reserve", "check", "resume", "leave"}
  PROVE  ExperimentIInv'
<1>1. /\ flux \in Reconcilers /\ live \in Lives /\ ours \in Flags /\ given \in Flags /\ hands \in 0..MaxHands
      /\ plans \in Plans
  BY ExperimentTypes
<1>2. Experiment!TypeOK'
  BY <1>1 DEF Experiment!TypeOK, Commands, Plans, Lives, Reconcilers, Flags, FluxNames
<1>3. Experiment!NothingForgotten'
  <2> SUFFICES ASSUME NEW f \in FluxNames, ours[f]
               PROVE  (Recovered # None /\ Tells(Recovered.run, f))'
    BY DEF Experiment!NothingForgotten, FluxNames, Recovered, Tells
  <2>1. Recovered # None /\ Tells(Recovered.run, f) /\ Recovered.run \in Plan
    BY Remembered
  <2> QED
    BY <2>1 DEF Tells
<1>4. \A p \in Plan : PlanInv(p)'
  <2> SUFFICES ASSUME NEW p \in Plan
               PROVE  PlanInv(p)'
    OBVIOUS
  <2>1. PlanInv(p) /\ \A f \in FluxNames : Tells(p, f)' <=> Tells(p, f)
    BY DEF ExperimentIInv, Tells
  <2>2. plans'[p].status \in {"none", "prepared", "resumed"} => plans[p].status = plans'[p].status
    OBVIOUS
  <2>3. plans'[p].status \notin {"none", "prepared"} => plans[p].status \notin {"none", "prepared"}
    OBVIOUS
  <2> QED
    BY <2>1, <2>2, <2>3 DEF PlanInv
<1>5. Named(pointer)'
  <2>1. \A p \in Plan : plans[p].status # "none" => plans'[p].status # "none"
    OBVIOUS
  <2> QED
    BY <2>1 DEF Named, Experiment!Pointer
<1>6. UntouchedInv'
  BY DEF ExperimentIInv, UntouchedInv, HeldInv
<1> QED
  BY <1>2, <1>3, <1>4, <1>5, <1>6 DEF ExperimentIInv

LEMMA BeginKeeps ==
  ASSUME ExperimentIInv, NEW p \in Plan, NEW kind \in {"reserve", "resume"}, Experiment!Begin(p, kind)
  PROVE  ExperimentIInv'
<1>1. /\ cmd \in Commands /\ plans \in Plans /\ pointer \in Experiment!Pointer \cup {None}
      /\ Recovered \in Experiment!Pointer \cup {None} /\ None \notin Plan
  BY ExperimentTypes
<1> DEFINE other == Recovered # None /\ Recovered.run # p
           begun == [Experiment!Idle EXCEPT !.pc = kind, !.run = p, !.active = Recovered,
                                            !.inherited = IF other THEN Recovered.run ELSE None]
<1>2. /\ cmd.pc = "idle" /\ plans[p].status # "none" /\ pointer' = Recovered
      /\ UNCHANGED <<flux, live, plans, ours, given, hands>>
      /\ \/ cmd' = cmd
         \/ /\ cmd' = begun
            /\ other => kind # "resume" /\ plans[Recovered.run].status \in {"applied", "apply-failed"}
            /\ kind = "reserve" => plans[p].status = "prepared"
  BY DEF Experiment!Begin, Recovered, Experiment!history
<1>3. /\ begun.pc = kind /\ begun.run = p /\ begun.active = Recovered /\ begun.at = 1
      /\ begun.inherited = IF other THEN Recovered.run ELSE None
      /\ begun \in Commands
  <2> DEFINE heir == IF other THEN Recovered.run ELSE None
  <2>1. heir \in Plan \cup {None}
    BY <1>1 DEF Experiment!Pointer
  <2>2. Experiment!Idle \in Commands /\ Experiment!Idle.at = 1
    BY DEF Experiment!Idle, Commands, Experiment!Place
  <2>3. begun = [Experiment!Idle EXCEPT !.pc = kind, !.run = p, !.active = Recovered, !.inherited = heir]
    OBVIOUS
  <2> HIDE DEF begun, heir
  <2>4. begun \in Commands /\ begun.inherited = heir /\ begun.pc = kind /\ begun.run = p
    BY <1>1, <2>1, <2>2, <2>3 DEF Commands, Experiment!Place
  <2>5. begun.active = Recovered /\ begun.at = 1
    BY <2>2, <2>3 DEF Commands
  <2> QED
    BY <2>4, <2>5 DEF heir
<1> HIDE DEF begun
<1>4. Fixed(Recovered) /\ Named(Recovered)
  BY RecoveredIs
<1>5. Recovered' = Recovered
  BY <1>1, <1>2, <1>4 DEF Fixed, Recovered, Experiment!Recovered, Experiment!Pointer
<1>6. CommandInv'
  <2>1. CASE cmd' = cmd
    BY <1>2, <2>1 DEF CommandInv
  <2>2. CASE /\ cmd' = begun
             /\ other => kind # "resume" /\ plans[Recovered.run].status \in {"applied", "apply-failed"}
             /\ kind = "reserve" => plans[p].status = "prepared"
    <3>1. Experiment!Mine' = plans[p]
      BY <1>2, <1>3, <2>2 DEF Experiment!Mine
    <3>2. HeirInv'
      <4>1. CASE other
        <5>1. kind = "reserve"
          BY <2>2, <4>1
        <5> QED
          BY <1>2, <1>3, <2>2, <4>1, <5>1 DEF HeirInv
      <4>2. CASE ~other
        BY <1>3, <2>2, <4>2 DEF HeirInv
      <4> QED
        BY <4>1, <4>2
    <3>3. LonerInv'
      <4>1. CASE other
        BY <1>1, <1>3, <2>2, <4>1 DEF LonerInv, Experiment!Pointer
      <4>2. CASE ~other
        BY <1>2, <1>3, <1>4, <2>2, <4>2 DEF LonerInv, Fixed
      <4> QED
        BY <4>1, <4>2
    <3>4. StageInv'
      BY <1>3, <2>2, <3>1 DEF StageInv, Applies
    <3>5. Named(cmd.active)'
      BY <1>2, <1>3, <1>4, <2>2 DEF Named
    <3> QED
      BY <1>1, <1>2, <1>3, <2>2, <3>1, <3>2, <3>3, <3>4, <3>5 DEF CommandInv
  <2> QED
    BY <1>2, <2>1, <2>2
<1>7. cmd' \in Commands /\ cmd'.pc \in {"idle", "reserve", "check", "resume", "leave"}
  BY <1>1, <1>2, <1>3
<1>8. Named(pointer')
  BY <1>2, <1>4
<1>9. \A f \in FluxNames : ours[f] => Recovered' # None /\ Recovered.run = Recovered'.run
  BY <1>5, Remembered
<1> QED
  BY <1>1, <1>2, <1>6, <1>7, <1>8, <1>9, PointerStep

LEMMA ReserveKeeps ==
  ASSUME ExperimentIInv, Experiment!Reserve
  PROVE  ExperimentIInv'
<1>1. /\ cmd \in Commands /\ plans \in Plans /\ cmd.run \in Plan /\ None \notin Plan
      /\ pointer \in Experiment!Pointer \cup {None} /\ None \notin Experiment!Pointer
  BY ExperimentTypes DEF Experiment!Reserve
<1>2. /\ cmd.pc = "reserve" /\ pointer' = [run |-> cmd.run, previous |-> cmd.inherited]
      /\ UNCHANGED <<flux, live, plans, ours, given, hands>>
  BY DEF Experiment!Reserve, Experiment!history
<1>3. /\ HeirInv /\ LonerInv /\ Named(cmd.active) /\ cmd.inherited \in Plan \cup {None}
      /\ plans[cmd.run].status = "prepared" /\ cmd.at = 1
  BY <1>1, <1>2 DEF ExperimentIInv, CommandInv, StageInv, Experiment!Mine, Commands
<1>4. CommandBecomes("check", cmd.at, cmd.seen)
  BY <1>1, CommandGoes DEF Experiment!Reserve, Experiment!Place
<1>5. pointer' \in Experiment!Pointer
  BY <1>1, <1>2, <1>3 DEF Experiment!Pointer
<1>6. CASE cmd.inherited = None
  <2>1. pointer = None \/ (pointer.run = cmd.run /\ Fixed(pointer))
    BY <1>3, <1>6 DEF LonerInv
  <2>2. Recovered = pointer
    BY <2>1, RecoveredIs DEF Fixed
  <2>3. Recovered' = pointer'
    BY <1>2, <1>6 DEF Recovered, Experiment!Recovered
  <2>4. \A f \in FluxNames : ours[f] => Recovered' # None /\ Recovered.run = Recovered'.run
    BY <1>1, <1>2, <1>5, <2>1, <2>2, <2>3, Remembered
  <2>5. Named(pointer')
    BY <1>2, <1>3, <1>6 DEF Named
  <2>6. CommandInv'
    <3>1. LonerInv' /\ HeirInv'
      BY <1>2, <1>4, <1>6 DEF LonerInv, HeirInv, Fixed, CommandBecomes
    <3>2. StageInv' /\ Experiment!Mine' = plans[cmd.run]
      BY <1>1, <1>2, <1>3, <1>4, <1>5 DEF StageInv, Experiment!Mine, Applies, CommandBecomes
    <3>3. Named(cmd.active)'
      BY <1>2, <1>3, <1>4 DEF Named, CommandBecomes
    <3> QED
      BY <1>1, <1>3, <1>4, <3>1, <3>2, <3>3 DEF CommandInv, CommandBecomes
  <2> QED
    BY <1>1, <1>2, <1>4, <1>5, <2>4, <2>5, <2>6, PointerStep DEF CommandBecomes
<1>7. CASE cmd.inherited # None
  <2>1. /\ cmd.inherited \in Plan /\ cmd.inherited # cmd.run /\ pointer # None /\ pointer.run = cmd.inherited
        /\ plans[cmd.inherited].status \in {"applied", "apply-failed"}
        /\ cmd.active # None /\ cmd.active.run = cmd.inherited
    BY <1>2, <1>3, <1>7 DEF HeirInv
  <2>2. Recovered = pointer
    BY <2>1 DEF Recovered, Experiment!Recovered
  <2>3. pointer'.run = cmd.run /\ pointer'.previous = cmd.inherited /\ pointer' # None
    BY <1>1, <1>2, <1>5
  <2>4. Recovered' = [run |-> cmd.inherited, previous |-> None]
    BY <1>2, <1>3, <1>7, <2>3 DEF Recovered, Experiment!Recovered
  <2>5. Recovered' # None
    BY <2>1, <2>4, ToolsAssumption DEF Experiment!Pointer
  <2>6. \A f \in FluxNames : ours[f] => Recovered' # None /\ Recovered.run = Recovered'.run
    BY <2>1, <2>2, <2>4, <2>5
  <2>7. Named(pointer')
    BY <1>3, <2>1, <2>3 DEF Named
  <2>8. CommandInv'
    <3>1. HeirInv'
      BY <1>2, <1>3, <1>4, <2>1, <2>3 DEF HeirInv, Experiment!Mine, CommandBecomes
    <3>2. LonerInv'
      BY <1>4, <1>7 DEF LonerInv, CommandBecomes
    <3>3. StageInv' /\ Experiment!Mine' = plans[cmd.run]
      BY <1>1, <1>2, <1>3, <1>4, <1>5 DEF StageInv, Experiment!Mine, Applies, CommandBecomes
    <3>4. Named(cmd.active)'
      BY <1>2, <1>3, <1>4 DEF Named, CommandBecomes
    <3> QED
      BY <1>1, <1>3, <1>4, <3>1, <3>2, <3>3, <3>4 DEF CommandInv, CommandBecomes
  <2> QED
    BY <1>1, <1>2, <1>4, <1>5, <2>6, <2>7, <2>8, PointerStep DEF CommandBecomes
<1> QED
  BY <1>6, <1>7

LEMMA LeaveKeeps ==
  ASSUME ExperimentIInv, Experiment!Leave
  PROVE  ExperimentIInv'
<1>1. /\ cmd \in Commands /\ plans \in Plans /\ cmd.run \in Plan /\ None \notin Plan
      /\ pointer \in Experiment!Pointer \cup {None} /\ None \notin Experiment!Pointer
  BY ExperimentTypes DEF Experiment!Leave
<1>2. /\ cmd.pc = "leave" /\ cmd' = Experiment!Idle
      /\ UNCHANGED <<flux, live, ours, given, hands>>
  BY DEF Experiment!Leave, Experiment!history
<1>3. /\ HeirInv /\ LonerInv /\ Named(cmd.active) /\ Named(pointer) /\ plans[cmd.run].status # "none"
      /\ cmd.active \in Experiment!Pointer \cup {None} /\ cmd.inherited \in Plan \cup {None}
  BY <1>1, <1>2 DEF ExperimentIInv, CommandInv, Experiment!Mine, Commands
<1>4. cmd' \in Commands /\ cmd'.pc = "idle" /\ CommandInv'
  BY <1>2 DEF Experiment!Idle, Commands, CommandInv, Experiment!Place
<1>5. CASE plans[cmd.run].status \notin {"prepared", "resumed"}
  <2>1. pointer' = pointer
    BY <1>5 DEF Experiment!Leave, Experiment!Mine
  <2>2. CASE cmd.inherited = None
    <3>1. plans' = plans
      BY <1>5, <2>2 DEF Experiment!Leave, Experiment!Mine
    <3>2. Recovered' = Recovered
      BY <2>1, <3>1 DEF Recovered, Experiment!Recovered
    <3>3. \A f \in FluxNames : ours[f] => Recovered' # None /\ Recovered.run = Recovered'.run
      BY <3>2, Remembered
    <3> QED
      BY <1>1, <1>2, <1>3, <1>4, <2>1, <3>1, <3>3, PointerStep
  <2>3. CASE cmd.inherited # None
    <3>1. /\ cmd.inherited \in Plan /\ cmd.inherited # cmd.run
          /\ plans[cmd.inherited].status \in {"applied", "apply-failed"}
          /\ pointer = [run |-> cmd.run, previous |-> cmd.inherited]
      BY <1>2, <1>3, <2>3 DEF HeirInv
    <3> DEFINE plan0 == [plans[cmd.inherited] EXCEPT !.status = "superseded"]
    <3>2. plans' = [plans EXCEPT ![cmd.inherited] = plan0]
      BY <1>5, <2>3 DEF Experiment!Leave, Experiment!Mine
    <3>3. plan0 \in Experiment!Record /\ plan0.status = "superseded" /\ plan0.entries = plans[cmd.inherited].entries
      BY <1>1, <3>1 DEF Plans, Experiment!Record, Experiment!Status
    <3> HIDE DEF plan0
    <3>4. plans' \in Plans /\ plans'[cmd.inherited] = plan0 /\ \A p \in Plan : p # cmd.inherited => plans'[p] = plans[p]
      BY <1>1, <3>1, <3>2, <3>3 DEF Plans
    <3>5. \A p \in Plan : /\ \A f \in FluxNames : plans'[p].entries[f] = plans[p].entries[f]
                          /\ plans'[p].status = plans[p].status
                             \/ {plans'[p].status, plans[p].status} \cap {"none", "prepared", "resumed"} = {}
      BY <3>1, <3>3, <3>4
    <3>6. Recovered = pointer /\ Recovered' = pointer /\ pointer # None
      BY <1>1, <1>5, <2>1, <3>1, <3>4 DEF Recovered, Experiment!Recovered, Experiment!Pointer
    <3>7. \A f \in FluxNames : ours[f] => Recovered' # None /\ Recovered.run = Recovered'.run
      BY <3>6
    <3> QED
      BY <1>1, <1>2, <1>3, <1>4, <2>1, <3>4, <3>5, <3>7, PointerStep
  <2> QED
    BY <2>2, <2>3
<1>6. CASE plans[cmd.run].status \in {"prepared", "resumed"}
  <2>1. plans' = plans
    BY <1>6 DEF Experiment!Leave, Experiment!Mine
  <2>2. CASE plans[cmd.run].status = "prepared" /\ cmd.inherited # None
    <3>1. pointer' = cmd.active
      BY <2>2 DEF Experiment!Leave, Experiment!Mine
    <3>2. /\ cmd.active # None /\ cmd.active.run = cmd.inherited
          /\ plans[cmd.inherited].status \in {"applied", "apply-failed"}
          /\ pointer = [run |-> cmd.run, previous |-> cmd.inherited]
      BY <1>2, <1>3, <2>2 DEF HeirInv
    <3>6. pointer # None /\ pointer.previous = cmd.inherited /\ pointer.run = cmd.run
      BY <1>1, <1>3, <3>2, ToolsAssumption DEF Experiment!Pointer
    <3>3. Recovered.run = cmd.inherited
      BY <2>2, <3>6 DEF Recovered, Experiment!Recovered
    <3>4. Recovered' = cmd.active
      BY <2>1, <3>1, <3>2 DEF Recovered, Experiment!Recovered
    <3>5. \A f \in FluxNames : ours[f] => Recovered' # None /\ Recovered.run = Recovered'.run
      BY <3>2, <3>3, <3>4
    <3> QED
      BY <1>1, <1>2, <1>3, <1>4, <2>1, <3>1, <3>5, PointerStep
  <2>3. CASE ~(plans[cmd.run].status = "prepared" /\ cmd.inherited # None)
    <3>1. pointer' = None
      BY <1>6, <2>3 DEF Experiment!Leave, Experiment!Mine
    <3>2. cmd.inherited = None
      BY <1>2, <1>3, <1>6, <2>3 DEF HeirInv, Experiment!Mine
    <3>3. \A f \in FluxNames : ~Tells(cmd.run, f)
      BY <1>1, <1>6 DEF ExperimentIInv, PlanInv
    <3>4. \A f \in FluxNames : ~ours[f]
      BY <1>2, <3>2, <3>3, LonerHoldsNothing
    <3>5. Named(pointer')
      BY <3>1 DEF Named
    <3> QED
      BY <1>1, <1>2, <1>3, <1>4, <2>1, <3>1, <3>4, <3>5, PointerStep
  <2> QED
    BY <2>2, <2>3
<1> QED
  BY <1>5, <1>6

\* What apply takes on: the entries of the run it takes over from, or what it found.
LEMMA ScopeFits ==
  ASSUME ExperimentIInv, cmd.pc = "check"
  PROVE  /\ Experiment!Scope \in Scope
         /\ \A f \in FluxNames : Told(Experiment!Scope, f) => ~Experiment!Scope[f].previous
         /\ \A f \in FluxNames : ours[f] => Told(Experiment!Scope, f)
         /\ hands = 0 => \A f \in FluxNames : ~Experiment!Scope[f].previous => ~given[f]
<1>1. /\ cmd \in Commands /\ plans \in Plans /\ cmd.run \in Plan /\ None \notin Plan /\ flux \in Reconcilers
      /\ None \notin Experiment!Pointer
  BY ExperimentTypes
<1>2. /\ HeirInv /\ plans[cmd.run].status = "prepared" /\ HeldInv /\ cmd.inherited \in Plan \cup {None}
  BY <1>1 DEF ExperimentIInv, CommandInv, StageInv, Experiment!Mine, UntouchedInv, Commands
<1>3. CASE cmd.inherited = None
  <2>1. Experiment!Scope = Experiment!Snapshot
    BY <1>3 DEF Experiment!Scope
  <2>2. \A f \in FluxNames : ~ours[f]
    BY <1>1, <1>2, <1>3, LonerHoldsNothing DEF ExperimentIInv, PlanInv
  <2>3. \A f \in FluxNames :
          /\ Experiment!Snapshot[f] \in Experiment!Entry /\ ~Told(Experiment!Snapshot, f)
          /\ Experiment!Snapshot[f].previous <=> flux[f].suspended
    <3> SUFFICES ASSUME NEW f \in FluxNames
                 PROVE  /\ Experiment!Snapshot[f] \in Experiment!Entry /\ ~Told(Experiment!Snapshot, f)
                        /\ Experiment!Snapshot[f].previous <=> flux[f].suspended
      OBVIOUS
    <3>1. Experiment!NoEntries[f] \in Experiment!Entry /\ ~Experiment!NoEntries[f].changed
          /\ ~Experiment!NoEntries[f].pending
      BY DEF Experiment!NoEntries, Experiment!Entry, FluxNames
    <3>2. flux[f].uid \in 0..1 /\ flux[f].suspended \in BOOLEAN
      BY <1>1 DEF Reconcilers
    <3>3. Experiment!Snapshot[f] = [Experiment!NoEntries[f] EXCEPT !.uid = flux[f].uid, !.previous = flux[f].suspended]
      BY DEF Experiment!Snapshot, FluxNames
    <3> QED
      BY <3>1, <3>2, <3>3 DEF Experiment!Entry, Told
  <2>4. Experiment!Snapshot \in Scope
    BY <2>3 DEF Scope, Experiment!Snapshot, FluxNames
  <2> QED
    BY <1>2, <2>1, <2>2, <2>3, <2>4 DEF HeldInv
<1>4. CASE cmd.inherited # None
  <2>1. /\ cmd.inherited \in Plan /\ plans[cmd.inherited].status \in {"applied", "apply-failed"}
        /\ pointer = [run |-> cmd.run, previous |-> cmd.inherited]
    BY <1>2, <1>4 DEF HeirInv
  <2>2. Experiment!Scope = plans[cmd.inherited].entries
    BY <1>4 DEF Experiment!Scope
  <2>3. pointer # None /\ pointer.run = cmd.run /\ pointer.previous = cmd.inherited
    BY <1>1, <2>1, ToolsAssumption DEF Experiment!Pointer
  <2>4. Recovered.run = cmd.inherited
    BY <1>2, <1>4, <2>3 DEF Recovered, Experiment!Recovered
  <2>5. \A f \in FluxNames : Tells(cmd.inherited, f) <=> Told(Experiment!Scope, f)
    BY <2>2 DEF Tells, Told
  <2>6. PlanInv(cmd.inherited)
    BY <2>1 DEF ExperimentIInv
  <2>7. Experiment!Scope \in Scope
    BY <1>1, <2>1, <2>2 DEF Plans, Experiment!Record, Scope, FluxNames
  <2> QED
    BY <2>1, <2>2, <2>4, <2>5, <2>6, <2>7, Remembered DEF PlanInv
<1> QED
  BY <1>3, <1>4

LEMMA CheckKeeps ==
  ASSUME ExperimentIInv, Experiment!Check
  PROVE  ExperimentIInv'
<1>1. /\ cmd \in Commands /\ plans \in Plans /\ cmd.run \in Plan /\ None \notin Plan
      /\ pointer \in Experiment!Pointer \cup {None} /\ None \notin Experiment!Pointer
      /\ flux \in Reconcilers /\ live \in Lives /\ ours \in Flags /\ given \in Flags /\ hands \in 0..MaxHands
      /\ FluxNames = {"root", "child"}
  BY ExperimentTypes DEF Experiment!Check
<1>2. /\ cmd.pc = "check" /\ UNCHANGED <<flux, live, pointer, ours, given, hands>>
  BY DEF Experiment!Check, Experiment!history
<1>3. /\ HeirInv /\ LonerInv /\ Named(cmd.active) /\ Named(pointer) /\ HeldInv
      /\ plans[cmd.run].status = "prepared" /\ cmd.at = 1 /\ pointer # None
  BY <1>2 DEF ExperimentIInv, CommandInv, StageInv, Experiment!Mine, UntouchedInv
<1>4. HeldInv'
  BY <1>2, <1>3 DEF HeldInv
<1>5. CASE Experiment!Goes("leave") /\ UNCHANGED plans
  <2>1. CommandBecomes("leave", cmd.at, cmd.seen)
    BY <1>1, <1>5, CommandGoes DEF Experiment!Place
  <2>2. Recovered' = Recovered
    BY <1>2, <1>5 DEF Recovered, Experiment!Recovered
  <2>3. \A f \in FluxNames : ours[f] => Recovered' # None /\ Recovered.run = Recovered'.run
    BY <2>2, Remembered
  <2>4. CommandInv'
    <3>1. StageInv' /\ Experiment!Mine' = plans[cmd.run]
      BY <1>5, <2>1 DEF StageInv, Applies, Experiment!Mine, CommandBecomes
    <3>2. HeirInv'
      BY <1>2, <1>3, <1>5, <2>1, <3>1 DEF HeirInv, CommandBecomes
    <3>3. LonerInv'
      BY <1>2, <1>3, <1>5, <2>1 DEF LonerInv, Fixed, CommandBecomes
    <3>4. Named(cmd.active)'
      BY <1>3, <1>5, <2>1 DEF Named, CommandBecomes
    <3> QED
      BY <1>1, <1>3, <2>1, <3>1, <3>2, <3>3, <3>4 DEF CommandInv, CommandBecomes
  <2> QED
    BY <1>1, <1>2, <1>3, <1>5, <2>1, <2>3, <2>4, PointerStep DEF CommandBecomes
<1>6. CASE /\ Experiment!Saves([Experiment!Mine EXCEPT !.status = "applying", !.entries = Experiment!Scope])
           /\ Experiment!Goes("suspend")
  <2> DEFINE plan0 == [Experiment!Mine EXCEPT !.status = "applying", !.entries = Experiment!Scope]
  <2>1. /\ Experiment!Scope \in Scope
        /\ \A f \in FluxNames : Told(Experiment!Scope, f) => ~Experiment!Scope[f].previous
        /\ \A f \in FluxNames : ours[f] => Told(Experiment!Scope, f)
        /\ hands = 0 => \A f \in FluxNames : ~Experiment!Scope[f].previous => ~given[f]
    BY <1>2, ScopeFits
  <2>2. Experiment!Mine \in Experiment!Record /\ Experiment!Mine.before = plans[cmd.run].before
    BY <1>1 DEF Plans, Experiment!Mine
  <2>3. /\ plan0 \in Experiment!Record /\ plan0.status = "applying" /\ plan0.entries = Experiment!Scope
        /\ plan0.before = plans[cmd.run].before
    BY <2>1, <2>2 DEF Experiment!Record, Experiment!Status, Scope, FluxNames
  <2>4. Experiment!Saves(plan0)
    BY <1>6
  <2> HIDE DEF plan0
  <2>5. PlanBecomes("applying", Experiment!Scope)
    BY <1>1, <2>3, <2>4, PlanSaved
  <2>6. /\ plans' \in Plans /\ plans'[cmd.run].status = "applying" /\ plans'[cmd.run].entries = Experiment!Scope
        /\ \A p \in Plan : p # cmd.run => plans'[p] = plans[p]
    BY <2>5 DEF PlanBecomes
  <2>7. CommandBecomes("suspend", 1, cmd.seen)
    BY <1>1, <1>3, <1>6, CommandGoes DEF Experiment!Place
  <2>8. Experiment!Mine' = plans'[cmd.run]
    BY <2>7 DEF CommandBecomes, Experiment!Mine
  <2>9. pointer.run = cmd.run
    <3>1. CASE cmd.inherited = None
      BY <1>3, <3>1 DEF LonerInv
    <3>2. CASE cmd.inherited # None
      BY <1>2, <1>3, <3>2 DEF HeirInv
    <3> QED
      BY <3>1, <3>2
  <2>10. Recovered' = pointer
    BY <1>2, <2>6, <2>9 DEF Recovered, Experiment!Recovered
  <2>11. Experiment!NothingForgotten'
    <3> SUFFICES ASSUME NEW f \in FluxNames, ours[f]
                 PROVE  (Recovered # None /\ Tells(Recovered.run, f))'
      BY <1>2 DEF Experiment!NothingForgotten, FluxNames, Recovered, Tells
    <3> QED
      BY <1>3, <2>1, <2>6, <2>9, <2>10 DEF Tells, Told
  <2>12. \A p \in Plan : PlanInv(p)'
    <3> SUFFICES ASSUME NEW p \in Plan
                 PROVE  PlanInv(p)'
      OBVIOUS
    <3>1. CASE p # cmd.run
      BY <1>2, <2>6, <3>1 DEF ExperimentIInv, PlanInv, Tells
    <3>2. CASE p = cmd.run
      BY <1>2, <2>1, <2>6, <3>2 DEF PlanInv, Tells, Told
    <3> QED
      BY <3>1, <3>2
  <2>13. \A p \in Plan : plans[p].status # "none" => plans'[p].status # "none"
    BY <1>1, <2>6
  <2>14. Named(pointer)' /\ Named(cmd.active)'
    <3>1. cmd.active \in Experiment!Pointer \cup {None} /\ cmd'.active = cmd.active
      BY <1>1, <2>7 DEF Commands, CommandBecomes
    <3> QED
      BY <1>1, <1>2, <1>3, <2>13, <3>1 DEF Named, Experiment!Pointer
  <2>15. HeirInv'
    BY <1>1, <1>2, <1>3, <2>6, <2>7, <2>8 DEF HeirInv, CommandBecomes, Commands
  <2>16. LonerInv'
    BY <1>2, <1>3, <2>6, <2>7, <2>9 DEF LonerInv, Fixed, CommandBecomes
  <2>17. StageInv'
    BY <1>2, <1>3, <2>6, <2>7, <2>8 DEF StageInv, Applies, CommandBecomes
  <2>18. CommandInv'
    BY <1>1, <1>3, <2>6, <2>7, <2>8, <2>14, <2>15, <2>16, <2>17 DEF CommandInv, CommandBecomes
  <2>19. UntouchedInv'
    BY <1>4, <2>7 DEF UntouchedInv, CommandBecomes
  <2>20. cmd' \in Commands
    BY <2>7 DEF CommandBecomes
  <2>21. Experiment!TypeOK'
    BY <1>1, <1>2, <2>6, <2>20 DEF Experiment!TypeOK, Commands, Plans, Lives, Reconcilers, Flags, FluxNames
  <2> QED
    BY <2>11, <2>12, <2>14, <2>18, <2>19, <2>21 DEF ExperimentIInv
<1> QED
  BY <1>5, <1>6 DEF Experiment!Check

LEMMA ExperimentStep ==
  ASSUME ExperimentIInv, [Experiment!Next]_experimentVars
  PROVE  ExperimentIInv'
<1>1. CASE UNCHANGED experimentVars
  <2>1. UNCHANGED <<flux, live, plans, pointer, cmd, ours, given, hands>>
    BY <1>1 DEF experimentVars
  <2>2. UntouchedInv'
    BY <2>1 DEF ExperimentIInv, UntouchedInv, HeldInv
  <2>3. cmd.pc # "idle" => StageInv'
    BY <2>1 DEF ExperimentIInv, CommandInv, StageInv, Experiment!Mine, Experiment!Entries, Experiment!At
  <2> QED
    BY <2>1, <2>2, <2>3, ExperimentTypes, OthersStep
<1>2. ASSUME NEW p \in Plan, Experiment!Prepare(p) \/ \E kind \in {"reserve", "resume"} : Experiment!Begin(p, kind)
      PROVE  ExperimentIInv'
  BY <1>2, PrepareKeeps, BeginKeeps
<1>3. CASE Experiment!Reserve \/ Experiment!Check \/ Experiment!Leave \/ Experiment!Dies
  BY <1>3, ReserveKeeps, CheckKeeps, LeaveKeeps, DiesKeeps
<1>4. CASE Experiment!Suspend \/ Experiment!Ask \/ Experiment!Confirm \/ Experiment!Patch \/ Experiment!Write
  BY <1>4, SuspendKeeps, AskKeeps, ConfirmKeeps, PatchKeeps, WriteKeeps
<1>5. CASE Experiment!Resume \/ Experiment!Lift \/ Experiment!Lifted
  BY <1>5, ResumeKeeps, LiftKeeps, LiftedKeeps
<1>6. CASE Experiment!ReconcilesChild \/ \E f \in FluxNames : Experiment!HandOnFlux(f)
  BY <1>6, ReconcilesChildKeeps, HandOnFluxKeeps
<1>7. ASSUME NEW i \in 1..Resources, Experiment!HandOnObject(i) \/ Experiment!Reconciles(i)
      PROVE  ExperimentIInv'
  <2>1. hands \in 0..MaxHands /\ MaxHands \in Nat
    BY ExperimentTypes
  <2>2. CASE Experiment!HandOnObject(i)
    <3>1. /\ UNCHANGED <<flux, plans, pointer, cmd, ours, given>>
          /\ live' = [live EXCEPT ![i] = [content |-> "hand", version |-> @.version + 1]]
          /\ hands < MaxHands /\ hands' = hands + 1
      BY <2>2 DEF Experiment!HandOnObject
    <3>2. hands' \in 0..MaxHands /\ hands' # 0
      BY <2>1, <3>1
    <3> QED
      BY <3>1, <3>2, LiveStep
  <2>3. CASE Experiment!Reconciles(i)
    BY <2>1, <2>3, LiveStep DEF Experiment!Reconciles, Experiment!history
  <2> QED
    BY <1>7, <2>2, <2>3
<1> QED
  BY <1>1, <1>2, <1>3, <1>4, <1>5, <1>6, <1>7 DEF Experiment!Next, FluxNames

LEMMA ExperimentGives ==
  ASSUME ExperimentIInv
  PROVE  ExperimentInv
BY DEF ExperimentIInv, ExperimentInv, Experiment!ExperimentInv

\* Every write of an object and every resume is what its plan was reviewed for.
LEMMA ExperimentReviewed ==
  ASSUME ExperimentIInv, [Experiment!Next]_experimentVars
  PROVE  [Experiment!StepIsReviewed]_experimentVars
<1> SUFFICES ASSUME Experiment!Next
             PROVE  Experiment!StepIsReviewed
  BY DEF experimentVars
<1>1. /\ cmd \in Commands /\ plans \in Plans /\ live \in Lives /\ (cmd.pc # "idle" => cmd.run \in Plan)
      /\ Plan \cap {"git", "hand"} = {}
  BY ExperimentTypes, ToolsAssumption
<1>2. Experiment!AppliesToWhatWasPrepared
  <2> SUFFICES ASSUME NEW i \in 1..Resources, live'[i] # live[i], live'[i].content \in Plan
               PROVE  /\ live[i].content = Experiment!Mine.before[i]
                      /\ hands = 0 => \A f \in FluxNames : flux[f].suspended
    BY DEF Experiment!AppliesToWhatWasPrepared, FluxNames
  <2>1. CASE Experiment!Write
    <3>1. /\ cmd.pc = "write" /\ live[cmd.at].version = cmd.seen
          /\ live' = [live EXCEPT ![cmd.at] = [content |-> cmd.run, version |-> @.version + 1]]
      BY <2>1 DEF Experiment!Write, Experiment!Written
    <3>2. i = cmd.at
      BY <1>1, <3>1 DEF Lives
    <3> QED
      BY <3>1, <3>2 DEF ExperimentIInv, CommandInv, StageInv, UntouchedInv
  <2>2. ASSUME NEW j \in 1..Resources, NEW content \in {"git", "hand"},
               live' = [live EXCEPT ![j] = [content |-> content, version |-> @.version + 1]]
        PROVE  FALSE
    <3>1. i = j
      BY <1>1, <2>2 DEF Lives
    <3>2. live'[i].content = content
      BY <1>1, <2>2, <3>1 DEF Lives
    <3> QED
      BY <1>1, <3>2
  <2>3. ~UNCHANGED live
    OBVIOUS
  <2>4. \A j \in 1..Resources : ~Experiment!HandOnObject(j) /\ ~Experiment!Reconciles(j)
    BY <2>2 DEF Experiment!HandOnObject, Experiment!Reconciles
  <2>5. Experiment!Write
    BY <2>3, <2>4 DEF Experiment!Next, Experiment!Prepare, Experiment!Begin, Experiment!Reserve, Experiment!Check,
       Experiment!Suspend, Experiment!Ask, Experiment!Confirm, Experiment!Patch, Experiment!Resume, Experiment!Lift,
       Experiment!Lifted, Experiment!Leave, Experiment!Dies, Experiment!ReconcilesChild, Experiment!HandOnFlux
  <2> QED
    BY <2>1, <2>5
<1>3. Experiment!ResumesWhatWasGiven
  <2> SUFFICES ASSUME cmd.pc # "idle", Experiment!Mine.status # "resumed",
                      plans'[cmd.run].status = "resumed", hands = 0
               PROVE  \A f \in FluxNames : flux[f].suspended = given[f]
    BY DEF Experiment!ResumesWhatWasGiven, FluxNames
  <2>1. cmd.run \in Plan /\ plans[cmd.run] \in Experiment!Record /\ plans[cmd.run].status # "resumed"
    BY <1>1 DEF Plans, Experiment!Mine
  <2>2. ~UNCHANGED plans
    BY <2>1
  <2>3. \A status \in Experiment!Status \ {"resumed"} : ~Experiment!Ends(status)
    BY <1>1, <2>1, StatusSaved DEF PlanBecomes
  <2>4. \A entry \in Experiment!Entry : Experiment!At \in FluxNames => ~Experiment!SavesEntry(entry)
    BY <1>1, <2>1, EntrySaved DEF PlanBecomes
  <2>5. CASE Experiment!Lift
    <3>1. Experiment!Ends("resumed") /\ ~Experiment!Entries.changed /\ cmd.at = 1 /\ cmd.pc = "lift"
      <4>1. cmd.pc = "lift" /\ cmd.at \in {1, 2}
        BY <2>5 DEF Experiment!Lift, ExperimentIInv, CommandInv, StageInv
      <4>2. ~Experiment!Ends("resume-failed")
        BY <2>3 DEF Experiment!Status
      <4>3. ~Experiment!Entries.changed /\ Experiment!Downward
        BY <2>2, <2>5, <4>2 DEF Experiment!Lift
      <4> QED
        BY <2>2, <4>1, <4>3 DEF Experiment!Downward
    <3>2. Experiment!Entries = plans[cmd.run].entries["root"]
      BY <3>1 DEF Experiment!Entries, Experiment!At, Experiment!Order, Experiment!Mine
    <3>3. \A f \in FluxNames : ~Tells(cmd.run, f)
      BY <3>1, <3>2 DEF ExperimentIInv, CommandInv, StageInv, Tells, FluxNames, Experiment!Flux, Experiment!Mine
    <3>4. cmd.inherited = None
      BY <3>1 DEF ExperimentIInv, CommandInv, HeirInv
    <3>5. \A f \in FluxNames : ~ours[f]
      BY <3>1, <3>3, <3>4, LonerHoldsNothing
    <3>6. flux \in Reconcilers /\ given \in Flags
      BY ExperimentTypes
    <3> QED
      BY <3>5, <3>6 DEF ExperimentIInv, UntouchedInv, HeldInv, Reconcilers, Flags
  <2>6. ~Experiment!Check
    <3>1. CASE Experiment!Check
      <4>1. Experiment!Saves([Experiment!Mine EXCEPT !.status = "applying", !.entries = Experiment!Scope])
        BY <2>2, <3>1 DEF Experiment!Check
      <4>2. plans'[cmd.run].status = "applying"
        BY <1>1, <2>1, <4>1 DEF Experiment!Saves, Plans, Experiment!Record, Experiment!Mine
      <4> QED
        BY <2>1, <4>2
    <3> QED
      BY <3>1
  <2>7. ~Experiment!Suspend /\ ~Experiment!Confirm /\ ~Experiment!Lifted
    <3>1. cmd.pc \in {"suspend", "confirm", "lifted"} =>
            Experiment!At \in FluxNames /\ Experiment!Entries \in Experiment!Entry
      BY <2>1, ExperimentTypes DEF ExperimentIInv, CommandInv, StageInv, Experiment!Entries, Experiment!Mine,
         Experiment!Record, FluxNames
    <3>2. cmd.pc \in {"suspend", "confirm", "lifted"} =>
            /\ [Experiment!Entries EXCEPT !.pending = TRUE] \in Experiment!Entry
            /\ [Experiment!Entries EXCEPT !.changed = TRUE, !.pending = FALSE] \in Experiment!Entry
            /\ [Experiment!Entries EXCEPT !.changed = FALSE] \in Experiment!Entry
      BY <3>1 DEF Experiment!Entry
    <3> QED
      BY <2>2, <2>3, <2>4, <3>1, <3>2 DEF Experiment!Suspend, Experiment!Confirm, Experiment!Lifted, Experiment!Status
  <2>8. ~Experiment!Ask /\ ~Experiment!Patch /\ ~Experiment!Write
    BY <2>2, <2>3 DEF Experiment!Ask, Experiment!Patch, Experiment!Write, Experiment!Written, Experiment!Status
  <2>9. ~Experiment!Leave
    <3>1. CASE Experiment!Leave
      <4>1. cmd.inherited # None /\ plans' = [plans EXCEPT ![cmd.inherited].status = "superseded"]
        BY <2>2, <3>1 DEF Experiment!Leave
      <4>2. cmd.inherited # cmd.run
        BY <4>1 DEF ExperimentIInv, CommandInv, HeirInv
      <4> QED
        BY <1>1, <2>1, <4>1, <4>2 DEF Plans
    <3> QED
      BY <3>1
  <2>10. Experiment!Lift
    BY <2>2, <2>6, <2>7, <2>8, <2>9 DEF Experiment!Next, Experiment!Prepare, Experiment!Begin, Experiment!Reserve,
       Experiment!Resume, Experiment!Dies, Experiment!ReconcilesChild, Experiment!HandOnFlux, Experiment!HandOnObject,
       Experiment!Reconciles
  <2> QED
    BY <2>5, <2>10
<1> QED
  BY <1>2, <1>3 DEF Experiment!StepIsReviewed

(***************************************************************************)
(* The lab.  A command that works alone finds things as it left them; what  *)
(* others do in between only adds to the files, the volumes, the containers *)
(* and the permissions.  AgentHouse is whole, or somebody is making it, or  *)
(* it is known to be half made.                                             *)
(***************************************************************************)

CredentialIs(secret) == files[Lab!CredentialPath] = secret
Does(p, command) == Head(proc[p].todo) = command

\* AgentHouse with all it needs, or without anything; and who is between the two.
Whole ==
  /\ house.volume <=> house.secret # None
  /\ house.secret = None => \A f \in {"credential.json", "state.json", "container.env"} : files[f] = None
Makes(p) == Lab!HalfMade(p)

ThingsInv ==
  /\ house.secret # 0
  /\ house.secret # None => CredentialIs(house.secret)
  /\ loki.container => loki.volume
  /\ ~spoiled => Whole \/ \E p \in Proc : Makes(p)
FlockInv == flock # None => proc[flock].pc \notin {"idle", "begin"}

\* What holds at the places of a command, whoever else is at work.
HouseInv(p) ==
  /\ proc[p].pc \in {"saved?", "credential", "environment", "create", "read"} => Does(p, "house up")
  /\ Makes(p) => files["credential.json"] = proc[p].me
  /\ Makes(p) /\ proc[p].pc # "environment" => files["container.env"] = proc[p].me
  /\ proc[p].pc = "create" => house.volume
  /\ proc[p].pc \in {"saved?", "credential"} =>
       ~proc[p].found /\ (house.secret = None \/ files["credential.json"] # None)
  /\ proc[p].pc = "volume?" =>
       (proc[p].found <=> house.secret # None) \/ (~proc[p].found /\ files["credential.json"] # None)
  /\ proc[p].pc = "read" \/ (proc[p].pc \in {"start", "ready?"} /\ Does(p, "house up")) => house.secret # None
LokiInv(p) ==
  /\ proc[p].pc = "look" => Lab!LokiCommand(p)
  /\ proc[p].pc = "run" => loki.volume
  /\ proc[p].pc \in {"start", "ready?", "done"} /\ Does(p, "loki up") => loki.volume
PermitInv(p) ==
  /\ proc[p].pc \in {"member?", "member", "grants?", "grant", "verify"} => polaris.role
  /\ proc[p].pc \in {"grants?", "grant", "verify"} => polaris.member
  /\ proc[p].pc = "grant" => Lab!Missing \subseteq proc[p].lacks
  /\ proc[p].pc = "verify" => Lab!Missing = {}
  /\ proc[p].pc = "done" /\ Does(p, "permissions") => polaris.role /\ polaris.member /\ Lab!Missing = {}

\* What one that has worked alone knows besides.
AtWork(p) == proc[p].pc \notin {"idle", "begin", "done", "refused", "failed"}
Aware(p) ==
  /\ AtWork(p) => vm
  /\ AtWork(p) /\ Does(p, "house up") /\ proc[p].running => house.running
  /\ proc[p].pc = "volume?" => (proc[p].found <=> house.secret # None)
  /\ proc[p].pc \in {"saved?", "credential"} => house.secret = None
  /\ proc[p].pc \in {"start", "ready?"} /\ Does(p, "house up") => proc[p].secret = house.secret
  /\ proc[p].pc = "ready?" /\ Does(p, "house up") => house.running
  /\ proc[p].pc = "ready?" /\ Does(p, "loki up") => loki.running
  /\ proc[p].pc = "role" => ~polaris.role
  /\ proc[p].pc = "refused" => Does(p, "house up") /\ spoiled
  /\ proc[p].pc = "done" /\ Does(p, "house up") => vm /\ house.running
  /\ proc[p].pc = "done" /\ Does(p, "loki up") => vm /\ loki.running
  /\ proc[p].pc = "done" /\ Does(p, "vm down") => ~house.running /\ ~loki.running
AloneInv(p) ==
  proc[p].alone /\ proc[p].pc # "idle" => Aware(p) /\ \A q \in Proc : q # p => proc[q].pc = "idle"

WorkInv(p) ==
  /\ proc[p].pc # "idle" => proc[p].todo # <<>> /\ proc[p].me \in 1..MaxStarts
  /\ HouseInv(p) /\ LokiInv(p) /\ PermitInv(p) /\ AloneInv(p)

LabIInv == Lab!TypeOK /\ ThingsInv /\ FlockInv /\ \A p \in Proc : WorkInv(p)

-----------------------------------------------------------------------------
Processes   == [Proc -> Lab!Process]
LabFiles    == {"credential.json", "state.json", "container.env"}
Disk        == [LabFiles -> Lab!File]
Permissions == [role : BOOLEAN, member : BOOLEAN, grants : SUBSET (1..Namespaces)]

\* What a process keeps while another one takes a step, and what one that goes on keeps.
Kept(q) ==
  /\ proc'[q].todo = proc[q].todo /\ proc'[q].me = proc[q].me
  /\ (proc'[q].found <=> proc[q].found) /\ (proc'[q].running <=> proc[q].running)
  /\ proc'[q].secret = proc[q].secret /\ proc'[q].lacks = proc[q].lacks
Stays(q) == Kept(q) /\ proc'[q].pc = proc[q].pc /\ (proc'[q].alone <=> proc[q].pc = "idle")
Others(p) == proc' \in Processes /\ \A q \in Proc : q # p => Stays(q)
Moves(p, place) ==
  Others(p) /\ Kept(p) /\ proc'[p].pc = place /\ (proc'[p].alone <=> proc[p].alone)
Rests(p) == Others(p) /\ proc'[p].pc = "idle"

LEMMA LabTypes ==
  ASSUME LabIInv
  PROVE  /\ proc \in Processes /\ files \in Disk /\ house \in Lab!House /\ loki \in Lab!Loki
         /\ flock \in Proc \cup {None} /\ polaris \in Permissions /\ cluster \in 0..Targets
         /\ launches \in 0..MaxStarts /\ vm \in BOOLEAN /\ spoiled \in BOOLEAN
         /\ MaxStarts \in Nat \ {0} /\ Namespaces \in Nat /\ Targets \in Nat
         /\ None \notin Proc /\ None \notin Nat
BY ToolsAssumption DEF LabIInv, Lab!TypeOK, Processes, Disk, LabFiles, Permissions

LEMMA ProcessBecomes ==
  ASSUME proc \in Processes, NEW p \in Proc, NEW new \in Lab!Process, Lab!Becomes(p, new)
  PROVE  Others(p) /\ proc'[p] = new
<1>1. proc' = [q \in Proc |-> IF q = p THEN new ELSE [proc[q] EXCEPT !.alone = ~Lab!Working(q)]]
  BY DEF Lab!Becomes
<1>2. proc'[p] = new
  BY <1>1
<1>3. \A q \in Proc : q # p => proc'[q] \in Lab!Process /\ Stays(q)
  <2> SUFFICES ASSUME NEW q \in Proc, q # p
               PROVE  proc'[q] \in Lab!Process /\ Stays(q)
    OBVIOUS
  <2>1. proc[q] \in Lab!Process /\ Lab!Working(q) \in BOOLEAN /\ (Lab!Working(q) <=> proc[q].pc # "idle")
    BY DEF Processes, Lab!Working
  <2>2. proc'[q] = [proc[q] EXCEPT !.alone = ~Lab!Working(q)]
    BY <1>1
  <2> QED
    BY <2>1, <2>2 DEF Lab!Process, Stays, Kept
<1>4. proc' \in Processes
  BY <1>1, <1>2, <1>3 DEF Processes
<1> QED
  BY <1>2, <1>3, <1>4 DEF Others

LEMMA ProcessGoes ==
  ASSUME proc \in Processes, NEW p \in Proc, NEW place \in Lab!Place, Lab!Goes(p, place)
  PROVE  Moves(p, place)
<1> DEFINE new == [proc[p] EXCEPT !.pc = place]
<1>1. proc[p] \in Lab!Process
  BY DEF Processes
<1>2. /\ new \in Lab!Process /\ new.pc = place /\ new.todo = proc[p].todo /\ new.me = proc[p].me
      /\ (new.found <=> proc[p].found) /\ (new.running <=> proc[p].running)
      /\ new.secret = proc[p].secret /\ new.lacks = proc[p].lacks /\ (new.alone <=> proc[p].alone)
  BY <1>1 DEF Lab!Process
<1>3. Lab!Becomes(p, new)
  BY DEF Lab!Goes
<1> HIDE DEF new
<1> QED
  BY <1>2, <1>3, ProcessBecomes DEF Moves, Kept

LEMMA ProcessRests ==
  ASSUME proc \in Processes, MaxStarts \in Nat, NEW p \in Proc, Lab!Becomes(p, Lab!NoProcess)
  PROVE  Rests(p)
<1>1. Lab!NoProcess \in Lab!Process /\ Lab!NoProcess.pc = "idle"
  BY DEF Lab!NoProcess, Lab!Process, Lab!Place, Lab!File
<1> QED
  BY <1>1, ProcessBecomes DEF Rests

\* What holds of a process at rest, and of the others after a step of one.
LEMMA RestingWork ==
  ASSUME NEW p \in Proc, proc'[p].pc = "idle"
  PROVE  WorkInv(p)'
BY DEF WorkInv, HouseInv, LokiInv, PermitInv, AloneInv, AtWork, Makes, Lab!HalfMade

\* What there is only grows: an empty file stays empty, and a secret appears in a container
\* only after it is in the file.
Grows ==
  /\ \A f \in LabFiles : files[f] # None => files'[f] = files[f]
  /\ house'.secret = house.secret \/ files["credential.json"] # None
  /\ house.secret # None => house'.secret # None
  /\ house.volume => house'.volume
  /\ loki.volume => loki'.volume
  /\ polaris.role => polaris'.role
  /\ polaris.member => polaris'.member
  /\ polaris.grants \subseteq polaris'.grants

LEMMA OthersWork ==
  ASSUME LabIInv, NEW p \in Proc, NEW q \in Proc, q # p, Others(p), Grows
  PROVE  WorkInv(q)'
<1> USE DEF Others, Stays, Kept, Grows
<1>1. Stays(q) /\ WorkInv(q) /\ proc[q] \in Lab!Process /\ None \notin Nat /\ MaxStarts \in Nat
  BY LabTypes DEF LabIInv, Processes
<1>2. (proc[q].pc # "idle" => proc[q].todo # <<>> /\ proc[q].me \in 1..MaxStarts)'
  BY <1>1 DEF WorkInv
<1>3. (\A c : Does(q, c)' <=> Does(q, c)) /\ (Makes(q)' <=> Makes(q))
      /\ (Lab!LokiCommand(q)' <=> Lab!LokiCommand(q))
  BY <1>1 DEF Does, Makes, Lab!HalfMade, Lab!LokiCommand
<1>4. HouseInv(q)'
  <2>1. Makes(q) => proc[q].pc # "idle"
    BY DEF Makes, Lab!HalfMade
  <2>2. Makes(q) => proc[q].me # None
    BY <1>1, <2>1 DEF WorkInv
  <2>3. HouseInv(q)
    BY <1>1 DEF WorkInv
  <2>4. (Makes(q) => files["credential.json"] = proc[q].me)'
    BY <1>1, <1>3, <2>2, <2>3 DEF HouseInv, LabFiles
  <2>5. (Makes(q) /\ proc[q].pc # "environment" => files["container.env"] = proc[q].me)'
    BY <1>1, <1>3, <2>2, <2>3 DEF HouseInv, LabFiles
  <2>6. files["credential.json"] # None => files'["credential.json"] # None
    BY DEF LabFiles
  <2>7. (proc[q].pc = "create" => house.volume)'
    BY <1>1, <2>3 DEF HouseInv
  <2>8. (proc[q].pc \in {"saved?", "credential"} =>
           ~proc[q].found /\ (house.secret = None \/ files["credential.json"] # None))'
    BY <1>1, <2>3, <2>6 DEF HouseInv
  <2>9. (proc[q].pc = "volume?" =>
           (proc[q].found <=> house.secret # None) \/ (~proc[q].found /\ files["credential.json"] # None))'
    BY <1>1, <2>3, <2>6 DEF HouseInv
  <2>10. (proc[q].pc = "read" \/ (proc[q].pc \in {"start", "ready?"} /\ Does(q, "house up")) => house.secret # None)'
    BY <1>1, <1>3, <2>3 DEF HouseInv
  <2>11. (proc[q].pc \in {"saved?", "credential", "environment", "create", "read"} => Does(q, "house up"))'
    BY <1>1, <1>3, <2>3 DEF HouseInv
  <2> QED
    BY <2>4, <2>5, <2>7, <2>8, <2>9, <2>10, <2>11 DEF HouseInv
<1>5. LokiInv(q)'
  BY <1>1, <1>3 DEF WorkInv, LokiInv
<1>6. PermitInv(q)'
  <2>1. Lab!Missing' \subseteq Lab!Missing
    BY DEF Lab!Missing
  <2>2. PermitInv(q)
    BY <1>1 DEF WorkInv
  <2> QED
    BY <1>1, <1>3, <2>1, <2>2 DEF PermitInv
<1>7. AloneInv(q)'
  BY <1>1 DEF AloneInv
<1> QED
  BY <1>2, <1>4, <1>5, <1>6, <1>7 DEF WorkInv

\* The parts that make up a step of p: what it knows after it, and what becomes of things.
LEMMA OwnWork ==
  ASSUME LabIInv, NEW p \in Proc, NEW place, Moves(p, place), proc[p].pc # "idle",
         HouseInv(p)', LokiInv(p)', PermitInv(p)', proc[p].alone => Aware(p)'
  PROVE  WorkInv(p)'
<1>1. WorkInv(p)
  BY DEF LabIInv
<1>2. (proc[p].pc # "idle" => proc[p].todo # <<>> /\ proc[p].me \in 1..MaxStarts)'
  BY <1>1 DEF WorkInv, Moves, Kept
<1>3. proc[p].alone => \A q \in Proc : q # p => proc'[q].pc = "idle"
  BY <1>1 DEF WorkInv, AloneInv, Moves, Others, Stays
<1>4. AloneInv(p)'
  BY <1>3 DEF AloneInv, Moves
<1> QED
  BY <1>2, <1>4 DEF WorkInv

LEMMA AloneWhole ==
  ASSUME LabIInv, NEW p \in Proc, proc[p].pc # "idle", proc[p].alone, ~Makes(p), ~spoiled
  PROVE  Whole
<1>1. \A q \in Proc : q # p => proc[q].pc = "idle"
  BY DEF LabIInv, WorkInv, AloneInv
<1> QED
  BY <1>1 DEF LabIInv, ThingsInv, Makes, Lab!HalfMade

LEMMA LabStep ==
  ASSUME LabIInv, NEW p \in Proc, Others(p), Grows, WorkInv(p)', ThingsInv',
         vm' \in BOOLEAN, cluster' \in 0..Targets, files' \in Disk, house' \in Lab!House, loki' \in Lab!Loki,
         polaris' \in Permissions, launches' \in 0..MaxStarts, spoiled' \in BOOLEAN,
         flock' \in {flock, p, None}, flock' = p => proc'[p].pc \notin {"idle", "begin"}
  PROVE  LabIInv'
<1>1. Lab!TypeOK'
  BY LabTypes DEF Lab!TypeOK, Others, Processes, Disk, LabFiles, Permissions
<1>2. FlockInv'
  <2>1. CASE flock' = p \/ flock' = None
    BY <2>1 DEF FlockInv
  <2>2. CASE flock' # p /\ flock' # None
    <3>1. flock' = flock /\ flock \in Proc /\ FlockInv
      BY <2>2, LabTypes DEF LabIInv
    <3> QED
      BY <2>2, <3>1 DEF FlockInv, Others, Stays
  <2> QED
    BY <2>1, <2>2
<1>3. \A q \in Proc : WorkInv(q)'
  BY OthersWork
<1> QED
  BY <1>1, <1>2, <1>3 DEF LabIInv

\* A step that leaves the files, the container of AgentHouse and its volume as they are.
LEMMA LabKeeps ==
  ASSUME LabIInv, NEW p \in Proc, Others(p), WorkInv(p)',
         files' = files, house' \in Lab!House, house'.secret = house.secret, house'.volume <=> house.volume,
         vm' \in BOOLEAN, cluster' \in 0..Targets, loki' \in Lab!Loki, loki.volume => loki'.volume,
         loki'.container => loki'.volume, polaris' \in Permissions, launches' \in 0..MaxStarts,
         polaris.role => polaris'.role, polaris.member => polaris'.member, polaris.grants \subseteq polaris'.grants,
         spoiled' \in BOOLEAN, ~spoiled' => ~spoiled /\ (Makes(p) => Makes(p)'),
         flock' \in {flock, p, None}, flock' = p => proc'[p].pc \notin {"idle", "begin"}
  PROVE  LabIInv'
<1>1. Grows
  BY DEF Grows
<1>2. ThingsInv /\ files \in Disk
  BY LabTypes DEF LabIInv
<1>3. \A q \in Proc : q # p => (Makes(q)' <=> Makes(q))
  BY DEF Others, Stays, Kept, Makes, Lab!HalfMade
<1>4. Whole => Whole'
  BY DEF Whole
<1>5. (house.secret # None => CredentialIs(house.secret))'
  BY <1>2 DEF ThingsInv, CredentialIs, Lab!CredentialPath
<1>6. (~spoiled => Whole \/ \E q \in Proc : Makes(q))'
  <2> SUFFICES ASSUME ~spoiled', ~Whole'
               PROVE  \E q \in Proc : Makes(q)'
    OBVIOUS
  <2>1. PICK q \in Proc : Makes(q)
    BY <1>2, <1>4 DEF ThingsInv
  <2>2. Makes(q)'
    BY <1>3, <2>1
  <2> QED
    BY <2>2
<1>7. ThingsInv'
  BY <1>2, <1>5, <1>6 DEF ThingsInv
<1> QED
  BY <1>1, <1>2, <1>7, LabStep

\* A step that touches none of the things, and leaves AgentHouse to nobody else.
LEMMA LabThinks ==
  ASSUME LabIInv, NEW p \in Proc, Others(p), WorkInv(p)', UNCHANGED <<vm, cluster, files, house, loki, polaris>>,
         launches' \in 0..MaxStarts, spoiled' \in BOOLEAN, ~spoiled' => ~spoiled /\ (Makes(p) => Makes(p)'),
         flock' \in {flock, p, None}, flock' = p => proc'[p].pc \notin {"idle", "begin"}
  PROVE  LabIInv'
<1>1. loki.container => loki.volume
  BY DEF LabIInv, ThingsInv
<1> QED
  BY <1>1, LabKeeps, LabTypes

LEMMA LabRefuses ==
  ASSUME LabIInv, NEW p \in Proc, Lab!Refuses(p), proc[p].pc # "idle",
         proc[p].alone => Does(p, "house up") /\ spoiled'
  PROVE  LabIInv'
<1>1. Moves(p, "refused")
  BY ProcessGoes, LabTypes DEF Lab!Refuses, Lab!Place
<1>2. /\ UNCHANGED <<vm, cluster, files, house, loki, polaris, launches, flock>>
      /\ spoiled' = (spoiled \/ Makes(p))
  BY DEF Lab!Refuses, Makes
<1>3. ~Makes(p)' /\ Makes(p) \in BOOLEAN
  BY <1>1 DEF Moves, Makes, Lab!HalfMade
<1>4. Does(p, "house up")' <=> Does(p, "house up")
  BY <1>1 DEF Moves, Kept, Does
<1>5. HouseInv(p)' /\ LokiInv(p)' /\ PermitInv(p)'
  BY <1>1, <1>3 DEF Moves, HouseInv, LokiInv, PermitInv
<1>6. proc[p].alone => Aware(p)'
  BY <1>1, <1>4 DEF Moves, Aware, AtWork
<1>7. WorkInv(p)'
  BY <1>1, <1>5, <1>6, OwnWork
<1>8. flock' = p => proc'[p].pc \notin {"idle", "begin"}
  BY <1>1 DEF Moves
<1> QED
  BY <1>1, <1>2, <1>3, <1>7, <1>8, LabThinks, LabTypes DEF Moves

-----------------------------------------------------------------------------
(* The steps of any command. *)

LEMMA ListsAreCommands ==
  ASSUME NEW l \in Lab!Lists
  PROVE  l \in Seq(Lab!Commands) /\ l # <<>>
<1> DEFINE up   == <<"vm up", "cluster", "house up", "loki up">>
           down == <<"house stop", "loki stop", "vm down">>
<1>1. up \in Seq(Lab!Commands) /\ up # <<>>
  BY DEF Lab!Commands
<1>2. down \in Seq(Lab!Commands) /\ down # <<>>
  BY DEF Lab!Commands
<1>3. \A c \in Lab!Commands : <<c>> \in Seq(Lab!Commands) /\ <<c>> # <<>>
  OBVIOUS
<1>4. l \in {up, down, <<"house up">>, <<"loki up">>, <<"permissions">>}
  BY DEF Lab!Lists, Lab!LabUp, Lab!LabDown
<1>5. {"house up", "loki up", "permissions"} \subseteq Lab!Commands
  BY DEF Lab!Commands
<1> HIDE DEF up, down
<1> QED
  BY <1>1, <1>2, <1>3, <1>4, <1>5

LEMMA LabBegins ==
  ASSUME LabIInv, NEW p \in Proc, NEW new \in Lab!Process, Lab!Becomes(p, new),
         new.pc = "begin", new.todo # <<>>, new.me \in 1..MaxStarts,
         new.alone => \A q \in Proc : q # p => proc[q].pc = "idle"
  PROVE  Others(p) /\ WorkInv(p)' /\ proc'[p].pc = "begin"
<1>1. Others(p) /\ proc'[p] = new
  BY ProcessBecomes, LabTypes
<1>2. HouseInv(p)' /\ LokiInv(p)' /\ PermitInv(p)'
  BY <1>1 DEF HouseInv, LokiInv, PermitInv, Makes, Lab!HalfMade
<1>3. AloneInv(p)'
  <2>1. Aware(p)'
    BY <1>1 DEF Aware, AtWork
  <2> QED
    BY <1>1, <2>1 DEF AloneInv, Others, Stays
<1> QED
  BY <1>1, <1>2, <1>3 DEF WorkInv

LEMMA LabBegin ==
  ASSUME LabIInv, NEW p \in Proc, Lab!Begin(p)
  PROVE  LabIInv'
<1>1. PICK l \in Lab!Lists :
        Lab!Becomes(p, [Lab!NoProcess EXCEPT !.todo = l, !.pc = "begin", !.me = launches + 1,
                                             !.alone = \A q \in Proc \ {p} : ~Lab!Working(q)])
  BY DEF Lab!Begin
<1> DEFINE loner == \A q \in Proc \ {p} : ~Lab!Working(q)
           new == [Lab!NoProcess EXCEPT !.todo = l, !.pc = "begin", !.me = launches + 1, !.alone = loner]
<1>2. /\ launches' = launches + 1 /\ launches < MaxStarts /\ proc[p].pc = "idle"
      /\ UNCHANGED <<vm, cluster, files, house, loki, polaris, spoiled, flock>>
  BY DEF Lab!Begin, Lab!holdings, Lab!Working
<1>3. loner \in BOOLEAN /\ (loner => \A q \in Proc : q # p => proc[q].pc = "idle")
  BY DEF Lab!Working
<1>4. launches + 1 \in 1..MaxStarts
  BY <1>2, LabTypes
<1> HIDE DEF loner
<1>5. /\ new \in Lab!Process /\ new.pc = "begin" /\ new.todo = l /\ new.me = launches + 1
      /\ (new.alone <=> loner)
  <2>1. Lab!NoProcess \in Lab!Process
    BY LabTypes DEF Lab!NoProcess, Lab!Process, Lab!Place, Lab!File
  <2>2. "begin" \in Lab!Place /\ l \in Seq(Lab!Commands) /\ launches + 1 \in 0..MaxStarts
    BY <1>4, ListsAreCommands, LabTypes DEF Lab!Place
  <2> QED
    BY <1>3, <2>1, <2>2 DEF Lab!Process
<1>6. Lab!Becomes(p, new)
  BY <1>1 DEF loner
<1> HIDE DEF new
<1>7. Others(p) /\ WorkInv(p)' /\ proc'[p].pc = "begin"
  BY <1>3, <1>4, <1>5, <1>6, LabBegins, ListsAreCommands
<1>8. flock' = p => proc'[p].pc \notin {"idle", "begin"}
  BY <1>2, LabTypes DEF LabIInv, FlockInv
<1>9. ~Makes(p)
  BY <1>2 DEF Makes, Lab!HalfMade
<1> QED
  BY <1>2, <1>4, <1>7, <1>8, <1>9, LabThinks, LabTypes

LEMMA LabOnward ==
  ASSUME LabIInv, NEW p \in Proc, Lab!Onward(p)
  PROVE  LabIInv'
<1> DEFINE rest   == Tail(proc[p].todo)
           goesOn == rest # <<>> /\ (proc[p].pc = "done" \/ rest[Len(rest)] = "vm down")
           new == [Lab!NoProcess EXCEPT !.todo = rest, !.pc = "begin", !.me = proc[p].me, !.alone = proc[p].alone]
<1>1. /\ proc[p].pc \in {"done", "refused", "failed"} /\ flock' = (IF flock = p THEN None ELSE flock)
      /\ UNCHANGED <<vm, cluster, files, house, loki, polaris, spoiled, launches>>
  BY DEF Lab!Onward, Lab!holdings, Lab!Frees
<1>2. Lab!Becomes(p, IF goesOn THEN new ELSE Lab!NoProcess)
  BY DEF Lab!Onward
<1>3. /\ proc[p] \in Lab!Process /\ proc[p].todo # <<>> /\ proc[p].me \in 1..MaxStarts
      /\ proc[p].alone => \A q \in Proc : q # p => proc[q].pc = "idle"
  BY <1>1, LabTypes DEF Processes, LabIInv, WorkInv, AloneInv
<1>4. rest \in Seq(Lab!Commands)
  BY <1>3 DEF Lab!Process
<1>5. /\ new \in Lab!Process /\ new.pc = "begin" /\ new.todo = rest /\ new.me = proc[p].me
      /\ (new.alone <=> proc[p].alone)
  <2> HIDE DEF rest
  <2> QED
    BY <1>3, <1>4 DEF Lab!NoProcess, Lab!Process, Lab!Place, Lab!File
<1>6. ~Makes(p) /\ flock' # p /\ flock' \in {flock, None}
  BY <1>1, LabTypes DEF Makes, Lab!HalfMade
<1>7. Others(p) /\ WorkInv(p)'
  <2>1. CASE goesOn
    <3>1. Lab!Becomes(p, new) /\ rest # <<>>
      BY <1>2, <2>1
    <3> HIDE DEF new, rest
    <3> QED
      BY <1>3, <1>5, <3>1, LabBegins
  <2>2. CASE ~goesOn
    <3>1. Lab!Becomes(p, Lab!NoProcess)
      BY <1>2, <2>2
    <3> QED
      BY <3>1, ProcessRests, RestingWork, LabTypes DEF Rests
  <2> QED
    BY <2>1, <2>2
<1> QED
  BY <1>1, <1>6, <1>7, LabThinks, LabTypes

LEMMA LabFails ==
  ASSUME LabIInv, NEW p \in Proc, Lab!Fails(p)
  PROVE  LabIInv'
<1>1. /\ proc[p].pc # "idle" /\ flock' = (IF flock = p THEN None ELSE flock)
      /\ UNCHANGED <<vm, cluster, house, loki, polaris, launches>>
      /\ spoiled' = (spoiled \/ Makes(p) \/ files' # files)
  BY DEF Lab!Fails, Lab!Frees, Lab!Working, Makes
<1>2. Others(p) /\ proc'[p].pc \in {"failed", "idle"} /\ WorkInv(p)'
  <2>1. CASE Lab!Goes(p, "failed")
    <3>1. Moves(p, "failed")
      BY <2>1, ProcessGoes, LabTypes DEF Lab!Place
    <3>2. HouseInv(p)' /\ LokiInv(p)' /\ PermitInv(p)' /\ Aware(p)'
      BY <3>1 DEF Moves, HouseInv, LokiInv, PermitInv, Aware, AtWork, Makes, Lab!HalfMade
    <3> QED
      BY <1>1, <3>1, <3>2, OwnWork DEF Moves
  <2>2. CASE Lab!Becomes(p, Lab!NoProcess)
    BY <2>2, ProcessRests, RestingWork, LabTypes DEF Rests
  <2> QED
    BY <2>1, <2>2 DEF Lab!Fails
<1>3. flock' # p /\ flock' \in {flock, None} /\ spoiled' \in BOOLEAN /\ (~spoiled' => ~spoiled /\ ~Makes(p))
  BY <1>1, LabTypes
<1>4. CASE files' = files
  BY <1>1, <1>2, <1>3, <1>4, LabThinks, LabTypes
<1>5. CASE files' # files
  <2>1. /\ files \in Disk /\ None \notin Nat /\ MaxStarts \in Nat
        /\ house \in Lab!House /\ ThingsInv /\ HouseInv(p)
    BY LabTypes DEF LabIInv, WorkInv
  <2>2. PICK f \in {"credential.json", "container.env"} :
          /\ files[f] = None /\ files' = [files EXCEPT ![f] = 0]
          /\ f = "credential.json" => proc[p].pc = "credential"
    BY <1>5 DEF Lab!Fails
  <2>3. /\ files' \in Disk /\ \A g \in LabFiles : files[g] # None => files'[g] = files[g]
        /\ files'[f] = 0 /\ \A g \in LabFiles : g # f => files'[g] = files[g]
    BY <2>1, <2>2 DEF Disk, LabFiles, Lab!File
  <2>4. Grows
    BY <1>1, <2>3 DEF Grows
  <2>5. (house.secret # None => CredentialIs(house.secret))'
    <3>1. f = "credential.json" => house.secret = None
      BY <2>1, <2>2 DEF HouseInv
    <3> QED
      BY <1>1, <2>1, <2>3, <3>1 DEF ThingsInv, CredentialIs, Lab!CredentialPath, LabFiles
  <2>6. ThingsInv'
    BY <1>1, <1>5, <2>1, <2>5 DEF ThingsInv
  <2> QED
    BY <1>1, <1>2, <1>3, <2>3, <2>4, <2>6, LabStep, LabTypes
<1> QED
  BY <1>4, <1>5

LEMMA WorkOf ==
  ASSUME LabIInv, NEW p \in Proc
  PROVE  /\ HouseInv(p) /\ LokiInv(p) /\ PermitInv(p) /\ ThingsInv
         /\ proc[p].pc # "idle" => proc[p].me \in 1..MaxStarts
         /\ proc[p].alone /\ proc[p].pc # "idle" => Aware(p) /\ \A q \in Proc : q # p => proc[q].pc = "idle"
BY DEF LabIInv, WorkInv, AloneInv

\* The lock stays with a process that goes on.
LEMMA LockStays ==
  ASSUME LabIInv, NEW p \in Proc, NEW place, Moves(p, place), UNCHANGED flock,
         place \in {"idle", "begin"} => proc[p].pc = "begin"
  PROVE  flock' \in {flock, p, None} /\ (flock' = p => proc'[p].pc \notin {"idle", "begin"})
BY LabTypes DEF LabIInv, FlockInv, Moves

-----------------------------------------------------------------------------
(* The steps of lab_lifecycle.py. *)

LEMMA LabVmUp ==
  ASSUME LabIInv, NEW p \in Proc, Lab!VmUp(p)
  PROVE  LabIInv'
<1>1. Moves(p, "done")
  BY ProcessGoes, LabTypes DEF Lab!VmUp, Lab!Place
<1>2. /\ proc[p].pc = "begin" /\ Does(p, "vm up") /\ vm' = TRUE
      /\ UNCHANGED <<cluster, files, house, loki, polaris, spoiled, flock, launches>>
  BY DEF Lab!VmUp, Lab!At, Does, Lab!holdings
<1>3. HouseInv(p)' /\ LokiInv(p)' /\ PermitInv(p)' /\ Aware(p)'
  BY <1>1, <1>2 DEF Moves, Kept, HouseInv, LokiInv, PermitInv, Aware, AtWork, Does, Makes, Lab!HalfMade
<1>4. WorkInv(p)' /\ ~Makes(p)
  BY <1>1, <1>2, <1>3, OwnWork DEF Makes, Lab!HalfMade
<1> QED
  BY <1>1, <1>2, <1>4, LabKeeps, LockStays, LabTypes, WorkOf DEF Moves, ThingsInv

LEMMA LabCluster ==
  ASSUME LabIInv, NEW p \in Proc, Lab!Cluster(p)
  PROVE  LabIInv'
<1>1. /\ proc[p].pc = "begin" /\ Does(p, "cluster") /\ cluster' \in 0..Targets
      /\ UNCHANGED <<vm, files, house, loki, polaris, spoiled, flock, launches>>
  BY LabTypes DEF Lab!Cluster, Lab!At, Does
<1>2. PICK place \in {"begin", "done"} : Moves(p, place)
  BY ProcessGoes, LabTypes DEF Lab!Cluster, Lab!Place
<1>3. HouseInv(p)' /\ LokiInv(p)' /\ PermitInv(p)' /\ Aware(p)'
  BY <1>1, <1>2 DEF Moves, Kept, HouseInv, LokiInv, PermitInv, Aware, AtWork, Does, Makes, Lab!HalfMade
<1>4. WorkInv(p)' /\ ~Makes(p)
  BY <1>1, <1>2, <1>3, OwnWork DEF Makes, Lab!HalfMade
<1> QED
  BY <1>1, <1>2, <1>4, LabKeeps, LockStays, LabTypes, WorkOf DEF Moves, ThingsInv

LEMMA LabVmDown ==
  ASSUME LabIInv, NEW p \in Proc, Lab!VmDown(p)
  PROVE  LabIInv'
<1>1. Moves(p, "done")
  BY ProcessGoes, LabTypes DEF Lab!VmDown, Lab!Place
<1>2. /\ proc[p].pc = "begin" /\ Does(p, "vm down") /\ vm' = FALSE
      /\ UNCHANGED <<cluster, files, polaris, spoiled, flock, launches>>
  BY DEF Lab!VmDown, Lab!At, Does
<1>3. /\ house' \in Lab!House /\ ~house'.running /\ house'.secret = house.secret /\ (house'.volume <=> house.volume)
      /\ loki' \in Lab!Loki /\ ~loki'.running /\ (loki'.container <=> loki.container)
      /\ (loki'.volume <=> loki.volume)
  BY LabTypes DEF Lab!VmDown, Lab!House, Lab!Loki
<1>4. HouseInv(p)' /\ LokiInv(p)' /\ PermitInv(p)' /\ Aware(p)'
  BY <1>1, <1>2, <1>3 DEF Moves, Kept, HouseInv, LokiInv, PermitInv, Aware, AtWork, Does, Makes, Lab!HalfMade
<1>5. WorkInv(p)' /\ ~Makes(p)
  BY <1>1, <1>2, <1>4, OwnWork DEF Makes, Lab!HalfMade
<1> QED
  BY <1>1, <1>2, <1>3, <1>5, LabKeeps, LockStays, LabTypes, WorkOf DEF Moves, ThingsInv

-----------------------------------------------------------------------------
(* The steps of AgentHouse. *)

\* A step that changes nothing but what p has seen, or whether the container runs.
LEMMA HouseStep ==
  ASSUME LabIInv, NEW p \in Proc, NEW place \in Lab!Place \ {"idle", "begin"}, Others(p), proc'[p].pc = place,
         WorkInv(p)', UNCHANGED <<vm, cluster, loki, polaris, launches, flock, files, spoiled>>,
         house' \in Lab!House, house'.secret = house.secret, house'.volume <=> house.volume, ~Makes(p)
  PROVE  LabIInv'
BY LabKeeps, LabTypes, WorkOf DEF ThingsInv

LEMMA LabInspectContainer ==
  ASSUME LabIInv, NEW p \in Proc, Lab!InspectContainer(p)
  PROVE  LabIInv'
<1> DEFINE new == [proc[p] EXCEPT !.pc = "volume?", !.found = house.secret # None, !.running = house.running]
<1>1. /\ proc[p].pc = "begin" /\ Does(p, "house up") /\ vm
      /\ UNCHANGED <<vm, cluster, files, house, loki, polaris, spoiled, flock, launches>>
  BY DEF Lab!InspectContainer, Lab!At, Does, Lab!Leaves
<1>2. proc[p] \in Lab!Process /\ house.running \in BOOLEAN
  BY LabTypes DEF Processes, Lab!House
<1>3. /\ new \in Lab!Process /\ new.pc = "volume?" /\ new.todo = proc[p].todo /\ new.me = proc[p].me
      /\ (new.found <=> house.secret # None) /\ (new.running <=> house.running) /\ (new.alone <=> proc[p].alone)
  BY <1>2 DEF Lab!Process, Lab!Place
<1>4. Lab!Becomes(p, new)
  BY DEF Lab!InspectContainer
<1> HIDE DEF new
<1>5. Others(p) /\ proc'[p] = new
  BY <1>3, <1>4, ProcessBecomes, LabTypes
<1>6. HouseInv(p)' /\ LokiInv(p)' /\ PermitInv(p)' /\ Aware(p)'
  BY <1>1, <1>3, <1>5 DEF HouseInv, LokiInv, PermitInv, Aware, AtWork, Does, Makes, Lab!HalfMade
<1>7. AloneInv(p)'
  BY <1>1, <1>3, <1>5, <1>6, WorkOf DEF AloneInv, Others, Stays
<1>8. WorkInv(p)' /\ ~Makes(p)
  BY <1>1, <1>3, <1>5, <1>6, <1>7 DEF LabIInv, WorkInv, Makes, Lab!HalfMade
<1> QED
  BY <1>1, <1>3, <1>5, <1>8, HouseStep, LabTypes DEF Lab!Place

LEMMA LabInspectVolume ==
  ASSUME LabIInv, NEW p \in Proc, Lab!InspectVolume(p)
  PROVE  LabIInv'
<1>1. proc[p].pc = "volume?" /\ Does(p, "house up") /\ vm /\ ~Makes(p)
  BY DEF Lab!InspectVolume, Lab!At, Does, Makes, Lab!HalfMade
<1>2. HouseInv(p) /\ (proc[p].alone => Aware(p))
  BY <1>1, WorkOf
<1>3. CASE (proc[p].found # house.volume)
  <2>1. Lab!Refuses(p)
    BY <1>3 DEF Lab!InspectVolume
  <2>2. proc[p].found <=> ~house.volume
    BY <1>3, LabTypes DEF Processes, Lab!Process, Lab!House
  <2>3. proc[p].alone => spoiled
    BY <1>1, <1>2, <2>2, AloneWhole DEF Whole, Aware
  <2> QED
    BY <1>1, <2>1, <2>3, LabRefuses DEF Lab!Refuses
<1>4. CASE ~(proc[p].found # house.volume)
  <2> DEFINE place == IF proc[p].found THEN "read" ELSE "saved?"
  <2>1. /\ Lab!Goes(p, place)
        /\ UNCHANGED <<vm, cluster, files, house, loki, polaris, spoiled, flock, launches>>
    BY <1>4 DEF Lab!InspectVolume, Lab!Leaves
  <2>2. Moves(p, place)
    BY <2>1, ProcessGoes, LabTypes DEF Lab!Place
  <2>3. (proc[p].found <=> house.volume) /\ (place = "read" <=> proc[p].found) /\ place \in {"read", "saved?"}
    BY <1>4, LabTypes DEF Processes, Lab!Process, Lab!House
  <2> HIDE DEF place
  <2>4. HouseInv(p)' /\ LokiInv(p)' /\ PermitInv(p)' /\ (proc[p].alone => Aware(p)')
    BY <1>1, <1>2, <2>1, <2>2, <2>3
    DEF Moves, Kept, HouseInv, LokiInv, PermitInv, Aware, AtWork, Does, Makes, Lab!HalfMade
  <2>5. WorkInv(p)'
    BY <1>1, <2>2, <2>4, OwnWork
  <2> QED
    BY <1>1, <2>1, <2>2, <2>3, <2>5, HouseStep, LabTypes DEF Moves, Lab!Place
<1> QED
  BY <1>3, <1>4

LEMMA LabSaved ==
  ASSUME LabIInv, NEW p \in Proc, Lab!Saved(p)
  PROVE  LabIInv'
<1>1. proc[p].pc = "saved?" /\ Does(p, "house up") /\ vm /\ ~Makes(p)
  BY DEF Lab!Saved, Lab!At, Does, Makes, Lab!HalfMade
<1>2. HouseInv(p) /\ (proc[p].alone => Aware(p))
  BY <1>1, WorkOf
<1>3. CASE files[Lab!CredentialPath] # None \/ files["container.env"] # None
  <2>1. Lab!Refuses(p)
    BY <1>3 DEF Lab!Saved
  <2>2. proc[p].alone => spoiled
    BY <1>1, <1>2, <1>3, AloneWhole DEF Whole, Aware, Lab!CredentialPath
  <2> QED
    BY <1>1, <2>1, <2>2, LabRefuses DEF Lab!Refuses
<1>4. CASE ~(files[Lab!CredentialPath] # None \/ files["container.env"] # None)
  <2>1. /\ Lab!Goes(p, "credential")
        /\ UNCHANGED <<vm, cluster, files, house, loki, polaris, spoiled, flock, launches>>
    BY <1>4 DEF Lab!Saved, Lab!Leaves
  <2>2. Moves(p, "credential")
    BY <2>1, ProcessGoes, LabTypes DEF Lab!Place
  <2>3. HouseInv(p)' /\ LokiInv(p)' /\ PermitInv(p)' /\ (proc[p].alone => Aware(p)')
    BY <1>1, <1>2, <2>1, <2>2
    DEF Moves, Kept, HouseInv, LokiInv, PermitInv, Aware, AtWork, Does, Makes, Lab!HalfMade
  <2>4. WorkInv(p)'
    BY <1>1, <2>2, <2>3, OwnWork
  <2> QED
    BY <1>1, <2>1, <2>2, <2>4, HouseStep, LabTypes DEF Moves, Lab!Place
<1> QED
  BY <1>3, <1>4

\* The file that p creates holds its own secret; the others hold what they held.
LEMMA FileWritten ==
  ASSUME LabIInv, NEW p \in Proc, proc[p].pc # "idle", NEW f0 \in LabFiles, files[f0] = None,
         files' = [files EXCEPT ![f0] = proc[p].me]
  PROVE  /\ files' \in Disk /\ files'[f0] = proc[p].me /\ proc[p].me # None
         /\ \A f \in LabFiles : f # f0 => files'[f] = files[f]
<1>1. files \in Disk /\ proc[p].me \in 1..MaxStarts /\ None \notin Nat /\ MaxStarts \in Nat
  BY LabTypes, WorkOf
<1> QED
  BY <1>1 DEF Disk, LabFiles, Lab!File, Lab!Secret

LEMMA LabWriteCredential ==
  ASSUME LabIInv, NEW p \in Proc, Lab!WriteCredential(p)
  PROVE  LabIInv'
<1>1. proc[p].pc = "credential" /\ Does(p, "house up") /\ ~Makes(p)
  BY DEF Lab!WriteCredential, Lab!At, Does, Makes, Lab!HalfMade
<1>2. HouseInv(p) /\ ThingsInv /\ (proc[p].alone => Aware(p))
  BY <1>1, WorkOf
<1>3. CASE files["credential.json"] # None
  <2>1. Lab!Refuses(p)
    BY <1>3 DEF Lab!WriteCredential, Lab!Writes
  <2>2. proc[p].alone => spoiled
    BY <1>1, <1>2, <1>3, AloneWhole DEF Whole, Aware
  <2> QED
    BY <1>1, <2>1, <2>2, LabRefuses DEF Lab!Refuses
<1>4. CASE files["credential.json"] = None
  <2>1. /\ Lab!Goes(p, "environment") /\ files' = [files EXCEPT !["credential.json"] = proc[p].me]
        /\ UNCHANGED <<vm, cluster, house, loki, polaris, spoiled, flock, launches>>
    BY <1>4 DEF Lab!WriteCredential, Lab!Writes, Lab!Leaves
  <2>2. Moves(p, "environment")
    BY <2>1, ProcessGoes, LabTypes DEF Lab!Place
  <2>3. /\ files' \in Disk /\ files'["credential.json"] = proc[p].me /\ proc[p].me # None
        /\ \A f \in LabFiles : f # "credential.json" => files'[f] = files[f]
    BY <1>1, <1>4, <2>1, FileWritten DEF LabFiles
  <2>4. HouseInv(p)' /\ LokiInv(p)' /\ PermitInv(p)' /\ (proc[p].alone => Aware(p)')
    BY <1>1, <1>2, <2>1, <2>2, <2>3
    DEF Moves, Kept, HouseInv, LokiInv, PermitInv, Aware, AtWork, Does, Makes, Lab!HalfMade
  <2>5. WorkInv(p)' /\ Makes(p)'
    BY <1>1, <2>2, <2>4, OwnWork DEF Moves, Kept, Does, Makes, Lab!HalfMade
  <2>6. house.secret = None
    BY <1>1, <1>2, <1>4 DEF HouseInv
  <2>7. Grows /\ ThingsInv'
    BY <1>2, <1>4, <2>1, <2>3, <2>5, <2>6 DEF Grows, ThingsInv
  <2> QED
    BY <2>1, <2>2, <2>3, <2>5, <2>7, LabStep, LockStays, LabTypes DEF Moves
<1> QED
  BY <1>3, <1>4

LEMMA LabWriteEnvironment ==
  ASSUME LabIInv, NEW p \in Proc, Lab!WriteEnvironment(p)
  PROVE  LabIInv'
<1>1. proc[p].pc = "environment" /\ Does(p, "house up") /\ Makes(p)
  BY DEF Lab!WriteEnvironment, Lab!At, Does, Makes, Lab!HalfMade
<1>2. HouseInv(p) /\ ThingsInv /\ (proc[p].alone => Aware(p))
  BY <1>1, WorkOf
<1>3. CASE files["container.env"] # None
  <2>1. Lab!Refuses(p) /\ spoiled'
    BY <1>1, <1>3 DEF Lab!WriteEnvironment, Lab!Writes, Lab!Refuses, Makes
  <2> QED
    BY <1>1, <2>1, LabRefuses
<1>4. CASE files["container.env"] = None
  <2>1. /\ Lab!Goes(p, "volume") /\ files' = [files EXCEPT !["container.env"] = proc[p].me]
        /\ UNCHANGED <<vm, cluster, house, loki, polaris, spoiled, flock, launches>>
    BY <1>4 DEF Lab!WriteEnvironment, Lab!Writes, Lab!Leaves
  <2>2. Moves(p, "volume")
    BY <2>1, ProcessGoes, LabTypes DEF Lab!Place
  <2>3. /\ files' \in Disk /\ files'["container.env"] = proc[p].me /\ proc[p].me # None
        /\ \A f \in LabFiles : f # "container.env" => files'[f] = files[f]
    BY <1>1, <1>4, <2>1, FileWritten DEF LabFiles
  <2>4. HouseInv(p)' /\ LokiInv(p)' /\ PermitInv(p)' /\ (proc[p].alone => Aware(p)')
    BY <1>1, <1>2, <2>1, <2>2, <2>3
    DEF Moves, Kept, HouseInv, LokiInv, PermitInv, Aware, AtWork, Does, Makes, Lab!HalfMade, LabFiles
  <2>5. WorkInv(p)' /\ Makes(p)'
    BY <1>1, <2>2, <2>4, OwnWork DEF Moves, Kept, Does, Makes, Lab!HalfMade
  <2>6. (house.secret # None => CredentialIs(house.secret))'
    BY <1>2, <2>1, <2>3 DEF ThingsInv, CredentialIs, Lab!CredentialPath, LabFiles
  <2>7. Grows /\ ThingsInv'
    BY <1>2, <1>4, <2>1, <2>3, <2>5, <2>6 DEF Grows, ThingsInv
  <2> QED
    BY <2>1, <2>2, <2>3, <2>5, <2>7, LabStep, LockStays, LabTypes DEF Moves
<1> QED
  BY <1>3, <1>4

LEMMA LabCreateVolume ==
  ASSUME LabIInv, NEW p \in Proc, Lab!CreateVolume(p)
  PROVE  LabIInv'
<1>1. /\ proc[p].pc = "volume" /\ Does(p, "house up") /\ Makes(p) /\ vm
      /\ Lab!Goes(p, "create")
      /\ UNCHANGED <<vm, cluster, files, loki, polaris, spoiled, flock, launches>>
  BY DEF Lab!CreateVolume, Lab!At, Does, Makes, Lab!HalfMade, Lab!Leaves
<1>2. HouseInv(p) /\ ThingsInv /\ (proc[p].alone => Aware(p))
  BY <1>1, WorkOf
<1>3. Moves(p, "create")
  BY <1>1, ProcessGoes, LabTypes DEF Lab!Place
<1>4. house' \in Lab!House /\ house'.volume /\ house'.secret = house.secret /\ (house'.running <=> house.running)
  BY LabTypes DEF Lab!CreateVolume, Lab!House
<1>5. HouseInv(p)' /\ LokiInv(p)' /\ PermitInv(p)' /\ (proc[p].alone => Aware(p)')
  BY <1>1, <1>2, <1>3, <1>4
  DEF Moves, Kept, HouseInv, LokiInv, PermitInv, Aware, AtWork, Does, Makes, Lab!HalfMade
<1>6. WorkInv(p)' /\ Makes(p)'
  BY <1>1, <1>3, <1>5, OwnWork DEF Moves, Kept, Does, Makes, Lab!HalfMade
<1>7. (house.secret # None => CredentialIs(house.secret))'
  BY <1>1, <1>2, <1>4 DEF ThingsInv, CredentialIs, Lab!CredentialPath
<1>8. Grows /\ ThingsInv'
  BY <1>1, <1>2, <1>4, <1>6, <1>7 DEF Grows, ThingsInv
<1> QED
  BY <1>1, <1>3, <1>4, <1>6, <1>8, LabStep, LockStays, LabTypes DEF Moves

LEMMA LabCreateContainer ==
  ASSUME LabIInv, NEW p \in Proc, Lab!CreateContainer(p)
  PROVE  LabIInv'
<1>1. proc[p].pc = "create" /\ Does(p, "house up") /\ Makes(p) /\ vm
  BY DEF Lab!CreateContainer, Lab!At, Does, Makes, Lab!HalfMade
<1>2. HouseInv(p) /\ ThingsInv /\ (proc[p].alone => Aware(p)) /\ proc[p].me \in 1..MaxStarts
  BY <1>1, WorkOf
<1>3. CASE house.secret # None
  <2>1. Lab!Refuses(p) /\ spoiled'
    BY <1>1, <1>3 DEF Lab!CreateContainer, Lab!Refuses, Makes
  <2> QED
    BY <1>1, <2>1, LabRefuses
<1>4. CASE house.secret = None
  <2>1. /\ Lab!Goes(p, "read") /\ house' = [house EXCEPT !.secret = files["container.env"]]
        /\ UNCHANGED <<vm, cluster, files, loki, polaris, spoiled, flock, launches>>
    BY <1>4 DEF Lab!CreateContainer, Lab!Leaves
  <2>2. Moves(p, "read")
    BY <2>1, ProcessGoes, LabTypes DEF Lab!Place
  <2>3. /\ files["container.env"] = proc[p].me /\ files["credential.json"] = proc[p].me
        /\ house.volume /\ proc[p].me # None /\ proc[p].me # 0
    <3>1. proc[p].me # None /\ proc[p].me # 0
      BY <1>2, LabTypes
    <3>2. files["container.env"] = proc[p].me /\ files["credential.json"] = proc[p].me
      BY <1>1, <1>2 DEF HouseInv
    <3>3. house.volume
      BY <1>1, <1>2 DEF HouseInv
    <3> QED
      BY <3>1, <3>2, <3>3
  <2>4. house' \in Lab!House /\ house'.secret = proc[p].me /\ house'.volume /\ (house'.running <=> house.running)
    BY <1>2, <2>1, <2>3, LabTypes DEF Lab!House, Lab!Secret
  <2>5. HouseInv(p)' /\ LokiInv(p)' /\ PermitInv(p)' /\ (proc[p].alone => Aware(p)')
    BY <1>1, <1>2, <2>1, <2>2, <2>3, <2>4
    DEF Moves, Kept, HouseInv, LokiInv, PermitInv, Aware, AtWork, Does, Makes, Lab!HalfMade
  <2>6. WorkInv(p)' /\ Whole'
    BY <1>1, <2>2, <2>3, <2>4, <2>5, OwnWork DEF Whole
  <2>7. (house.secret # None => CredentialIs(house.secret))'
    BY <2>1, <2>3, <2>4 DEF CredentialIs, Lab!CredentialPath
  <2>8. Grows /\ ThingsInv'
    BY <1>2, <2>1, <2>3, <2>4, <2>6, <2>7 DEF Grows, ThingsInv
  <2> QED
    BY <2>1, <2>2, <2>4, <2>6, <2>8, LabStep, LockStays, LabTypes DEF Moves
<1> QED
  BY <1>3, <1>4

LEMMA LabReadCredential ==
  ASSUME LabIInv, NEW p \in Proc, Lab!ReadCredential(p)
  PROVE  LabIInv'
<1> DEFINE place == IF proc[p].running THEN "ready?" ELSE "start"
           new == [proc[p] EXCEPT !.secret = files[Lab!CredentialPath], !.pc = place]
<1>1. proc[p].pc = "read" /\ Does(p, "house up") /\ ~Makes(p)
  BY DEF Lab!ReadCredential, Lab!At, Does, Makes, Lab!HalfMade
<1>2. HouseInv(p) /\ ThingsInv /\ (proc[p].alone => Aware(p))
  BY <1>1, WorkOf
<1>3. files[Lab!CredentialPath] = house.secret /\ house.secret \notin {0, None}
  BY <1>1, <1>2 DEF HouseInv, ThingsInv, CredentialIs
<1>4. /\ Lab!Becomes(p, new)
      /\ UNCHANGED <<vm, cluster, files, house, loki, polaris, spoiled, flock, launches>>
  BY <1>3 DEF Lab!ReadCredential, Lab!Leaves
<1>5. proc[p] \in Lab!Process /\ files[Lab!CredentialPath] \in Lab!File /\ place \in Lab!Place \ {"idle", "begin"}
  BY LabTypes DEF Processes, Disk, LabFiles, Lab!CredentialPath, Lab!Place
<1>6. /\ proc[p].running => place = "ready?"
      /\ place \in {"ready?", "start"}
  OBVIOUS
<1> HIDE DEF place
<1>7. /\ new \in Lab!Process /\ new.pc = place /\ new.todo = proc[p].todo /\ new.me = proc[p].me
      /\ new.secret = house.secret /\ (new.running <=> proc[p].running) /\ (new.alone <=> proc[p].alone)
  BY <1>3, <1>5 DEF Lab!Process
<1> HIDE DEF new
<1>8. Others(p) /\ proc'[p] = new
  BY <1>4, <1>7, ProcessBecomes, LabTypes
<1>9. place = "ready?" => (proc[p].alone => house.running)
  <2>1. place = "ready?" => proc[p].running
    BY DEF place
  <2> QED
    BY <1>1, <1>2, <2>1 DEF Aware, AtWork
<1>10. HouseInv(p)' /\ LokiInv(p)' /\ PermitInv(p)' /\ (proc[p].alone => Aware(p)')
  BY <1>1, <1>2, <1>3, <1>4, <1>6, <1>7, <1>8, <1>9
  DEF HouseInv, LokiInv, PermitInv, Aware, AtWork, Does, Makes, Lab!HalfMade
<1>11. AloneInv(p)'
  BY <1>1, <1>7, <1>8, <1>10, WorkOf DEF AloneInv, Others, Stays
<1>12. WorkInv(p)'
  BY <1>1, <1>7, <1>8, <1>10, <1>11 DEF LabIInv, WorkInv
<1> QED
  BY <1>1, <1>4, <1>5, <1>7, <1>8, <1>12, HouseStep, LabTypes

LEMMA LabStartContainer ==
  ASSUME LabIInv, NEW p \in Proc, Lab!StartContainer(p)
  PROVE  LabIInv'
<1>1. /\ proc[p].pc = "start" /\ Does(p, "house up") /\ vm /\ ~Makes(p)
      /\ UNCHANGED <<vm, cluster, files, loki, polaris, spoiled, flock, launches>>
  BY DEF Lab!StartContainer, Lab!At, Does, Makes, Lab!HalfMade, Lab!Leaves
<1>2. HouseInv(p) /\ LokiInv(p) /\ PermitInv(p) /\ (proc[p].alone => Aware(p))
  BY <1>1, WorkOf
<1>3. Moves(p, "ready?")
  BY ProcessGoes, LabTypes DEF Lab!StartContainer, Lab!Place
<1>4. house' \in Lab!House /\ house'.running /\ house'.secret = house.secret /\ (house'.volume <=> house.volume)
  BY LabTypes DEF Lab!StartContainer, Lab!House
<1>5. HouseInv(p)' /\ LokiInv(p)' /\ PermitInv(p)' /\ (proc[p].alone => Aware(p)')
  BY <1>1, <1>2, <1>3, <1>4
  DEF Moves, Kept, HouseInv, LokiInv, PermitInv, Aware, AtWork, Does, Makes, Lab!HalfMade
<1>6. WorkInv(p)'
  BY <1>1, <1>3, <1>5, OwnWork
<1> QED
  BY <1>1, <1>3, <1>4, <1>6, HouseStep DEF Moves, Lab!Place

LEMMA LabReady ==
  ASSUME LabIInv, NEW p \in Proc, Lab!Ready(p)
  PROVE  LabIInv'
<1>1. /\ proc[p].pc = "ready?" /\ Does(p, "house up") /\ ~Makes(p)
  BY DEF Lab!Ready, Lab!At, Does, Makes, Lab!HalfMade
<1>2. HouseInv(p) /\ LokiInv(p) /\ PermitInv(p) /\ (proc[p].alone => Aware(p))
  BY <1>1, WorkOf
<1>3. CASE ~(vm /\ house.running /\ house.secret = proc[p].secret)
  <2>1. Lab!Refuses(p)
    BY <1>3 DEF Lab!Ready
  <2>2. ~proc[p].alone
    BY <1>1, <1>2, <1>3 DEF Aware, AtWork
  <2> QED
    BY <1>1, <2>1, <2>2, LabRefuses
<1>4. CASE vm /\ house.running /\ house.secret = proc[p].secret
  <2>1. /\ Lab!Goes(p, "done")
        /\ UNCHANGED <<vm, cluster, files, house, loki, polaris, spoiled, flock, launches>>
    BY <1>4 DEF Lab!Ready, Lab!Leaves
  <2>2. Moves(p, "done")
    BY <2>1, ProcessGoes, LabTypes DEF Lab!Place
  <2>3. HouseInv(p)' /\ LokiInv(p)' /\ PermitInv(p)' /\ Aware(p)'
    BY <1>1, <1>2, <1>4, <2>1, <2>2
    DEF Moves, Kept, HouseInv, LokiInv, PermitInv, Aware, AtWork, Does, Makes, Lab!HalfMade
  <2>4. WorkInv(p)'
    BY <1>1, <2>2, <2>3, OwnWork
  <2> QED
    BY <1>1, <2>1, <2>2, <2>4, HouseStep, LabTypes DEF Moves, Lab!Place
<1> QED
  BY <1>3, <1>4

LEMMA LabStopContainer ==
  ASSUME LabIInv, NEW p \in Proc, Lab!StopContainer(p)
  PROVE  LabIInv'
<1>1. /\ proc[p].pc = "begin" /\ Does(p, "house stop") /\ vm /\ ~Makes(p)
      /\ UNCHANGED <<vm, cluster, files, loki, polaris, spoiled, flock, launches>>
  BY DEF Lab!StopContainer, Lab!At, Does, Makes, Lab!HalfMade, Lab!Leaves
<1>2. Moves(p, "done")
  BY ProcessGoes, LabTypes DEF Lab!StopContainer, Lab!Place
<1>3. house' \in Lab!House /\ house'.secret = house.secret /\ (house'.volume <=> house.volume)
  BY LabTypes DEF Lab!StopContainer, Lab!House
<1>4. HouseInv(p)' /\ LokiInv(p)' /\ PermitInv(p)' /\ Aware(p)'
  BY <1>1, <1>2, <1>3
  DEF Moves, Kept, HouseInv, LokiInv, PermitInv, Aware, AtWork, Does, Makes, Lab!HalfMade
<1>5. WorkInv(p)'
  BY <1>1, <1>2, <1>4, OwnWork
<1> QED
  BY <1>1, <1>2, <1>3, <1>5, HouseStep DEF Moves, Lab!Place

-----------------------------------------------------------------------------
(* The steps of Loki. *)

LEMMA LokiStep ==
  ASSUME LabIInv, NEW p \in Proc, NEW place \in Lab!Place \ {"idle", "begin"}, Moves(p, place), WorkInv(p)',
         UNCHANGED <<vm, cluster, files, house, polaris, launches, spoiled>>, flock' \in {flock, p},
         loki' \in Lab!Loki, loki.volume => loki'.volume, loki'.container => loki'.volume, ~Makes(p)
  PROVE  LabIInv'
BY LabKeeps, LabTypes DEF Moves

LEMMA LabTakeLock ==
  ASSUME LabIInv, NEW p \in Proc, Lab!TakeLock(p)
  PROVE  LabIInv'
<1>1. proc[p].pc = "begin" /\ Lab!LokiCommand(p) /\ vm /\ ~Makes(p)
  BY DEF Lab!TakeLock, Makes, Lab!HalfMade
<1>2. ThingsInv /\ FlockInv
  BY DEF LabIInv
<1>3. CASE flock # None
  <2>1. Lab!Refuses(p)
    BY <1>3 DEF Lab!TakeLock
  <2>2. ~proc[p].alone
    BY <1>1, <1>2, <1>3, WorkOf, LabTypes DEF FlockInv
  <2> QED
    BY <1>1, <2>1, <2>2, LabRefuses
<1>4. CASE flock = None
  <2>1. /\ Lab!Goes(p, "look") /\ flock' = p
        /\ UNCHANGED <<vm, cluster, files, house, loki, polaris, spoiled, launches>>
    BY <1>4 DEF Lab!TakeLock, Lab!Keeps
  <2>2. Moves(p, "look")
    BY <2>1, ProcessGoes, LabTypes DEF Lab!Place
  <2>3. HouseInv(p)' /\ LokiInv(p)' /\ PermitInv(p)' /\ (proc[p].alone => Aware(p)')
    BY <1>1, <2>1, <2>2
    DEF Moves, Kept, HouseInv, LokiInv, PermitInv, Aware, AtWork, Does, Makes, Lab!HalfMade, Lab!LokiCommand
  <2>4. WorkInv(p)'
    BY <1>1, <2>2, <2>3, OwnWork
  <2> QED
    BY <1>1, <1>2, <2>1, <2>2, <2>4, LokiStep, LabTypes DEF ThingsInv, Lab!Place
<1> QED
  BY <1>3, <1>4

LEMMA LabLook ==
  ASSUME LabIInv, NEW p \in Proc, Lab!Look(p)
  PROVE  LabIInv'
<1> DEFINE place == IF Head(proc[p].todo) = "loki stop" THEN "stop"
                    ELSE IF ~loki.container THEN "volume" ELSE IF loki.running THEN "ready?" ELSE "start"
<1>1. /\ proc[p].pc = "look" /\ vm /\ ~Makes(p) /\ Lab!Goes(p, place)
      /\ UNCHANGED <<vm, cluster, files, house, loki, polaris, spoiled, flock, launches>>
  BY DEF Lab!Look, Makes, Lab!HalfMade, Lab!Keeps
<1>2. ThingsInv /\ Lab!LokiCommand(p)
  BY <1>1, WorkOf DEF LokiInv
<1>3. Moves(p, place)
  BY <1>1, ProcessGoes, LabTypes DEF Lab!Place
<1>4. /\ place \in {"stop", "volume", "ready?", "start"}
      /\ place # "stop" => Does(p, "loki up")
      /\ place \in {"ready?", "start"} => loki.container
      /\ place = "ready?" => loki.running
  BY <1>2 DEF Lab!LokiCommand, Does
<1> HIDE DEF place
<1>5. HouseInv(p)' /\ LokiInv(p)' /\ PermitInv(p)' /\ (proc[p].alone => Aware(p)')
  BY <1>1, <1>2, <1>3, <1>4
  DEF Moves, Kept, HouseInv, LokiInv, PermitInv, Aware, AtWork, Does, Makes, Lab!HalfMade, ThingsInv, Lab!LokiCommand
<1>6. WorkInv(p)'
  BY <1>1, <1>3, <1>5, OwnWork
<1> QED
  BY <1>1, <1>2, <1>3, <1>4, <1>6, LokiStep, LabTypes DEF ThingsInv, Lab!Place

LEMMA LabLokiVolume ==
  ASSUME LabIInv, NEW p \in Proc, Lab!LokiVolume(p)
  PROVE  LabIInv'
<1>1. /\ proc[p].pc = "volume" /\ Does(p, "loki up") /\ vm /\ ~Makes(p) /\ Lab!Goes(p, "run")
      /\ UNCHANGED <<vm, cluster, files, house, polaris, spoiled, flock, launches>>
  BY DEF Lab!LokiVolume, Lab!At, Does, Makes, Lab!HalfMade, Lab!Keeps
<1>2. LokiInv(p) /\ ThingsInv /\ (proc[p].alone => Aware(p))
  BY <1>1, WorkOf
<1>3. Moves(p, "run")
  BY <1>1, ProcessGoes, LabTypes DEF Lab!Place
<1>4. loki' \in Lab!Loki /\ loki'.volume /\ (loki'.container <=> loki.container)
  BY LabTypes DEF Lab!LokiVolume, Lab!Loki
<1>5. HouseInv(p)' /\ LokiInv(p)' /\ PermitInv(p)' /\ (proc[p].alone => Aware(p)')
  BY <1>1, <1>2, <1>3, <1>4
  DEF Moves, Kept, HouseInv, LokiInv, PermitInv, Aware, AtWork, Does, Makes, Lab!HalfMade
<1>6. WorkInv(p)'
  BY <1>1, <1>3, <1>5, OwnWork
<1> QED
  BY <1>1, <1>2, <1>3, <1>4, <1>6, LokiStep DEF LokiInv, ThingsInv, Lab!Place

LEMMA LabRunContainer ==
  ASSUME LabIInv, NEW p \in Proc, Lab!RunContainer(p)
  PROVE  LabIInv'
<1>1. /\ proc[p].pc = "run" /\ Does(p, "loki up") /\ vm /\ ~Makes(p) /\ Lab!Goes(p, "start")
      /\ UNCHANGED <<vm, cluster, files, house, polaris, spoiled, flock, launches>>
  BY DEF Lab!RunContainer, Lab!At, Does, Makes, Lab!HalfMade, Lab!Keeps
<1>2. LokiInv(p) /\ ThingsInv /\ (proc[p].alone => Aware(p))
  BY <1>1, WorkOf
<1>3. Moves(p, "start")
  BY <1>1, ProcessGoes, LabTypes DEF Lab!Place
<1>4. loki' \in Lab!Loki /\ (loki'.volume <=> loki.volume)
  BY LabTypes DEF Lab!RunContainer, Lab!Loki
<1>5. HouseInv(p)' /\ LokiInv(p)' /\ PermitInv(p)' /\ (proc[p].alone => Aware(p)')
  BY <1>1, <1>2, <1>3, <1>4
  DEF Moves, Kept, HouseInv, LokiInv, PermitInv, Aware, AtWork, Does, Makes, Lab!HalfMade
<1>6. WorkInv(p)'
  BY <1>1, <1>3, <1>5, OwnWork
<1> QED
  BY <1>1, <1>2, <1>3, <1>4, <1>6, LokiStep DEF LokiInv, ThingsInv, Lab!Place

LEMMA LabStartLoki ==
  ASSUME LabIInv, NEW p \in Proc, Lab!StartLoki(p)
  PROVE  LabIInv'
<1>1. /\ proc[p].pc = "start" /\ Does(p, "loki up") /\ vm /\ ~Makes(p) /\ Lab!Goes(p, "ready?")
      /\ UNCHANGED <<vm, cluster, files, house, polaris, spoiled, flock, launches>>
  BY DEF Lab!StartLoki, Lab!At, Does, Makes, Lab!HalfMade, Lab!Keeps
<1>2. LokiInv(p) /\ ThingsInv /\ (proc[p].alone => Aware(p))
  BY <1>1, WorkOf
<1>3. Moves(p, "ready?")
  BY <1>1, ProcessGoes, LabTypes DEF Lab!Place
<1>4. /\ loki' \in Lab!Loki /\ loki'.running
      /\ (loki'.volume <=> loki.volume) /\ (loki'.container <=> loki.container)
  BY LabTypes DEF Lab!StartLoki, Lab!Loki
<1>5. HouseInv(p)' /\ LokiInv(p)' /\ PermitInv(p)' /\ (proc[p].alone => Aware(p)')
  BY <1>1, <1>2, <1>3, <1>4
  DEF Moves, Kept, HouseInv, LokiInv, PermitInv, Aware, AtWork, Does, Makes, Lab!HalfMade
<1>6. WorkInv(p)'
  BY <1>1, <1>3, <1>5, OwnWork
<1> QED
  BY <1>1, <1>2, <1>3, <1>4, <1>6, LokiStep DEF LokiInv, ThingsInv, Lab!Place

LEMMA LabStopLoki ==
  ASSUME LabIInv, NEW p \in Proc, Lab!StopLoki(p)
  PROVE  LabIInv'
<1>1. /\ proc[p].pc = "stop" /\ Does(p, "loki stop") /\ vm /\ ~Makes(p) /\ Lab!Goes(p, "ready?")
      /\ UNCHANGED <<vm, cluster, files, house, polaris, spoiled, flock, launches>>
  BY DEF Lab!StopLoki, Lab!At, Does, Makes, Lab!HalfMade, Lab!Keeps
<1>2. LokiInv(p) /\ ThingsInv /\ (proc[p].alone => Aware(p))
  BY <1>1, WorkOf
<1>3. Moves(p, "ready?")
  BY <1>1, ProcessGoes, LabTypes DEF Lab!Place
<1>4. /\ loki' \in Lab!Loki
      /\ (loki'.volume <=> loki.volume) /\ (loki'.container <=> loki.container)
  BY LabTypes DEF Lab!StopLoki, Lab!Loki
<1>5. HouseInv(p)' /\ LokiInv(p)' /\ PermitInv(p)' /\ (proc[p].alone => Aware(p)')
  BY <1>1, <1>2, <1>3, <1>4
  DEF Moves, Kept, HouseInv, LokiInv, PermitInv, Aware, AtWork, Does, Makes, Lab!HalfMade
<1>6. WorkInv(p)'
  BY <1>1, <1>3, <1>5, OwnWork
<1> QED
  BY <1>1, <1>2, <1>3, <1>4, <1>6, LokiStep DEF LokiInv, ThingsInv, Lab!Place

LEMMA LabReportLoki ==
  ASSUME LabIInv, NEW p \in Proc, Lab!ReportLoki(p)
  PROVE  LabIInv'
<1>1. proc[p].pc = "ready?" /\ Lab!LokiCommand(p) /\ ~Makes(p)
  BY DEF Lab!ReportLoki, Makes, Lab!HalfMade
<1>2. LokiInv(p) /\ ThingsInv /\ (proc[p].alone => Aware(p))
  BY <1>1, WorkOf
<1>3. CASE ~((vm /\ loki.running) \/ Does(p, "loki stop"))
  <2>1. Lab!Refuses(p)
    BY <1>3 DEF Lab!ReportLoki, Does
  <2>2. ~proc[p].alone
    BY <1>1, <1>2, <1>3 DEF Aware, AtWork, Lab!LokiCommand, Does
  <2> QED
    BY <1>1, <2>1, <2>2, LabRefuses
<1>4. CASE (vm /\ loki.running) \/ Does(p, "loki stop")
  <2>1. /\ Lab!Goes(p, "done")
        /\ UNCHANGED <<vm, cluster, files, house, loki, polaris, spoiled, flock, launches>>
    BY <1>4 DEF Lab!ReportLoki, Lab!Keeps, Does
  <2>2. Moves(p, "done")
    BY <2>1, ProcessGoes, LabTypes DEF Lab!Place
  <2>3. HouseInv(p)' /\ LokiInv(p)' /\ PermitInv(p)' /\ (proc[p].alone => Aware(p)')
    BY <1>1, <1>2, <1>4, <2>1, <2>2
    DEF Moves, Kept, HouseInv, LokiInv, PermitInv, Aware, AtWork, Does, Makes, Lab!HalfMade, Lab!LokiCommand
  <2>4. WorkInv(p)'
    BY <1>1, <2>2, <2>3, OwnWork
  <2> QED
    BY <1>1, <1>2, <2>1, <2>2, <2>4, LokiStep, LabTypes DEF ThingsInv, Lab!Place
<1> QED
  BY <1>3, <1>4

-----------------------------------------------------------------------------
(* The steps of the permissions. *)

LEMMA PermitStep ==
  ASSUME LabIInv, NEW p \in Proc, NEW place \in Lab!Place \ {"idle", "begin"}, Others(p), proc'[p].pc = place,
         WorkInv(p)', UNCHANGED <<vm, cluster, files, house, loki, launches, spoiled, flock>>,
         polaris' \in Permissions, polaris.role => polaris'.role, polaris.member => polaris'.member,
         polaris.grants \subseteq polaris'.grants, ~Makes(p)
  PROVE  LabIInv'
BY LabKeeps, LabTypes, WorkOf DEF ThingsInv

LEMMA LabFindRole ==
  ASSUME LabIInv, NEW p \in Proc, Lab!FindRole(p)
  PROVE  LabIInv'
<1> DEFINE place == IF polaris.role THEN "member?" ELSE "role"
<1>1. /\ proc[p].pc = "begin" /\ Does(p, "permissions") /\ vm /\ ~Makes(p) /\ Lab!Goes(p, place)
      /\ UNCHANGED <<vm, cluster, files, house, loki, polaris, spoiled, flock, launches>>
  BY DEF Lab!FindRole, Lab!At, Does, Makes, Lab!HalfMade, Lab!Asks, Lab!holdings
<1>2. PermitInv(p) /\ (proc[p].alone => Aware(p))
  BY <1>1, WorkOf
<1>3. Moves(p, place)
  BY <1>1, ProcessGoes, LabTypes DEF Lab!Place
<1>4. place \in {"member?", "role"} /\ (place = "member?" <=> polaris.role)
  BY LabTypes DEF Permissions
<1> HIDE DEF place
<1>5. HouseInv(p)' /\ LokiInv(p)' /\ PermitInv(p)' /\ (proc[p].alone => Aware(p)')
  BY <1>1, <1>2, <1>3, <1>4
  DEF Moves, Kept, HouseInv, LokiInv, PermitInv, Aware, AtWork, Does, Makes, Lab!HalfMade, Lab!LokiCommand
<1>6. WorkInv(p)'
  BY <1>1, <1>3, <1>5, OwnWork
<1> QED
  BY <1>1, <1>3, <1>4, <1>6, PermitStep, LabTypes DEF Moves, Lab!Place

LEMMA LabCreateRole ==
  ASSUME LabIInv, NEW p \in Proc, Lab!CreateRole(p)
  PROVE  LabIInv'
<1>1. proc[p].pc = "role" /\ Does(p, "permissions") /\ vm /\ ~Makes(p)
  BY DEF Lab!CreateRole, Lab!At, Does, Makes, Lab!HalfMade
<1>2. PermitInv(p) /\ (proc[p].alone => Aware(p))
  BY <1>1, WorkOf
<1>3. CASE polaris.role
  <2>1. Lab!Refuses(p)
    BY <1>3 DEF Lab!CreateRole
  <2>2. ~proc[p].alone
    BY <1>1, <1>2, <1>3 DEF Aware
  <2> QED
    BY <1>1, <2>1, <2>2, LabRefuses
<1>4. CASE ~polaris.role
  <2>1. /\ Lab!Goes(p, "member?") /\ polaris' = [polaris EXCEPT !.role = TRUE]
        /\ UNCHANGED <<vm, cluster, files, house, loki, spoiled, flock, launches>>
    BY <1>4 DEF Lab!CreateRole, Lab!Changes
  <2>2. Moves(p, "member?")
    BY <2>1, ProcessGoes, LabTypes DEF Lab!Place
  <2>3. /\ polaris' \in Permissions /\ polaris'.role /\ (polaris'.member <=> polaris.member)
        /\ polaris'.grants = polaris.grants
    BY <2>1, LabTypes DEF Permissions
  <2>4. HouseInv(p)' /\ LokiInv(p)' /\ PermitInv(p)' /\ (proc[p].alone => Aware(p)')
    BY <1>1, <1>2, <2>1, <2>2, <2>3
    DEF Moves, Kept, HouseInv, LokiInv, PermitInv, Aware, AtWork, Does, Makes, Lab!HalfMade, Lab!LokiCommand
  <2>5. WorkInv(p)'
    BY <1>1, <2>2, <2>4, OwnWork
  <2> QED
    BY <1>1, <2>1, <2>2, <2>3, <2>5, PermitStep DEF Moves, Lab!Place
<1> QED
  BY <1>3, <1>4

LEMMA LabFindMember ==
  ASSUME LabIInv, NEW p \in Proc, Lab!FindMember(p)
  PROVE  LabIInv'
<1> DEFINE place == IF polaris.member THEN "grants?" ELSE "member"
<1>1. /\ proc[p].pc = "member?" /\ Does(p, "permissions") /\ vm /\ ~Makes(p) /\ Lab!Goes(p, place)
      /\ UNCHANGED <<vm, cluster, files, house, loki, polaris, spoiled, flock, launches>>
  BY DEF Lab!FindMember, Lab!At, Does, Makes, Lab!HalfMade, Lab!Asks, Lab!holdings
<1>2. PermitInv(p) /\ (proc[p].alone => Aware(p))
  BY <1>1, WorkOf
<1>3. Moves(p, place)
  BY <1>1, ProcessGoes, LabTypes DEF Lab!Place
<1>4. place \in {"grants?", "member"} /\ (place = "grants?" <=> polaris.member)
  BY LabTypes DEF Permissions
<1> HIDE DEF place
<1>5. HouseInv(p)' /\ LokiInv(p)' /\ PermitInv(p)' /\ (proc[p].alone => Aware(p)')
  BY <1>1, <1>2, <1>3, <1>4
  DEF Moves, Kept, HouseInv, LokiInv, PermitInv, Aware, AtWork, Does, Makes, Lab!HalfMade, Lab!LokiCommand
<1>6. WorkInv(p)'
  BY <1>1, <1>3, <1>5, OwnWork
<1> QED
  BY <1>1, <1>3, <1>4, <1>6, PermitStep, LabTypes DEF Moves, Lab!Place

LEMMA LabAddMember ==
  ASSUME LabIInv, NEW p \in Proc, Lab!AddMember(p)
  PROVE  LabIInv'
<1>1. /\ proc[p].pc = "member" /\ Does(p, "permissions") /\ vm /\ ~Makes(p) /\ Lab!Goes(p, "grants?")
      /\ UNCHANGED <<vm, cluster, files, house, loki, spoiled, flock, launches>>
  BY DEF Lab!AddMember, Lab!At, Does, Makes, Lab!HalfMade, Lab!Changes
<1>2. PermitInv(p) /\ (proc[p].alone => Aware(p))
  BY <1>1, WorkOf
<1>3. Moves(p, "grants?")
  BY <1>1, ProcessGoes, LabTypes DEF Lab!Place
<1>4. /\ polaris' \in Permissions /\ polaris'.member /\ (polaris'.role <=> polaris.role)
      /\ polaris'.grants = polaris.grants
  BY LabTypes DEF Lab!AddMember, Lab!Changes, Permissions
<1>5. HouseInv(p)' /\ LokiInv(p)' /\ PermitInv(p)' /\ (proc[p].alone => Aware(p)')
  BY <1>1, <1>2, <1>3, <1>4
  DEF Moves, Kept, HouseInv, LokiInv, PermitInv, Aware, AtWork, Does, Makes, Lab!HalfMade, Lab!LokiCommand
<1>6. WorkInv(p)'
  BY <1>1, <1>3, <1>5, OwnWork
<1> QED
  BY <1>1, <1>3, <1>4, <1>6, PermitStep DEF Moves, Lab!Place

\* A process that has other grants to make, and goes on to make them.
LEMMA LackingWork ==
  ASSUME LabIInv, NEW p \in Proc, proc[p].pc \in {"grants?", "grant"}, Does(p, "permissions"),
         NEW lacking \in SUBSET (1..Namespaces),
         Lab!Becomes(p, [proc[p] EXCEPT !.pc = "grant", !.lacks = lacking]),
         polaris' \in Permissions, polaris'.role, polaris'.member, Lab!Missing' \subseteq lacking, UNCHANGED vm
  PROVE  Others(p) /\ proc'[p].pc = "grant" /\ WorkInv(p)'
<1> DEFINE new == [proc[p] EXCEPT !.pc = "grant", !.lacks = lacking]
<1>1. proc[p] \in Lab!Process
  BY LabTypes DEF Processes
<1>2. /\ new \in Lab!Process /\ new.pc = "grant" /\ new.todo = proc[p].todo /\ new.me = proc[p].me
      /\ new.lacks = lacking /\ (new.alone <=> proc[p].alone)
  BY <1>1 DEF Lab!Process, Lab!Place
<1> HIDE DEF new
<1>3. Others(p) /\ proc'[p] = new
  BY <1>2, ProcessBecomes, LabTypes DEF new
<1>4. proc[p].alone => Aware(p)
  BY WorkOf
<1>5. HouseInv(p)' /\ LokiInv(p)' /\ PermitInv(p)' /\ (proc[p].alone => Aware(p)')
  BY <1>2, <1>3, <1>4 DEF HouseInv, LokiInv, PermitInv, Aware, AtWork, Does, Makes, Lab!HalfMade
<1>6. AloneInv(p)'
  BY <1>2, <1>3, <1>5, WorkOf DEF AloneInv, Others, Stays
<1> QED
  BY <1>2, <1>3, <1>5, <1>6 DEF LabIInv, WorkInv

LEMMA LabFindGrants ==
  ASSUME LabIInv, NEW p \in Proc, Lab!FindGrants(p)
  PROVE  LabIInv'
<1>1. /\ proc[p].pc = "grants?" /\ Does(p, "permissions") /\ vm /\ ~Makes(p)
      /\ Lab!Becomes(p, [proc[p] EXCEPT !.pc = "grant", !.lacks = Lab!Missing])
      /\ UNCHANGED <<vm, cluster, files, house, loki, polaris, spoiled, flock, launches>>
  BY DEF Lab!FindGrants, Lab!At, Does, Makes, Lab!HalfMade, Lab!holdings
<1>2. polaris.role /\ polaris.member
  BY <1>1, WorkOf DEF PermitInv
<1>3. Lab!Missing \in SUBSET (1..Namespaces) /\ Lab!Missing' = Lab!Missing
  BY <1>1 DEF Lab!Missing
<1>4. Others(p) /\ proc'[p].pc = "grant" /\ WorkInv(p)'
  BY <1>1, <1>2, <1>3, LackingWork, LabTypes
<1> QED
  BY <1>1, <1>4, PermitStep, LabTypes DEF Lab!Place

LEMMA LabGrant ==
  ASSUME LabIInv, NEW p \in Proc, Lab!Grant(p)
  PROVE  LabIInv'
<1>1. proc[p].pc = "grant" /\ Does(p, "permissions") /\ vm /\ ~Makes(p)
  BY DEF Lab!Grant, Lab!At, Does, Makes, Lab!HalfMade
<1>2. PermitInv(p) /\ (proc[p].alone => Aware(p)) /\ polaris.role /\ polaris.member
      /\ Lab!Missing \subseteq proc[p].lacks
  BY <1>1, WorkOf DEF PermitInv
<1>3. CASE proc[p].lacks = {} /\ Lab!Asks(p, "verify")
  <2>1. Moves(p, "verify") /\ UNCHANGED <<vm, cluster, files, house, loki, polaris, spoiled, flock, launches>>
    BY <1>3, ProcessGoes, LabTypes DEF Lab!Place, Lab!Asks, Lab!holdings
  <2>2. Lab!Missing = {} /\ Lab!Missing' = Lab!Missing
    BY <1>2, <1>3, <2>1 DEF Lab!Missing
  <2>3. HouseInv(p)' /\ LokiInv(p)' /\ PermitInv(p)' /\ (proc[p].alone => Aware(p)')
    BY <1>1, <1>2, <2>1, <2>2
    DEF Moves, Kept, HouseInv, LokiInv, PermitInv, Aware, AtWork, Does, Makes, Lab!HalfMade
  <2>4. WorkInv(p)'
    BY <1>1, <2>1, <2>3, OwnWork
  <2> QED
    BY <1>1, <2>1, <2>4, PermitStep, LabTypes DEF Moves, Lab!Place
<1>4. CASE ~(proc[p].lacks = {} /\ Lab!Asks(p, "verify"))
  <2>1. PICK n \in proc[p].lacks :
          /\ polaris' = [polaris EXCEPT !.grants = @ \cup {n}]
          /\ Lab!Becomes(p, [proc[p] EXCEPT !.lacks = @ \ {n}])
          /\ UNCHANGED <<vm, cluster, files, house, loki, spoiled, flock, launches>>
    BY <1>4 DEF Lab!Grant
  <2>2. proc[p] \in Lab!Process /\ proc[p].lacks \in SUBSET (1..Namespaces) /\ n \in 1..Namespaces
    BY LabTypes DEF Processes, Lab!Process
  <2>3. /\ polaris' \in Permissions /\ (polaris'.role <=> polaris.role) /\ (polaris'.member <=> polaris.member)
        /\ polaris'.grants = polaris.grants \cup {n}
    BY <2>1, <2>2, LabTypes DEF Permissions
  <2>4. Lab!Missing' \subseteq proc[p].lacks \ {n}
    BY <1>2, <2>3 DEF Lab!Missing
  <2>5. [proc[p] EXCEPT !.lacks = @ \ {n}] = [proc[p] EXCEPT !.pc = "grant", !.lacks = proc[p].lacks \ {n}]
    BY <1>1, <2>2 DEF Lab!Process
  <2>6. Others(p) /\ proc'[p].pc = "grant" /\ WorkInv(p)'
    BY <1>1, <1>2, <2>1, <2>2, <2>3, <2>4, <2>5, LackingWork
  <2> QED
    BY <1>1, <2>1, <2>3, <2>6, PermitStep, LabTypes DEF Lab!Place
<1> QED
  BY <1>3, <1>4

LEMMA LabVerify ==
  ASSUME LabIInv, NEW p \in Proc, Lab!Verify(p)
  PROVE  LabIInv'
<1>1. proc[p].pc = "verify" /\ Does(p, "permissions") /\ vm /\ ~Makes(p)
  BY DEF Lab!Verify, Lab!At, Does, Makes, Lab!HalfMade
<1>2. PermitInv(p) /\ (proc[p].alone => Aware(p)) /\ Lab!Missing = {}
  BY <1>1, WorkOf DEF PermitInv
<1>3. Lab!Goes(p, "done") /\ UNCHANGED <<vm, cluster, files, house, loki, polaris, spoiled, flock, launches>>
  BY <1>2 DEF Lab!Verify, Lab!Asks, Lab!holdings
<1>4. Moves(p, "done") /\ Lab!Missing' = Lab!Missing
  BY <1>3, ProcessGoes, LabTypes DEF Lab!Place, Lab!Missing
<1>5. HouseInv(p)' /\ LokiInv(p)' /\ PermitInv(p)' /\ (proc[p].alone => Aware(p)')
  BY <1>1, <1>2, <1>3, <1>4
  DEF Moves, Kept, HouseInv, LokiInv, PermitInv, Aware, AtWork, Does, Makes, Lab!HalfMade
<1>6. WorkInv(p)'
  BY <1>1, <1>4, <1>5, OwnWork
<1> QED
  BY <1>1, <1>3, <1>4, <1>6, PermitStep, LabTypes DEF Moves, Lab!Place

-----------------------------------------------------------------------------
(* The inductive invariant of the lab. *)

LEMMA LabInitially ==
  ASSUME Lab!Init
  PROVE  LabIInv
<1>1. \/ house = [secret |-> None, running |-> FALSE, volume |-> FALSE] /\ files = Lab!NoFiles
      \/ /\ house = [secret |-> 1, running |-> FALSE, volume |-> TRUE]
         /\ \E f \in {"credential.json", "state.json"} : files = [Lab!NoFiles EXCEPT ![f] = 1]
  BY DEF Lab!Init
<1>2. /\ vm = FALSE /\ cluster = 0 /\ loki = [container |-> FALSE, running |-> FALSE, volume |-> FALSE] /\ flock = None
      /\ polaris = [role |-> FALSE, member |-> FALSE, grants |-> {}] /\ proc = [p \in Proc |-> Lab!NoProcess]
      /\ launches = (IF house.secret = None THEN 0 ELSE 1) /\ spoiled = FALSE
  BY DEF Lab!Init
<1>3. MaxStarts \in Nat \ {0} /\ Targets \in Nat /\ None \notin Nat
  BY ToolsAssumption
<1>4. Lab!NoProcess \in Lab!Process /\ Lab!NoProcess.pc = "idle"
  BY <1>3 DEF Lab!NoProcess, Lab!Process, Lab!Place, Lab!File
<1>5. house \in Lab!House /\ launches \in 0..MaxStarts /\ (house.volume <=> house.secret # None) /\ house.secret # 0
  <2>1. CASE house = [secret |-> None, running |-> FALSE, volume |-> FALSE]
    BY <1>2, <1>3, <2>1 DEF Lab!House, Lab!Secret
  <2>2. CASE house = [secret |-> 1, running |-> FALSE, volume |-> TRUE]
    BY <1>2, <1>3, <2>2 DEF Lab!House, Lab!Secret
  <2> QED
    BY <1>1, <2>1, <2>2
<1>6. /\ files \in Disk
      /\ house.secret # None => CredentialIs(house.secret)
      /\ house.secret = None => \A f \in LabFiles : files[f] = None
  <2>1. CASE files = Lab!NoFiles /\ house.secret = None
    BY <2>1 DEF Lab!NoFiles, Disk, LabFiles, Lab!File
  <2>2. CASE house.secret = 1 /\ \E f \in {"credential.json", "state.json"} : files = [Lab!NoFiles EXCEPT ![f] = 1]
    BY <1>3, <2>2 DEF Lab!NoFiles, Disk, LabFiles, Lab!File, Lab!Secret, CredentialIs, Lab!CredentialPath
  <2> QED
    BY <1>1, <2>1, <2>2
<1>7. Lab!TypeOK
  <2>1. proc \in [Proc -> Lab!Process] /\ loki \in Lab!Loki
    BY <1>2, <1>4 DEF Lab!Loki
  <2>2. polaris \in [role : BOOLEAN, member : BOOLEAN, grants : SUBSET (1..Namespaces)]
    BY <1>2
  <2>3. vm \in BOOLEAN /\ cluster \in 0..Targets /\ flock \in Proc \cup {None} /\ spoiled \in BOOLEAN
    <3>1. vm = FALSE /\ cluster = 0 /\ flock = None /\ spoiled = FALSE
      BY <1>2
    <3>2. 0 \in 0..Targets
      BY <1>3
    <3> QED
      BY <3>1, <3>2
  <2> QED
    BY <1>5, <1>6, <2>1, <2>2, <2>3 DEF Lab!TypeOK, Disk, LabFiles
<1>8. ThingsInv /\ FlockInv
  <2>1. Whole
    BY <1>5, <1>6 DEF Whole, LabFiles
  <2>2. ~loki.container
    BY <1>2
  <2> QED
    BY <1>2, <1>5, <1>6, <2>1, <2>2 DEF ThingsInv, FlockInv
<1>9. \A p \in Proc : WorkInv(p)
  BY <1>2, <1>4 DEF WorkInv, HouseInv, LokiInv, PermitInv, AloneInv, Makes, Lab!HalfMade
<1> QED
  BY <1>7, <1>8, <1>9 DEF LabIInv

LEMMA LabNext ==
  ASSUME LabIInv, [Lab!Next]_labVars
  PROVE  LabIInv'
<1>1. ASSUME NEW p \in Proc,
             \/ Lab!Begin(p) \/ Lab!Onward(p) \/ Lab!Fails(p) \/ Lab!VmUp(p) \/ Lab!Cluster(p) \/ Lab!VmDown(p)
      PROVE  LabIInv'
  BY <1>1, LabBegin, LabOnward, LabFails, LabVmUp, LabCluster, LabVmDown
<1>2. ASSUME NEW p \in Proc,
             \/ Lab!InspectContainer(p) \/ Lab!InspectVolume(p) \/ Lab!Saved(p) \/ Lab!WriteCredential(p)
             \/ Lab!WriteEnvironment(p) \/ Lab!CreateVolume(p) \/ Lab!CreateContainer(p) \/ Lab!ReadCredential(p)
             \/ Lab!StartContainer(p) \/ Lab!Ready(p) \/ Lab!StopContainer(p)
      PROVE  LabIInv'
  BY <1>2, LabInspectContainer, LabInspectVolume, LabSaved, LabWriteCredential, LabWriteEnvironment,
     LabCreateVolume, LabCreateContainer, LabReadCredential, LabStartContainer, LabReady, LabStopContainer
<1>3. ASSUME NEW p \in Proc,
             \/ Lab!TakeLock(p) \/ Lab!Look(p) \/ Lab!LokiVolume(p) \/ Lab!RunContainer(p) \/ Lab!StartLoki(p)
             \/ Lab!StopLoki(p) \/ Lab!ReportLoki(p)
      PROVE  LabIInv'
  BY <1>3, LabTakeLock, LabLook, LabLokiVolume, LabRunContainer, LabStartLoki, LabStopLoki, LabReportLoki
<1>4. ASSUME NEW p \in Proc,
             \/ Lab!FindRole(p) \/ Lab!CreateRole(p) \/ Lab!FindMember(p) \/ Lab!AddMember(p) \/ Lab!FindGrants(p)
             \/ Lab!Grant(p) \/ Lab!Verify(p)
      PROVE  LabIInv'
  BY <1>4, LabFindRole, LabCreateRole, LabFindMember, LabAddMember, LabFindGrants, LabGrant, LabVerify
<1>5. CASE UNCHANGED labVars
  <2>1. Lab!TypeOK'
    BY <1>5 DEF labVars, LabIInv, Lab!TypeOK
  <2>2. ThingsInv' /\ FlockInv'
    BY <1>5 DEF labVars, LabIInv, ThingsInv, CredentialIs, Lab!CredentialPath, Whole, Makes, Lab!HalfMade, FlockInv
  <2>3. \A p \in Proc : WorkInv(p)'
    <3> SUFFICES ASSUME NEW p \in Proc, WorkInv(p)
                 PROVE  WorkInv(p)'
      BY DEF LabIInv
    <3>1. HouseInv(p)' /\ LokiInv(p)'
      BY <1>5 DEF labVars, WorkInv, HouseInv, LokiInv, Lab!LokiCommand, Makes, Lab!HalfMade, Does
    <3>2. UNCHANGED <<vm, house, loki, polaris, proc, spoiled>>
      BY <1>5 DEF labVars
    <3>3. PermitInv(p)'
      BY <3>2 DEF WorkInv, PermitInv, Lab!Missing, Does
    <3>4. Aware(p) => Aware(p)'
      BY <3>2 DEF Aware, AtWork, Does
    <3>5. AloneInv(p)'
      BY <3>2, <3>4 DEF WorkInv, AloneInv
    <3> QED
      BY <1>5, <3>1, <3>3, <3>5 DEF labVars, WorkInv
  <2> QED
    BY <2>1, <2>2, <2>3 DEF LabIInv
<1> QED
  BY <1>1, <1>2, <1>3, <1>4, <1>5 DEF Lab!Next

LEMMA LabGives ==
  ASSUME LabIInv
  PROVE  LabInv
<1>1. Lab!SecretIsKept
  BY DEF LabIInv, ThingsInv, CredentialIs, Lab!SecretIsKept
<1>2. Lab!GoesOnFromAnywhere
  BY WorkOf DEF Lab!GoesOnFromAnywhere, Aware, Does
<1>3. Lab!DoneIsDone
  <2> SUFFICES ASSUME NEW p \in Proc, proc[p].pc = "done", proc[p].alone
               PROVE  CASE Head(proc[p].todo) = "house up" -> house.running /\ vm
                        [] Head(proc[p].todo) = "loki up" -> loki.running /\ loki.volume /\ vm
                        [] Head(proc[p].todo) = "vm down" -> ~house.running /\ ~loki.running
                        [] Head(proc[p].todo) = "permissions" ->
                             polaris.role /\ polaris.member /\ polaris.grants = 1..Namespaces
                        [] OTHER -> TRUE
    BY DEF Lab!DoneIsDone
  <2>1. LokiInv(p) /\ PermitInv(p) /\ Aware(p)
    BY WorkOf
  <2>2. Does(p, "house up") => house.running /\ vm
    BY <2>1 DEF Aware
  <2>3. Does(p, "loki up") => loki.running /\ loki.volume /\ vm
    BY <2>1 DEF Aware, LokiInv
  <2>4. Does(p, "vm down") => ~house.running /\ ~loki.running
    BY <2>1 DEF Aware
  <2>5. Does(p, "permissions") => polaris.role /\ polaris.member /\ polaris.grants = 1..Namespaces
    BY <2>1, LabTypes DEF PermitInv, Lab!Missing, Permissions
  <2> QED
    BY <2>2, <2>3, <2>4, <2>5 DEF Does
<1> QED
  BY <1>1, <1>2, <1>3 DEF LabInv, Lab!LabInv, LabIInv

-----------------------------------------------------------------------------
(* The theorems.  A step of one tool leaves the state of the others alone, so *)
(* each tool takes a step of its own or none.                                 *)

LEMMA ToolsSteps ==
  ASSUME [ToolsNext]_<<tool, vars, smokeVars, bootstrapVars, experimentVars, labVars, imagesVars>>
  PROVE  /\ [Next]_vars /\ [Smoke!Next]_smokeVars
         /\ [Bootstrap!Next]_bootstrapVars /\ [Experiment!Next]_experimentVars /\ [Lab!Next]_labVars
<1> QED
  BY DEF ToolsNext

\* An export that is done is whole and stays, it is the bucket key by key if nobody wrote
\* meanwhile, and a restore that succeeds with no writer beside it leaves the bucket as it
\* was exported and never sends other bytes (export_bucket, restore_bucket).
THEOREM StorageIsRight == ToolsSpec => []StorageInv
<1>1. ToolsInit => StorageIInv
  BY StorageInit DEF ToolsInit, AtRest
<1>2. StorageIInv /\ [ToolsNext]_<<tool, vars, smokeVars, bootstrapVars, experimentVars, labVars, imagesVars>> => StorageIInv'
  BY ToolsSteps, StorageStep
<1>3. StorageIInv => StorageInv
  BY StorageGives
<1> QED
  BY <1>1, <1>2, <1>3, PTL DEF ToolsSpec

\* A restore puts nothing over an object that was there when it began to look and is there
\* still (restore_bucket).
THEOREM RestoreSparesWhatItFound == ToolsSpec => RestoreSparesObjects
<1> DEFINE spares == restoring' # restoring => \A k \in found : bucket'[k] = bucket[k]
<1>1. ToolsInit => StorageIInv
  BY StorageInit DEF ToolsInit, AtRest
<1>2. StorageIInv /\ [ToolsNext]_<<tool, vars, smokeVars, bootstrapVars, experimentVars, labVars, imagesVars>> => StorageIInv'
  BY ToolsSteps, StorageStep
<1>3. StorageIInv /\ [ToolsNext]_<<tool, vars, smokeVars, bootstrapVars, experimentVars, labVars, imagesVars>> => [spares]_vars
  BY ToolsSteps, RestoreSpares
<1> QED
  BY <1>1, <1>2, <1>3, PTL DEF ToolsSpec, RestoreSparesObjects

\* The smoke test leaves no bucket and no object behind, wherever it fails, unless an
\* answer was lost or the store refused to delete (run_smoke).
THEOREM SmokeLeavesNothingBehind == ToolsSpec => []SmokeInv
<1>1. ToolsInit => SmokeIInv
  BY SmokeInit DEF ToolsInit, AtRest
<1>2. SmokeIInv /\ [ToolsNext]_<<tool, vars, smokeVars, bootstrapVars, experimentVars, labVars, imagesVars>> => SmokeIInv'
  BY ToolsSteps, SmokeStep
<1>3. SmokeIInv => SmokeInv
  BY SmokeGives
<1> QED
  BY <1>1, <1>2, <1>3, PTL DEF ToolsSpec

\* The job that bootstraps Iceberg appends its row once, what it has passed stays, and what
\* it reports cleaned is empty, over any restarts of its pod (IcebergBootstrap.main).
THEOREM BootstrapIsRight == ToolsSpec => []BootstrapInv
<1>1. ToolsInit => BootstrapIInv
  BY BootstrapInit DEF ToolsInit, AtRest
<1>2. BootstrapIInv /\ [ToolsNext]_<<tool, vars, smokeVars, bootstrapVars, experimentVars, labVars, imagesVars>> => BootstrapIInv'
  BY ToolsSteps, BootstrapStep
<1>3. BootstrapIInv => BootstrapInv
  BY BootstrapGives
<1> QED
  BY <1>1, <1>2, <1>3, PTL DEF ToolsSpec

\* A suspension that a command of the experiment runner made is never forgotten, wherever
\* commands die, answers are lost or operators interfere (main, active_run, apply).
THEOREM SuspensionsAreRemembered == ToolsSpec => []ExperimentInv
<1>1. ToolsInit => ExperimentIInv
  BY ExperimentInitially DEF ToolsInit, AtRest
<1>2. ExperimentIInv /\ [ToolsNext]_<<tool, vars, smokeVars, bootstrapVars, experimentVars, labVars, imagesVars>> => ExperimentIInv'
  BY ToolsSteps, ExperimentStep
<1>3. ExperimentIInv => ExperimentInv
  BY ExperimentGives
<1> QED
  BY <1>1, <1>2, <1>3, PTL DEF ToolsSpec

\* Every write of an object is to what its plan was prepared against, with the reconcilers
\* held back, and a resume gives back what was there before the first of the runs that took
\* over from each other (patch_existing, resume).
THEOREM RunsHandOver == ToolsSpec => HandsOverInOrder
<1>1. ToolsInit => ExperimentIInv
  BY ExperimentInitially DEF ToolsInit, AtRest
<1>2. ExperimentIInv /\ [ToolsNext]_<<tool, vars, smokeVars, bootstrapVars, experimentVars, labVars, imagesVars>> => ExperimentIInv'
  BY ToolsSteps, ExperimentStep
<1>3. ExperimentIInv /\ [ToolsNext]_<<tool, vars, smokeVars, bootstrapVars, experimentVars, labVars, imagesVars>>
        => [Experiment!StepIsReviewed]_experimentVars
  BY ToolsSteps, ExperimentReviewed
<1> QED
  BY <1>1, <1>2, <1>3, PTL DEF ToolsSpec, HandsOverInOrder, Experiment!HandsOverInOrder, experimentVars, Experiment!vars

\* The credential on the disk is that of the container, a command that works alone goes on
\* from wherever another died, and what it reports done is done (ensure_runtime,
\* ensure_permissions, lab_lifecycle.py).
THEOREM LabIsTrue == ToolsSpec => []LabInv
<1>1. ToolsInit => LabIInv
  BY LabInitially DEF ToolsInit, AtRest
<1>2. LabIInv /\ [ToolsNext]_<<tool, vars, smokeVars, bootstrapVars, experimentVars, labVars, imagesVars>> => LabIInv'
  BY ToolsSteps, LabNext
<1>3. LabIInv => LabInv
  BY LabGives
<1> QED
  BY <1>1, <1>2, <1>3, PTL DEF ToolsSpec

-----------------------------------------------------------------------------
(***************************************************************************)
(* The checks of the images (Admission), under ImagesSpec.                  *)
(*                                                                         *)
(* Most of what the checks let through follows from the checks together, for *)
(* any tree.  What does not is that the owner has seen what is excepted: it *)
(* is since the approved set, which the scripts name and no edit reaches,   *)
(* is the one that was granted last.                                        *)
(***************************************************************************)

ImagesIInv == "approved" \in DOMAIN tree /\ tree.approved = grants

LEMMA ImagesInitially ==
  ASSUME Images!Init
  PROVE  ImagesIInv
<1> DEFINE set == Images!Exceptions(Images!Start, 0, MaxDays)
<1>1. DOMAIN Images!Start = DOMAIN tree /\ "approved" \in DOMAIN Images!Start /\ "exceptions" \in DOMAIN Images!Start
  BY DEF Images!Init, Images!Grant, Images!Start
<1> HIDE DEF set
<1>2. tree.approved = set /\ tree.exceptions = set
  BY <1>1 DEF Images!Init, Images!Grant, set
<1> QED
  BY <1>1, <1>2 DEF Images!Init, ImagesIInv

\* No edit reaches the approved set, and a review grants what it approves.
LEMMA ImagesStep ==
  ASSUME ImagesIInv, [Images!Next]_imagesVars
  PROVE  ImagesIInv'
<1> USE DEF ImagesIInv, Images!Edit
<1>1. CASE Images!RetirePair
  BY <1>1 DEF Images!RetirePair
<1>2. CASE Images!Recertify
  BY <1>2 DEF Images!Recertify
<1>3. CASE Images!EditLedger
  BY <1>3 DEF Images!EditLedger
<1>4. CASE Images!Scan
  BY <1>4 DEF Images!Scan
<1>5. CASE Images!EditPapers
  BY <1>5 DEF Images!EditPapers
<1>6. CASE Images!EditRecords
  BY <1>6 DEF Images!EditRecords
<1>7. CASE Images!EditBuild
  BY <1>7 DEF Images!EditBuild
<1>8. CASE Images!EditFlux
  BY <1>8 DEF Images!EditFlux
<1>9. CASE Images!EditExceptions
  BY <1>9 DEF Images!EditExceptions
<1>10. CASE Images!Review
  <2>1. PICK until : tree' = Images!Grant(tree, day, until) /\ grants' = tree'.exceptions
    BY <1>10 DEF Images!Review
  <2> QED
    BY <2>1 DEF Images!Grant
<1>11. CASE Images!NextDay \/ UNCHANGED imagesVars
  BY <1>11 DEF Images!NextDay, imagesVars
<1> QED
  BY <1>1, <1>2, <1>3, <1>4, <1>5, <1>6, <1>7, <1>8, <1>9, <1>10, <1>11 DEF Images!Next, Images!Edits

\* What is deployed has the report that was checked for it.
LEMMA AdmittedScanned ==
  ASSUME ImagesIInv, NEW profile \in {"strict", "local-lab"}
  PROVE  Images!AdmittedIsScanned(profile)
<1> SUFFICES ASSUME Images!CheckImages(tree, profile, day),
                    NEW ref \in Images!Rendered(tree) \cup tree.manifests
             PROVE  \E c \in Images!Ledger(tree) :
                      LET trivy == Images!ScanOf(tree, c)
                      IN  /\ ref = Images!Ref(tree, c) /\ Images!Immutable(ref)
                          /\ trivy # None /\ trivy.of = ref /\ trivy.beyond = "nothing"
                          /\ trivy.high # {} => profile = "local-lab" /\ Images!Accepted(c)
  BY DEF Images!AdmittedIsScanned
<1>1. ref \in Images!Deployed(tree)
  BY DEF Images!CheckImages, Images!FluxAdmits, Images!Deployed
<1>2. PICK c \in Images!Ledger(tree) : ref = Images!Ref(tree, c)
  BY <1>1 DEF Images!CheckImages
<1> DEFINE trivy == Images!ScanOf(tree, c)
<1>3. Images!Immutable(ref) /\ Images!CheckTrivy(trivy, ref, Images!Allowed(tree, c, profile))
  BY <1>2 DEF Images!CheckImages
<1>4. /\ trivy # None /\ trivy.of = ref /\ trivy.beyond = "nothing"
      /\ trivy.high # {} => Images!Allowed(tree, c, profile) # None
  BY <1>3 DEF Images!CheckTrivy
<1>5. ASSUME Images!Allowed(tree, c, profile) # None
      PROVE  profile = "local-lab" /\ Images!Accepted(c)
  <2>1. profile = "local-lab" /\ c \in Controllers /\ tree.exceptions[c] # None
    BY <1>5 DEF Images!Allowed
  <2>2. Images!LabExceptions(tree, day)
    BY <2>1 DEF Images!CheckImages
  <2>3. tree.exceptions = grants
    BY <2>2 DEF Images!LabExceptions, ImagesIInv
  <2>4. /\ tree.exceptions[c].of = Images!Ref(tree, c)
        /\ Images!WithinDays(tree.exceptions[c].from, tree.exceptions[c].until, day)
        /\ tree.exceptions[c].scan = Images!ScanOf(tree, c)
    BY <2>1, <2>2 DEF Images!LabExceptions, Images!ScanEvidence
  <2> QED
    BY <2>1, <2>3, <2>4 DEF Images!Accepted, Images!WithinDays
<1> QED
  BY <1>2, <1>3, <1>4, <1>5

\* The pair shares its records, so that the receipt is checked as soon as one of them is
\* there; a record's mode says which evidence is.
LEMMA AdmittedPair ==
  ASSUME NEW profile \in {"strict", "local-lab"}
  PROVE  Images!AdmittedTogether(profile)
<1> SUFFICES ASSUME Images!CheckImages(tree, profile, day)
             PROVE  /\ Images!Pair \subseteq Images!Ledger(tree) \/ Images!Pair \cap Images!Ledger(tree) = {}
                    /\ \A c \in Images!Pair \cap Images!Ledger(tree) : tree.scan[c] = Images!Reviewed(c)
                    /\ "polaris" \in Images!Ledger(tree) /\ tree.record["polaris"].mode = Images!Mode("polaris") =>
                         tree.paper[<<"receipt", "pair">>] = "reviewed"
                    /\ "seaweedfs" \in Images!Ledger(tree) /\ tree.record["seaweedfs"].mode = Images!Mode("seaweedfs") =>
                         /\ Images!ScanOf(tree, "seaweedfs") = tree.build.scan
                         /\ Images!ScanOf(tree, "seaweedfs") = tree.build.release.scan
  BY DEF Images!AdmittedTogether
<1>1. \A c \in Images!Ledger(tree) : Images!SupplyChain(tree, c, day)
  BY DEF Images!CheckImages
<1>2. Images!Pair \subseteq Images!Ledger(tree) \/ Images!Pair \cap Images!Ledger(tree) = {}
  <2>1. CASE \A c \in Images!Pair : Images!Ref(tree, c) = Images!Released(c)
    <3>1. \A c \in Images!Pair : tree.digest[c] = "reviewed" /\ c \in Images!Components
      BY <2>1 DEF Images!Ref, Images!Released, Images!Components, Images!Releases
    <3> QED
      BY <3>1, ToolsAssumption DEF Images!Ledger
  <2>2. CASE Images!Pair \cap Images!Ledger(tree) = {}
    BY <2>2
  <2> QED
    BY <2>1, <2>2 DEF Images!CheckImages, Images!AtomicLedger
<1>3. ASSUME NEW c \in Images!Pair \cap Images!Ledger(tree)
      PROVE  Images!AtomicReceipt(tree)
  <2>1. "postgresql" \in Images!Ledger(tree) /\ "postgresql" \in Images!Pair
    BY <1>2 DEF Images!Pair
  <2>2. Images!NeedsReceipt(tree)
    BY <1>1, <2>1 DEF Images!SupplyChain, Images!NeedsReceipt
  <2> QED
    BY <1>1, <2>1, <2>2 DEF Images!SupplyChain
<1>4. ASSUME NEW c \in Images!Pair \cap Images!Ledger(tree)
      PROVE  tree.scan[c] = Images!Reviewed(c)
  BY <1>3 DEF Images!AtomicReceipt, Images!PrimaryEvidence
<1>5. ASSUME "polaris" \in Images!Ledger(tree), tree.record["polaris"].mode = Images!Mode("polaris")
      PROVE  tree.paper[<<"receipt", "pair">>] = "reviewed"
  <2>1. Images!Mode("polaris") = "reviewed_repository_publication" /\ "polaris" \in Images!Pair
    BY DEF Images!Mode, Images!Pair
  <2>2. Images!ReviewedPublication(tree, "polaris")
    BY <1>1, <1>5, <2>1 DEF Images!SupplyChain
  <2>3. tree.receipt.chain = "reviewed"
    BY <2>2 DEF Images!ReviewedPublication, Images!ReleaseEvidence
  <2> QED
    BY <1>3, <1>5, <2>1, <2>3 DEF Images!AtomicReceipt, Images!IsBound
<1>6. ASSUME "seaweedfs" \in Images!Ledger(tree), tree.record["seaweedfs"].mode = Images!Mode("seaweedfs")
      PROVE  /\ Images!ScanOf(tree, "seaweedfs") = tree.build.scan
             /\ Images!ScanOf(tree, "seaweedfs") = tree.build.release.scan
  <2>1. Images!Mode("seaweedfs") = "repository_source_build"
    BY DEF Images!Mode
  <2>2. Images!SourceBuild(tree, "seaweedfs")
    BY <1>1, <1>6, <2>1 DEF Images!SupplyChain
  <2> QED
    BY <2>2 DEF Images!SourceBuild, Images!BoundSources, Images!Certified
<1> QED
  BY <1>2, <1>4, <1>5, <1>6

\* An accepted document is the one that the approval makes, over the reviewed manifest.
LEMMA HidesTheSeen ==
  Images!HidesWhatWasSeen
BY DEF Images!HidesWhatWasSeen, Images!IgnoreAccepted, Images!ValidDocument, Images!ValidManifest,
       Images!Canonical, Images!AuthorizationWindow

\* A tree that passes its checks admits only what was scanned, accepted by the owner and
\* released together, and hides no finding the owner has not seen (check_images, main of
\* the Flux and Trivy checks).
THEOREM OnlyScannedIsAdmitted == ImagesSpec => []AdmissionInv
<1>1. ImagesInit => ImagesIInv
  BY ImagesInitially DEF ImagesInit
<1>2. ImagesIInv /\ [ImagesNext]_<<tool, vars, smokeVars, bootstrapVars, experimentVars, labVars, imagesVars>> => ImagesIInv'
  <2>1. [ImagesNext]_<<tool, vars, smokeVars, bootstrapVars, experimentVars, labVars, imagesVars>> => [Images!Next]_imagesVars
    BY DEF ImagesNext
  <2> QED
    BY <2>1, ImagesStep
<1>3. ImagesIInv => AdmissionInv
  BY AdmittedScanned, AdmittedPair, HidesTheSeen DEF AdmissionInv, Images!AdmissionInv
<1> QED
  BY <1>1, <1>2, <1>3, PTL DEF ImagesSpec
=============================================================================
