---------------------------- MODULE ObjectStorage ----------------------------
(***************************************************************************)
(* scripts/object_storage_backup.py and object_storage_s3.py: exports of an *)
(* S3 bucket into a directory, and the restore of an export into an empty   *)
(* bucket, while other clients write to the bucket, requests fail, answers  *)
(* are lost and processes die.                                              *)
(*                                                                          *)
(* An object is its content; the store lists a bucket page by page, and     *)
(* tells of an object its size.  A digest stands for the content itself.    *)
(***************************************************************************)
EXTENDS Naturals, Sequences, FiniteSetsExt, SequencesExt

CONSTANTS Export,     \* the exports, all to one destination
          KeyOrder,   \* the keys of the bucket, in the order of a listing; one to a page
          Content,    \* what an object may hold
          Size,       \* its size
          Forged,     \* what a file holds that was altered on the disk
          MaxWrites,  \* bound: writes of other clients
          None

Key     == ToSet(KeyOrder)
Objects == [Key -> Content \cup {Forged, None}]
Copy    == [by : Export, records : [Key -> Content \cup {None}], altered : SUBSET Content, whole : BOOLEAN]

ASSUME StorageAssumption ==
  /\ KeyOrder \in Seq(Key) /\ KeyOrder # <<>> /\ IsInjective(KeyOrder)
  /\ Size \in [Content -> Nat] /\ MaxWrites \in Nat
  /\ Forged \notin Content \cup {None} /\ None \notin Content \cup Copy \cup Nat

VARIABLES bucket,     \* the objects
          writes,     \* writes of other clients
          dest,       \* the directory at the destination
          epc,        \* the place of each export
          at,         \* the key it is at
          listed,     \* the sizes it has listed
          records,    \* the objects it has downloaded
          rpc,        \* the place of the restore
          next,       \* the key it is at
          plan,       \* what its manifest lists
          seen,       \* history: the bucket when an export began; None once written to
          found,      \* history: the keys in the bucket when the restore began to look,
                      \* and not written to since
          quiet       \* history: nobody else has written since then

exporting == <<epc, at, listed, records>>
restoring == <<rpc, next, plan>>
vars == <<bucket, writes, dest, exporting, restoring, seen, found, quiet>>

Nothing == [k \in Key |-> None]
ExportPlace  == {"begin", "list", "get", "seal", "check", "publish", "sync", "remove",
                 "done", "failed", "crashed"}
RestorePlace == {"begin", "look", "put", "verify", "done", "failed"}

TypeOK ==
  /\ bucket \in Objects /\ writes \in 0..MaxWrites /\ dest \in Copy \cup {None}
  /\ epc \in [Export -> ExportPlace] /\ at \in [Export -> 1..Len(KeyOrder) + 1]
  /\ listed \in [Export -> [Key -> Range(Size) \cup {None}]]
  /\ records \in [Export -> [Key -> Content \cup {None}]]
  /\ rpc \in RestorePlace /\ next \in 1..Len(KeyOrder) + 1 /\ plan \in [Key -> Content \cup {None}]
  /\ seen \in [Export -> Objects \cup {None}] /\ found \subseteq Key /\ quiet \in BOOLEAN

Init ==
  /\ bucket \in { b \in Objects : \A k \in Key : b[k] # Forged }
  /\ writes = 0 /\ dest = None
  /\ epc = [e \in Export |-> "begin"] /\ at = [e \in Export |-> 1]
  /\ listed = [e \in Export |-> Nothing] /\ records = [e \in Export |-> Nothing]
  /\ rpc = "begin" /\ next = 1 /\ plan = Nothing
  /\ seen = [e \in Export |-> None] /\ found = {} /\ quiet = TRUE

-----------------------------------------------------------------------------
(* The world. *)

\* Another client puts or deletes an object.
Write ==
  /\ writes < MaxWrites /\ writes' = writes + 1
  /\ \E k \in Key, c \in Content \cup {None} :
       c # bucket[k] /\ bucket' = [bucket EXCEPT ![k] = c] /\ found' = found \ {k}
  /\ seen' = [e \in Export |-> None] /\ quiet' = FALSE
  /\ UNCHANGED <<dest, exporting, restoring>>

\* The volume of the store is lost; an export is kept outside of it.
Lose ==
  /\ rpc = "begin" /\ bucket # Nothing /\ \E e \in Export : epc[e] = "done"
  /\ bucket' = Nothing
  /\ seen' = [e \in Export |-> None]
  /\ UNCHANGED <<writes, dest, exporting, restoring, found, quiet>>

\* A file of the export is altered.
Alter ==
  /\ dest # None
  /\ \E c \in Content \ dest.altered : dest' = [dest EXCEPT !.altered = @ \cup {c}]
  /\ UNCHANGED <<bucket, writes, exporting, restoring, seen, found, quiet>>

-----------------------------------------------------------------------------
(* export_bucket *)

world == <<bucket, writes, restoring, found, quiet>>
Goes(e, place) == epc' = [epc EXCEPT ![e] = place]

\* An export that has ended forgets what it had listed and downloaded.
Ends(e, place) ==
  /\ Goes(e, place)
  /\ listed' = [listed EXCEPT ![e] = Nothing] /\ records' = [records EXCEPT ![e] = Nothing]
  /\ at' = [at EXCEPT ![e] = 1]

Begin(e) ==
  /\ epc[e] = "begin"
  /\ Goes(e, IF dest # None THEN "failed" ELSE "list")
  /\ seen' = [seen EXCEPT ![e] = bucket]
  /\ UNCHANGED <<world, dest, at, listed, records>>

Advance(e, place) ==
  /\ at' = [at EXCEPT ![e] = IF @ < Len(KeyOrder) THEN @ + 1 ELSE 1]
  /\ IF at[e] < Len(KeyOrder) THEN UNCHANGED epc ELSE Goes(e, place)

SizeOf(content) == IF content = None THEN None ELSE Size[content]

ListPage(e) ==
  /\ epc[e] = "list"
  /\ listed' = [listed EXCEPT ![e][KeyOrder[at[e]]] = SizeOf(bucket[KeyOrder[at[e]]])]
  /\ Advance(e, "get")
  /\ UNCHANGED <<world, dest, records, seen>>

\* What was listed is downloaded; it must still be there, with that size.
Get(e) ==
  /\ epc[e] = "get"
  /\ LET k == KeyOrder[at[e]] IN
     /\ SizeOf(bucket[k]) = listed[e][k] \/ listed[e][k] = None
     /\ records' = [records EXCEPT ![e][k] = IF listed[e][k] = None THEN None ELSE bucket[k]]
  /\ Advance(e, "seal")
  /\ UNCHANGED <<world, dest, listed, seen>>

\* The manifest is written, the staging directory synced.
Seal(e) ==
  /\ epc[e] = "seal" /\ Goes(e, "check")
  /\ UNCHANGED <<world, dest, at, listed, records, seen>>

CheckDestination(e) ==
  /\ epc[e] = "check"
  /\ IF dest # None THEN Ends(e, "failed") ELSE Goes(e, "publish") /\ UNCHANGED <<at, listed, records>>
  /\ UNCHANGED <<world, dest, seen>>

Staged(e) == [by |-> e, records |-> records[e], altered |-> {}, whole |-> TRUE]

\* Mutant: a directory that has appeared is removed first.
PublishOver(e) ==
  /\ epc[e] = "publish" /\ dest' = Staged(e) /\ Goes(e, "sync")
  /\ UNCHANGED <<world, at, listed, records, seen>>

\* A rename, which fails over a directory that is not empty.
Publish(e) ==
  /\ epc[e] = "publish"
  /\ dest = None /\ dest' = Staged(e) /\ Goes(e, "sync")
  /\ UNCHANGED <<world, at, listed, records, seen>>

\* A published export whose directory could not be synced is removed, file by file.
Sync(e) ==
  /\ epc[e] = "sync"
  /\ \/ Ends(e, "done") /\ UNCHANGED dest
     \/ Ends(e, "remove") /\ dest' = [dest EXCEPT !.whole = FALSE]
  /\ UNCHANGED <<world, seen>>

TakeBack(e) ==
  /\ epc[e] = "remove" /\ dest' = None /\ Goes(e, "failed")
  /\ UNCHANGED <<world, at, listed, records, seen>>

\* A request or a write fails, what was listed is gone: the staging directory is removed.
ExportFails(e) ==
  /\ epc[e] \in {"list", "get", "seal", "check", "publish"} /\ Ends(e, "failed")
  /\ UNCHANGED <<world, dest, seen>>

ExportDies(e) ==
  /\ epc[e] \notin {"begin", "done", "failed", "crashed"} /\ Ends(e, "crashed")
  /\ UNCHANGED <<world, dest, seen>>

ExportStep(e) ==
  \/ Begin(e) \/ ListPage(e) \/ Get(e) \/ Seal(e) \/ CheckDestination(e)
  \/ Publish(e) \/ Sync(e) \/ TakeBack(e) \/ ExportFails(e) \/ ExportDies(e)

-----------------------------------------------------------------------------
(* restore_bucket *)

others == <<writes, dest, exporting, seen>>

\* The manifest, and each file it names, are verified first.
Preflight ==
  /\ rpc = "begin" /\ dest # None /\ dest.whole
  /\ \A k \in Key : dest.records[k] \notin dest.altered
  /\ plan' = dest.records /\ rpc' = "look" /\ next' = 1
  /\ found' = { k \in Key : bucket[k] # None } /\ quiet' = TRUE
  /\ UNCHANGED <<bucket, others>>

\* Mutant: one page of the listing is looked at.
LookOnce ==
  /\ rpc = "look" /\ bucket[KeyOrder[1]] = None
  /\ rpc' = "put" /\ UNCHANGED <<bucket, others, next, plan, found, quiet>>

\* The bucket must be empty: the pages of its listing.
Look ==
  /\ rpc = "look" /\ bucket[KeyOrder[next]] = None
  /\ IF next < Len(KeyOrder) THEN next' = next + 1 /\ UNCHANGED rpc ELSE next' = 1 /\ rpc' = "put"
  /\ UNCHANGED <<bucket, others, plan, found, quiet>>

Following == IF next < Len(KeyOrder) THEN next' = next + 1 /\ rpc' = "put" ELSE next' = 1 /\ rpc' = "done"

Skip ==
  /\ rpc = "put" /\ plan[KeyOrder[next]] = None
  /\ Following
  /\ UNCHANGED <<bucket, others, plan, found, quiet>>

\* The file is read and verified once more, and what was read is sent.
Put ==
  /\ rpc = "put" /\ plan[KeyOrder[next]] # None
  /\ dest # None /\ plan[KeyOrder[next]] \notin dest.altered
  /\ bucket' = [bucket EXCEPT ![KeyOrder[next]] = plan[KeyOrder[next]]]
  /\ rpc' \in {"verify", "failed"} /\ seen' = [e \in Export |-> None]
  /\ UNCHANGED <<writes, dest, exporting, next, plan, found, quiet>>

Verify ==
  /\ rpc = "verify" /\ bucket[KeyOrder[next]] = plan[KeyOrder[next]]
  /\ Following
  /\ UNCHANGED <<bucket, others, plan, found, quiet>>

\* Refused, a failed request, or the end of the process.
RestoreFails ==
  /\ rpc \in {"look", "put", "verify"} /\ rpc' = "failed"
  /\ UNCHANGED <<bucket, others, next, plan, found, quiet>>

RestoreStep == Preflight \/ Look \/ Skip \/ Put \/ Verify \/ RestoreFails

-----------------------------------------------------------------------------
Next ==
  \/ Write \/ Lose \/ Alter
  \/ \E e \in Export : ExportStep(e)
  \/ RestoreStep

Spec == Init /\ [][Next]_vars

-----------------------------------------------------------------------------
(* Properties *)

\* An export that was reported done is at the destination, whole, and no other export
\* to the same place ends up there: the check and the rename are two steps, and a
\* failed export removes what is at the destination only if it put it there
\* (object_storage_backup.py:251-276).
DoneExportsStay ==
  \A e \in Export : epc[e] = "done" => dest # None /\ dest.by = e /\ dest.whole

\* If nobody wrote meanwhile, an export is the bucket, every page of it
\* (object_storage_backup.py:209-239, object_storage_s3.py:316-355).
QuietExportsAreExact ==
  \A e \in Export : epc[e] = "done" /\ seen[e] # None => dest.records = seen[e]

\* A restore puts nothing over an object that was there when it began to look and is
\* there still (object_storage_backup.py:375-376).
RestoreSparesObjects ==
  [][restoring' # restoring => \A k \in found : bucket'[k] = bucket[k] ]_vars

\* A restore that succeeds without another writer leaves the bucket as it was
\* exported, and no restore ever sends bytes that differ from the manifest, though
\* the files may be altered after they were verified
\* (object_storage_backup.py:378-392).
RestoredIsExported ==
  /\ rpc = "done" /\ quiet => bucket = plan
  /\ \A k \in Key : bucket[k] # Forged

\* Exports that are done are whole, exact and stay; restores bring back what was
\* exported (export_bucket, restore_bucket).
StorageInv == TypeOK /\ DoneExportsStay /\ QuietExportsAreExact /\ RestoredIsExported
=============================================================================
