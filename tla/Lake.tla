-------------------------------- MODULE Lake --------------------------------
(***************************************************************************)
(* Loads into one Iceberg table: lake_ingest.ingest with its modes replace, *)
(* append (plain, or atomic as the jobs call it) and upsert, and            *)
(* sqlserver_sync.sync, which extracts a source table to a stage,           *)
(* reconciles it, and swaps a candidate in.  Loads are processes or threads *)
(* of their own and take no lock against each other.                        *)
(*                                                                          *)
(* Trino executes each statement as a whole.  Its answer can be lost after  *)
(* the statement took effect, or before: then it may still take effect when *)
(* the client has long gone on to its clean-up.  And it can be executed     *)
(* twice: warehouse_resident.http_json posts a statement again when the     *)
(* connection breaks.  Whether the server runs such a statement twice is its *)
(* own business; Retry takes the worst of it.                               *)
(***************************************************************************)
EXTENDS Naturals, Sequences, FiniteSets, Functions

CONSTANTS Load,       \* the loads
          Key,        \* values of the key column
          Inputs,     \* what each load may be given: the keys of its rows, in their order;
                      \* a batch is one row
          Copies,     \* bound: more copies of a row count as so many
          Modes,      \* the modes a load can be given
          Retry,      \* whether a broken connection can make an INSERT run twice
          None        \* a table that does not exist

Staged == {"replace", "atomic", "upsert"}
Syncs  == {"sync_replace", "sync_append", "sync_upsert"}

AtMost(n) == IF n > Copies THEN Copies ELSE n

Old    == "old"
Row    == Key \X (Load \cup {Old})
Rows   == [Row -> 0..Copies]

\* A statement that Trino still executes, and what it will have done to which table.
Pending == [into: {"stage", "candidate", "create", "replace", "insert"}, rows: Rows]

ASSUME LakeAssumption ==
  /\ IsFiniteSet(Load) /\ IsFiniteSet(Key)
  /\ Modes \subseteq Staged \cup Syncs \cup {"append"}
  /\ None \notin Rows \cup Pending
  /\ Retry \in BOOLEAN /\ Copies \in Nat /\ Copies > 1
  /\ \A l \in Load : \A keys \in Inputs[l] : keys \in Seq(Key) /\ Len(keys) < Copies

VARIABLES target,     \* the table that is loaded
          stage,      \* the stage of each load
          candidate,  \* the candidate of each sync
          pending,    \* the last statement of each load, when it outlives its client
          mode,       \* what each load does
          input,      \* the keys of its rows
          pc,         \* its place
          batches,    \* batches it has written
          known,      \* a sync has seen the target before it extracted
          ok,         \* nothing has been raised so far
          old,        \* history: the rows of the target before the loads
          twice,      \* history: an INSERT into a table of its own took effect twice
          leaked      \* history: its clean-up failed or came too soon, or the process died

vars == <<target, stage, candidate, pending, mode, input, pc, batches, known, ok, old, twice, leaked>>
fixed == <<mode, input, old>>

Empty  == [r \in Row |-> 0]
Table  == Rows \cup {None}
Place  == {"check", "create", "load", "prepare", "keys", "publish", "drop", "audit",
           "extract", "reconcile", "copy", "fill", "metrics", "done", "failed", "crashed"}

One(l, k)     == [Empty EXCEPT ![<<k, l>>] = 1]
Plus(a, b)    == [r \in Row |-> AtMost(a[r] + b[r])]
KeysOf(table) == { r[1] : r \in { s \in Row : table[s] > 0 } }
Single(table, k) == \A r, s \in { q \in Row : q[1] = k /\ table[q] > 0 } : r = s /\ table[r] = 1
Unique(table) == \A k \in Key : Single(table, k)
Distinct(keys) == \A i, j \in DOMAIN keys : keys[i] = keys[j] => i = j
Number(l, k)  == Cardinality({ i \in DOMAIN input[l] : input[l][i] = k })
Exact(l)      == [r \in Row |-> IF r[2] = l THEN Number(l, r[1]) ELSE 0]
Given(table)  == IF table = None THEN Empty ELSE table

\* The rows of the table that have a key, each as often as it is there.
Held(table, k) == Cardinality({ c \in Row \X (1..Copies) : c[1][1] = k /\ c[2] <= table[c[1]] })

\* The merge of upsert_from_stage: an incoming row takes the place of each row with
\* its key, as often as there are such rows; the other rows are retained.
Merged(table, incoming) ==
  [r \in Row |-> IF r[1] \notin KeysOf(incoming) THEN table[r]
                 ELSE IF r[1] \notin KeysOf(table) THEN incoming[r]
                 ELSE AtMost(incoming[r] * Held(table, r[1]))]

\* An upsert keeps one row of each key before it writes any; the other modes load
\* every row they are given.
Upserts(m) == m \in {"upsert", "sync_upsert"}

Loaded(m, keys) ==
  IF ~Upserts(m) THEN {keys}
  ELSE { kept \in UNION { [1..n -> Key] : n \in 0..Len(keys) } :
           Distinct(kept) /\ Range(kept) = Range(keys) }

\* Types; and what is about to be published exists.
TypeOK ==
  /\ target \in Table /\ old \in Table
  /\ stage \in [Load -> Table] /\ candidate \in [Load -> Table]
  /\ pending \in [Load -> Pending \cup {None}]
  /\ mode \in [Load -> Modes] /\ pc \in [Load -> Place]
  /\ \A l \in Load : \E keys \in Inputs[l] : input[l] \in Loaded(mode[l], keys)
  /\ batches \in [Load -> Nat] /\ \A l \in Load : batches[l] <= Len(input[l])
  /\ known \in [Load -> BOOLEAN] /\ ok \in [Load -> BOOLEAN]
  /\ twice \in [Load -> BOOLEAN] /\ leaked \in [Load -> BOOLEAN]
  /\ \A l \in Load : pc[l] \in {"prepare", "keys", "publish"} => stage[l] # None

Init ==
  /\ old = None \/ \E k \in Key, n \in 1..2 : old = [Empty EXCEPT ![<<k, Old>>] = AtMost(n)]
  /\ target = old
  /\ stage = [l \in Load |-> None] /\ candidate = [l \in Load |-> None] /\ pending = [l \in Load |-> None]
  /\ mode \in [Load -> Modes]
  /\ \E given \in { f \in [Load -> UNION Range(Inputs)] : \A l \in Load : f[l] \in Inputs[l] } :
       input \in { f \in [Load -> UNION { Loaded(mode[l], given[l]) : l \in Load }] :
                    \A l \in Load : f[l] \in Loaded(mode[l], given[l]) }
  /\ pc = [l \in Load |-> "check"]
  /\ batches = [l \in Load |-> 0] /\ known = [l \in Load |-> FALSE]
  /\ ok = [l \in Load |-> TRUE]
  /\ twice = [l \in Load |-> FALSE] /\ leaked = [l \in Load |-> FALSE]

-----------------------------------------------------------------------------
(* A step goes on to a place, or raises: into the clean-up of a finally clause. *)

Cleaned(l) == mode[l] # "append"             \* the loads that have tables of their own

Raises(l, cleanup) ==
  /\ pc' = [pc EXCEPT ![l] = IF cleanup /\ Cleaned(l) THEN "drop" ELSE "failed"]
  /\ ok' = [ok EXCEPT ![l] = FALSE]

Goes(l, place) == pc' = [pc EXCEPT ![l] = place] /\ UNCHANGED ok

\* A statement that creates, replaces or extends a table: its answer arrives or is
\* lost, after the effect or before it.
Runs(l, tables, effect, into, rows, place) ==
  \/ tables' = effect /\ (Goes(l, place) \/ Raises(l, TRUE)) /\ UNCHANGED pending
  \/ /\ UNCHANGED tables /\ Raises(l, TRUE)
     /\ pending' = [pending EXCEPT ![l] = [into |-> into, rows |-> rows]]

\* An INSERT of the given rows into the target, which may also take effect twice.
Inserts(l, rows, place) ==
  \/ Runs(l, target, Plus(target, rows), "insert", rows, place)
  \/ /\ Retry /\ target' = Plus(target, Plus(rows, rows))
     /\ Goes(l, place) \/ Raises(l, TRUE)
     /\ UNCHANGED pending

\* An INSERT into a table of the load's own.  When its answer is lost that table is
\* dropped next, and if the INSERT comes too late it finds nothing to insert into.
Fills(l, tables, rows, place) ==
  /\ \E n \in IF Retry THEN {1, 2} ELSE {1} :
       /\ tables' = [tables EXCEPT ![l] = Plus(@, IF n = 1 THEN rows ELSE Plus(rows, rows))]
       /\ twice' = [twice EXCEPT ![l] = @ \/ n = 2]
  /\ Goes(l, place) \/ Raises(l, TRUE)
  /\ UNCHANGED pending

\* Nothing took effect: bad input, policy, a refused statement.
Fails(l) ==
  /\ pc[l] \notin {"check", "drop", "audit", "done", "failed", "crashed"}
  /\ Raises(l, TRUE)
  /\ UNCHANGED <<target, stage, candidate, batches, known, twice, leaked, pending, fixed>>

Crash(l) ==
  /\ pc[l] \notin {"done", "failed", "crashed"}
  /\ pc' = [pc EXCEPT ![l] = "crashed"] /\ leaked' = [leaked EXCEPT ![l] = TRUE]
  /\ UNCHANGED <<target, stage, candidate, batches, known, ok, twice, pending, fixed>>

-----------------------------------------------------------------------------
(* ingest *)

Ingests(l) == mode[l] \notin Syncs

\* The keys of an existing target must be unique before an upsert begins.
ValidKeys(l) == Upserts(mode[l]) /\ target # None => Unique(target)

Check(l) ==
  /\ pc[l] = "check"
  /\ \/ ValidKeys(l) /\ Goes(l, IF mode[l] \in Syncs THEN "extract"
                                ELSE IF mode[l] \in {"append", "atomic"} THEN "create" ELSE "load")
     \/ Raises(l, mode[l] \in Syncs)
  /\ known' = [known EXCEPT ![l] = mode[l] \in {"sync_append", "sync_upsert"} /\ target # None]
  /\ UNCHANGED <<target, stage, candidate, batches, twice, leaked, pending, fixed>>

CreateTarget(l) ==
  /\ pc[l] = "create"
  /\ Runs(l, target, Given(target), "create", Empty, "load")
  /\ UNCHANGED <<stage, candidate, batches, known, twice, leaked, fixed>>

Publishing(l) == CASE mode[l] = "append" -> "audit"
                   [] mode[l] = "upsert" -> "prepare"
                   [] OTHER -> "publish"
AfterBatch(l) == IF batches[l] + 1 < Len(input[l]) THEN "load" ELSE Publishing(l)

\* The first batch creates the stage, also an empty one.
LoadStage(l) ==
  /\ pc[l] = "load" /\ mode[l] \in Staged /\ stage[l] = None
  /\ LET rows == IF input[l] = <<>> THEN Empty ELSE One(l, input[l][1])
     IN  Runs(l, stage, [stage EXCEPT ![l] = rows], "stage", rows,
              IF input[l] = <<>> THEN Publishing(l) ELSE AfterBatch(l))
  /\ batches' = IF input[l] = <<>> THEN batches ELSE [batches EXCEPT ![l] = 1]
  /\ UNCHANGED <<target, candidate, known, twice, leaked, fixed>>

Batch(l) == One(l, input[l][batches[l] + 1])

\* Mutant: an atomic append loads the target itself, batch by batch.
LoadInPlace(l) ==
  /\ pc[l] = "load" /\ batches[l] < Len(input[l]) /\ mode[l] \in {"append", "atomic"}
  /\ Inserts(l, Batch(l), AfterBatch(l))
  /\ batches' = [batches EXCEPT ![l] = @ + 1]
  /\ UNCHANGED <<stage, candidate, known, twice, leaked, fixed>>

\* The next batches are inserted, by a plain append into the target itself.
LoadBatch(l) ==
  /\ pc[l] = "load" /\ batches[l] < Len(input[l])
  /\ \/ mode[l] = "append" /\ Inserts(l, Batch(l), AfterBatch(l)) /\ UNCHANGED <<stage, twice>>
     \/ mode[l] \in Staged /\ stage[l] # None /\ Fills(l, stage, Batch(l), AfterBatch(l)) /\ UNCHANGED target
  /\ batches' = [batches EXCEPT ![l] = @ + 1]
  /\ UNCHANGED <<candidate, known, leaked, fixed>>

LoadNothing(l) ==
  /\ pc[l] = "load" /\ mode[l] = "append" /\ input[l] = <<>>
  /\ Goes(l, "audit")
  /\ UNCHANGED <<target, stage, candidate, batches, known, twice, leaked, pending, fixed>>

\* upsert_from_stage: CREATE TABLE IF NOT EXISTS, then the keys once more.
Prepare(l) ==
  /\ pc[l] = "prepare"
  /\ Runs(l, target, Given(target), "create", Empty, IF input[l] = <<>> THEN "drop" ELSE "keys")
  /\ UNCHANGED <<stage, candidate, batches, known, twice, leaked, fixed>>

Keys(l) ==
  /\ pc[l] = "keys" /\ Unique(target)
  /\ Goes(l, "publish")
  /\ UNCHANGED <<target, stage, candidate, batches, known, twice, leaked, pending, fixed>>

Publish(l) ==
  /\ pc[l] = "publish"
  /\ \/ /\ mode[l] \in {"replace", "upsert"}
        /\ LET table == IF mode[l] = "replace" THEN stage[l] ELSE Merged(target, stage[l])
           IN  Runs(l, target, table, "replace", table, "drop")
     \/ mode[l] = "atomic" /\ Inserts(l, stage[l], "drop")
  /\ UNCHANGED <<stage, candidate, batches, known, twice, leaked, fixed>>

\* The finally clause: a table that cannot be dropped is left with a warning.
AfterDrop(l) == IF ~ok[l] THEN "failed" ELSE IF mode[l] \in Syncs THEN "done" ELSE "audit"

\* Mutant: the candidate is not in the list of what to drop.
DropStage(l) ==
  /\ pc[l] = "drop"
  /\ Goes(l, AfterDrop(l))
  /\ \E dropped \in BOOLEAN :
       /\ stage' = [stage EXCEPT ![l] = IF dropped THEN None ELSE @]
       /\ leaked' = [leaked EXCEPT ![l] = ~dropped]
  /\ UNCHANGED <<target, candidate, batches, known, twice, pending, fixed>>

Drop(l) ==
  /\ pc[l] = "drop"
  /\ Goes(l, AfterDrop(l))
  /\ \E stages, candidates \in BOOLEAN :
       /\ stage' = [stage EXCEPT ![l] = IF stages THEN None ELSE @]
       /\ candidate' = [candidate EXCEPT ![l] = IF candidates THEN None ELSE @]
       /\ leaked' = [leaked EXCEPT ![l] = ~(stages /\ candidates)]
  /\ UNCHANGED <<target, batches, known, twice, pending, fixed>>

\* The audit of the table after the load; a failure of it is a failure of the load.
Audit(l) ==
  /\ pc[l] = "audit"
  /\ Goes(l, "done") \/ Raises(l, FALSE)
  /\ UNCHANGED <<target, stage, candidate, batches, known, twice, leaked, pending, fixed>>

-----------------------------------------------------------------------------
(* sync: the stage is filled by an ingest of its own, by replace or by upsert. *)

\* A batch after the first may have been inserted twice in it.
Extracted(l) ==
  {Exact(l)} \cup (IF Retry THEN { Plus(Exact(l), One(l, input[l][i])) : i \in 2..Len(input[l]) } ELSE {})

Extract(l) ==
  /\ pc[l] = "extract"
  /\ \E rows \in Extracted(l) :
       /\ Runs(l, stage, [stage EXCEPT ![l] = rows], "stage", rows, "reconcile")
       /\ twice' = [twice EXCEPT ![l] = rows # Exact(l)]
  /\ UNCHANGED <<target, candidate, batches, known, leaked, fixed>>

\* Mutant: the metrics are reported and not compared.
Reported(l) == stage[l] # None

\* The stage is compared with what was extracted: number of rows, nulls, keys, amount.
Matches(l) == stage[l] = Exact(l)

Reconcile(l) ==
  /\ pc[l] = "reconcile" /\ Matches(l)
  /\ Goes(l, IF known[l] THEN "copy" ELSE "metrics")
  /\ UNCHANGED <<target, stage, candidate, batches, known, twice, leaked, pending, fixed>>

Copy(l) ==
  /\ pc[l] = "copy"
  /\ Runs(l, candidate, [candidate EXCEPT ![l] = target], "candidate", target, "fill")
  /\ UNCHANGED <<target, stage, batches, known, twice, leaked, fixed>>

\* Into the candidate: an INSERT, or upsert_from_stage with its check of the keys.
Fill(l) ==
  /\ pc[l] = "fill"
  /\ \/ mode[l] = "sync_append" /\ Fills(l, candidate, stage[l], "metrics")
     \/ /\ mode[l] = "sync_upsert" /\ UNCHANGED twice
        /\ input[l] # <<>> => Unique(candidate[l])
        /\ LET rows == Merged(candidate[l], stage[l])
           IN  Runs(l, candidate, [candidate EXCEPT ![l] = rows], "candidate", rows, "metrics")
  /\ UNCHANGED <<target, stage, batches, known, leaked, fixed>>

\* The metrics of what is published are reported, then it is swapped in.
Metrics(l) ==
  /\ pc[l] = "metrics"
  /\ Goes(l, "publish")
  /\ UNCHANGED <<target, stage, candidate, batches, known, twice, leaked, pending, fixed>>

Swap(l) ==
  /\ pc[l] = "publish" /\ mode[l] \in Syncs
  /\ LET table == IF known[l] THEN candidate[l] ELSE stage[l]
     IN  Runs(l, target, table, "replace", table, "drop")
  /\ UNCHANGED <<stage, candidate, batches, known, twice, leaked, fixed>>

\* What Trino still executed for a client that is gone ends: in vain, or with its
\* effect.  A stage or candidate that is there already stays as it is, and one that
\* is created when the client has dropped it stays for good.
LandsOnTarget(l) ==
  \/ pending[l].into = "create" /\ target' = Given(target)
  \/ pending[l].into = "replace" /\ target' = pending[l].rows
  \/ pending[l].into = "insert" /\ target' = Plus(target, pending[l].rows)

LandsOnTable(l) ==
  /\ \/ pending[l].into = "stage" /\ stage[l] = None
        /\ stage' = [stage EXCEPT ![l] = pending[l].rows] /\ UNCHANGED candidate
     \/ pending[l].into = "candidate" /\ candidate[l] = None
        /\ candidate' = [candidate EXCEPT ![l] = pending[l].rows] /\ UNCHANGED stage
  /\ leaked' = [leaked EXCEPT ![l] = @ \/ pc[l] # "drop"]

Lands(l) ==
  /\ pending[l] # None
  /\ pending' = [pending EXCEPT ![l] = None]
  /\ \/ UNCHANGED <<target, stage, candidate, leaked>>
     \/ LandsOnTarget(l) /\ UNCHANGED <<stage, candidate, leaked>>
     \/ LandsOnTable(l) /\ UNCHANGED target
  /\ UNCHANGED <<batches, known, pc, ok, twice, fixed>>

Step(l) ==
  \/ Check(l) \/ Drop(l) \/ Fails(l)
  \/ CreateTarget(l) \/ LoadStage(l) \/ LoadBatch(l) \/ LoadNothing(l)
  \/ Prepare(l) \/ Keys(l) \/ Publish(l) \/ Audit(l)
  \/ Extract(l) \/ Reconcile(l) \/ Copy(l) \/ Fill(l) \/ Metrics(l) \/ Swap(l)

-----------------------------------------------------------------------------
(* Properties *)

Absent(l, table) == table = None \/ \A k \in Key : table[<<k, l>>] = 0
Whole(l, table)  == \A k \in Key : table[<<k, l>>] >= Exact(l)[<<k, l>>]
Awaited(l)       == IF pending[l] = None THEN None ELSE pending[l].rows

\* Readers of the target see a load whole or not at all: the step that first brings in
\* rows of a load that has a stage brings in all of them, whichever statement fails,
\* loses its answer or comes late, and whatever other loads do meanwhile.  Only a
\* plain append is seen batch by batch, and other loads may bring back what they
\* have read before (lake_ingest.py:381-398, sqlserver_sync.py:420).
AllOrNothing ==
  [][\A l \in Load :
       /\ mode[l] # "append" /\ Absent(l, target)
       /\ \A other \in Load \ {l} : Absent(l, candidate[other]) /\ Absent(l, Awaited(other))
       => Absent(l, target') \/ Whole(l, target')]_vars

\* A load that has ended left no stage and no candidate, at whatever statement it
\* failed, unless a drop itself failed (and was logged), the process died, or Trino
\* created the table only after the load had dropped it (lake_ingest.py:399-406,
\* sqlserver_sync.py:425-431).
NoStageLeftBehind ==
  \A l \in Load : pc[l] \in {"done", "failed"} /\ ~leaked[l] => stage[l] = None /\ candidate[l] = None

\* Loads that replace and upsert leave a target with unique keys unique, however
\* they interleave and whichever of their statements comes late, if none ran twice
\* and the keys that they write are unique, which an upsert sees to itself.  The
\* check of the keys is made before the merge and nothing holds the target still in
\* between, so that an append, or repeated keys beside them, are what can spoil it
\* (lake_ingest.py:285-306, 359-372).
KeysStayUnique ==
  /\ \A l \in Load :
       mode[l] \notin {"append", "atomic", "sync_append"} /\ ~twice[l] /\ Distinct(input[l])
  /\ old # None => Unique(old)
  => (target # None => Unique(target))

\* Loads leave the catalog as tidy as they found it (ingest, sync).
LakeInv == TypeOK /\ NoStageLeftBehind /\ KeysStayUnique

\* A sync's publication takes effect now, or late.
Publishes(l) ==
  /\ target' # target
  /\ \/ pc[l] = "publish" /\ pc'[l] # "publish"
     \/ pending[l] # None /\ pending'[l] = None /\ pending[l].into = "replace"

\* What a replacing sync swaps in is its batch, row for row, though the stage it was
\* extracted to may hold a row twice: the reconciliation stands between the two.
\* An upserting sync of some rows leaves unique keys, whatever became of the target
\* between its copy and its swap, and also when the swap itself comes late
\* (sqlserver_sync.py:393-420).
SyncPublishesItsBatch ==
  [][\A l \in Load : Publishes(l)
       => /\ mode[l] = "sync_replace" => target' = Exact(l)
          /\ mode[l] = "sync_upsert" /\ known[l] /\ input[l] # <<>> => Unique(target')]_vars

Ended == \A l \in Load : pc[l] \in {"done", "failed", "crashed"}

Next == (\E l \in Load : Step(l) \/ Crash(l) \/ Lands(l)) \/ (Ended /\ UNCHANGED vars)

Spec == Init /\ [][Next]_vars
=============================================================================
