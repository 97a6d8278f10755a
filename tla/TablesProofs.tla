----------------------------- MODULE TablesProofs -----------------------------
(***************************************************************************)
(* Theorems about the tables of the lake, in two parts that share nothing: *)
(* the loads and syncs of Lake, and the managed mart of Marts, which is    *)
(* the instance Marts of MCTables under the specification TLC checks.      *)
(***************************************************************************)
EXTENDS MCTables, FiniteSetTheorems, TLAPS

(***************************************************************************)
(* Proofs about the loads into a table, for any loads, keys and batches.   *)
(*                                                                         *)
(* Readers see a load whole or not at all because what replaces or joins   *)
(* the target is whole: the stage holds the load's batches so far and only *)
(* its own rows, a place from which it is published is reached with the    *)
(* last batch, and a candidate is swapped in only when the stage has been  *)
(* merged into it; what a statement that outlives its client carries is    *)
(* what it was posted with.  Nothing left behind: a load comes to its end  *)
(* by the clean-up, or had no tables.                                      *)
(***************************************************************************)

\* Which modes come to a place.
ModeFits(l) ==
  /\ pc[l] = "create" => mode[l] \in {"append", "atomic"}
  /\ pc[l] \in {"load", "audit"} => mode[l] \notin Syncs
  /\ pc[l] \in {"prepare", "keys"} => mode[l] = "upsert"
  /\ pc[l] \in {"extract", "reconcile", "copy", "fill", "metrics"} => mode[l] \in Syncs
  /\ pc[l] \in {"publish", "drop"} => mode[l] # "append"
  /\ pc[l] \in {"copy", "fill"} => known[l]
  /\ known[l] => mode[l] \in {"sync_append", "sync_upsert"}

\* The tables that a step reads or writes are there.
Needs(l) == \/ known[l]
            \/ pc[l] = "load" /\ mode[l] \in {"append", "atomic"}
            \/ pc[l] = "keys"
            \/ pc[l] = "publish" /\ mode[l] \in {"upsert", "atomic"}
There(l) ==
  /\ Needs(l) => target # None
  /\ pc[l] \in {"reconcile", "copy", "fill", "metrics", "prepare", "keys", "publish"} => stage[l] # None
  /\ pc[l] = "fill" \/ (pc[l] \in {"metrics", "publish"} /\ known[l]) => candidate[l] # None

\* How often a key is among the first keys of a batch.
Times(keys, k, n) == Cardinality({ i \in 1..n : keys[i] = k })

\* What a load has in its stage: rows of its own, at least the batches so far, and no
\* others unless a statement ran twice; for a sync that has been reconciled, its batch.
Over        == {"drop", "audit", "done", "failed", "crashed"}
Owns(l, rows) == \A r \in Row : r[2] # l => rows[r] = 0
Filled(l)     == \A k \in Key : /\ stage[l][<<k, l>>] >= Times(input[l], k, batches[l])
                                /\ ~twice[l] => stage[l][<<k, l>>] = Times(input[l], k, batches[l])
StageFits(l) ==
  /\ stage[l] # None /\ pc[l] \notin Over =>
       /\ Owns(l, stage[l])
       /\ mode[l] \in Staged => Filled(l)
       /\ pc[l] \in {"copy", "fill", "metrics", "publish"} /\ mode[l] \in Syncs => stage[l] = Exact(l)
  /\ pc[l] \in {"check", "create"} => batches[l] = 0
  /\ mode[l] \in Staged /\ pc[l] = "load" /\ stage[l] = None => batches[l] = 0
  /\ mode[l] \in Staged /\ pc[l] \in {"prepare", "keys", "publish"} => batches[l] = Len(input[l])

\* What is about to be swapped in has the whole batch, by an upsert with unique keys.
CandidateFits(l) ==
  pc[l] \in {"metrics", "publish"} /\ known[l] =>
    /\ Whole(l, candidate[l])
    /\ mode[l] = "sync_upsert" /\ input[l] # <<>> => Unique(candidate[l])

\* The tables of a load that has not made them, or has dropped them.
Tidy(l) == stage[l] = None /\ candidate[l] = None
TidyFits(l) ==
  /\ pc[l] = "check" \/ mode[l] = "append" => Tidy(l)
  /\ pc[l] \in {"audit", "done", "failed"} /\ ~leaked[l] => Tidy(l)

\* What a statement that has outlived its client will do.
Carries(l, p) ==
  /\ p.into \in {"stage", "candidate"} => mode[l] # "append"
  /\ p.into \in {"replace", "insert"} /\ mode[l] # "append" => Whole(l, p.rows)
  /\ p.into = "insert" => mode[l] \in {"append", "atomic"} /\ target # None /\ Owns(l, p.rows)
  /\ p.into = "replace" => /\ mode[l] = "sync_replace" => p.rows = Exact(l)
                           /\ mode[l] = "sync_upsert" /\ known[l] /\ input[l] # <<>> => Unique(p.rows)
PendingFits(l) == pending[l] # None => pc[l] \in Over /\ Carries(l, pending[l])

LoadInv(l) == ModeFits(l) /\ There(l) /\ StageFits(l) /\ CandidateFits(l) /\ TidyFits(l) /\ PendingFits(l)

\* While nothing runs twice, nobody appends and the keys of each batch are unique,
\* every table keeps its keys unique, those that are still to come included.
Calm ==
  /\ \A l \in Load : mode[l] \notin {"append", "atomic", "sync_append"} /\ ~twice[l] /\ Distinct(input[l])
  /\ old # None => Unique(old)
Brings(p) == p # None /\ p.into \in {"replace", "candidate"}
UniqueInv ==
  /\ \A l \in Load : pc[l] \in {"check", "extract"} => ~twice[l]
  /\ Calm => /\ target # None => Unique(target)
             /\ \A l \in Load : candidate[l] # None => Unique(candidate[l])
             /\ \A l \in Load : Brings(pending[l]) => Unique(pending[l].rows)

LakeIInv == TypeOK /\ (\A l \in Load : LoadInv(l)) /\ UniqueInv

-----------------------------------------------------------------------------
(* Counting. *)

LEMMA TimesCounts ==
  ASSUME NEW keys, NEW k, NEW n \in Nat
  PROVE  /\ Times(keys, k, n) \in Nat
         /\ Times(keys, k, 0) = 0
         /\ Times(keys, k, n + 1) = Times(keys, k, n) + IF keys[n + 1] = k THEN 1 ELSE 0
         /\ Times(keys, k, n) <= n
<1> DEFINE At(i) == { j \in 1..i : keys[j] = k }
<1>1. IsFiniteSet(1..n) /\ Cardinality(1..n) = n
  BY FS_Interval
<1>2. IsFiniteSet(At(n)) /\ Cardinality(At(n)) \in Nat /\ Cardinality(At(n)) <= n
  <2>1. At(n) \in SUBSET (1..n)
    OBVIOUS
  <2> HIDE DEF At
  <2> QED BY <1>1, <2>1, FS_Subset, FS_CardinalityType
<1>3. At(0) = {}
  OBVIOUS
<1>4. At(n + 1) = (IF keys[n + 1] = k THEN At(n) \cup {n + 1} ELSE At(n)) /\ n + 1 \notin At(n)
  OBVIOUS
<1> HIDE DEF At
<1>5. Cardinality(At(n + 1)) = Cardinality(At(n)) + IF keys[n + 1] = k THEN 1 ELSE 0
  <2>1. CASE keys[n + 1] = k
    <3>1. At(n + 1) = At(n) \cup {n + 1} /\ n + 1 \notin At(n) /\ IsFiniteSet(At(n))
      BY <1>2, <1>4, <2>1
    <3>2. Cardinality(At(n) \cup {n + 1}) = Cardinality(At(n)) + 1
      BY ONLY <3>1, FS_AddElement
    <3> QED BY <2>1, <3>1, <3>2
  <2>2. CASE keys[n + 1] # k
    <3>1. At(n + 1) = At(n)
      BY <1>4, <2>2
    <3> QED BY <1>2, <2>2, <3>1
  <2> QED BY <2>1, <2>2
<1>6. Cardinality(At(0)) = 0
  BY <1>3, FS_EmptySet
<1> QED BY <1>2, <1>5, <1>6 DEF Times, At

LEMMA TimesOfDistinct ==
  ASSUME NEW keys, NEW k, NEW n \in Nat, DOMAIN keys = 1..Len(keys), Len(keys) \in Nat, n <= Len(keys), Distinct(keys)
  PROVE  Times(keys, k, n) <= 1
<1> DEFINE at == { j \in 1..n : keys[j] = k }
<1>1. CASE at = {}
  BY <1>1, FS_EmptySet DEF Times
<1>2. CASE at # {}
  <2>1. PICK i \in at : TRUE
    BY <1>2
  <2>2. \A j \in at : i \in DOMAIN keys /\ j \in DOMAIN keys /\ keys[i] = keys[j]
    OBVIOUS
  <2>3. at = {i}
    BY <2>1, <2>2 DEF Distinct
  <2> HIDE DEF at
  <2>4. Cardinality(at) = 1
    BY <2>3, FS_Singleton
  <2> QED BY <2>4 DEF Times, at
<1> QED BY <1>1, <1>2

LEMMA FiniteRows == IsFiniteSet(Row \X (1..Copies))
<1>1. IsFiniteSet(Key) /\ IsFiniteSet(Load) /\ Copies \in Nat
  BY LakeAssumption
<1>2. IsFiniteSet(Load \cup {Old})
  BY <1>1, FS_AddElement
<1>3. IsFiniteSet(Row)
  BY <1>1, <1>2, FS_Product DEF Row
<1>4. IsFiniteSet(1..Copies)
  BY <1>1, FS_Interval
<1> QED BY <1>3, <1>4, FS_Product

LEMMA HeldCounts ==
  ASSUME NEW table \in Rows, NEW k \in Key
  PROVE  /\ Held(table, k) \in Nat
         /\ k \in KeysOf(table) => Held(table, k) >= 1
         /\ k \in KeysOf(table) /\ Single(table, k) => Held(table, k) = 1
<1> DEFINE held == { c \in Row \X (1..Copies) : c[1][1] = k /\ c[2] <= table[c[1]] }
<1>1. held \in SUBSET (Row \X (1..Copies))
  OBVIOUS
<1>2. IsFiniteSet(held) /\ Cardinality(held) \in Nat
  <2> HIDE DEF held
  <2> QED BY <1>1, FiniteRows, FS_Subset, FS_CardinalityType
<1>3. k \in KeysOf(table) => held # {}
  <2>1. ASSUME NEW r \in Row, table[r] > 0, r[1] = k PROVE <<r, 1>> \in held
    <3>1. Copies \in Nat /\ table[r] \in 0..Copies
      BY LakeAssumption DEF Rows
    <3>2. 1 \in 1..Copies /\ 1 <= table[r]
      BY <2>1, <3>1
    <3>3. <<r, 1>> \in Row \X (1..Copies) /\ <<r, 1>>[1] = r /\ <<r, 1>>[2] = 1
      BY <3>2
    <3> QED BY <2>1, <3>2, <3>3
  <2> QED BY <2>1 DEF KeysOf
<1>4. ASSUME k \in KeysOf(table), Single(table, k) PROVE \E c : held = {c}
  <2>1. PICK c \in held : TRUE
    BY <1>3, <1>4
  <2>2. ASSUME NEW d \in held PROVE d = c
    <3>1. /\ c[1] \in Row /\ c[2] \in 1..Copies /\ c[1][1] = k /\ c[2] <= table[c[1]] /\ c = <<c[1], c[2]>>
          /\ d[1] \in Row /\ d[2] \in 1..Copies /\ d[1][1] = k /\ d[2] <= table[d[1]] /\ d = <<d[1], d[2]>>
      BY <2>1, <2>2
    <3>2. Copies \in Nat /\ table[c[1]] \in 0..Copies /\ table[d[1]] \in 0..Copies
      BY <3>1, LakeAssumption DEF Rows
    <3>3. table[c[1]] > 0 /\ table[d[1]] > 0
      BY <3>1, <3>2
    <3>4. c[1] = d[1] /\ table[c[1]] = 1
      BY <1>4, <3>1, <3>3 DEF Single
    <3>5. c[2] = 1 /\ d[2] = 1
      BY <3>1, <3>2, <3>4
    <3> QED BY <3>1, <3>4, <3>5
  <2> QED BY <2>1, <2>2
<1> HIDE DEF held
<1>5. held # {} => Cardinality(held) >= 1
  BY <1>2, FS_EmptySet
<1>6. (\E c : held = {c}) => Cardinality(held) = 1
  BY <1>2, FS_Singleton
<1> QED BY <1>2, <1>3, <1>4, <1>5, <1>6 DEF Held, held

-----------------------------------------------------------------------------
(* Tables. *)

LEMMA RowsAre ==
  ASSUME NEW x \in Rows, NEW r \in Row
  PROVE  x[r] \in Nat /\ x[r] <= Copies /\ Copies \in Nat /\ Copies > 1
BY LakeAssumption DEF Rows

LEMMA PlusRows ==
  ASSUME NEW x \in Rows, NEW y \in Rows
  PROVE  /\ Plus(x, y) \in Rows
         /\ \A r \in Row : /\ x[r] = 0 => Plus(x, y)[r] = y[r]
                           /\ y[r] = 0 => Plus(x, y)[r] = x[r]
                           /\ Plus(x, y)[r] >= x[r] /\ Plus(x, y)[r] >= y[r]
                           /\ Plus(x, y)[r] = AtMost(x[r] + y[r])
<1>1. \A r \in Row : x[r] \in Nat /\ y[r] \in Nat /\ x[r] <= Copies /\ y[r] <= Copies /\ Copies \in Nat
  BY RowsAre
<1>2. \A r \in Row : Plus(x, y)[r] = AtMost(x[r] + y[r])
  BY DEF Plus
<1>3. \A r \in Row : /\ AtMost(x[r] + y[r]) \in 0..Copies
                     /\ x[r] = 0 => AtMost(x[r] + y[r]) = y[r]
                     /\ y[r] = 0 => AtMost(x[r] + y[r]) = x[r]
                     /\ AtMost(x[r] + y[r]) >= x[r] /\ AtMost(x[r] + y[r]) >= y[r]
  BY <1>1 DEF AtMost
<1>4. Plus(x, y) \in Rows
  BY <1>3 DEF Plus, Rows
<1> QED BY <1>2, <1>3, <1>4

LEMMA EmptyRows == Empty \in Rows /\ \A r \in Row : Empty[r] = 0
BY LakeAssumption DEF Empty, Rows

LEMMA OneRow ==
  ASSUME NEW l \in Load, NEW k \in Key
  PROVE  /\ One(l, k) \in Rows /\ <<k, l>> \in Row
         /\ \A r \in Row : One(l, k)[r] = IF r = <<k, l>> THEN 1 ELSE 0
         /\ Owns(l, One(l, k))
         /\ \A j \in Key : One(l, k)[<<j, l>>] = IF j = k THEN 1 ELSE 0
<1>1. <<k, l>> \in Row
  BY DEF Row
<1>2. One(l, k) \in Rows /\ \A r \in Row : One(l, k)[r] = IF r = <<k, l>> THEN 1 ELSE 0
  BY <1>1, EmptyRows, LakeAssumption DEF One, Rows
<1>3. <<k, l>>[2] = l
  OBVIOUS
<1>4. \A j \in Key : <<j, l>> \in Row /\ (<<j, l>> = <<k, l>> <=> j = k)
  BY DEF Row
<1> QED BY <1>1, <1>2, <1>3, <1>4 DEF Owns

LEMMA SingleRows ==
  ASSUME NEW table \in Rows, NEW k \in Key
  PROVE  Single(table, k) <=>
           \A r, s \in Row : r[1] = k /\ s[1] = k /\ table[r] > 0 /\ table[s] > 0 => r = s /\ table[r] = 1
BY DEF Single

LEMMA RowIs == \A r \in Row : r = <<r[1], r[2]>> /\ r[1] \in Key
BY DEF Row

LEMMA AtLeastItself ==
  ASSUME NEW x \in Nat, NEW h \in Nat, h >= 1
  PROVE  x * h \in Nat /\ x * h >= x
<1>1. PICK g \in Nat : h = g + 1
  <2>1. h - 1 \in Nat /\ h = (h - 1) + 1
    OBVIOUS
  <2> QED BY <2>1
<1>2. x * h = x * g + x
  BY <1>1
<1>3. x * g \in Nat
  OBVIOUS
<1> QED BY <1>2, <1>3

LEMMA NothingTimes == \A h \in Nat : 0 * h = 0
OBVIOUS

\* A merge keeps the rows of other keys, takes each incoming row at least as often, and
\* leaves no key of two rows if neither the table nor the incoming rows have one.
LEMMA MergedRows ==
  ASSUME NEW table \in Rows, NEW incoming \in Rows
  PROVE  /\ Merged(table, incoming) \in Rows
         /\ \A r \in Row : /\ Merged(table, incoming)[r] >= incoming[r]
                           /\ incoming[r] = 0 /\ table[r] = 0 => Merged(table, incoming)[r] = 0
<1> DEFINE m == Merged(table, incoming)
<1>1. \A r \in Row : /\ table[r] \in Nat /\ incoming[r] \in Nat /\ table[r] <= Copies
                     /\ incoming[r] <= Copies /\ Copies \in Nat
  BY RowsAre
<1>2. \A r \in Row : m[r] = IF r[1] \notin KeysOf(incoming) THEN table[r]
                            ELSE IF r[1] \notin KeysOf(table) THEN incoming[r]
                            ELSE AtMost(incoming[r] * Held(table, r[1]))
  BY DEF Merged
<1>3. ASSUME NEW r \in Row
      PROVE  /\ m[r] \in 0..Copies /\ m[r] >= incoming[r]
             /\ incoming[r] = 0 /\ table[r] = 0 => m[r] = 0
  <2>1. r[1] \in Key /\ (incoming[r] > 0 => r[1] \in KeysOf(incoming))
    BY RowIs DEF KeysOf
  <2>2. CASE r[1] \notin KeysOf(incoming)
    BY <1>1, <1>2, <2>1, <2>2
  <2>3. CASE r[1] \in KeysOf(incoming) /\ r[1] \notin KeysOf(table)
    BY <1>1, <1>2, <2>3
  <2>4. CASE r[1] \in KeysOf(incoming) /\ r[1] \in KeysOf(table)
    <3> DEFINE x == incoming[r]
               h == Held(table, r[1])
    <3>1. m[r] = AtMost(x * h)
      BY <1>2, <2>4
    <3>2. x \in Nat /\ x <= Copies /\ h \in Nat /\ h >= 1 /\ Copies \in Nat
      BY <1>1, <2>1, <2>4, HeldCounts
    <3> HIDE DEF x, h
    <3>3. x * h \in Nat /\ x * h >= x /\ (x = 0 => x * h = 0)
      BY <3>2, AtLeastItself, NothingTimes
    <3> DEFINE y == x * h
    <3> HIDE DEF y
    <3>4. y \in Nat /\ y >= x /\ (x = 0 => y = 0) /\ m[r] = AtMost(y)
      BY <3>1, <3>3 DEF y
    <3>5. m[r] \in 0..Copies /\ m[r] >= x /\ (x = 0 => m[r] = 0)
      BY <3>2, <3>4 DEF AtMost
    <3> QED BY <3>5 DEF x
  <2> QED BY <2>2, <2>3, <2>4
<1>4. m \in Rows
  <2>1. m = [r \in Row |-> m[r]]
    BY DEF Merged
  <2> HIDE DEF m
  <2> QED BY <1>3, <2>1 DEF Rows
<1> QED BY <1>3, <1>4

LEMMA MergedUnique ==
  ASSUME NEW table \in Rows, NEW incoming \in Rows, Unique(table),
         NEW l \in Load, Owns(l, incoming), \A r \in Row : incoming[r] <= 1
  PROVE  Unique(Merged(table, incoming))
<1> DEFINE m == Merged(table, incoming)
<1>1. \A r \in Row : table[r] \in Nat /\ incoming[r] \in Nat /\ Copies \in Nat /\ Copies > 1
  BY RowsAre
<1>2. \A r \in Row : m[r] = IF r[1] \notin KeysOf(incoming) THEN table[r] ELSE incoming[r]
  <2> SUFFICES ASSUME NEW r \in Row, r[1] \in KeysOf(incoming), r[1] \in KeysOf(table)
               PROVE  AtMost(incoming[r] * Held(table, r[1])) = incoming[r]
    BY DEF Merged
  <2>1. Held(table, r[1]) = 1
    BY RowIs, HeldCounts DEF Unique
  <2>2. incoming[r] * 1 = incoming[r]
    BY <1>1
  <2> QED BY <1>1, <2>1, <2>2 DEF AtMost
<1>3. m \in Rows
  BY MergedRows
<1> HIDE DEF m
<1>4. SUFFICES ASSUME NEW k \in Key, NEW r \in Row, NEW s \in Row,
                      r[1] = k, s[1] = k, m[r] > 0, m[s] > 0
               PROVE  r = s /\ m[r] = 1
  BY <1>3, SingleRows DEF Unique, m
<1>5. CASE k \in KeysOf(incoming)
  <2>1. incoming[r] > 0 /\ incoming[s] > 0 /\ m[r] = incoming[r]
    BY <1>2, <1>4, <1>5
  <2>2. r[2] = l /\ s[2] = l
    BY <2>1, <1>1 DEF Owns
  <2> QED BY <1>1, <1>4, <2>1, <2>2, RowIs
<1>6. CASE k \notin KeysOf(incoming)
  <2>1. table[r] > 0 /\ table[s] > 0 /\ m[r] = table[r]
    BY <1>2, <1>4, <1>6
  <2> QED BY <1>4, <2>1, SingleRows DEF Unique
<1> QED BY <1>5, <1>6

\* Rows of one load, each key once.
LEMMA OwnedUnique ==
  ASSUME NEW table \in Rows, NEW l \in Load, Owns(l, table), \A r \in Row : table[r] <= 1
  PROVE  Unique(table)
<1>1. \A r \in Row : table[r] \in Nat
  BY RowsAre
<1>2. SUFFICES ASSUME NEW k \in Key, NEW r \in Row, NEW s \in Row,
                      r[1] = k, s[1] = k, table[r] > 0, table[s] > 0
               PROVE  r = s /\ table[r] = 1
  BY SingleRows DEF Unique
<1>3. r[2] = l /\ s[2] = l
  BY <1>1, <1>2 DEF Owns
<1> QED BY <1>1, <1>2, <1>3, RowIs

-----------------------------------------------------------------------------
(* What a load is given. *)

LEMMA Batches ==
  ASSUME TypeOK, NEW l \in Load
  PROVE  /\ input[l] \in Seq(Key) /\ Len(input[l]) \in Nat /\ DOMAIN input[l] = 1..Len(input[l])
         /\ \A i \in DOMAIN input[l] : input[l][i] \in Key
         /\ Len(input[l]) < Copies
         /\ Upserts(mode[l]) => Distinct(input[l])
         /\ batches[l] \in Nat /\ batches[l] <= Len(input[l])
         /\ input[l] = <<>> <=> Len(input[l]) = 0
<1>1. PICK keys \in Inputs[l] : input[l] \in Loaded(mode[l], keys)
  BY DEF TypeOK
<1>2. keys \in Seq(Key) /\ Len(keys) < Copies /\ Copies \in Nat /\ Len(keys) \in Nat
  BY LakeAssumption
<1>3. /\ input[l] \in Seq(Key) /\ Len(input[l]) <= Len(keys)
      /\ Upserts(mode[l]) => Distinct(input[l])
  <2>1. CASE ~Upserts(mode[l])
    BY <1>1, <1>2, <2>1 DEF Loaded
  <2>2. CASE Upserts(mode[l])
    <3>1. PICK n \in 0..Len(keys) : input[l] \in [1..n -> Key]
      BY <1>1, <2>2 DEF Loaded
    <3>2. n \in Nat /\ n <= Len(keys)
      BY <1>2
    <3>3. input[l] \in Seq(Key) /\ Len(input[l]) = n
      BY <3>1, <3>2
    <3> QED BY <1>1, <2>2, <3>2, <3>3 DEF Loaded
  <2> QED BY <2>1, <2>2
<1>4. /\ Len(input[l]) \in Nat /\ DOMAIN input[l] = 1..Len(input[l])
      /\ \A i \in DOMAIN input[l] : input[l][i] \in Key
  BY <1>3
<1>5. input[l] = <<>> <=> Len(input[l]) = 0
  BY <1>3
<1>6. batches[l] \in Nat /\ batches[l] <= Len(input[l])
  BY DEF TypeOK
<1> QED BY <1>2, <1>3, <1>4, <1>5, <1>6

LEMMA NumberIs ==
  ASSUME TypeOK, NEW l \in Load, NEW k \in Key
  PROVE  /\ Number(l, k) = Times(input[l], k, Len(input[l]))
         /\ Number(l, k) \in Nat /\ Number(l, k) < Copies
         /\ Distinct(input[l]) => Number(l, k) <= 1
<1>1. /\ Len(input[l]) \in Nat /\ DOMAIN input[l] = 1..Len(input[l]) /\ Len(input[l]) < Copies
  BY Batches
<1>2. Number(l, k) = Times(input[l], k, Len(input[l]))
  BY <1>1 DEF Number, Times
<1>3. Copies \in Nat /\ Times(input[l], k, Len(input[l])) \in Nat /\ Times(input[l], k, Len(input[l])) <= Len(input[l])
  BY <1>1, TimesCounts, LakeAssumption
<1>4. Distinct(input[l]) => Times(input[l], k, Len(input[l])) <= 1
  BY <1>1, TimesOfDistinct
<1> QED BY <1>1, <1>2, <1>3, <1>4

LEMMA ExactRows ==
  ASSUME TypeOK, NEW l \in Load
  PROVE  /\ Exact(l) \in Rows /\ Owns(l, Exact(l)) /\ Whole(l, Exact(l))
         /\ \A k \in Key : Exact(l)[<<k, l>>] = Number(l, k)
         /\ Distinct(input[l]) => \A r \in Row : Exact(l)[r] <= 1
<1>1. \A r \in Row : /\ r[1] \in Key
                     /\ Exact(l)[r] = IF r[2] = l THEN Number(l, r[1]) ELSE 0
  BY RowIs DEF Exact
<1>2. \A k \in Key : Number(l, k) \in Nat /\ Number(l, k) < Copies /\ (Distinct(input[l]) => Number(l, k) <= 1)
  BY NumberIs
<1>3. \A r \in Row : Exact(l)[r] \in 0..Copies
  BY <1>1, <1>2, LakeAssumption
<1>4. Exact(l) = [r \in Row |-> Exact(l)[r]]
  BY DEF Exact
<1>5. Exact(l) \in Rows
  BY <1>3, <1>4 DEF Rows
<1>6. \A k \in Key : <<k, l>> \in Row /\ <<k, l>>[1] = k /\ <<k, l>>[2] = l
  BY DEF Row
<1>7. \A k \in Key : Exact(l)[<<k, l>>] = Number(l, k)
  BY <1>1, <1>6
<1>8. Whole(l, Exact(l))
  BY <1>2, <1>7 DEF Whole
<1>9. Owns(l, Exact(l))
  BY <1>1 DEF Owns
<1>10. Distinct(input[l]) => \A r \in Row : Exact(l)[r] <= 1
  BY <1>1, <1>2
<1> QED BY <1>5, <1>7, <1>8, <1>9, <1>10

LEMMA ExtractedRows ==
  ASSUME TypeOK, NEW l \in Load, NEW rows \in Extracted(l)
  PROVE  rows \in Rows /\ Owns(l, rows)
<1>1. CASE rows = Exact(l)
  BY <1>1, ExactRows
<1>2. CASE \E i \in 2..Len(input[l]) : rows = Plus(Exact(l), One(l, input[l][i]))
  <2>1. PICK i \in 2..Len(input[l]) : rows = Plus(Exact(l), One(l, input[l][i]))
    BY <1>2
  <2>2. i \in DOMAIN input[l]
    BY Batches
  <2>3. input[l][i] \in Key
    BY <2>2, Batches
  <2>4. One(l, input[l][i]) \in Rows /\ Owns(l, One(l, input[l][i]))
    BY <2>3, OneRow
  <2> QED BY <2>1, <2>4, ExactRows, PlusRows DEF Owns
<1> QED BY <1>1, <1>2 DEF Extracted

\* What a load that is at its publication has in its stage.
LEMMA StageIsWhole ==
  ASSUME TypeOK, NEW l \in Load, LoadInv(l), pc[l] = "publish"
  PROVE  stage[l] \in Rows /\ stage[l] # None /\ Owns(l, stage[l]) /\ Whole(l, stage[l])
<1>1. stage[l] \in Rows /\ stage[l] # None /\ Owns(l, stage[l])
  BY DEF TypeOK, Table, LoadInv, StageFits, There, Over
<1>2. CASE mode[l] \in Syncs
  BY <1>1, <1>2, ExactRows DEF LoadInv, StageFits, Over
<1>3. CASE mode[l] \in Staged
  <2>1. batches[l] = Len(input[l]) /\ \A k \in Key : stage[l][<<k, l>>] >= Times(input[l], k, batches[l])
    BY <1>1, <1>3 DEF LoadInv, StageFits, Filled, Over
  <2>2. \A k \in Key : Exact(l)[<<k, l>>] = Times(input[l], k, Len(input[l]))
    BY ExactRows, NumberIs
  <2> QED BY <1>1, <2>1, <2>2 DEF Whole
<1> QED BY <1>1, <1>2, <1>3, LakeAssumption DEF TypeOK, LoadInv, ModeFits

\* Unless a statement ran twice, it has each key once if its batch has.
LEMMA StageOnce ==
  ASSUME TypeOK, NEW l \in Load, LoadInv(l), stage[l] # None, ~twice[l], Distinct(input[l]), pc[l] = "publish"
  PROVE  \A r \in Row : stage[l][r] <= 1
<1>1. CASE mode[l] \in Staged
  <2>1. /\ \A k \in Key : stage[l][<<k, l>>] = Times(input[l], k, batches[l])
        /\ \A r \in Row : r[2] # l => stage[l][r] = 0
    BY <1>1 DEF LoadInv, StageFits, Filled, Owns, Over
  <2>2. \A k \in Key : Times(input[l], k, batches[l]) <= 1
    BY Batches, TimesOfDistinct
  <2> QED BY <2>1, <2>2, RowIs
<1>2. CASE mode[l] \in Syncs
  BY <1>2, ExactRows DEF LoadInv, StageFits, Over
<1> QED BY <1>1, <1>2, LakeAssumption DEF TypeOK, LoadInv, ModeFits

-----------------------------------------------------------------------------
(* What a step of one load leaves alone, and what is left to show of it. *)

Typed ==
  /\ target \in Table /\ stage \in [Load -> Table] /\ candidate \in [Load -> Table]
  /\ pending \in [Load -> Pending \cup {None}]
  /\ pc \in [Load -> Place] /\ batches \in [Load -> Nat]
  /\ known \in [Load -> BOOLEAN] /\ ok \in [Load -> BOOLEAN]
  /\ twice \in [Load -> BOOLEAN] /\ leaked \in [Load -> BOOLEAN]

\* A step of load m.
Of(m) ==
  /\ Typed' /\ UNCHANGED <<mode, input, old>>
  /\ \A l \in Load \ {m} : /\ pc'[l] = pc[l] /\ stage'[l] = stage[l] /\ candidate'[l] = candidate[l]
                           /\ batches'[l] = batches[l] /\ known'[l] = known[l] /\ pending'[l] = pending[l]
                           /\ twice'[l] = twice[l] /\ leaked'[l] = leaked[l]

\* What it does for unique keys.
Spares(m) ==
  /\ twice[m] => twice'[m]
  /\ pc'[m] \in {"check", "extract"} => ~twice'[m]
  /\ Calm /\ Calm' =>
       /\ target' = target \/ (target' # None => Unique(target'))
       /\ candidate'[m] = candidate[m] \/ (candidate'[m] # None => Unique(candidate'[m]))
       /\ pending'[m] = pending[m] \/ (Brings(pending'[m]) => Unique(pending'[m].rows))

LEMMA OthersKeep ==
  ASSUME LakeIInv, NEW m \in Load, Of(m), target # None => target' # None,
         batches'[m] <= Len(input[m]), LoadInv(m)', Spares(m)
  PROVE  LakeIInv'
<1>1. \A l \in Load \ {m} : LoadInv(l)'
  <2> SUFFICES ASSUME NEW l \in Load \ {m} PROVE LoadInv(l)'
    OBVIOUS
  <2>1. /\ LoadInv(l) /\ UNCHANGED <<mode, input, old>>
        /\ pc'[l] = pc[l] /\ stage'[l] = stage[l] /\ candidate'[l] = candidate[l]
        /\ batches'[l] = batches[l] /\ known'[l] = known[l] /\ pending'[l] = pending[l]
        /\ twice'[l] = twice[l] /\ leaked'[l] = leaked[l]
    BY DEF Of, LakeIInv
  <2>2. ModeFits(l)' /\ There(l)' /\ TidyFits(l)'
    BY <2>1 DEF LoadInv, ModeFits, There, Needs, TidyFits, Tidy
  <2>3. StageFits(l)'
    BY <2>1 DEF LoadInv, StageFits, Owns, Filled, Exact, Number
  <2>4. CandidateFits(l)'
    BY <2>1 DEF LoadInv, CandidateFits, Whole, Exact, Number
  <2>5. PendingFits(l)'
    BY <2>1 DEF LoadInv, PendingFits, Carries, Whole, Owns, Exact, Number
  <2> QED BY <2>2, <2>3, <2>4, <2>5 DEF LoadInv
<1>2. \A l \in Load : LoadInv(l)'
  BY <1>1
<1>3. TypeOK'
  <2>1. \A l \in Load : batches'[l] <= Len(input'[l])
    BY DEF Of, LakeIInv, TypeOK
  <2>2. \A l \in Load : pc'[l] \in {"prepare", "keys", "publish"} => stage'[l] # None
    BY <1>2 DEF LoadInv, There
  <2>3. \A l \in Load : \E keys \in Inputs[l] : input'[l] \in Loaded(mode'[l], keys)
    BY DEF Of, LakeIInv, TypeOK
  <2> QED BY <2>1, <2>2, <2>3 DEF Of, Typed, LakeIInv, TypeOK
<1>4. UniqueInv'
  <2>1. \A l \in Load : pc'[l] \in {"check", "extract"} => ~twice'[l]
    BY DEF Of, Spares, LakeIInv, UniqueInv
  <2>2. Calm' => Calm
    <3>1. \A l \in Load : twice[l] \in BOOLEAN /\ twice'[l] \in BOOLEAN
      BY DEF Of, Typed, LakeIInv, TypeOK
    <3>2. \A l \in Load : twice[l] => twice'[l]
      BY <3>1 DEF Of, Spares
    <3> QED BY <3>2 DEF Of, Calm, Unique, Single
  <2>3. ASSUME Calm' PROVE target' # None => Unique(target)'
    BY <2>2, <2>3 DEF Spares, LakeIInv, UniqueInv, Unique, Single
  <2>4. ASSUME Calm', NEW l \in Load PROVE candidate'[l] # None => Unique(candidate'[l])
    <3>1. candidate[l] # None => Unique(candidate[l])
      BY <2>2, <2>4 DEF LakeIInv, UniqueInv
    <3> QED BY <2>2, <2>4, <3>1 DEF Of, Spares
  <2>5. ASSUME Calm', NEW l \in Load PROVE Brings(pending'[l]) => Unique(pending'[l].rows)
    <3>1. Brings(pending[l]) => Unique(pending[l].rows)
      BY <2>2, <2>5 DEF LakeIInv, UniqueInv
    <3> QED BY <2>2, <2>5, <3>1 DEF Of, Spares
  <2>6. Calm' => (target' # None => Unique(target)')
    BY <2>3
  <2>7. Calm' => \A l \in Load : candidate'[l] # None => Unique(candidate'[l])
    BY <2>4
  <2>8. Calm' => \A l \in Load : Brings(pending'[l]) => Unique(pending'[l].rows)
    BY <2>5
  <2> QED BY <2>1, <2>6, <2>7, <2>8 DEF UniqueInv
<1> QED BY <1>2, <1>3, <1>4 DEF LakeIInv

Otherwise(m) == IF mode[m] = "append" THEN "failed" ELSE "drop"

LEMMA GoesTo ==
  ASSUME TypeOK, NEW m \in Load, NEW place \in Place, Goes(m, place)
  PROVE  /\ pc' \in [Load -> Place] /\ ok' \in [Load -> BOOLEAN]
         /\ pc'[m] = place /\ \A l \in Load \ {m} : pc'[l] = pc[l]
BY DEF TypeOK, Goes

LEMMA RaisesTo ==
  ASSUME TypeOK, NEW m \in Load, NEW cleanup \in BOOLEAN, Raises(m, cleanup)
  PROVE  /\ pc' \in [Load -> Place] /\ ok' \in [Load -> BOOLEAN]
         /\ pc'[m] = IF cleanup THEN Otherwise(m) ELSE "failed"
         /\ \A l \in Load \ {m} : pc'[l] = pc[l]
<1> DEFINE place == IF cleanup /\ Cleaned(m) THEN "drop" ELSE "failed"
<1>1. place \in Place /\ place = IF cleanup THEN Otherwise(m) ELSE "failed"
  BY DEF Place, Cleaned, Otherwise
<1>2. pc' = [pc EXCEPT ![m] = place] /\ ok' = [ok EXCEPT ![m] = FALSE]
  BY DEF Raises
<1> HIDE DEF place
<1> QED BY <1>1, <1>2 DEF TypeOK

\* The answer to a statement arrives, or does not.
LEMMA AnswerTo ==
  ASSUME TypeOK, NEW m \in Load, NEW place \in Place, Goes(m, place) \/ Raises(m, TRUE)
  PROVE  /\ pc' \in [Load -> Place] /\ ok' \in [Load -> BOOLEAN]
         /\ pc'[m] \in {place, Otherwise(m)} /\ \A l \in Load \ {m} : pc'[l] = pc[l]
BY GoesTo, RaisesTo

\* The places of a load whose statements are over, or not lost yet.
LEMMA NonePending ==
  ASSUME LakeIInv, NEW m \in Load, pc[m] \notin Over
  PROVE  pending[m] = None
BY DEF LakeIInv, LoadInv, PendingFits

LEMMA PendingIs ==
  ASSUME TypeOK, NEW m \in Load, NEW into, NEW rows
  PROVE  LET p == [into |-> into, rows |-> rows]
         IN  /\ p.into = into /\ p.rows = rows
             /\ into \in {"stage", "candidate", "create", "replace", "insert"} /\ rows \in Rows
                  => p \in Pending /\ p # None
BY LakeAssumption DEF Pending

\* A statement that loses its answer before its effect.
LostWith(m, p) ==
  /\ UNCHANGED <<target, stage, candidate, known, leaked, mode, input, old>>
  /\ pending' = [pending EXCEPT ![m] = p] /\ Raises(m, TRUE)
  /\ pc[m] \in {"create", "load", "prepare", "publish", "extract", "copy", "fill"}
  /\ batches' \in [Load -> Nat] /\ batches'[m] <= Len(input[m])
  /\ twice' \in [Load -> BOOLEAN] /\ (twice[m] => twice'[m])
  /\ \A l \in Load \ {m} : batches'[l] = batches[l] /\ twice'[l] = twice[l]

LEMMA LostKeeps ==
  ASSUME LakeIInv, NEW m \in Load, NEW p \in Pending, LostWith(m, p), Carries(m, p),
         Calm /\ Brings(p) => Unique(p.rows)
  PROVE  LakeIInv'
<1>i. TypeOK /\ LoadInv(m) /\ UniqueInv /\ p # None
  BY LakeAssumption DEF LakeIInv
<1>u. UNCHANGED <<target, stage, candidate, known, leaked, mode, input, old>>
  BY DEF LostWith
<1>p. /\ pc' \in [Load -> Place] /\ ok' \in [Load -> BOOLEAN]
      /\ pc'[m] = Otherwise(m)
      /\ \A l \in Load \ {m} : pc'[l] = pc[l]
  BY <1>i, RaisesTo DEF LostWith
<1>x. /\ pc[m] \in {"create", "load", "prepare", "publish", "extract", "copy", "fill"}
      /\ pending' \in [Load -> Pending \cup {None}] /\ pending'[m] = p
      /\ \A l \in Load \ {m} : pending'[l] = pending[l]
      /\ pc[m] = "publish" => mode[m] # "append"
  BY <1>i DEF LostWith, TypeOK, LoadInv, ModeFits
<1>t. /\ batches' \in [Load -> Nat] /\ batches'[m] <= Len(input[m])
      /\ twice' \in [Load -> BOOLEAN] /\ (twice[m] => twice'[m])
      /\ \A l \in Load \ {m} : batches'[l] = batches[l] /\ twice'[l] = twice[l]
  BY DEF LostWith
<1>1. Of(m)
  BY <1>i, <1>u, <1>p, <1>x, <1>t DEF Of, Typed, TypeOK
<1>2. ModeFits(m)'
  BY <1>i, <1>u, <1>p, <1>x DEF LoadInv, ModeFits, Otherwise
<1>3. There(m)'
  BY <1>i, <1>u, <1>p, <1>x DEF LoadInv, ModeFits, There, Needs, Otherwise
<1>4. StageFits(m)'
  BY <1>u, <1>p DEF StageFits, Over, Otherwise
<1>5. CandidateFits(m)'
  BY <1>p DEF CandidateFits, Otherwise
<1>6. TidyFits(m)'
  BY <1>i, <1>u, <1>p, <1>x DEF LoadInv, TidyFits, Tidy, Otherwise
<1>7. PendingFits(m)'
  <2>1. Carries(m, p)'
    BY <1>u DEF Carries, Whole, Owns, Exact, Number
  <2>2. pc'[m] \in Over
    BY <1>p DEF Over, Otherwise
  <2>3. Carries(m, pending[m])' <=> Carries(m, p)'
    BY <1>x DEF Carries
  <2> QED BY <2>1, <2>2, <2>3 DEF PendingFits
<1>8. Spares(m)
  BY <1>i, <1>u, <1>p, <1>x, <1>t DEF Spares, Otherwise
<1>9. batches'[m] <= Len(input[m]) /\ (target # None => target' # None)
  BY <1>u, <1>t
<1> QED BY <1>1, <1>2, <1>3, <1>4, <1>5, <1>6, <1>7, <1>8, <1>9, OthersKeep DEF LoadInv

-----------------------------------------------------------------------------
(* Steps that leave all tables alone. *)

LEMMA FailsKeeps ==
  ASSUME LakeIInv, NEW m \in Load, Fails(m)
  PROVE  LakeIInv'
<1>i. TypeOK /\ LoadInv(m) /\ UniqueInv
  BY DEF LakeIInv
<1>u. UNCHANGED <<target, stage, candidate, batches, known, twice, leaked, pending, mode, input, old>>
  BY DEF Fails, fixed
<1>p. /\ pc' \in [Load -> Place] /\ ok' \in [Load -> BOOLEAN]
      /\ pc'[m] = Otherwise(m)
      /\ \A l \in Load \ {m} : pc'[l] = pc[l]
  BY <1>i, RaisesTo DEF Fails, TypeOK, Place, Otherwise
<1>e. Exact(m)' = Exact(m)
  BY <1>u DEF Exact, Number
<1>x. pc[m] \notin {"check", "drop", "audit", "done", "failed", "crashed"}
  BY <1>i DEF Fails, fixed
<1>1. Of(m)
  BY <1>i, <1>u, <1>p, <1>e, <1>x DEF Of, Typed, TypeOK, Otherwise
<1>2. ModeFits(m)'
  BY <1>i, <1>u, <1>p, <1>e, <1>x, LakeAssumption DEF LoadInv, ModeFits, Staged, Syncs, Otherwise, TypeOK
<1>3. There(m)'
  BY <1>i, <1>u, <1>p, <1>e, <1>x, LakeAssumption DEF LoadInv, ModeFits, There, Needs, Staged, Syncs, Otherwise, TypeOK
<1>4. StageFits(m)'
  <2>1. stage'[m] # None /\ pc'[m] \notin Over => Owns(m, stage'[m])
    BY <1>i, <1>u, <1>p, <1>x DEF LoadInv, StageFits, Owns, Over, Otherwise, TypeOK
  <2>2. stage'[m] # None /\ pc'[m] \notin Over /\ mode'[m] \in Staged => Filled(m)'
    BY <1>i, <1>u, <1>p, <1>x, LakeAssumption DEF LoadInv, ModeFits, StageFits, Filled, Over, Staged, Syncs, Otherwise, TypeOK
  <2>3. /\ stage'[m] # None /\ pc'[m] \notin Over /\ pc'[m] \in {"copy", "fill", "metrics", "publish"} /\ mode'[m] \in Syncs => stage'[m] = Exact(m)'
        /\ pc'[m] \in {"check", "create"} => batches'[m] = 0
        /\ mode'[m] \in Staged /\ pc'[m] = "load" /\ stage'[m] = None => batches'[m] = 0
        /\ mode'[m] \in Staged /\ pc'[m] \in {"prepare", "keys", "publish"} => batches'[m] = Len(input'[m])
    BY <1>i, <1>u, <1>p, <1>e, <1>x, LakeAssumption DEF LoadInv, ModeFits, There, StageFits, Over, Staged, Syncs, Otherwise, TypeOK
  <2> QED BY <2>1, <2>2, <2>3 DEF StageFits
<1>5. CandidateFits(m)'
  BY <1>i, <1>u, <1>p, <1>e, <1>x, LakeAssumption DEF LoadInv, ModeFits, CandidateFits, Whole, Staged, Syncs, Otherwise, TypeOK
<1>6. TidyFits(m)'
  BY <1>i, <1>u, <1>p, <1>e, <1>x DEF LoadInv, ModeFits, TidyFits, Tidy, Staged, Syncs, Otherwise, TypeOK
<1>7. Spares(m)
  BY <1>i, <1>u, <1>p, <1>e, <1>x DEF Spares, UniqueInv, Otherwise, TypeOK
<1>8. batches'[m] <= Len(input[m]) /\ (target # None => target' # None)
  BY <1>i, <1>u, <1>p, <1>e, <1>x DEF TypeOK
<1>9. PendingFits(m)'
  <2>1. Carries(m, pending[m])' <=> Carries(m, pending[m])
    BY <1>u, <1>e DEF Carries, Whole, Owns
  <2>2. pending[m] # None => pc[m] \in Over /\ Carries(m, pending[m])
    BY <1>i DEF LoadInv, PendingFits
  <2>3. pc[m] \in Over => pc'[m] \in Over
    BY <1>p, <1>x DEF Over, Otherwise
  <2> QED BY <1>u, <2>1, <2>2, <2>3 DEF PendingFits
<1> QED BY <1>1, <1>2, <1>3, <1>4, <1>5, <1>6, <1>7, <1>8, <1>9, OthersKeep DEF LoadInv

LEMMA CrashKeeps ==
  ASSUME LakeIInv, NEW m \in Load, Crash(m)
  PROVE  LakeIInv'
<1>i. TypeOK /\ LoadInv(m) /\ UniqueInv
  BY DEF LakeIInv
<1>u. UNCHANGED <<target, stage, candidate, batches, known, twice, pending, mode, input, old>>
  BY DEF Crash, fixed
<1>p. /\ pc' \in [Load -> Place] /\ ok' \in [Load -> BOOLEAN]
      /\ pc'[m] = "crashed"
      /\ \A l \in Load \ {m} : pc'[l] = pc[l]
  BY <1>i DEF Crash, TypeOK, Place, Otherwise
<1>e. Exact(m)' = Exact(m)
  BY <1>u DEF Exact, Number
<1>x. leaked' \in [Load -> BOOLEAN] /\ \A l \in Load \ {m} : leaked'[l] = leaked[l]
  BY <1>i DEF Crash, TypeOK
<1>1. Of(m)
  BY <1>i, <1>u, <1>p, <1>e, <1>x DEF Of, Typed, TypeOK, Otherwise
<1>2. ModeFits(m)'
  BY <1>i, <1>u, <1>p, <1>e, <1>x, LakeAssumption DEF LoadInv, ModeFits, Staged, Syncs, Otherwise, TypeOK
<1>3. There(m)'
  BY <1>i, <1>u, <1>p, <1>e, <1>x, LakeAssumption DEF LoadInv, ModeFits, There, Needs, Staged, Syncs, Otherwise, TypeOK
<1>4. StageFits(m)'
  <2>1. stage'[m] # None /\ pc'[m] \notin Over => Owns(m, stage'[m])
    BY <1>i, <1>u, <1>p, <1>x DEF LoadInv, StageFits, Owns, Over, Otherwise, TypeOK
  <2>2. stage'[m] # None /\ pc'[m] \notin Over /\ mode'[m] \in Staged => Filled(m)'
    BY <1>i, <1>u, <1>p, <1>x, LakeAssumption DEF LoadInv, ModeFits, StageFits, Filled, Over, Staged, Syncs, Otherwise, TypeOK
  <2>3. /\ stage'[m] # None /\ pc'[m] \notin Over /\ pc'[m] \in {"copy", "fill", "metrics", "publish"} /\ mode'[m] \in Syncs => stage'[m] = Exact(m)'
        /\ pc'[m] \in {"check", "create"} => batches'[m] = 0
        /\ mode'[m] \in Staged /\ pc'[m] = "load" /\ stage'[m] = None => batches'[m] = 0
        /\ mode'[m] \in Staged /\ pc'[m] \in {"prepare", "keys", "publish"} => batches'[m] = Len(input'[m])
    BY <1>i, <1>u, <1>p, <1>e, <1>x, LakeAssumption DEF LoadInv, ModeFits, There, StageFits, Over, Staged, Syncs, Otherwise, TypeOK
  <2> QED BY <2>1, <2>2, <2>3 DEF StageFits
<1>5. CandidateFits(m)'
  BY <1>i, <1>u, <1>p, <1>e, <1>x, LakeAssumption DEF LoadInv, ModeFits, CandidateFits, Whole, Staged, Syncs, Otherwise, TypeOK
<1>6. TidyFits(m)'
  BY <1>i, <1>u, <1>p, <1>e, <1>x DEF LoadInv, ModeFits, TidyFits, Tidy, Staged, Syncs, Otherwise, TypeOK
<1>7. Spares(m)
  BY <1>i, <1>u, <1>p, <1>e, <1>x DEF Spares, UniqueInv, Otherwise, TypeOK
<1>8. batches'[m] <= Len(input[m]) /\ (target # None => target' # None)
  BY <1>i, <1>u, <1>p, <1>e, <1>x DEF TypeOK
<1>9. PendingFits(m)'
  <2>1. Carries(m, pending[m])' <=> Carries(m, pending[m])
    BY <1>u, <1>e DEF Carries, Whole, Owns
  <2>2. pending[m] # None => pc[m] \in Over /\ Carries(m, pending[m])
    BY <1>i DEF LoadInv, PendingFits
  <2>3. pc[m] \in Over => pc'[m] \in Over
    BY <1>p, <1>x DEF Over, Otherwise
  <2> QED BY <1>u, <2>1, <2>2, <2>3 DEF PendingFits
<1> QED BY <1>1, <1>2, <1>3, <1>4, <1>5, <1>6, <1>7, <1>8, <1>9, OthersKeep DEF LoadInv

LEMMA CheckKeeps ==
  ASSUME LakeIInv, NEW m \in Load, Check(m)
  PROVE  LakeIInv'
<1>i. TypeOK /\ LoadInv(m) /\ UniqueInv
  BY DEF LakeIInv
<1>u. UNCHANGED <<target, stage, candidate, batches, twice, leaked, pending, mode, input, old>>
  BY DEF Check, fixed
<1>p. /\ pc' \in [Load -> Place] /\ ok' \in [Load -> BOOLEAN]
      /\ \/ pc'[m] = IF mode[m] \in Syncs THEN "extract" ELSE IF mode[m] \in {"append", "atomic"} THEN "create" ELSE "load"
         \/ pc'[m] = IF mode[m] \in Syncs THEN Otherwise(m) ELSE "failed"
      /\ \A l \in Load \ {m} : pc'[l] = pc[l]
  <2> DEFINE place == IF mode[m] \in Syncs THEN "extract" ELSE IF mode[m] \in {"append", "atomic"} THEN "create" ELSE "load"
  <2>1. place \in Place /\ (mode[m] \in Syncs) \in BOOLEAN
    BY DEF Place
  <2>2. Goes(m, place) \/ Raises(m, mode[m] \in Syncs)
    BY DEF Check
  <2> HIDE DEF place
  <2>3. CASE Goes(m, place)
    BY <1>i, <2>1, <2>3, GoesTo DEF place
  <2>4. CASE Raises(m, mode[m] \in Syncs)
    BY <1>i, <2>1, <2>4, RaisesTo
  <2> QED BY <2>2, <2>3, <2>4
<1>e. Exact(m)' = Exact(m)
  BY <1>u DEF Exact, Number
<1>x. /\ pc[m] = "check"
      /\ known' \in [Load -> BOOLEAN] /\ \A l \in Load \ {m} : known'[l] = known[l]
      /\ known'[m] <=> mode[m] \in {"sync_append", "sync_upsert"} /\ target # None
  BY <1>i DEF Check, TypeOK
<1>1. Of(m)
  BY <1>i, <1>u, <1>p, <1>e, <1>x DEF Of, Typed, TypeOK, Otherwise
<1>2. ModeFits(m)'
  BY <1>i, <1>u, <1>p, <1>e, <1>x, LakeAssumption DEF LoadInv, ModeFits, Staged, Syncs, Otherwise, TypeOK
<1>3. There(m)'
  BY <1>i, <1>u, <1>p, <1>e, <1>x, LakeAssumption DEF LoadInv, ModeFits, There, Needs, Staged, Syncs, Otherwise, TypeOK
<1>4. StageFits(m)'
  <2>1. stage'[m] # None /\ pc'[m] \notin Over => Owns(m, stage'[m])
    BY <1>i, <1>u, <1>p, <1>x DEF LoadInv, StageFits, Owns, Over, Otherwise, TypeOK
  <2>2. stage'[m] # None /\ pc'[m] \notin Over /\ mode'[m] \in Staged => Filled(m)'
    BY <1>i, <1>u, <1>p, <1>x, LakeAssumption DEF LoadInv, ModeFits, StageFits, Filled, Over, Staged, Syncs, Otherwise, TypeOK
  <2>3. /\ stage'[m] # None /\ pc'[m] \notin Over /\ pc'[m] \in {"copy", "fill", "metrics", "publish"} /\ mode'[m] \in Syncs => stage'[m] = Exact(m)'
        /\ pc'[m] \in {"check", "create"} => batches'[m] = 0
        /\ mode'[m] \in Staged /\ pc'[m] = "load" /\ stage'[m] = None => batches'[m] = 0
        /\ mode'[m] \in Staged /\ pc'[m] \in {"prepare", "keys", "publish"} => batches'[m] = Len(input'[m])
    BY <1>i, <1>u, <1>p, <1>e, <1>x, LakeAssumption DEF LoadInv, ModeFits, There, StageFits, Over, Staged, Syncs, Otherwise, TypeOK
  <2> QED BY <2>1, <2>2, <2>3 DEF StageFits
<1>5. CandidateFits(m)'
  BY <1>i, <1>u, <1>p, <1>e, <1>x, LakeAssumption DEF LoadInv, ModeFits, CandidateFits, Whole, Staged, Syncs, Otherwise, TypeOK
<1>6. TidyFits(m)'
  BY <1>i, <1>u, <1>p, <1>e, <1>x DEF LoadInv, ModeFits, TidyFits, Tidy, Staged, Syncs, Otherwise, TypeOK
<1>7. Spares(m)
  BY <1>i, <1>u, <1>p, <1>e, <1>x DEF Spares, UniqueInv, Otherwise, TypeOK
<1>8. batches'[m] <= Len(input[m]) /\ (target # None => target' # None)
  BY <1>i, <1>u, <1>p, <1>e, <1>x DEF TypeOK
<1>9. PendingFits(m)'
  BY <1>i, <1>u, <1>x DEF LoadInv, PendingFits, Over
<1> QED BY <1>1, <1>2, <1>3, <1>4, <1>5, <1>6, <1>7, <1>8, <1>9, OthersKeep DEF LoadInv

LEMMA LoadNothingKeeps ==
  ASSUME LakeIInv, NEW m \in Load, LoadNothing(m)
  PROVE  LakeIInv'
<1>i. TypeOK /\ LoadInv(m) /\ UniqueInv
  BY DEF LakeIInv
<1>u. UNCHANGED <<target, stage, candidate, batches, known, twice, leaked, pending, mode, input, old>>
  BY DEF LoadNothing, fixed
<1>p. /\ pc' \in [Load -> Place] /\ ok' \in [Load -> BOOLEAN]
      /\ pc'[m] = "audit"
      /\ \A l \in Load \ {m} : pc'[l] = pc[l]
  BY <1>i, GoesTo DEF LoadNothing, TypeOK, Place, Otherwise
<1>e. Exact(m)' = Exact(m)
  BY <1>u DEF Exact, Number
<1>x. pc[m] = "load" /\ mode[m] = "append" /\ input[m] = <<>>
  BY <1>i DEF LoadNothing, fixed
<1>1. Of(m)
  BY <1>i, <1>u, <1>p, <1>e, <1>x DEF Of, Typed, TypeOK, Otherwise
<1>2. ModeFits(m)'
  BY <1>i, <1>u, <1>p, <1>e, <1>x, LakeAssumption DEF LoadInv, ModeFits, Staged, Syncs, Otherwise, TypeOK
<1>3. There(m)'
  BY <1>i, <1>u, <1>p, <1>e, <1>x, LakeAssumption DEF LoadInv, ModeFits, There, Needs, Staged, Syncs, Otherwise, TypeOK
<1>4. StageFits(m)'
  <2>1. stage'[m] # None /\ pc'[m] \notin Over => Owns(m, stage'[m])
    BY <1>i, <1>u, <1>p, <1>x DEF LoadInv, StageFits, Owns, Over, Otherwise, TypeOK
  <2>2. stage'[m] # None /\ pc'[m] \notin Over /\ mode'[m] \in Staged => Filled(m)'
    BY <1>i, <1>u, <1>p, <1>x, LakeAssumption DEF LoadInv, ModeFits, StageFits, Filled, Over, Staged, Syncs, Otherwise, TypeOK
  <2>3. /\ stage'[m] # None /\ pc'[m] \notin Over /\ pc'[m] \in {"copy", "fill", "metrics", "publish"} /\ mode'[m] \in Syncs => stage'[m] = Exact(m)'
        /\ pc'[m] \in {"check", "create"} => batches'[m] = 0
        /\ mode'[m] \in Staged /\ pc'[m] = "load" /\ stage'[m] = None => batches'[m] = 0
        /\ mode'[m] \in Staged /\ pc'[m] \in {"prepare", "keys", "publish"} => batches'[m] = Len(input'[m])
    BY <1>i, <1>u, <1>p, <1>e, <1>x, LakeAssumption DEF LoadInv, ModeFits, There, StageFits, Over, Staged, Syncs, Otherwise, TypeOK
  <2> QED BY <2>1, <2>2, <2>3 DEF StageFits
<1>5. CandidateFits(m)'
  BY <1>i, <1>u, <1>p, <1>e, <1>x, LakeAssumption DEF LoadInv, ModeFits, CandidateFits, Whole, Staged, Syncs, Otherwise, TypeOK
<1>6. TidyFits(m)'
  BY <1>i, <1>u, <1>p, <1>e, <1>x DEF LoadInv, ModeFits, TidyFits, Tidy, Staged, Syncs, Otherwise, TypeOK
<1>7. Spares(m)
  BY <1>i, <1>u, <1>p, <1>e, <1>x DEF Spares, UniqueInv, Otherwise, TypeOK
<1>8. batches'[m] <= Len(input[m]) /\ (target # None => target' # None)
  BY <1>i, <1>u, <1>p, <1>e, <1>x DEF TypeOK
<1>9. PendingFits(m)'
  <2>1. Carries(m, pending[m])' <=> Carries(m, pending[m])
    BY <1>u, <1>e DEF Carries, Whole, Owns
  <2>2. pending[m] # None => pc[m] \in Over /\ Carries(m, pending[m])
    BY <1>i DEF LoadInv, PendingFits
  <2>3. pc[m] \in Over => pc'[m] \in Over
    BY <1>p, <1>x DEF Over, Otherwise
  <2> QED BY <1>u, <2>1, <2>2, <2>3 DEF PendingFits
<1> QED BY <1>1, <1>2, <1>3, <1>4, <1>5, <1>6, <1>7, <1>8, <1>9, OthersKeep DEF LoadInv

LEMMA KeysKeeps ==
  ASSUME LakeIInv, NEW m \in Load, Keys(m)
  PROVE  LakeIInv'
<1>i. TypeOK /\ LoadInv(m) /\ UniqueInv
  BY DEF LakeIInv
<1>u. UNCHANGED <<target, stage, candidate, batches, known, twice, leaked, pending, mode, input, old>>
  BY DEF Keys, fixed
<1>p. /\ pc' \in [Load -> Place] /\ ok' \in [Load -> BOOLEAN]
      /\ pc'[m] = "publish"
      /\ \A l \in Load \ {m} : pc'[l] = pc[l]
  BY <1>i, GoesTo DEF Keys, TypeOK, Place, Otherwise
<1>e. Exact(m)' = Exact(m)
  BY <1>u DEF Exact, Number
<1>x. pc[m] = "keys"
  BY <1>i DEF Keys, fixed
<1>1. Of(m)
  BY <1>i, <1>u, <1>p, <1>e, <1>x DEF Of, Typed, TypeOK, Otherwise
<1>2. ModeFits(m)'
  BY <1>i, <1>u, <1>p, <1>e, <1>x, LakeAssumption DEF LoadInv, ModeFits, Staged, Syncs, Otherwise, TypeOK
<1>3. There(m)'
  BY <1>i, <1>u, <1>p, <1>e, <1>x, LakeAssumption DEF LoadInv, ModeFits, There, Needs, Staged, Syncs, Otherwise, TypeOK
<1>4. StageFits(m)'
  <2>1. stage'[m] # None /\ pc'[m] \notin Over => Owns(m, stage'[m])
    BY <1>i, <1>u, <1>p, <1>x DEF LoadInv, StageFits, Owns, Over, Otherwise, TypeOK
  <2>2. stage'[m] # None /\ pc'[m] \notin Over /\ mode'[m] \in Staged => Filled(m)'
    BY <1>i, <1>u, <1>p, <1>x, LakeAssumption DEF LoadInv, ModeFits, StageFits, Filled, Over, Staged, Syncs, Otherwise, TypeOK
  <2>3. /\ stage'[m] # None /\ pc'[m] \notin Over /\ pc'[m] \in {"copy", "fill", "metrics", "publish"} /\ mode'[m] \in Syncs => stage'[m] = Exact(m)'
        /\ pc'[m] \in {"check", "create"} => batches'[m] = 0
        /\ mode'[m] \in Staged /\ pc'[m] = "load" /\ stage'[m] = None => batches'[m] = 0
        /\ mode'[m] \in Staged /\ pc'[m] \in {"prepare", "keys", "publish"} => batches'[m] = Len(input'[m])
    BY <1>i, <1>u, <1>p, <1>e, <1>x, LakeAssumption DEF LoadInv, ModeFits, There, StageFits, Over, Staged, Syncs, Otherwise, TypeOK
  <2> QED BY <2>1, <2>2, <2>3 DEF StageFits
<1>5. CandidateFits(m)'
  BY <1>i, <1>u, <1>p, <1>e, <1>x, LakeAssumption DEF LoadInv, ModeFits, CandidateFits, Whole, Staged, Syncs, Otherwise, TypeOK
<1>6. TidyFits(m)'
  BY <1>i, <1>u, <1>p, <1>e, <1>x DEF LoadInv, ModeFits, TidyFits, Tidy, Staged, Syncs, Otherwise, TypeOK
<1>7. Spares(m)
  BY <1>i, <1>u, <1>p, <1>e, <1>x DEF Spares, UniqueInv, Otherwise, TypeOK
<1>8. batches'[m] <= Len(input[m]) /\ (target # None => target' # None)
  BY <1>i, <1>u, <1>p, <1>e, <1>x DEF TypeOK
<1>9. PendingFits(m)'
  <2>1. Carries(m, pending[m])' <=> Carries(m, pending[m])
    BY <1>u, <1>e DEF Carries, Whole, Owns
  <2>2. pending[m] # None => pc[m] \in Over /\ Carries(m, pending[m])
    BY <1>i DEF LoadInv, PendingFits
  <2>3. pc[m] \in Over => pc'[m] \in Over
    BY <1>p, <1>x DEF Over, Otherwise
  <2> QED BY <1>u, <2>1, <2>2, <2>3 DEF PendingFits
<1> QED BY <1>1, <1>2, <1>3, <1>4, <1>5, <1>6, <1>7, <1>8, <1>9, OthersKeep DEF LoadInv

LEMMA AuditKeeps ==
  ASSUME LakeIInv, NEW m \in Load, Audit(m)
  PROVE  LakeIInv'
<1>i. TypeOK /\ LoadInv(m) /\ UniqueInv
  BY DEF LakeIInv
<1>u. UNCHANGED <<target, stage, candidate, batches, known, twice, leaked, pending, mode, input, old>>
  BY DEF Audit, fixed
<1>p. /\ pc' \in [Load -> Place] /\ ok' \in [Load -> BOOLEAN]
      /\ pc'[m] \in {"done", "failed"}
      /\ \A l \in Load \ {m} : pc'[l] = pc[l]
  BY <1>i, GoesTo, RaisesTo DEF Audit, TypeOK, Place, Otherwise
<1>e. Exact(m)' = Exact(m)
  BY <1>u DEF Exact, Number
<1>x. pc[m] = "audit"
  BY <1>i DEF Audit, fixed
<1>1. Of(m)
  BY <1>i, <1>u, <1>p, <1>e, <1>x DEF Of, Typed, TypeOK, Otherwise
<1>2. ModeFits(m)'
  BY <1>i, <1>u, <1>p, <1>e, <1>x, LakeAssumption DEF LoadInv, ModeFits, Staged, Syncs, Otherwise, TypeOK
<1>3. There(m)'
  BY <1>i, <1>u, <1>p, <1>e, <1>x, LakeAssumption DEF LoadInv, ModeFits, There, Needs, Staged, Syncs, Otherwise, TypeOK
<1>4. StageFits(m)'
  <2>1. stage'[m] # None /\ pc'[m] \notin Over => Owns(m, stage'[m])
    BY <1>i, <1>u, <1>p, <1>x DEF LoadInv, StageFits, Owns, Over, Otherwise, TypeOK
  <2>2. stage'[m] # None /\ pc'[m] \notin Over /\ mode'[m] \in Staged => Filled(m)'
    BY <1>i, <1>u, <1>p, <1>x, LakeAssumption DEF LoadInv, ModeFits, StageFits, Filled, Over, Staged, Syncs, Otherwise, TypeOK
  <2>3. /\ stage'[m] # None /\ pc'[m] \notin Over /\ pc'[m] \in {"copy", "fill", "metrics", "publish"} /\ mode'[m] \in Syncs => stage'[m] = Exact(m)'
        /\ pc'[m] \in {"check", "create"} => batches'[m] = 0
        /\ mode'[m] \in Staged /\ pc'[m] = "load" /\ stage'[m] = None => batches'[m] = 0
        /\ mode'[m] \in Staged /\ pc'[m] \in {"prepare", "keys", "publish"} => batches'[m] = Len(input'[m])
    BY <1>i, <1>u, <1>p, <1>e, <1>x, LakeAssumption DEF LoadInv, ModeFits, There, StageFits, Over, Staged, Syncs, Otherwise, TypeOK
  <2> QED BY <2>1, <2>2, <2>3 DEF StageFits
<1>5. CandidateFits(m)'
  BY <1>i, <1>u, <1>p, <1>e, <1>x, LakeAssumption DEF LoadInv, ModeFits, CandidateFits, Whole, Staged, Syncs, Otherwise, TypeOK
<1>6. TidyFits(m)'
  BY <1>i, <1>u, <1>p, <1>e, <1>x DEF LoadInv, ModeFits, TidyFits, Tidy, Staged, Syncs, Otherwise, TypeOK
<1>7. Spares(m)
  BY <1>i, <1>u, <1>p, <1>e, <1>x DEF Spares, UniqueInv, Otherwise, TypeOK
<1>8. batches'[m] <= Len(input[m]) /\ (target # None => target' # None)
  BY <1>i, <1>u, <1>p, <1>e, <1>x DEF TypeOK
<1>9. PendingFits(m)'
  <2>1. Carries(m, pending[m])' <=> Carries(m, pending[m])
    BY <1>u, <1>e DEF Carries, Whole, Owns
  <2>2. pending[m] # None => pc[m] \in Over /\ Carries(m, pending[m])
    BY <1>i DEF LoadInv, PendingFits
  <2>3. pc[m] \in Over => pc'[m] \in Over
    BY <1>p, <1>x DEF Over, Otherwise
  <2> QED BY <1>u, <2>1, <2>2, <2>3 DEF PendingFits
<1> QED BY <1>1, <1>2, <1>3, <1>4, <1>5, <1>6, <1>7, <1>8, <1>9, OthersKeep DEF LoadInv

LEMMA ReconcileKeeps ==
  ASSUME LakeIInv, NEW m \in Load, Reconcile(m)
  PROVE  LakeIInv'
<1>i. TypeOK /\ LoadInv(m) /\ UniqueInv
  BY DEF LakeIInv
<1>u. UNCHANGED <<target, stage, candidate, batches, known, twice, leaked, pending, mode, input, old>>
  BY DEF Reconcile, fixed, Matches
<1>p. /\ pc' \in [Load -> Place] /\ ok' \in [Load -> BOOLEAN]
      /\ pc'[m] = IF known[m] THEN "copy" ELSE "metrics"
      /\ \A l \in Load \ {m} : pc'[l] = pc[l]
  BY <1>i, GoesTo DEF Reconcile, TypeOK, Place, Otherwise
<1>e. Exact(m)' = Exact(m)
  BY <1>u DEF Exact, Number
<1>x. pc[m] = "reconcile" /\ stage[m] = Exact(m)
  BY <1>i DEF Reconcile, fixed, Matches
<1>1. Of(m)
  BY <1>i, <1>u, <1>p, <1>e, <1>x DEF Of, Typed, TypeOK, Otherwise
<1>2. ModeFits(m)'
  BY <1>i, <1>u, <1>p, <1>e, <1>x, LakeAssumption DEF LoadInv, ModeFits, Staged, Syncs, Otherwise, TypeOK
<1>3. There(m)'
  BY <1>i, <1>u, <1>p, <1>e, <1>x, LakeAssumption DEF LoadInv, ModeFits, There, Needs, Staged, Syncs, Otherwise, TypeOK
<1>4. StageFits(m)'
  <2>1. stage'[m] # None /\ pc'[m] \notin Over => Owns(m, stage'[m])
    BY <1>i, <1>u, <1>p, <1>x DEF LoadInv, StageFits, Owns, Over, Otherwise, TypeOK
  <2>2. stage'[m] # None /\ pc'[m] \notin Over /\ mode'[m] \in Staged => Filled(m)'
    BY <1>i, <1>u, <1>p, <1>x, LakeAssumption DEF LoadInv, ModeFits, StageFits, Filled, Over, Staged, Syncs, Otherwise, TypeOK
  <2>3. /\ stage'[m] # None /\ pc'[m] \notin Over /\ pc'[m] \in {"copy", "fill", "metrics", "publish"} /\ mode'[m] \in Syncs => stage'[m] = Exact(m)'
        /\ pc'[m] \in {"check", "create"} => batches'[m] = 0
        /\ mode'[m] \in Staged /\ pc'[m] = "load" /\ stage'[m] = None => batches'[m] = 0
        /\ mode'[m] \in Staged /\ pc'[m] \in {"prepare", "keys", "publish"} => batches'[m] = Len(input'[m])
    BY <1>i, <1>u, <1>p, <1>e, <1>x, LakeAssumption DEF LoadInv, ModeFits, There, StageFits, Over, Staged, Syncs, Otherwise, TypeOK
  <2> QED BY <2>1, <2>2, <2>3 DEF StageFits
<1>5. CandidateFits(m)'
  BY <1>i, <1>u, <1>p, <1>e, <1>x, LakeAssumption DEF LoadInv, ModeFits, CandidateFits, Whole, Staged, Syncs, Otherwise, TypeOK
<1>6. TidyFits(m)'
  BY <1>i, <1>u, <1>p, <1>e, <1>x DEF LoadInv, ModeFits, TidyFits, Tidy, Staged, Syncs, Otherwise, TypeOK
<1>7. Spares(m)
  BY <1>i, <1>u, <1>p, <1>e, <1>x DEF Spares, UniqueInv, Otherwise, TypeOK
<1>8. batches'[m] <= Len(input[m]) /\ (target # None => target' # None)
  BY <1>i, <1>u, <1>p, <1>e, <1>x DEF TypeOK
<1>9. PendingFits(m)'
  <2>1. Carries(m, pending[m])' <=> Carries(m, pending[m])
    BY <1>u, <1>e DEF Carries, Whole, Owns
  <2>2. pending[m] # None => pc[m] \in Over /\ Carries(m, pending[m])
    BY <1>i DEF LoadInv, PendingFits
  <2>3. pc[m] \in Over => pc'[m] \in Over
    BY <1>p, <1>x DEF Over, Otherwise
  <2> QED BY <1>u, <2>1, <2>2, <2>3 DEF PendingFits
<1> QED BY <1>1, <1>2, <1>3, <1>4, <1>5, <1>6, <1>7, <1>8, <1>9, OthersKeep DEF LoadInv

LEMMA MetricsKeeps ==
  ASSUME LakeIInv, NEW m \in Load, Metrics(m)
  PROVE  LakeIInv'
<1>i. TypeOK /\ LoadInv(m) /\ UniqueInv
  BY DEF LakeIInv
<1>u. UNCHANGED <<target, stage, candidate, batches, known, twice, leaked, pending, mode, input, old>>
  BY DEF Metrics, fixed
<1>p. /\ pc' \in [Load -> Place] /\ ok' \in [Load -> BOOLEAN]
      /\ pc'[m] = "publish"
      /\ \A l \in Load \ {m} : pc'[l] = pc[l]
  BY <1>i, GoesTo DEF Metrics, TypeOK, Place, Otherwise
<1>e. Exact(m)' = Exact(m)
  BY <1>u DEF Exact, Number
<1>x. pc[m] = "metrics"
  BY <1>i DEF Metrics, fixed
<1>1. Of(m)
  BY <1>i, <1>u, <1>p, <1>e, <1>x DEF Of, Typed, TypeOK, Otherwise
<1>2. ModeFits(m)'
  BY <1>i, <1>u, <1>p, <1>e, <1>x, LakeAssumption DEF LoadInv, ModeFits, Staged, Syncs, Otherwise, TypeOK
<1>3. There(m)'
  BY <1>i, <1>u, <1>p, <1>e, <1>x, LakeAssumption DEF LoadInv, ModeFits, There, Needs, Staged, Syncs, Otherwise, TypeOK
<1>4. StageFits(m)'
  <2>1. stage'[m] # None /\ pc'[m] \notin Over => Owns(m, stage'[m])
    BY <1>i, <1>u, <1>p, <1>x DEF LoadInv, StageFits, Owns, Over, Otherwise, TypeOK
  <2>2. stage'[m] # None /\ pc'[m] \notin Over /\ mode'[m] \in Staged => Filled(m)'
    BY <1>i, <1>u, <1>p, <1>x, LakeAssumption DEF LoadInv, ModeFits, StageFits, Filled, Over, Staged, Syncs, Otherwise, TypeOK
  <2>3. /\ stage'[m] # None /\ pc'[m] \notin Over /\ pc'[m] \in {"copy", "fill", "metrics", "publish"} /\ mode'[m] \in Syncs => stage'[m] = Exact(m)'
        /\ pc'[m] \in {"check", "create"} => batches'[m] = 0
        /\ mode'[m] \in Staged /\ pc'[m] = "load" /\ stage'[m] = None => batches'[m] = 0
        /\ mode'[m] \in Staged /\ pc'[m] \in {"prepare", "keys", "publish"} => batches'[m] = Len(input'[m])
    BY <1>i, <1>u, <1>p, <1>e, <1>x, LakeAssumption DEF LoadInv, ModeFits, There, StageFits, Over, Staged, Syncs, Otherwise, TypeOK
  <2> QED BY <2>1, <2>2, <2>3 DEF StageFits
<1>5. CandidateFits(m)'
  BY <1>i, <1>u, <1>p, <1>e, <1>x, LakeAssumption DEF LoadInv, ModeFits, CandidateFits, Whole, Staged, Syncs, Otherwise, TypeOK
<1>6. TidyFits(m)'
  BY <1>i, <1>u, <1>p, <1>e, <1>x DEF LoadInv, ModeFits, TidyFits, Tidy, Staged, Syncs, Otherwise, TypeOK
<1>7. Spares(m)
  BY <1>i, <1>u, <1>p, <1>e, <1>x DEF Spares, UniqueInv, Otherwise, TypeOK
<1>8. batches'[m] <= Len(input[m]) /\ (target # None => target' # None)
  BY <1>i, <1>u, <1>p, <1>e, <1>x DEF TypeOK
<1>9. PendingFits(m)'
  <2>1. Carries(m, pending[m])' <=> Carries(m, pending[m])
    BY <1>u, <1>e DEF Carries, Whole, Owns
  <2>2. pending[m] # None => pc[m] \in Over /\ Carries(m, pending[m])
    BY <1>i DEF LoadInv, PendingFits
  <2>3. pc[m] \in Over => pc'[m] \in Over
    BY <1>p, <1>x DEF Over, Otherwise
  <2> QED BY <1>u, <2>1, <2>2, <2>3 DEF PendingFits
<1> QED BY <1>1, <1>2, <1>3, <1>4, <1>5, <1>6, <1>7, <1>8, <1>9, OthersKeep DEF LoadInv

-----------------------------------------------------------------------------
(* Steps that write the target, the stage or the candidate: the statement is lost *)
(* before its effect, or has it. *)

LEMMA CreateTargetKeeps ==
  ASSUME LakeIInv, NEW m \in Load, CreateTarget(m)
  PROVE  LakeIInv'
<1>i. TypeOK /\ LoadInv(m) /\ UniqueInv /\ pc[m] = "create"
  BY DEF LakeIInv, CreateTarget
<1>n. pending[m] = None
  BY <1>i, NonePending DEF Over
<1>u. UNCHANGED <<stage, candidate, batches, known, twice, leaked, mode, input, old>>
  BY DEF CreateTarget, fixed
<1>r. Runs(m, target, Given(target), "create", Empty, "load")
  BY DEF CreateTarget
<1> DEFINE p == [into |-> "create", rows |-> Empty]
<1>l. ASSUME pending' = [pending EXCEPT ![m] = p], UNCHANGED target, Raises(m, TRUE)
      PROVE  LakeIInv'
  <2>1. p \in Pending /\ p.into = "create"
    BY <1>i, EmptyRows, PendingIs
  <2> HIDE DEF p
  <2>2. LostWith(m, p)
    BY <1>i, <1>u, <1>l DEF LostWith, TypeOK
  <2>3. Carries(m, p) /\ ~Brings(p)
    BY <2>1 DEF Carries, Brings
  <2> QED BY <2>1, <2>2, <2>3, LostKeeps
<1>y. SUFFICES ASSUME target' = Given(target), pending' = pending, Goes(m, "load") \/ Raises(m, TRUE)
               PROVE  LakeIInv'
  BY <1>r, <1>l DEF Runs
<1>p. /\ pc' \in [Load -> Place] /\ ok' \in [Load -> BOOLEAN]
      /\ pc'[m] \in {"load", Otherwise(m)}
      /\ \A l \in Load \ {m} : pc'[l] = pc[l]
  BY <1>i, <1>y, AnswerTo DEF Place
<1>e. Exact(m)' = Exact(m)
  BY <1>u DEF Exact, Number
<1>x. /\ target' \in Rows /\ target' # None /\ pc[m] = "create"
      /\ (target # None => target' = target) /\ (target = None => Unique(target'))
  <2>1. target' \in Rows /\ target' # None /\ (target # None => target' = target) /\ (target = None => target' = Empty)
    BY <1>i, <1>y, EmptyRows, LakeAssumption DEF Given, Table, TypeOK
  <2>2. Unique(Empty)
    BY EmptyRows, SingleRows DEF Unique
  <2> QED BY <1>i, <2>1, <2>2
<1>1. Of(m)
  BY <1>i, <1>u, <1>p, <1>x, <1>y DEF Of, Typed, TypeOK, Table
<1>2. ModeFits(m)'
  BY <1>i, <1>u, <1>p, <1>x, LakeAssumption DEF LoadInv, ModeFits, Staged, Syncs, Otherwise, TypeOK
<1>3. There(m)'
  BY <1>i, <1>u, <1>p, <1>x, LakeAssumption DEF LoadInv, ModeFits, There, Needs, Staged, Syncs, Otherwise, TypeOK
<1>4. StageFits(m)'
  <2>1. stage'[m] # None /\ pc'[m] \notin Over => Owns(m, stage'[m])
    BY <1>i, <1>u, <1>p, <1>x DEF LoadInv, StageFits, Owns, Over, Otherwise, TypeOK
  <2>2. stage'[m] # None /\ pc'[m] \notin Over /\ mode'[m] \in Staged => Filled(m)'
    BY <1>i, <1>u, <1>p, <1>x, LakeAssumption DEF LoadInv, ModeFits, StageFits, Filled, Over, Staged, Syncs, Otherwise, TypeOK
  <2>3. /\ stage'[m] # None /\ pc'[m] \notin Over /\ pc'[m] \in {"copy", "fill", "metrics", "publish"} /\ mode'[m] \in Syncs => stage'[m] = Exact(m)'
        /\ pc'[m] \in {"check", "create"} => batches'[m] = 0
        /\ mode'[m] \in Staged /\ pc'[m] = "load" /\ stage'[m] = None => batches'[m] = 0
        /\ mode'[m] \in Staged /\ pc'[m] \in {"prepare", "keys", "publish"} => batches'[m] = Len(input'[m])
    BY <1>i, <1>u, <1>p, <1>e, <1>x, LakeAssumption DEF LoadInv, ModeFits, There, StageFits, Over, Staged, Syncs, Otherwise, TypeOK
  <2> QED BY <2>1, <2>2, <2>3 DEF StageFits
<1>5. CandidateFits(m)'
  BY <1>i, <1>u, <1>p, <1>e, <1>x, LakeAssumption DEF LoadInv, ModeFits, CandidateFits, Whole, Staged, Syncs, Otherwise, TypeOK
<1>6. TidyFits(m)'
  BY <1>i, <1>u, <1>p, <1>x DEF LoadInv, ModeFits, TidyFits, Tidy, Staged, Syncs, Otherwise, TypeOK
<1>7. PendingFits(m)'
  BY <1>n, <1>y DEF PendingFits
<1>8. Spares(m)
  BY <1>i, <1>u, <1>p, <1>x, <1>y DEF Spares, UniqueInv, Otherwise, Calm, TypeOK
<1>9. batches'[m] <= Len(input[m]) /\ (target # None => target' # None)
  BY <1>i, <1>u, <1>x DEF TypeOK
<1> QED BY <1>1, <1>2, <1>3, <1>4, <1>5, <1>6, <1>7, <1>8, <1>9, OthersKeep DEF LoadInv

LEMMA PrepareKeeps ==
  ASSUME LakeIInv, NEW m \in Load, Prepare(m)
  PROVE  LakeIInv'
<1>i. TypeOK /\ LoadInv(m) /\ UniqueInv /\ pc[m] = "prepare"
  BY DEF LakeIInv, Prepare
<1>n. pending[m] = None
  BY <1>i, NonePending DEF Over
<1>u. UNCHANGED <<stage, candidate, batches, known, twice, leaked, mode, input, old>>
  BY DEF Prepare, fixed
<1>r. Runs(m, target, Given(target), "create", Empty, IF input[m] = <<>> THEN "drop" ELSE "keys")
  BY DEF Prepare
<1> DEFINE p == [into |-> "create", rows |-> Empty]
<1>l. ASSUME pending' = [pending EXCEPT ![m] = p], UNCHANGED target, Raises(m, TRUE)
      PROVE  LakeIInv'
  <2>1. p \in Pending /\ p.into = "create"
    BY <1>i, EmptyRows, PendingIs
  <2> HIDE DEF p
  <2>2. LostWith(m, p)
    BY <1>i, <1>u, <1>l DEF LostWith, TypeOK
  <2>3. Carries(m, p) /\ ~Brings(p)
    BY <2>1 DEF Carries, Brings
  <2> QED BY <2>1, <2>2, <2>3, LostKeeps
<1>y. SUFFICES ASSUME target' = Given(target), pending' = pending, Goes(m, IF input[m] = <<>> THEN "drop" ELSE "keys") \/ Raises(m, TRUE)
               PROVE  LakeIInv'
  BY <1>r, <1>l DEF Runs
<1>p. /\ pc' \in [Load -> Place] /\ ok' \in [Load -> BOOLEAN]
      /\ pc'[m] \in {IF input[m] = <<>> THEN "drop" ELSE "keys", Otherwise(m)}
      /\ \A l \in Load \ {m} : pc'[l] = pc[l]
  BY <1>i, <1>y, AnswerTo DEF Place
<1>e. Exact(m)' = Exact(m)
  BY <1>u DEF Exact, Number
<1>x. /\ target' \in Rows /\ target' # None /\ pc[m] = "prepare"
      /\ (target # None => target' = target) /\ (target = None => Unique(target'))
  <2>1. target' \in Rows /\ target' # None /\ (target # None => target' = target) /\ (target = None => target' = Empty)
    BY <1>i, <1>y, EmptyRows, LakeAssumption DEF Given, Table, TypeOK
  <2>2. Unique(Empty)
    BY EmptyRows, SingleRows DEF Unique
  <2> QED BY <1>i, <2>1, <2>2
<1>1. Of(m)
  BY <1>i, <1>u, <1>p, <1>x, <1>y DEF Of, Typed, TypeOK, Table
<1>2. ModeFits(m)'
  BY <1>i, <1>u, <1>p, <1>x, LakeAssumption DEF LoadInv, ModeFits, Staged, Syncs, Otherwise, TypeOK
<1>3. There(m)'
  BY <1>i, <1>u, <1>p, <1>x, LakeAssumption DEF LoadInv, ModeFits, There, Needs, Staged, Syncs, Otherwise, TypeOK
<1>4. StageFits(m)'
  <2>1. stage'[m] # None /\ pc'[m] \notin Over => Owns(m, stage'[m])
    BY <1>i, <1>u, <1>p, <1>x DEF LoadInv, StageFits, Owns, Over, Otherwise, TypeOK
  <2>2. stage'[m] # None /\ pc'[m] \notin Over /\ mode'[m] \in Staged => Filled(m)'
    BY <1>i, <1>u, <1>p, <1>x, LakeAssumption DEF LoadInv, ModeFits, StageFits, Filled, Over, Staged, Syncs, Otherwise, TypeOK
  <2>3. /\ stage'[m] # None /\ pc'[m] \notin Over /\ pc'[m] \in {"copy", "fill", "metrics", "publish"} /\ mode'[m] \in Syncs => stage'[m] = Exact(m)'
        /\ pc'[m] \in {"check", "create"} => batches'[m] = 0
        /\ mode'[m] \in Staged /\ pc'[m] = "load" /\ stage'[m] = None => batches'[m] = 0
        /\ mode'[m] \in Staged /\ pc'[m] \in {"prepare", "keys", "publish"} => batches'[m] = Len(input'[m])
    BY <1>i, <1>u, <1>p, <1>e, <1>x, LakeAssumption DEF LoadInv, ModeFits, There, StageFits, Over, Staged, Syncs, Otherwise, TypeOK
  <2> QED BY <2>1, <2>2, <2>3 DEF StageFits
<1>5. CandidateFits(m)'
  BY <1>i, <1>u, <1>p, <1>e, <1>x, LakeAssumption DEF LoadInv, ModeFits, CandidateFits, Whole, Staged, Syncs, Otherwise, TypeOK
<1>6. TidyFits(m)'
  BY <1>i, <1>u, <1>p, <1>x DEF LoadInv, ModeFits, TidyFits, Tidy, Staged, Syncs, Otherwise, TypeOK
<1>7. PendingFits(m)'
  BY <1>n, <1>y DEF PendingFits
<1>8. Spares(m)
  BY <1>i, <1>u, <1>p, <1>x, <1>y DEF Spares, UniqueInv, Otherwise, Calm, TypeOK
<1>9. batches'[m] <= Len(input[m]) /\ (target # None => target' # None)
  BY <1>i, <1>u, <1>x DEF TypeOK
<1> QED BY <1>1, <1>2, <1>3, <1>4, <1>5, <1>6, <1>7, <1>8, <1>9, OthersKeep DEF LoadInv

LEMMA CopyKeeps ==
  ASSUME LakeIInv, NEW m \in Load, Copy(m)
  PROVE  LakeIInv'
<1>i. TypeOK /\ LoadInv(m) /\ UniqueInv /\ pc[m] = "copy"
  BY DEF LakeIInv, Copy
<1>n. pending[m] = None
  BY <1>i, NonePending DEF Over
<1>u. UNCHANGED <<target, stage, batches, known, twice, leaked, mode, input, old>>
  BY DEF Copy, fixed
<1>r. PICK rows \in Rows : rows = target /\ rows # None
  BY <1>i DEF LoadInv, There, Needs, ModeFits, TypeOK, Table
<1> DEFINE p == [into |-> "candidate", rows |-> rows]
<1>l. ASSUME pending' = [pending EXCEPT ![m] = p], UNCHANGED candidate, Raises(m, TRUE)
      PROVE  LakeIInv'
  <2>1. p \in Pending /\ p.into = "candidate" /\ p.rows = rows
    BY <1>i, PendingIs
  <2> HIDE DEF p
  <2>2. LostWith(m, p)
    BY <1>i, <1>u, <1>l DEF LostWith, TypeOK
  <2>3. Carries(m, p)
    BY <1>i, <2>1 DEF Carries, LoadInv, ModeFits, Syncs
  <2>4. Calm => Unique(p.rows)
    BY <1>i, <1>r, <2>1 DEF UniqueInv
  <2> QED BY <2>1, <2>2, <2>3, <2>4, LostKeeps
<1>y. SUFFICES ASSUME candidate' = [candidate EXCEPT ![m] = rows], pending' = pending, Goes(m, "fill") \/ Raises(m, TRUE)
               PROVE  LakeIInv'
  BY <1>r, <1>l DEF Copy, Runs
<1>p. /\ pc' \in [Load -> Place] /\ ok' \in [Load -> BOOLEAN]
      /\ pc'[m] \in {"fill", Otherwise(m)}
      /\ \A l \in Load \ {m} : pc'[l] = pc[l]
  BY <1>i, <1>y, AnswerTo DEF Place
<1>e. Exact(m)' = Exact(m)
  BY <1>u DEF Exact, Number
<1>x. /\ candidate' \in [Load -> Table] /\ candidate'[m] = target /\ pc[m] = "copy" /\ target # None
      /\ \A l \in Load \ {m} : candidate'[l] = candidate[l]
  BY <1>i, <1>r, <1>y DEF TypeOK
<1>1. Of(m)
  BY <1>i, <1>u, <1>p, <1>x, <1>y DEF Of, Typed, TypeOK, Table
<1>2. ModeFits(m)'
  BY <1>i, <1>u, <1>p, <1>x, LakeAssumption DEF LoadInv, ModeFits, Staged, Syncs, Otherwise, TypeOK
<1>3. There(m)'
  BY <1>i, <1>u, <1>p, <1>x, LakeAssumption DEF LoadInv, ModeFits, There, Needs, Staged, Syncs, Otherwise, TypeOK
<1>4. StageFits(m)'
  <2>1. stage'[m] # None /\ pc'[m] \notin Over => Owns(m, stage'[m])
    BY <1>i, <1>u, <1>p, <1>x DEF LoadInv, StageFits, Owns, Over, Otherwise, TypeOK
  <2>2. stage'[m] # None /\ pc'[m] \notin Over /\ mode'[m] \in Staged => Filled(m)'
    BY <1>i, <1>u, <1>p, <1>x, LakeAssumption DEF LoadInv, ModeFits, StageFits, Filled, Over, Staged, Syncs, Otherwise, TypeOK
  <2>3. /\ stage'[m] # None /\ pc'[m] \notin Over /\ pc'[m] \in {"copy", "fill", "metrics", "publish"} /\ mode'[m] \in Syncs => stage'[m] = Exact(m)'
        /\ pc'[m] \in {"check", "create"} => batches'[m] = 0
        /\ mode'[m] \in Staged /\ pc'[m] = "load" /\ stage'[m] = None => batches'[m] = 0
        /\ mode'[m] \in Staged /\ pc'[m] \in {"prepare", "keys", "publish"} => batches'[m] = Len(input'[m])
    BY <1>i, <1>u, <1>p, <1>e, <1>x, LakeAssumption DEF LoadInv, ModeFits, There, StageFits, Over, Staged, Syncs, Otherwise, TypeOK
  <2> QED BY <2>1, <2>2, <2>3 DEF StageFits
<1>5. CandidateFits(m)'
  BY <1>i, <1>u, <1>p, <1>e, <1>x, LakeAssumption DEF LoadInv, ModeFits, CandidateFits, Whole, Staged, Syncs, Otherwise, TypeOK
<1>6. TidyFits(m)'
  BY <1>i, <1>u, <1>p, <1>x DEF LoadInv, ModeFits, TidyFits, Tidy, Staged, Syncs, Otherwise, TypeOK
<1>7. PendingFits(m)'
  BY <1>n, <1>y DEF PendingFits
<1>8. Spares(m)
  BY <1>i, <1>u, <1>p, <1>x, <1>y DEF Spares, UniqueInv, Otherwise, Calm, TypeOK
<1>9. batches'[m] <= Len(input[m]) /\ (target # None => target' # None)
  BY <1>i, <1>u, <1>x DEF TypeOK
<1> QED BY <1>1, <1>2, <1>3, <1>4, <1>5, <1>6, <1>7, <1>8, <1>9, OthersKeep DEF LoadInv

LEMMA ExtractKeeps ==
  ASSUME LakeIInv, NEW m \in Load, Extract(m)
  PROVE  LakeIInv'
<1>i. TypeOK /\ LoadInv(m) /\ UniqueInv /\ pc[m] = "extract" /\ ~twice[m]
  BY DEF LakeIInv, Extract, UniqueInv
<1>n. pending[m] = None
  BY <1>i, NonePending DEF Over
<1>u. UNCHANGED <<target, candidate, batches, known, leaked, mode, input, old>>
  BY DEF Extract, fixed
<1>q. PICK rows \in Rows : /\ rows # None /\ Owns(m, rows) /\ twice' = [twice EXCEPT ![m] = rows # Exact(m)]
                           /\ Runs(m, stage, [stage EXCEPT ![m] = rows], "stage", rows, "reconcile")
  <2>1. \A rows \in Extracted(m) : rows \in Rows /\ rows # None /\ Owns(m, rows)
    BY <1>i, ExtractedRows, LakeAssumption
  <2> QED BY <2>1 DEF Extract
<1>t. twice' \in [Load -> BOOLEAN] /\ \A l \in Load \ {m} : twice'[l] = twice[l]
  <2> DEFINE again == rows # Exact(m)
  <2>1. again \in BOOLEAN /\ twice' = [twice EXCEPT ![m] = again]
    BY <1>q
  <2> HIDE DEF again
  <2> QED BY <1>i, <2>1 DEF TypeOK
<1> DEFINE p == [into |-> "stage", rows |-> rows]
<1>l. ASSUME pending' = [pending EXCEPT ![m] = p], UNCHANGED stage, Raises(m, TRUE)
      PROVE  LakeIInv'
  <2>1. p \in Pending /\ p.into = "stage"
    BY <1>i, PendingIs
  <2> HIDE DEF p
  <2>2. LostWith(m, p)
    BY <1>i, <1>u, <1>t, <1>l DEF LostWith, TypeOK
  <2>3. Carries(m, p) /\ ~Brings(p)
    BY <1>i, <2>1 DEF Carries, Brings, LoadInv, ModeFits, Syncs
  <2> QED BY <2>1, <2>2, <2>3, LostKeeps
<1>y. SUFFICES ASSUME stage' = [stage EXCEPT ![m] = rows], pending' = pending, Goes(m, "reconcile") \/ Raises(m, TRUE)
               PROVE  LakeIInv'
  BY <1>q, <1>l DEF Runs
<1>p. /\ pc' \in [Load -> Place] /\ ok' \in [Load -> BOOLEAN]
      /\ pc'[m] \in {"reconcile", Otherwise(m)}
      /\ \A l \in Load \ {m} : pc'[l] = pc[l]
  BY <1>i, <1>y, AnswerTo DEF Place
<1>e. Exact(m)' = Exact(m)
  BY <1>u DEF Exact, Number
<1>x. /\ pc[m] = "extract" /\ stage' \in [Load -> Table] /\ stage'[m] # None
      /\ Owns(m, stage'[m]) /\ twice' \in [Load -> BOOLEAN]
      /\ \A l \in Load \ {m} : stage'[l] = stage[l] /\ twice'[l] = twice[l]
  BY <1>i, <1>q, <1>t, <1>y DEF TypeOK, Table
<1>1. Of(m)
  BY <1>i, <1>u, <1>p, <1>x, <1>y DEF Of, Typed, TypeOK, Table
<1>2. ModeFits(m)'
  BY <1>i, <1>u, <1>p, <1>x, LakeAssumption DEF LoadInv, ModeFits, Staged, Syncs, Otherwise, TypeOK
<1>3. There(m)'
  BY <1>i, <1>u, <1>p, <1>x, LakeAssumption DEF LoadInv, ModeFits, There, Needs, Staged, Syncs, Otherwise, TypeOK
<1>4. StageFits(m)'
  <2>1. stage'[m] # None /\ pc'[m] \notin Over => Owns(m, stage'[m])
    BY <1>i, <1>u, <1>p, <1>x DEF LoadInv, StageFits, Owns, Over, Otherwise, TypeOK
  <2>2. stage'[m] # None /\ pc'[m] \notin Over /\ mode'[m] \in Staged => Filled(m)'
    BY <1>i, <1>u, <1>p, <1>x, LakeAssumption DEF LoadInv, ModeFits, StageFits, Filled, Over, Staged, Syncs, Otherwise, TypeOK
  <2>3. /\ stage'[m] # None /\ pc'[m] \notin Over /\ pc'[m] \in {"copy", "fill", "metrics", "publish"} /\ mode'[m] \in Syncs => stage'[m] = Exact(m)'
        /\ pc'[m] \in {"check", "create"} => batches'[m] = 0
        /\ mode'[m] \in Staged /\ pc'[m] = "load" /\ stage'[m] = None => batches'[m] = 0
        /\ mode'[m] \in Staged /\ pc'[m] \in {"prepare", "keys", "publish"} => batches'[m] = Len(input'[m])
    BY <1>i, <1>u, <1>p, <1>e, <1>x, LakeAssumption DEF LoadInv, ModeFits, There, StageFits, Over, Staged, Syncs, Otherwise, TypeOK
  <2> QED BY <2>1, <2>2, <2>3 DEF StageFits
<1>5. CandidateFits(m)'
  BY <1>i, <1>u, <1>p, <1>e, <1>x, LakeAssumption DEF LoadInv, ModeFits, CandidateFits, Whole, Staged, Syncs, Otherwise, TypeOK
<1>6. TidyFits(m)'
  BY <1>i, <1>u, <1>p, <1>x DEF LoadInv, ModeFits, TidyFits, Tidy, Staged, Syncs, Otherwise, TypeOK
<1>7. PendingFits(m)'
  BY <1>n, <1>y DEF PendingFits
<1>8. Spares(m)
  BY <1>i, <1>u, <1>p, <1>x, <1>y DEF Spares, UniqueInv, Otherwise, Calm, TypeOK
<1>9. batches'[m] <= Len(input[m]) /\ (target # None => target' # None)
  BY <1>i, <1>u, <1>x DEF TypeOK
<1> QED BY <1>1, <1>2, <1>3, <1>4, <1>5, <1>6, <1>7, <1>8, <1>9, OthersKeep DEF LoadInv

LEMMA SwapKeeps ==
  ASSUME LakeIInv, NEW m \in Load, Swap(m)
  PROVE  LakeIInv'
<1>i. TypeOK /\ LoadInv(m) /\ UniqueInv /\ pc[m] = "publish" /\ mode[m] \in Syncs
  BY DEF LakeIInv, Swap
<1>n. pending[m] = None
  BY <1>i, NonePending DEF Over
<1>u. UNCHANGED <<stage, candidate, batches, known, twice, leaked, mode, input, old>>
  BY DEF Swap, fixed
<1>r. PICK rows \in Rows : rows = (IF known[m] THEN candidate[m] ELSE stage[m]) /\ rows # None
  BY <1>i DEF LoadInv, There, TypeOK, Table
<1>c. Calm => Unique(rows)
  <2>1. CASE known[m]
    BY <1>i, <1>r, <2>1 DEF UniqueInv
  <2>2. CASE ~known[m]
    <3>1. rows = Exact(m)
      BY <1>i, <1>r, <2>2 DEF LoadInv, StageFits, Over
    <3> QED BY <1>i, <3>1, ExactRows, OwnedUnique DEF Calm
  <2> QED BY <2>1, <2>2
<1> DEFINE p == [into |-> "replace", rows |-> rows]
<1>l. ASSUME pending' = [pending EXCEPT ![m] = p], UNCHANGED target, Raises(m, TRUE)
      PROVE  LakeIInv'
  <2>1. p \in Pending /\ p.into = "replace" /\ p.rows = rows
    BY <1>i, PendingIs
  <2> HIDE DEF p
  <2>2. LostWith(m, p)
    BY <1>i, <1>u, <1>l DEF LostWith, TypeOK
  <2>3. Whole(m, rows) /\ (mode[m] = "sync_replace" => rows = Exact(m))
    BY <1>i, <1>r, StageIsWhole DEF LoadInv, CandidateFits, StageFits, ModeFits, Over
  <2>4. mode[m] = "sync_upsert" /\ known[m] /\ input[m] # <<>> => Unique(rows)
    BY <1>i, <1>r DEF LoadInv, CandidateFits
  <2>5. Carries(m, p)
    BY <2>1, <2>3, <2>4 DEF Carries
  <2> QED BY <1>c, <2>1, <2>2, <2>5, LostKeeps
<1>y. SUFFICES ASSUME target' = rows, pending' = pending, Goes(m, "drop") \/ Raises(m, TRUE)
               PROVE  LakeIInv'
  BY <1>r, <1>l DEF Swap, Runs
<1>p. /\ pc' \in [Load -> Place] /\ ok' \in [Load -> BOOLEAN]
      /\ pc'[m] \in {"drop", Otherwise(m)}
      /\ \A l \in Load \ {m} : pc'[l] = pc[l]
  BY <1>i, <1>y, AnswerTo DEF Place
<1>e. Exact(m)' = Exact(m)
  BY <1>u DEF Exact, Number
<1>x. /\ pc[m] = "publish" /\ mode[m] \in Syncs /\ target' \in Table /\ target' # None
      /\ Calm => Unique(target')
  BY <1>i, <1>r, <1>c, <1>y DEF Table
<1>1. Of(m)
  BY <1>i, <1>u, <1>p, <1>x, <1>y DEF Of, Typed, TypeOK, Table
<1>2. ModeFits(m)'
  BY <1>i, <1>u, <1>p, <1>x, LakeAssumption DEF LoadInv, ModeFits, Staged, Syncs, Otherwise, TypeOK
<1>3. There(m)'
  BY <1>i, <1>u, <1>p, <1>x, LakeAssumption DEF LoadInv, ModeFits, There, Needs, Staged, Syncs, Otherwise, TypeOK
<1>4. StageFits(m)'
  <2>1. stage'[m] # None /\ pc'[m] \notin Over => Owns(m, stage'[m])
    BY <1>i, <1>u, <1>p, <1>x DEF LoadInv, StageFits, Owns, Over, Otherwise, TypeOK
  <2>2. stage'[m] # None /\ pc'[m] \notin Over /\ mode'[m] \in Staged => Filled(m)'
    BY <1>i, <1>u, <1>p, <1>x, LakeAssumption DEF LoadInv, ModeFits, StageFits, Filled, Over, Staged, Syncs, Otherwise, TypeOK
  <2>3. /\ stage'[m] # None /\ pc'[m] \notin Over /\ pc'[m] \in {"copy", "fill", "metrics", "publish"} /\ mode'[m] \in Syncs => stage'[m] = Exact(m)'
        /\ pc'[m] \in {"check", "create"} => batches'[m] = 0
        /\ mode'[m] \in Staged /\ pc'[m] = "load" /\ stage'[m] = None => batches'[m] = 0
        /\ mode'[m] \in Staged /\ pc'[m] \in {"prepare", "keys", "publish"} => batches'[m] = Len(input'[m])
    BY <1>i, <1>u, <1>p, <1>e, <1>x, LakeAssumption DEF LoadInv, ModeFits, There, StageFits, Over, Staged, Syncs, Otherwise, TypeOK
  <2> QED BY <2>1, <2>2, <2>3 DEF StageFits
<1>5. CandidateFits(m)'
  BY <1>i, <1>u, <1>p, <1>e, <1>x, LakeAssumption DEF LoadInv, ModeFits, CandidateFits, Whole, Staged, Syncs, Otherwise, TypeOK
<1>6. TidyFits(m)'
  BY <1>i, <1>u, <1>p, <1>x DEF LoadInv, ModeFits, TidyFits, Tidy, Staged, Syncs, Otherwise, TypeOK
<1>7. PendingFits(m)'
  BY <1>n, <1>y DEF PendingFits
<1>8. Spares(m)
  BY <1>i, <1>u, <1>p, <1>x, <1>y DEF Spares, UniqueInv, Otherwise, Calm, TypeOK
<1>9. batches'[m] <= Len(input[m]) /\ (target # None => target' # None)
  BY <1>i, <1>u, <1>x DEF TypeOK
<1> QED BY <1>1, <1>2, <1>3, <1>4, <1>5, <1>6, <1>7, <1>8, <1>9, OthersKeep DEF LoadInv

LEMMA DropKeeps ==
  ASSUME LakeIInv, NEW m \in Load, Drop(m)
  PROVE  LakeIInv'
<1>i. TypeOK /\ LoadInv(m) /\ UniqueInv
  BY DEF LakeIInv
<1>u. UNCHANGED <<target, batches, known, twice, pending, mode, input, old>>
  BY DEF Drop, fixed
<1>p. /\ pc' \in [Load -> Place] /\ ok' \in [Load -> BOOLEAN]
      /\ pc'[m] = AfterDrop(m)
      /\ \A l \in Load \ {m} : pc'[l] = pc[l]
  <2>1. AfterDrop(m) \in Place /\ Goes(m, AfterDrop(m))
    BY DEF Drop, AfterDrop, Place
  <2> QED BY <1>i, <2>1, GoesTo
<1>e. Exact(m)' = Exact(m)
  BY <1>u DEF Exact, Number
<1>x. /\ pc[m] = "drop"
      /\ stage' \in [Load -> Table] /\ candidate' \in [Load -> Table] /\ leaked' \in [Load -> BOOLEAN]
      /\ \A l \in Load \ {m} : stage'[l] = stage[l] /\ candidate'[l] = candidate[l] /\ leaked'[l] = leaked[l]
      /\ ~leaked'[m] => stage'[m] = None /\ candidate'[m] = None
      /\ candidate'[m] \in {candidate[m], None}
  <2>1. PICK stages \in BOOLEAN, candidates \in BOOLEAN :
              /\ stage' = [stage EXCEPT ![m] = IF stages THEN None ELSE @]
              /\ candidate' = [candidate EXCEPT ![m] = IF candidates THEN None ELSE @]
              /\ leaked' = [leaked EXCEPT ![m] = ~(stages /\ candidates)]
    BY DEF Drop
  <2>2. pc[m] = "drop"
    BY DEF Drop
  <2>3. stage' \in [Load -> Table] /\ stage'[m] = (IF stages THEN None ELSE stage[m]) /\ \A l \in Load \ {m} : stage'[l] = stage[l]
    BY <1>i, <2>1 DEF TypeOK, Table
  <2>4. candidate' \in [Load -> Table] /\ candidate'[m] = (IF candidates THEN None ELSE candidate[m]) /\ \A l \in Load \ {m} : candidate'[l] = candidate[l]
    BY <1>i, <2>1 DEF TypeOK, Table
  <2>5. leaked' \in [Load -> BOOLEAN] /\ (leaked'[m] <=> ~(stages /\ candidates)) /\ \A l \in Load \ {m} : leaked'[l] = leaked[l]
    <3> DEFINE left == ~(stages /\ candidates)
    <3>1. left \in BOOLEAN /\ leaked' = [leaked EXCEPT ![m] = left]
      BY <2>1
    <3> HIDE DEF left
    <3>2. leaked' \in [Load -> BOOLEAN] /\ leaked'[m] = left /\ \A l \in Load \ {m} : leaked'[l] = leaked[l]
      BY <1>i, <3>1 DEF TypeOK
    <3> QED BY <3>2 DEF left
  <2> QED BY <2>2, <2>3, <2>4, <2>5
<1>1. Of(m)
  BY <1>i, <1>u, <1>p, <1>x DEF Of, Typed, TypeOK
<1>2. ModeFits(m)'
  BY <1>i, <1>u, <1>p, <1>x DEF LoadInv, ModeFits, AfterDrop
<1>3. There(m)'
  BY <1>i, <1>u, <1>p, <1>x DEF LoadInv, ModeFits, There, Needs, AfterDrop
<1>4. StageFits(m)'
  BY <1>p DEF StageFits, Over, AfterDrop
<1>5. CandidateFits(m)'
  BY <1>p DEF CandidateFits, AfterDrop
<1>6. TidyFits(m)'
  BY <1>i, <1>u, <1>p, <1>x DEF LoadInv, ModeFits, TidyFits, Tidy, AfterDrop
<1>7. PendingFits(m)'
  <2>1. Carries(m, pending[m])' <=> Carries(m, pending[m])
    BY <1>u, <1>e DEF Carries, Whole, Owns
  <2>2. pending[m] # None => Carries(m, pending[m])
    BY <1>i DEF LoadInv, PendingFits
  <2>3. pc'[m] \in Over
    BY <1>p DEF Over, AfterDrop
  <2> QED BY <1>u, <2>1, <2>2, <2>3 DEF PendingFits
<1>8. Spares(m)
  BY <1>i, <1>u, <1>p, <1>x DEF Spares, UniqueInv, AfterDrop
<1>9. batches'[m] <= Len(input[m]) /\ (target # None => target' # None)
  BY <1>i, <1>u DEF TypeOK
<1> QED BY <1>1, <1>2, <1>3, <1>4, <1>5, <1>6, <1>7, <1>8, <1>9, OthersKeep DEF LoadInv

\* What comes late finds its load over.
LEMMA LandsKeeps ==
  ASSUME LakeIInv, NEW m \in Load, Lands(m)
  PROVE  LakeIInv'
<1>i. /\ TypeOK /\ LoadInv(m) /\ UniqueInv /\ pc[m] \in Over /\ Carries(m, pending[m])
      /\ pending[m] \in Pending /\ pending[m] # None /\ pending[m].rows \in Rows
  BY DEF LakeIInv, Lands, LoadInv, PendingFits, TypeOK, Pending
<1>u. UNCHANGED <<batches, known, pc, ok, twice, mode, input, old>>
  BY DEF Lands, fixed
<1>n. pending' \in [Load -> Pending \cup {None}] /\ pending'[m] = None /\ \A l \in Load \ {m} : pending'[l] = pending[l]
  BY <1>i DEF Lands, TypeOK
<1>t. /\ target' \in Table /\ (target # None => target' # None)
      /\ Calm => target' = target \/ (target' # None => Unique(target'))
  <2>1. CASE target' = target
    BY <1>i, <2>1 DEF TypeOK
  <2>2. CASE pending[m].into = "create" /\ target' = Given(target)
    <3>1. Unique(Empty)
      BY EmptyRows, SingleRows DEF Unique
    <3> QED BY <1>i, <2>2, <3>1, EmptyRows, LakeAssumption DEF TypeOK, Given, Table
  <2>3. CASE pending[m].into = "replace" /\ target' = pending[m].rows
    BY <1>i, <2>3, LakeAssumption DEF UniqueInv, Brings, Table
  <2>4. CASE pending[m].into = "insert" /\ target' = Plus(target, pending[m].rows)
    <3>1. target \in Rows /\ mode[m] \in {"append", "atomic"}
      BY <1>i, <2>4 DEF TypeOK, Table, Carries
    <3> QED BY <1>i, <2>4, <3>1, PlusRows, LakeAssumption DEF Table, Calm
  <2> QED BY <2>1, <2>2, <2>3, <2>4 DEF Lands, LandsOnTarget
<1>x. /\ stage' \in [Load -> Table] /\ candidate' \in [Load -> Table] /\ leaked' \in [Load -> BOOLEAN]
      /\ \A l \in Load \ {m} : stage'[l] = stage[l] /\ candidate'[l] = candidate[l] /\ leaked'[l] = leaked[l]
      /\ \/ stage'[m] = stage[m] /\ candidate'[m] = candidate[m] /\ leaked'[m] = leaked[m]
         \/ mode[m] # "append" /\ (pc[m] = "drop" \/ leaked'[m])
      /\ candidate'[m] # candidate[m] => pending[m].into = "candidate" /\ candidate'[m] = pending[m].rows
  <2>1. CASE UNCHANGED <<stage, candidate, leaked>>
    BY <1>i, <2>1 DEF TypeOK
  <2>2. CASE LandsOnTable(m)
    <3>1. /\ leaked' \in [Load -> BOOLEAN] /\ (pc[m] = "drop" \/ leaked'[m])
          /\ \A l \in Load \ {m} : leaked'[l] = leaked[l]
      <4> DEFINE left == leaked[m] \/ pc[m] # "drop"
      <4>1. left \in BOOLEAN /\ leaked' = [leaked EXCEPT ![m] = left]
        BY <1>i, <2>2 DEF LandsOnTable, TypeOK
      <4> HIDE DEF left
      <4>2. leaked' \in [Load -> BOOLEAN] /\ leaked'[m] = left /\ \A l \in Load \ {m} : leaked'[l] = leaked[l]
        BY <1>i, <4>1 DEF TypeOK
      <4> QED BY <4>2 DEF left
    <3>2. mode[m] # "append"
      BY <1>i, <2>2 DEF LandsOnTable, Carries
    <3>3. CASE pending[m].into = "stage" /\ stage' = [stage EXCEPT ![m] = pending[m].rows] /\ UNCHANGED candidate
      BY <1>i, <3>1, <3>2, <3>3 DEF TypeOK, Table
    <3>4. CASE pending[m].into = "candidate" /\ candidate' = [candidate EXCEPT ![m] = pending[m].rows] /\ UNCHANGED stage
      BY <1>i, <3>1, <3>2, <3>4 DEF TypeOK, Table
    <3> QED BY <2>2, <3>3, <3>4 DEF LandsOnTable
  <2> QED BY <2>1, <2>2 DEF Lands
<1>1. Of(m)
  BY <1>i, <1>u, <1>n, <1>t, <1>x DEF Of, Typed, TypeOK
<1>2. ModeFits(m)'
  BY <1>i, <1>u DEF LoadInv, ModeFits
<1>3. There(m)'
  BY <1>i, <1>u, <1>t DEF LoadInv, There, Needs, Over
<1>4. StageFits(m)'
  BY <1>i, <1>u DEF StageFits, Over
<1>5. CandidateFits(m)'
  BY <1>i, <1>u DEF CandidateFits, Over
<1>6. TidyFits(m)'
  BY <1>i, <1>u, <1>x DEF LoadInv, TidyFits, Tidy, Over
<1>7. PendingFits(m)'
  BY <1>n DEF PendingFits
<1>8. Spares(m)
  BY <1>i, <1>u, <1>n, <1>t, <1>x DEF Spares, UniqueInv, Brings, Over
<1>9. batches'[m] <= Len(input[m])
  BY <1>i, <1>u DEF TypeOK
<1> QED BY <1>1, <1>2, <1>3, <1>4, <1>5, <1>6, <1>7, <1>8, <1>9, <1>t, OthersKeep DEF LoadInv

\* What is published, and what it makes of the target.
LEMMA PublishesRows ==
  ASSUME LakeIInv, NEW m \in Load, pc[m] = "publish", mode[m] \in {"replace", "upsert"}
  PROVE  LET rows == IF mode[m] = "replace" THEN stage[m] ELSE Merged(target, stage[m])
         IN  rows \in Rows /\ rows # None /\ Whole(m, rows) /\ (Calm => Unique(rows))
<1>1. TypeOK /\ LoadInv(m) /\ UniqueInv
  BY DEF LakeIInv
<1>2. stage[m] \in Rows /\ stage[m] # None /\ Owns(m, stage[m]) /\ Whole(m, stage[m])
  BY <1>1, StageIsWhole
<1>3. Calm => \A r \in Row : stage[m][r] <= 1
  BY <1>1, <1>2, StageOnce DEF Calm
<1>4. CASE mode[m] = "replace"
  BY <1>2, <1>3, <1>4, OwnedUnique
<1>5. CASE mode[m] = "upsert"
  <2>1. target \in Rows /\ target # None
    BY <1>1, <1>5 DEF LoadInv, There, Needs, TypeOK, Table
  <2>2. /\ Merged(target, stage[m]) \in Rows /\ Merged(target, stage[m]) # None
        /\ \A r \in Row : Merged(target, stage[m])[r] >= stage[m][r]
    BY <1>2, <2>1, MergedRows, LakeAssumption
  <2>3. \A k \in Key : <<k, m>> \in Row /\ Exact(m)[<<k, m>>] \in Nat
    BY <1>1, ExactRows, NumberIs DEF Row
  <2>4. Whole(m, Merged(target, stage[m]))
    <3> SUFFICES ASSUME NEW k \in Key PROVE Merged(target, stage[m])[<<k, m>>] >= Exact(m)[<<k, m>>]
      BY DEF Whole
    <3>1. stage[m][<<k, m>>] >= Exact(m)[<<k, m>>] /\ Merged(target, stage[m])[<<k, m>>] >= stage[m][<<k, m>>]
      BY <1>2, <2>2, <2>3 DEF Whole
    <3>2. stage[m][<<k, m>>] \in Nat /\ Merged(target, stage[m])[<<k, m>>] \in Nat
      BY <1>2, <2>2, <2>3, RowsAre
    <3> QED BY <2>3, <3>1, <3>2
  <2>5. Calm => Unique(Merged(target, stage[m]))
    BY <1>1, <1>2, <1>3, <2>1, MergedUnique DEF UniqueInv
  <2> QED BY <1>5, <2>2, <2>4, <2>5
<1> QED BY <1>4, <1>5

LEMMA PublishKeeps ==
  ASSUME LakeIInv, NEW m \in Load, Publish(m)
  PROVE  LakeIInv'
<1>i. TypeOK /\ LoadInv(m) /\ UniqueInv /\ pc[m] = "publish" /\ mode[m] \in {"replace", "upsert", "atomic"}
  BY DEF LakeIInv, Publish
<1>n. pending[m] = None
  BY <1>i, NonePending DEF Over
<1>u. UNCHANGED <<stage, candidate, batches, known, twice, leaked, mode, input, old>>
  BY DEF Publish, fixed
<1>s. stage[m] \in Rows /\ Owns(m, stage[m]) /\ Whole(m, stage[m])
  BY <1>i, StageIsWhole
<1>l. ASSUME NEW into \in {"replace", "insert"}, NEW rows \in Rows, Whole(m, rows),
             into = "insert" => mode[m] = "atomic" /\ rows = stage[m],
             into = "replace" => mode[m] # "atomic" /\ (Calm => Unique(rows)),
             pending' = [pending EXCEPT ![m] = [into |-> into, rows |-> rows]], UNCHANGED target, Raises(m, TRUE)
      PROVE  LakeIInv'
  <2> DEFINE p == [into |-> into, rows |-> rows]
  <2>1. p \in Pending /\ p.into = into /\ p.rows = rows
    BY <1>i, PendingIs
  <2> HIDE DEF p
  <2>2. LostWith(m, p)
    BY <1>i, <1>u, <1>l DEF LostWith, TypeOK, p
  <2>3. into = "insert" => target # None /\ Owns(m, rows)
    BY <1>i, <1>l, <1>s DEF LoadInv, There, Needs
  <2>4. Carries(m, p)
    BY <1>i, <1>l, <2>1, <2>3 DEF Carries
  <2>5. Calm /\ Brings(p) => Unique(p.rows)
    BY <1>l, <2>1 DEF Brings
  <2> QED BY <2>1, <2>2, <2>4, <2>5, LostKeeps
<1>y. SUFFICES ASSUME /\ pending' = pending /\ (Goes(m, "drop") \/ Raises(m, TRUE))
                      /\ target' \in Rows /\ target' # None /\ (Calm => Unique(target'))
               PROVE  LakeIInv'
  <2>1. CASE mode[m] \in {"replace", "upsert"}
    <3>1. PICK rows \in Rows : /\ rows = IF mode[m] = "replace" THEN stage[m] ELSE Merged(target, stage[m])
                               /\ rows # None /\ Whole(m, rows) /\ (Calm => Unique(rows))
      BY <1>i, <2>1, PublishesRows
    <3>2. Runs(m, target, rows, "replace", rows, "drop")
      BY <2>1, <3>1 DEF Publish
    <3>3. CASE target' = rows /\ (Goes(m, "drop") \/ Raises(m, TRUE)) /\ UNCHANGED pending
      BY <1>y, <3>1, <3>3
    <3>4. CASE UNCHANGED target /\ Raises(m, TRUE) /\ pending' = [pending EXCEPT ![m] = [into |-> "replace", rows |-> rows]]
      BY <1>l, <2>1, <3>1, <3>4
    <3> QED BY <3>2, <3>3, <3>4 DEF Runs
  <2>2. CASE mode[m] = "atomic"
    <3>1. PICK rows \in Rows : rows = stage[m]
      BY <1>s
    <3>2. Inserts(m, rows, "drop")
      BY <2>2, <3>1 DEF Publish, Inserts, Runs
    <3>3. target \in Rows /\ ~Calm
      BY <1>i, <2>2 DEF LoadInv, There, Needs, TypeOK, Table, Calm
    <3>4. CASE /\ target' = Plus(target, rows) \/ target' = Plus(target, Plus(rows, rows))
               /\ (Goes(m, "drop") \/ Raises(m, TRUE)) /\ UNCHANGED pending
      <4>1. target' \in Rows /\ target' # None
        BY <3>3, <3>4, PlusRows, LakeAssumption
      <4> QED BY <1>y, <3>3, <3>4, <4>1
    <3>5. CASE UNCHANGED target /\ Raises(m, TRUE) /\ pending' = [pending EXCEPT ![m] = [into |-> "insert", rows |-> rows]]
      BY <1>l, <1>s, <2>2, <3>1, <3>5
    <3> QED BY <3>2, <3>4, <3>5 DEF Inserts, Runs
  <2> QED BY <1>i, <2>1, <2>2
<1>p. /\ pc' \in [Load -> Place] /\ ok' \in [Load -> BOOLEAN]
      /\ pc'[m] = "drop"
      /\ \A l \in Load \ {m} : pc'[l] = pc[l]
  BY <1>i, <1>y, AnswerTo DEF Place, Otherwise
<1>e. Exact(m)' = Exact(m)
  BY <1>u DEF Exact, Number
<1>x. pc[m] = "publish" /\ mode[m] \in Staged
  BY <1>i DEF Staged
<1>1. Of(m)
  BY <1>i, <1>u, <1>p, <1>x, <1>y DEF Of, Typed, TypeOK, Table
<1>2. ModeFits(m)'
  BY <1>i, <1>u, <1>p, <1>x, LakeAssumption DEF LoadInv, ModeFits, Staged, Syncs, Otherwise, TypeOK
<1>3. There(m)'
  BY <1>i, <1>u, <1>p, <1>x, LakeAssumption DEF LoadInv, ModeFits, There, Needs, Staged, Syncs, Otherwise, TypeOK
<1>4. StageFits(m)'
  <2>1. stage'[m] # None /\ pc'[m] \notin Over => Owns(m, stage'[m])
    BY <1>i, <1>u, <1>p, <1>x DEF LoadInv, StageFits, Owns, Over, Otherwise, TypeOK
  <2>2. stage'[m] # None /\ pc'[m] \notin Over /\ mode'[m] \in Staged => Filled(m)'
    BY <1>i, <1>u, <1>p, <1>x, LakeAssumption DEF LoadInv, ModeFits, StageFits, Filled, Over, Staged, Syncs, Otherwise, TypeOK
  <2>3. /\ stage'[m] # None /\ pc'[m] \notin Over /\ pc'[m] \in {"copy", "fill", "metrics", "publish"} /\ mode'[m] \in Syncs => stage'[m] = Exact(m)'
        /\ pc'[m] \in {"check", "create"} => batches'[m] = 0
        /\ mode'[m] \in Staged /\ pc'[m] = "load" /\ stage'[m] = None => batches'[m] = 0
        /\ mode'[m] \in Staged /\ pc'[m] \in {"prepare", "keys", "publish"} => batches'[m] = Len(input'[m])
    BY <1>i, <1>u, <1>p, <1>e, <1>x, LakeAssumption DEF LoadInv, ModeFits, There, StageFits, Over, Staged, Syncs, Otherwise, TypeOK
  <2> QED BY <2>1, <2>2, <2>3 DEF StageFits
<1>5. CandidateFits(m)'
  BY <1>i, <1>u, <1>p, <1>e, <1>x, LakeAssumption DEF LoadInv, ModeFits, CandidateFits, Whole, Staged, Syncs, Otherwise, TypeOK
<1>6. TidyFits(m)'
  BY <1>i, <1>u, <1>p, <1>x DEF LoadInv, ModeFits, TidyFits, Tidy, Staged, Syncs, Otherwise, TypeOK
<1>7. PendingFits(m)'
  BY <1>n, <1>y DEF PendingFits
<1>8. Spares(m)
  BY <1>i, <1>u, <1>p, <1>x, <1>y DEF Spares, UniqueInv, Otherwise, TypeOK
<1>9. batches'[m] <= Len(input[m]) /\ (target # None => target' # None)
  BY <1>i, <1>u, <1>y DEF TypeOK
<1> QED BY <1>1, <1>2, <1>3, <1>4, <1>5, <1>6, <1>7, <1>8, <1>9, OthersKeep DEF LoadInv

LEMMA LoadStageKeeps ==
  ASSUME LakeIInv, NEW m \in Load, LoadStage(m)
  PROVE  LakeIInv'
<1>i. /\ TypeOK /\ LoadInv(m) /\ UniqueInv
      /\ pc[m] = "load" /\ mode[m] \in Staged /\ stage[m] = None /\ batches[m] = 0
  BY DEF LakeIInv, LoadStage, LoadInv, StageFits
<1>n. pending[m] = None
  BY <1>i, NonePending DEF Over
<1>u. UNCHANGED <<target, candidate, known, twice, leaked, mode, input, old>>
  BY DEF LoadStage, fixed
<1>b. /\ batches' \in [Load -> Nat] /\ batches'[m] <= Len(input[m])
      /\ batches'[m] = IF input[m] = <<>> THEN 0 ELSE 1
      /\ \A l \in Load \ {m} : batches'[l] = batches[l]
  <2>1. CASE input[m] = <<>>
    BY <1>i, <2>1, Batches DEF LoadStage, TypeOK
  <2>2. CASE input[m] # <<>>
    <3>1. Len(input[m]) \in Nat /\ Len(input[m]) # 0
      BY <1>i, <2>2, Batches
    <3>2. batches' = [batches EXCEPT ![m] = 1]
      BY <2>2 DEF LoadStage
    <3> QED BY <1>i, <2>2, <3>1, <3>2 DEF TypeOK
  <2> QED BY <2>1, <2>2
<1> DEFINE place == IF input[m] = <<>> THEN Publishing(m) ELSE AfterBatch(m)
<1>r. PICK rows \in Rows : /\ Owns(m, rows) /\ rows # None
                           /\ \A k \in Key : rows[<<k, m>>] = Times(input[m], k, batches'[m])
                           /\ Runs(m, stage, [stage EXCEPT ![m] = rows], "stage", rows, place)
  <2>1. CASE input[m] = <<>>
    <3>1. \A k \in Key : <<k, m>> \in Row /\ Times(input[m], k, 0) = 0
      BY TimesCounts DEF Row
    <3>2. Owns(m, Empty) /\ Empty \in Rows /\ Empty # None /\ \A k \in Key : Empty[<<k, m>>] = 0
      BY <3>1, EmptyRows, LakeAssumption DEF Owns
    <3>3. batches'[m] = 0
      BY <1>b, <2>1
    <3>4. Runs(m, stage, [stage EXCEPT ![m] = Empty], "stage", Empty, place)
      BY <2>1 DEF LoadStage
    <3> HIDE DEF place
    <3> QED BY <3>1, <3>2, <3>3, <3>4
  <2>2. CASE input[m] # <<>>
    <3>1. PICK k1 \in Key : k1 = input[m][1]
      <4>1. 1 \in DOMAIN input[m]
        BY <1>i, <2>2, Batches
      <4> QED BY <1>i, <4>1, Batches
    <3>2. \A k \in Key : Times(input[m], k, 1) = IF k = k1 THEN 1 ELSE 0
      <4>1. \A k \in Key : Times(input[m], k, 0 + 1) = Times(input[m], k, 0) + (IF input[m][0 + 1] = k THEN 1 ELSE 0) /\ Times(input[m], k, 0) = 0
        BY TimesCounts
      <4>2. 0 + 1 = 1 /\ 0 \in Nat
        OBVIOUS
      <4> QED BY <3>1, <4>1, <4>2
    <3>3. /\ One(m, k1) \in Rows /\ Owns(m, One(m, k1)) /\ One(m, k1) # None
          /\ \A k \in Key : One(m, k1)[<<k, m>>] = IF k = k1 THEN 1 ELSE 0
      BY <3>1, OneRow, LakeAssumption
    <3>4. batches'[m] = 1
      BY <1>b, <2>2
    <3>5. Runs(m, stage, [stage EXCEPT ![m] = One(m, k1)], "stage", One(m, k1), place)
      BY <2>2, <3>1 DEF LoadStage
    <3> HIDE DEF place
    <3> QED BY <3>2, <3>3, <3>4, <3>5
  <2> QED BY <2>1, <2>2
<1> DEFINE p == [into |-> "stage", rows |-> rows]
<1>l. ASSUME pending' = [pending EXCEPT ![m] = p], UNCHANGED stage, Raises(m, TRUE)
      PROVE  LakeIInv'
  <2>1. p \in Pending /\ p.into = "stage"
    BY <1>i, PendingIs
  <2> HIDE DEF p
  <2>2. LostWith(m, p)
    BY <1>i, <1>u, <1>b, <1>l DEF LostWith, TypeOK
  <2>3. Carries(m, p) /\ ~Brings(p)
    BY <1>i, <2>1 DEF Carries, Brings, Staged
  <2> QED BY <2>1, <2>2, <2>3, LostKeeps
<1>y. SUFFICES ASSUME stage' = [stage EXCEPT ![m] = rows], pending' = pending, Goes(m, place) \/ Raises(m, TRUE)
               PROVE  LakeIInv'
  BY <1>r, <1>l DEF Runs
<1>p. /\ pc' \in [Load -> Place] /\ ok' \in [Load -> BOOLEAN]
      /\ pc'[m] \in {place, Otherwise(m)}
      /\ \A l \in Load \ {m} : pc'[l] = pc[l]
  <2>1. place \in Place
    BY DEF Publishing, AfterBatch, Place
  <2> HIDE DEF place
  <2> QED BY <1>i, <1>y, <2>1, AnswerTo
<1>e. Exact(m)' = Exact(m)
  BY <1>u DEF Exact, Number
<1>x. /\ pc[m] = "load" /\ mode[m] \in Staged /\ stage[m] = None
      /\ stage' \in [Load -> Table] /\ batches' \in [Load -> Nat] /\ stage'[m] \in Rows /\ stage'[m] # None
      /\ \A l \in Load \ {m} : stage'[l] = stage[l] /\ batches'[l] = batches[l]
      /\ batches'[m] <= Len(input[m]) /\ Owns(m, stage[m])' /\ Filled(m)'
  <2>1. stage' \in [Load -> Table] /\ stage'[m] = rows /\ \A l \in Load \ {m} : stage'[l] = stage[l]
    BY <1>i, <1>y DEF TypeOK, Table
  <2>2. \A k \in Key : rows[<<k, m>>] \in Nat
    BY RowsAre DEF Row
  <2>3. Filled(m)'
    BY <1>u, <1>r, <2>1, <2>2 DEF Filled
  <2> QED BY <1>i, <1>b, <1>r, <2>1, <2>3 DEF Owns
<1>z. /\ pc'[m] \in {"load", "prepare", "publish", "drop"}
      /\ pc'[m] \in {"prepare", "publish"} => batches'[m] = Len(input[m])
      /\ pc'[m] = "prepare" <=> mode[m] = "upsert" /\ pc'[m] \notin {"load", "drop"}
  BY <1>i, <1>p, <1>b, Batches DEF AfterBatch, Publishing, Otherwise, Staged
<1>1. Of(m)
  BY <1>i, <1>u, <1>p, <1>x, <1>y DEF Of, Typed, TypeOK, Table
<1>2. ModeFits(m)'
  BY <1>i, <1>u, <1>x, <1>z DEF LoadInv, ModeFits, Staged, Syncs
<1>3. There(m)'
  BY <1>i, <1>u, <1>x, <1>z DEF LoadInv, ModeFits, There, Needs, Staged, Syncs
<1>4. StageFits(m)'
  BY <1>u, <1>x, <1>z DEF StageFits, Staged, Syncs, Over
<1>5. CandidateFits(m)'
  BY <1>i, <1>u, <1>p, <1>e, <1>x, <1>z DEF LoadInv, ModeFits, CandidateFits, Whole, Staged, Syncs
<1>6. TidyFits(m)'
  BY <1>i, <1>u, <1>x, <1>z DEF LoadInv, TidyFits, Tidy, Staged
<1>7. PendingFits(m)'
  BY <1>n, <1>y DEF PendingFits
<1>8. Spares(m)
  BY <1>i, <1>u, <1>x, <1>y, <1>z DEF Spares, UniqueInv
<1>9. batches'[m] <= Len(input[m]) /\ (target # None => target' # None)
  BY <1>u, <1>x
<1> QED BY <1>1, <1>2, <1>3, <1>4, <1>5, <1>6, <1>7, <1>8, <1>9, OthersKeep DEF LoadInv

LEMMA LoadBatchOfAppendKeeps ==
  ASSUME LakeIInv, NEW m \in Load, mode[m] = "append", LoadBatch(m)
  PROVE  LakeIInv'
<1>i. /\ TypeOK /\ LoadInv(m) /\ UniqueInv
      /\ pc[m] = "load" /\ mode[m] = "append" /\ target \in Rows /\ target # None
  BY DEF LakeIInv, LoadBatch, LoadInv, There, Needs, TypeOK, Table
<1>n. pending[m] = None
  BY <1>i, NonePending DEF Over
<1>u. UNCHANGED <<stage, candidate, known, twice, leaked, mode, input, old>>
  BY DEF LoadBatch, fixed, Staged
<1>b. /\ batches' \in [Load -> Nat] /\ batches'[m] <= Len(input[m])
      /\ \A l \in Load \ {m} : batches'[l] = batches[l]
  <2>1. batches[m] < Len(input[m]) /\ batches' = [batches EXCEPT ![m] = @ + 1]
    BY DEF LoadBatch
  <2> QED BY <1>i, <2>1, Batches DEF TypeOK
<1>r. PICK rows \in Rows : /\ Owns(m, rows)
                           /\ \/ Runs(m, target, Plus(target, rows), "insert", rows, AfterBatch(m))
                              \/ /\ target' = Plus(target, Plus(rows, rows)) /\ UNCHANGED pending
                                 /\ Goes(m, AfterBatch(m)) \/ Raises(m, TRUE)
  <2>1. Batch(m) \in Rows /\ Owns(m, Batch(m))
    <3>1. batches[m] + 1 \in DOMAIN input[m]
      BY <1>i, Batches DEF LoadBatch
    <3> QED BY <1>i, <3>1, Batches, OneRow DEF Batch
  <2> QED BY <1>i, <2>1 DEF LoadBatch, Inserts, Staged
<1> DEFINE p == [into |-> "insert", rows |-> rows]
<1>l. ASSUME pending' = [pending EXCEPT ![m] = p], UNCHANGED target, Raises(m, TRUE)
      PROVE  LakeIInv'
  <2>1. p \in Pending /\ p.into = "insert" /\ p.rows = rows
    BY <1>i, PendingIs
  <2> HIDE DEF p
  <2>2. LostWith(m, p)
    BY <1>i, <1>u, <1>b, <1>l DEF LostWith, TypeOK
  <2>3. Carries(m, p) /\ ~Brings(p)
    BY <1>i, <1>r, <2>1 DEF Carries, Brings
  <2> QED BY <2>1, <2>2, <2>3, LostKeeps
<1>y. SUFFICES ASSUME target' \in {Plus(target, rows), Plus(target, Plus(rows, rows))}, pending' = pending,
                      Goes(m, AfterBatch(m)) \/ Raises(m, TRUE)
               PROVE  LakeIInv'
  BY <1>r, <1>l DEF Runs
<1>p. /\ pc' \in [Load -> Place] /\ ok' \in [Load -> BOOLEAN]
      /\ pc'[m] \in {AfterBatch(m), Otherwise(m)}
      /\ \A l \in Load \ {m} : pc'[l] = pc[l]
  <2>1. AfterBatch(m) \in Place
    BY DEF Publishing, AfterBatch, Place
  <2> QED BY <1>i, <1>y, <2>1, AnswerTo
<1>e. Exact(m)' = Exact(m)
  BY <1>u DEF Exact, Number
<1>x. /\ pc[m] = "load" /\ target' \in Rows /\ target' # None /\ ~Calm
      /\ batches' \in [Load -> Nat] /\ batches'[m] <= Len(input[m])
      /\ \A l \in Load \ {m} : batches'[l] = batches[l]
  BY <1>i, <1>b, <1>y, PlusRows, LakeAssumption DEF Calm
<1>z. pc'[m] \in {"load", "audit", "failed"} /\ mode[m] \notin Staged
  BY <1>i, <1>p DEF AfterBatch, Publishing, Otherwise, Staged
<1>1. Of(m)
  BY <1>i, <1>u, <1>p, <1>x, <1>y DEF Of, Typed, TypeOK, Table
<1>2. ModeFits(m)'
  BY <1>i, <1>u, <1>x, <1>z DEF LoadInv, ModeFits, Syncs
<1>3. There(m)'
  BY <1>i, <1>u, <1>x, <1>z DEF LoadInv, ModeFits, There, Needs
<1>4. StageFits(m)'
  BY <1>i, <1>u, <1>x, <1>z DEF LoadInv, StageFits, TidyFits, Tidy, Over
<1>5. CandidateFits(m)'
  BY <1>i, <1>u, <1>p, <1>e, <1>x, <1>z DEF LoadInv, ModeFits, CandidateFits, Whole, Staged, Syncs
<1>6. TidyFits(m)'
  BY <1>i, <1>u, <1>x, <1>z DEF LoadInv, TidyFits, Tidy, Staged
<1>7. PendingFits(m)'
  BY <1>n, <1>y DEF PendingFits
<1>8. Spares(m)
  BY <1>i, <1>u, <1>x, <1>y, <1>z DEF Spares, UniqueInv
<1>9. batches'[m] <= Len(input[m]) /\ (target # None => target' # None)
  BY <1>u, <1>x
<1> QED BY <1>1, <1>2, <1>3, <1>4, <1>5, <1>6, <1>7, <1>8, <1>9, OthersKeep DEF LoadInv

LEMMA LoadBatchOfStagedKeeps ==
  ASSUME LakeIInv, NEW m \in Load, mode[m] # "append", LoadBatch(m)
  PROVE  LakeIInv'
<1>i. /\ TypeOK /\ LoadInv(m) /\ UniqueInv /\ pc[m] = "load" /\ mode[m] \in Staged
      /\ stage[m] \in Rows /\ stage[m] # None /\ batches[m] < Len(input[m])
      /\ Owns(m, stage[m]) /\ Filled(m)
  BY DEF LakeIInv, LoadBatch, LoadInv, StageFits, TypeOK, Table, Over
<1>n. pending[m] = None
  BY <1>i, NonePending DEF Over
<1>u. UNCHANGED <<target, candidate, known, leaked, mode, input, old>>
  BY DEF LoadBatch, fixed
<1>b. /\ batches' \in [Load -> Nat] /\ batches'[m] <= Len(input[m]) /\ batches'[m] = batches[m] + 1
      /\ \A l \in Load \ {m} : batches'[l] = batches[l]
  <2>1. batches' = [batches EXCEPT ![m] = @ + 1]
    BY DEF LoadBatch
  <2> QED BY <1>i, <2>1, Batches DEF TypeOK
<1>y. UNCHANGED pending /\ (Goes(m, AfterBatch(m)) \/ Raises(m, TRUE))
  BY DEF LoadBatch, Fills
<1>p. /\ pc' \in [Load -> Place] /\ ok' \in [Load -> BOOLEAN]
      /\ pc'[m] \in {AfterBatch(m), Otherwise(m)}
      /\ \A l \in Load \ {m} : pc'[l] = pc[l]
  <2>1. AfterBatch(m) \in Place
    BY DEF Publishing, AfterBatch, Place
  <2> QED BY <1>i, <1>y, <2>1, AnswerTo
<1>e. Exact(m)' = Exact(m)
  BY <1>u DEF Exact, Number
<1>k. PICK k1 \in Key : k1 = input[m][batches[m] + 1]
  <2>1. batches[m] + 1 \in DOMAIN input[m]
    BY <1>i, Batches
  <2> QED BY <1>i, <2>1, Batches
<1>c. PICK n \in {1, 2} :
        /\ stage' = [stage EXCEPT ![m] = Plus(@, IF n = 1 THEN One(m, k1) ELSE Plus(One(m, k1), One(m, k1)))]
        /\ twice' = [twice EXCEPT ![m] = @ \/ n = 2]
  BY <1>k DEF LoadBatch, Fills, Batch
<1>m. PICK more \in Rows : /\ more = IF n = 1 THEN One(m, k1) ELSE Plus(One(m, k1), One(m, k1))
                           /\ Owns(m, more) /\ more[<<k1, m>>] >= 1 /\ (n = 1 => more[<<k1, m>>] = 1)
                           /\ \A k \in Key \ {k1} : more[<<k, m>>] = 0
  <2>1. /\ One(m, k1) \in Rows /\ Owns(m, One(m, k1)) /\ One(m, k1)[<<k1, m>>] = 1
        /\ \A k \in Key : <<k, m>> \in Row /\ (k # k1 => One(m, k1)[<<k, m>>] = 0)
    BY OneRow
  <2>2. CASE n = 1
    BY <2>1, <2>2
  <2>3. CASE n = 2
    <3>1. /\ Plus(One(m, k1), One(m, k1)) \in Rows
          /\ \A r \in Row : /\ Plus(One(m, k1), One(m, k1))[r] >= One(m, k1)[r]
                            /\ One(m, k1)[r] = 0 => Plus(One(m, k1), One(m, k1))[r] = 0
      BY <2>1, PlusRows
    <3> QED BY <2>1, <2>3, <3>1 DEF Owns
  <2> QED BY <2>2, <2>3
<1>q. PICK rows \in Rows : rows = Plus(stage[m], more)
  BY <1>i, PlusRows
<1>s. /\ stage' \in [Load -> Table] /\ stage'[m] = rows /\ rows # None
      /\ \A l \in Load \ {m} : stage'[l] = stage[l]
  <2>1. stage' = [stage EXCEPT ![m] = rows]
    BY <1>i, <1>c, <1>m, <1>q DEF TypeOK
  <2> QED BY <1>i, <2>1, LakeAssumption DEF TypeOK, Table
<1>t. /\ twice' \in [Load -> BOOLEAN] /\ (twice'[m] <=> twice[m] \/ n = 2)
      /\ \A l \in Load \ {m} : twice'[l] = twice[l]
  BY <1>i, <1>c DEF TypeOK
<1>f. Filled(m)'
  <2> SUFFICES ASSUME NEW k \in Key
               PROVE  LET t == Times(input[m], k, batches[m] + 1)
                      IN  rows[<<k, m>>] >= t /\ (~twice'[m] => rows[<<k, m>>] = t)
    BY <1>u, <1>b, <1>s DEF Filled
  <2>1. /\ Times(input[m], k, batches[m]) \in Nat /\ Times(input[m], k, batches[m]) <= batches[m]
        /\ Times(input[m], k, batches[m] + 1) = Times(input[m], k, batches[m]) + IF k1 = k THEN 1 ELSE 0
    BY <1>i, <1>k, Batches, TimesCounts
  <2>2. PICK r \in Row : r = <<k, m>>
    BY DEF Row
  <2>3. /\ rows[r] = AtMost(stage[m][r] + more[r]) /\ stage[m][r] \in Nat /\ more[r] \in Nat
        /\ stage[m][r] <= Copies /\ more[r] <= Copies /\ Copies \in Nat
    BY <1>i, <1>q, PlusRows, RowsAre
  <2>4. batches[m] \in Nat /\ batches[m] + 1 < Copies /\ Len(input[m]) \in Nat
    BY <1>i, <2>3, Batches
  <2>5. /\ stage[m][r] >= Times(input[m], k, batches[m])
        /\ ~twice[m] => stage[m][r] = Times(input[m], k, batches[m])
    BY <1>i, <2>2 DEF Filled
  <2>6. (k = k1 => more[r] >= 1) /\ (k = k1 /\ n = 1 => more[r] = 1) /\ (k # k1 => more[r] = 0)
    BY <1>m, <2>2
  <2>7. rows[r] >= Times(input[m], k, batches[m] + 1)
    BY <2>1, <2>3, <2>4, <2>5, <2>6 DEF AtMost
  <2>8. ~twice'[m] => rows[r] = Times(input[m], k, batches[m] + 1)
    BY <1>t, <2>1, <2>3, <2>4, <2>5, <2>6 DEF AtMost
  <2> QED BY <2>2, <2>7, <2>8
<1>o. Owns(m, stage[m])'
  <2>1. \A r \in Row : r[2] # m => stage[m][r] = 0 /\ more[r] = 0
    BY <1>i, <1>m DEF Owns
  <2>2. \A r \in Row : r[2] # m => rows[r] = 0
    BY <1>i, <1>q, <2>1, PlusRows
  <2> QED BY <1>s, <2>2 DEF Owns
<1>x. /\ pc[m] = "load" /\ mode[m] \in Staged /\ stage[m] # None
      /\ stage' \in [Load -> Table] /\ batches' \in [Load -> Nat] /\ stage'[m] \in Rows /\ stage'[m] # None
      /\ twice' \in [Load -> BOOLEAN] /\ (twice[m] => twice'[m])
      /\ \A l \in Load \ {m} : stage'[l] = stage[l] /\ batches'[l] = batches[l] /\ twice'[l] = twice[l]
      /\ batches'[m] <= Len(input[m]) /\ Owns(m, stage[m])' /\ Filled(m)'
  BY <1>i, <1>b, <1>f, <1>o, <1>s, <1>t
<1>z. /\ pc'[m] \in {"load", "prepare", "publish", "drop"}
      /\ pc'[m] \in {"prepare", "publish"} => batches'[m] = Len(input[m])
      /\ pc'[m] = "prepare" <=> mode[m] = "upsert" /\ pc'[m] \notin {"load", "drop"}
  BY <1>i, <1>p, <1>b, Batches DEF AfterBatch, Publishing, Otherwise, Staged
<1>1. Of(m)
  BY <1>i, <1>u, <1>p, <1>x, <1>y DEF Of, Typed, TypeOK, Table
<1>2. ModeFits(m)'
  BY <1>i, <1>u, <1>x, <1>z DEF LoadInv, ModeFits, Staged, Syncs
<1>3. There(m)'
  BY <1>i, <1>u, <1>x, <1>z DEF LoadInv, ModeFits, There, Needs, Staged, Syncs
<1>4. StageFits(m)'
  BY <1>u, <1>x, <1>z DEF StageFits, Staged, Syncs, Over
<1>5. CandidateFits(m)'
  BY <1>i, <1>u, <1>p, <1>e, <1>x, <1>z DEF LoadInv, ModeFits, CandidateFits, Whole, Staged, Syncs
<1>6. TidyFits(m)'
  BY <1>i, <1>u, <1>x, <1>z DEF LoadInv, TidyFits, Tidy, Staged
<1>7. PendingFits(m)'
  BY <1>n, <1>y DEF PendingFits
<1>8. Spares(m)
  BY <1>i, <1>u, <1>x, <1>y, <1>z DEF Spares, UniqueInv
<1>9. batches'[m] <= Len(input[m]) /\ (target # None => target' # None)
  BY <1>u, <1>x
<1> QED BY <1>1, <1>2, <1>3, <1>4, <1>5, <1>6, <1>7, <1>8, <1>9, OthersKeep DEF LoadInv

LEMMA WholeToo ==
  ASSUME TypeOK, NEW m \in Load, NEW x \in Rows, NEW y \in Rows, Whole(m, x), \A r \in Row : y[r] >= x[r]
  PROVE  Whole(m, y)
<1> SUFFICES ASSUME NEW k \in Key PROVE y[<<k, m>>] >= Exact(m)[<<k, m>>]
  BY DEF Whole
<1>1. <<k, m>> \in Row
  BY DEF Row
<1>2. x[<<k, m>>] \in Nat /\ y[<<k, m>>] \in Nat /\ Exact(m)[<<k, m>>] \in Nat
  BY <1>1, RowsAre, ExactRows
<1>3. x[<<k, m>>] >= Exact(m)[<<k, m>>]
  BY DEF Whole
<1> QED BY <1>1, <1>2, <1>3

LEMMA FillKeeps ==
  ASSUME LakeIInv, NEW m \in Load, Fill(m)
  PROVE  LakeIInv'
<1>i. /\ TypeOK /\ LoadInv(m) /\ UniqueInv /\ pc[m] = "fill" /\ mode[m] \in {"sync_append", "sync_upsert"}
      /\ stage[m] \in Rows /\ stage[m] = Exact(m) /\ candidate[m] \in Rows /\ candidate[m] # None
  <2>1. TypeOK /\ LoadInv(m) /\ UniqueInv /\ pc[m] = "fill" /\ mode[m] \in {"sync_append", "sync_upsert"}
    BY DEF LakeIInv, Fill
  <2>2. stage[m] # None /\ candidate[m] # None
    BY <2>1 DEF LoadInv, There
  <2>3. stage[m] = Exact(m)
    BY <2>1, <2>2 DEF LoadInv, StageFits, Syncs, Over
  <2> QED BY <2>1, <2>2, <2>3 DEF TypeOK, Table
<1>n. pending[m] = None
  BY <1>i, NonePending DEF Over
<1>u. UNCHANGED <<target, stage, batches, known, leaked, mode, input, old>>
  BY DEF Fill, fixed
<1>w. Owns(m, stage[m]) /\ Whole(m, stage[m]) /\ (Distinct(input[m]) => \A r \in Row : stage[m][r] <= 1)
  BY <1>i, ExactRows
<1>y. SUFFICES ASSUME pending' = pending, Goes(m, "metrics") \/ Raises(m, TRUE),
                      NEW rows \in Rows, candidate' = [candidate EXCEPT ![m] = rows], Whole(m, rows),
                      mode[m] = "sync_upsert" => (input[m] # <<>> \/ Calm => Unique(rows)),
                      twice' \in [Load -> BOOLEAN], twice[m] => twice'[m],
                      \A l \in Load \ {m} : twice'[l] = twice[l]
               PROVE  LakeIInv'
  <2>1. CASE mode[m] = "sync_append"
    <3>1. PICK n \in {1, 2} :
            /\ candidate' = [candidate EXCEPT ![m] = Plus(@, IF n = 1 THEN stage[m] ELSE Plus(stage[m], stage[m]))]
            /\ twice' = [twice EXCEPT ![m] = @ \/ n = 2]
      BY <2>1 DEF Fill, Fills
    <3>2. PICK more \in Rows : /\ more = IF n = 1 THEN stage[m] ELSE Plus(stage[m], stage[m])
                               /\ \A r \in Row : more[r] >= stage[m][r]
      <4>1. CASE n = 1
        <5>1. \A r \in Row : stage[m][r] >= stage[m][r]
          BY <1>i, RowsAre
        <5> QED BY <1>i, <4>1, <5>1
      <4>2. CASE n = 2
        BY <1>i, <4>2, PlusRows
      <4> QED BY <4>1, <4>2
    <3>3. PICK rows \in Rows : rows = Plus(candidate[m], more) /\ \A r \in Row : rows[r] >= more[r]
      BY <1>i, PlusRows
    <3>4. candidate' = [candidate EXCEPT ![m] = rows]
      BY <1>i, <3>1, <3>2, <3>3 DEF TypeOK
    <3>5. Whole(m, rows)
      <4>1. PICK s \in Rows : s = stage[m]
        BY <1>i
      <4>2. Whole(m, more)
        BY <1>i, <1>w, <3>2, <4>1, WholeToo
      <4> QED BY <1>i, <3>3, <4>2, WholeToo
    <3>6. twice' \in [Load -> BOOLEAN] /\ (twice[m] => twice'[m]) /\ \A l \in Load \ {m} : twice'[l] = twice[l]
      BY <1>i, <3>1 DEF TypeOK
    <3>7. pending' = pending /\ (Goes(m, "metrics") \/ Raises(m, TRUE))
      BY <2>1 DEF Fill, Fills
    <3> QED BY <1>y, <2>1, <3>4, <3>5, <3>6, <3>7
  <2>2. CASE mode[m] = "sync_upsert"
    <3>1. PICK rows \in Rows : rows = Merged(candidate[m], stage[m]) /\ \A r \in Row : rows[r] >= stage[m][r]
      BY <1>i, MergedRows
    <3>2. Whole(m, rows)
      <4>1. PICK s \in Rows : s = stage[m]
        BY <1>i
      <4> QED BY <1>i, <1>w, <3>1, <4>1, WholeToo
    <3>3. input[m] # <<>> \/ Calm => Unique(candidate[m])
      BY <1>i, <2>2 DEF Fill, UniqueInv
    <3>4. Unique(candidate[m]) => Unique(rows)
      <4>1. Distinct(input[m])
        BY <1>i, <2>2, Batches DEF Upserts
      <4> QED BY <1>i, <1>w, <3>1, <4>1, MergedUnique
    <3>5. twice' = twice /\ Runs(m, candidate, [candidate EXCEPT ![m] = rows], "candidate", rows, "metrics")
      BY <2>2, <3>1 DEF Fill
    <3>6. CASE candidate' = [candidate EXCEPT ![m] = rows] /\ (Goes(m, "metrics") \/ Raises(m, TRUE)) /\ UNCHANGED pending
      BY <1>i, <1>y, <2>2, <3>2, <3>3, <3>4, <3>5, <3>6 DEF TypeOK
    <3>7. CASE UNCHANGED candidate /\ Raises(m, TRUE) /\ pending' = [pending EXCEPT ![m] = [into |-> "candidate", rows |-> rows]]
      <4> DEFINE p == [into |-> "candidate", rows |-> rows]
      <4>1. p \in Pending /\ p.into = "candidate" /\ p.rows = rows
        BY <1>i, PendingIs
      <4>2. pending' = [pending EXCEPT ![m] = p]
        BY <3>7
      <4> HIDE DEF p
      <4>3. LostWith(m, p)
        BY <1>i, <1>u, <3>5, <3>7, <4>2 DEF LostWith, TypeOK
      <4>4. Carries(m, p)
        BY <2>2, <4>1 DEF Carries
      <4> QED BY <3>3, <3>4, <4>1, <4>3, <4>4, LostKeeps
    <3> QED BY <3>5, <3>6, <3>7 DEF Runs
  <2> QED BY <1>i, <2>1, <2>2
<1>p. /\ pc' \in [Load -> Place] /\ ok' \in [Load -> BOOLEAN]
      /\ pc'[m] \in {"metrics", "drop"}
      /\ \A l \in Load \ {m} : pc'[l] = pc[l]
  BY <1>i, <1>y, AnswerTo DEF Place, Otherwise
<1>e. Exact(m)' = Exact(m)
  BY <1>u DEF Exact, Number
<1>x. /\ candidate' \in [Load -> Table] /\ candidate'[m] = rows /\ rows # None
      /\ \A l \in Load \ {m} : candidate'[l] = candidate[l]
      /\ pc[m] = "fill"
  BY <1>i, <1>y, LakeAssumption DEF TypeOK, Table
<1>c. Calm => mode[m] = "sync_upsert"
  BY <1>i DEF Calm
<1>1. Of(m)
  BY <1>i, <1>u, <1>p, <1>x, <1>y DEF Of, Typed, TypeOK
<1>2. ModeFits(m)'
  BY <1>i, <1>u, <1>p, <1>x DEF LoadInv, ModeFits, Syncs
<1>3. There(m)'
  BY <1>i, <1>u, <1>p, <1>x, LakeAssumption DEF LoadInv, ModeFits, There, Needs
<1>4. StageFits(m)'
  BY <1>i, <1>u, <1>p, <1>e, <1>w, LakeAssumption DEF StageFits, Owns, Over, Staged
<1>5. CandidateFits(m)'
  <2>1. Whole(m, candidate[m])' /\ (mode'[m] = "sync_upsert" /\ input'[m] # <<>> => Unique(candidate'[m]))
    BY <1>u, <1>e, <1>x, <1>y DEF Whole
  <2> QED BY <2>1 DEF CandidateFits
<1>6. TidyFits(m)'
  BY <1>i, <1>u, <1>p DEF TidyFits
<1>7. PendingFits(m)'
  BY <1>n, <1>y DEF PendingFits
<1>8. Spares(m)
  BY <1>u, <1>p, <1>x, <1>c, <1>y DEF Spares
<1>9. batches'[m] <= Len(input[m]) /\ (target # None => target' # None)
  BY <1>i, <1>u DEF TypeOK
<1> QED BY <1>1, <1>2, <1>3, <1>4, <1>5, <1>6, <1>7, <1>8, <1>9, OthersKeep DEF LoadInv

-----------------------------------------------------------------------------
(* The theorems. *)

LEMMA LakeInit == Init => LakeIInv
<1> SUFFICES ASSUME Init PROVE LakeIInv
  OBVIOUS
<1>1. /\ target = old /\ mode \in [Load -> Modes]
      /\ stage = [l \in Load |-> None] /\ candidate = [l \in Load |-> None] /\ pending = [l \in Load |-> None]
      /\ pc = [l \in Load |-> "check"] /\ batches = [l \in Load |-> 0]
      /\ known = [l \in Load |-> FALSE] /\ ok = [l \in Load |-> TRUE]
      /\ twice = [l \in Load |-> FALSE] /\ leaked = [l \in Load |-> FALSE]
  BY DEF Init
<1>2. old \in Table
  <2>1. ASSUME NEW k \in Key, NEW n \in 1..2 PROVE [Empty EXCEPT ![<<k, Old>>] = AtMost(n)] \in Rows
    <3>1. AtMost(n) \in 0..Copies
      BY LakeAssumption DEF AtMost
    <3>2. \A r \in Row : [Empty EXCEPT ![r] = AtMost(n)] \in Rows
      BY <3>1, EmptyRows DEF Rows
    <3>3. <<k, Old>> \in Row
      BY DEF Row
    <3> QED BY <3>2, <3>3
  <2>2. old = None \/ \E k \in Key, n \in 1..2 : old = [Empty EXCEPT ![<<k, Old>>] = AtMost(n)]
    BY DEF Init
  <2> QED BY <2>1, <2>2 DEF Table
<1>3. \A l \in Load : \E keys \in Inputs[l] : input[l] \in Loaded(mode[l], keys)
  <2>1. PICK given : /\ \A l \in Load : given[l] \in Inputs[l]
                     /\ \A l \in Load : input[l] \in Loaded(mode[l], given[l])
    BY DEF Init
  <2> QED BY <2>1
<1>4. \A l \in Load : batches[l] <= Len(input[l])
  <2> SUFFICES ASSUME NEW l \in Load PROVE 0 <= Len(input[l])
    BY <1>1
  <2>1. PICK keys \in Inputs[l] : input[l] \in Loaded(mode[l], keys)
    BY <1>3
  <2>2. keys \in Seq(Key) /\ Len(keys) \in Nat
    BY LakeAssumption
  <2>3. CASE ~Upserts(mode[l])
    BY <2>1, <2>2, <2>3 DEF Loaded
  <2>4. CASE Upserts(mode[l])
    <3>1. PICK n \in 0..Len(keys) : input[l] \in [1..n -> Key]
      BY <2>1, <2>4 DEF Loaded
    <3>2. n \in Nat
      BY <2>2
    <3>3. Len(input[l]) = n
      BY <3>1, <3>2
    <3> QED BY <3>2, <3>3
  <2> QED BY <2>3, <2>4
<1>5. TypeOK
  BY <1>1, <1>2, <1>3, <1>4 DEF TypeOK, Table, Place
<1>6. \A l \in Load : LoadInv(l)
  BY <1>1 DEF LoadInv, ModeFits, There, Needs, StageFits, CandidateFits, TidyFits, Tidy, PendingFits
<1>7. UniqueInv
  BY <1>1 DEF UniqueInv, Calm, Brings
<1> QED BY <1>5, <1>6, <1>7 DEF LakeIInv

LEMMA LakeStep == LakeIInv /\ [Next]_vars => LakeIInv'
<1> SUFFICES ASSUME LakeIInv, [Next]_vars PROVE LakeIInv'
  OBVIOUS
<1>1. CASE UNCHANGED vars
  <2>1. TypeOK'
    BY <1>1 DEF vars, LakeIInv, TypeOK
  <2>2. ASSUME NEW l \in Load PROVE LoadInv(l)'
    <3>1. LoadInv(l)
      BY DEF LakeIInv
    <3>2. ModeFits(l)' /\ There(l)' /\ TidyFits(l)'
      BY <1>1, <3>1 DEF vars, LoadInv, ModeFits, There, Needs, TidyFits, Tidy
    <3>3. StageFits(l)'
      BY <1>1, <3>1 DEF vars, LoadInv, StageFits, Owns, Filled, Exact, Number
    <3>4. CandidateFits(l)'
      BY <1>1, <3>1 DEF vars, LoadInv, CandidateFits, Whole, Exact, Number
    <3>5. PendingFits(l)'
      BY <1>1, <3>1 DEF vars, LoadInv, PendingFits, Carries, Whole, Owns, Exact, Number
    <3> QED BY <3>2, <3>3, <3>4, <3>5 DEF LoadInv
  <2>3. UniqueInv'
    BY <1>1 DEF vars, LakeIInv, UniqueInv, Calm
  <2> QED BY <2>1, <2>2, <2>3 DEF LakeIInv
<1>2. ASSUME NEW m \in Load, Step(m) PROVE LakeIInv'
  <2>1. CASE Check(m) \/ Drop(m) \/ Fails(m)
    BY <2>1, CheckKeeps, DropKeeps, FailsKeeps
  <2>2. CASE CreateTarget(m) \/ LoadStage(m) \/ LoadBatch(m) \/ LoadNothing(m)
    BY <2>2, CreateTargetKeeps, LoadStageKeeps, LoadBatchOfAppendKeeps, LoadBatchOfStagedKeeps, LoadNothingKeeps
  <2>3. CASE Prepare(m) \/ Keys(m) \/ Publish(m) \/ Audit(m)
    BY <2>3, PrepareKeeps, KeysKeeps, PublishKeeps, AuditKeeps
  <2>4. CASE Extract(m) \/ Reconcile(m) \/ Copy(m) \/ Fill(m) \/ Metrics(m) \/ Swap(m)
    BY <2>4, ExtractKeeps, ReconcileKeeps, CopyKeeps, FillKeeps, MetricsKeeps, SwapKeeps
  <2> QED BY <1>2, <2>1, <2>2, <2>3, <2>4 DEF Step
<1>3. CASE \E m \in Load : Step(m) \/ Crash(m) \/ Lands(m)
  BY <1>2, <1>3, CrashKeeps, LandsKeeps
<1> QED BY <1>1, <1>3 DEF Next

\* The inductive invariant of the loads holds in every state (lake_ingest.py,
\* sqlserver_sync.py).
THEOREM LakeInvariant == Spec => []LakeIInv
<1> QED BY LakeInit, LakeStep, PTL DEF Spec

\* However loads interleave, fail and lose answers, before a statement's effect or after
\* it: one that has ended left no stage and no candidate unless a drop failed or came
\* before what it should have dropped, and those that replace and upsert leave unique keys
\* unique if they are given such (lake_ingest.py: ingest, sqlserver_sync.py: sync).
THEOREM LoadsLeaveTheCatalogTidy == Spec => []LakeInv
<1>1. LakeIInv => TypeOK /\ NoStageLeftBehind
  BY DEF LakeIInv, NoStageLeftBehind, LoadInv, TidyFits, Tidy
<1>2. LakeIInv => KeysStayUnique
  BY DEF LakeIInv, UniqueInv, Calm, KeysStayUnique
<1> QED BY <1>1, <1>2, LakeInvariant, PTL DEF LakeInv

\* Rows that join or replace the target show a load whole or not at all.
LEMMA RowsShow ==
  ASSUME TypeOK, NEW l \in Load, Absent(l, target), NEW m \in Load, NEW rows \in Rows,
         Owns(m, rows), m = l => Whole(l, rows),
         NEW after \in Rows, \A r \in Row : after[r] >= rows[r],
         \A r \in Row : rows[r] = 0 /\ (target # None => target[r] = 0) => after[r] = 0
  PROVE  Absent(l, after) \/ Whole(l, after)
<1>1. CASE m = l
  BY <1>1, WholeToo
<1>2. CASE m # l
  <2>1. \A k \in Key : <<k, l>> \in Row /\ rows[<<k, l>>] = 0
    BY <1>2 DEF Row, Owns
  <2> QED BY <2>1 DEF Absent
<1> QED BY <1>1, <1>2

\* An INSERT of a load's rows, once or twice.
LEMMA InsertShows ==
  ASSUME TypeOK, NEW l \in Load, Absent(l, target), target # None, NEW m \in Load, NEW rows \in Rows,
         Owns(m, rows), m = l => Whole(l, rows),
         NEW after, after \in {Plus(target, rows), Plus(target, Plus(rows, rows))}
  PROVE  Absent(l, after) \/ Whole(l, after)
<1>1. PICK before \in Rows : before = target
  BY DEF TypeOK, Table
<1>2. /\ Plus(before, rows) \in Rows /\ Plus(before, Plus(rows, rows)) \in Rows /\ Plus(rows, rows) \in Rows
      /\ \A r \in Row : /\ Plus(before, rows)[r] >= rows[r] /\ Plus(before, Plus(rows, rows))[r] >= rows[r]
                        /\ rows[r] = 0 /\ before[r] = 0 => Plus(before, rows)[r] = 0 /\ Plus(before, Plus(rows, rows))[r] = 0
  <2>1. Plus(rows, rows) \in Rows /\ Plus(before, rows) \in Rows
    BY PlusRows
  <2>2. PICK both \in Rows : both = Plus(rows, rows)
    BY <2>1
  <2>3. Plus(before, both) \in Rows
    BY PlusRows
  <2> SUFFICES ASSUME NEW r \in Row
               PROVE  /\ Plus(before, rows)[r] >= rows[r] /\ Plus(before, both)[r] >= rows[r]
                      /\ rows[r] = 0 /\ before[r] = 0 => Plus(before, rows)[r] = 0 /\ Plus(before, both)[r] = 0
    BY <2>1, <2>2, <2>3
  <2>4. /\ both[r] >= rows[r] /\ (rows[r] = 0 => both[r] = 0)
        /\ Plus(before, both)[r] >= both[r] /\ (before[r] = 0 => Plus(before, both)[r] = both[r])
        /\ Plus(before, rows)[r] >= rows[r] /\ (before[r] = 0 => Plus(before, rows)[r] = rows[r])
    BY <2>2, PlusRows
  <2>5. both[r] \in Nat /\ rows[r] \in Nat /\ Plus(before, both)[r] \in Nat
    BY <2>3, RowsAre
  <2> QED BY <2>4, <2>5
<1>3. /\ after \in Rows /\ \A r \in Row : after[r] >= rows[r]
      /\ \A r \in Row : rows[r] = 0 /\ (target # None => target[r] = 0) => after[r] = 0
  BY <1>1, <1>2
<1> QED BY <1>3, RowsShow

\* What a step of a load can make of the target.
LEMMA StepShows ==
  ASSUME LakeIInv, NEW m \in Load, Step(m), target' # target,
         NEW l \in Load, mode[l] # "append", Absent(l, target),
         \A other \in Load \ {l} : Absent(l, candidate[other])
  PROVE  Absent(l, target') \/ Whole(l, target')
<1>i. TypeOK /\ LoadInv(m)
  BY DEF LakeIInv
<1>m. UNCHANGED input
  BY DEF Step, Check, Drop, Fails, CreateTarget, LoadStage, LoadBatch, LoadNothing, Prepare, Keys, Publish,
         Audit, Extract, Reconcile, Copy, Fill, Metrics, Swap, fixed
<1>1. \A k \in Key : <<k, l>> \in Row
  BY DEF Row
<1>2. Absent(l, Given(target))
  BY <1>1, EmptyRows DEF Absent, Given
<1> SUFFICES ASSUME NEW after, after = target' PROVE Absent(l, after) \/ Whole(l, after)
  BY <1>m DEF Absent, Whole, Exact, Number
<1>3. CASE CreateTarget(m) \/ Prepare(m)
  BY <1>2, <1>3 DEF CreateTarget, Prepare, Runs
<1>4. CASE LoadBatch(m)
  <2>1. /\ mode[m] = "append" /\ pc[m] = "load" /\ batches[m] < Len(input[m])
        /\ after \in {Plus(target, Batch(m)), Plus(target, Plus(Batch(m), Batch(m)))}
    BY <1>4 DEF LoadBatch, Inserts, Runs
  <2>2. batches[m] + 1 \in DOMAIN input[m]
    BY <1>i, <2>1, Batches
  <2>3. target # None /\ l # m /\ Batch(m) \in Rows /\ Owns(m, Batch(m))
    BY <1>i, <2>1, <2>2, Batches, OneRow DEF Batch, LoadInv, There, Needs
  <2>4. PICK rows \in Rows : rows = Batch(m)
    BY <2>3
  <2> QED BY <1>i, <2>1, <2>3, <2>4, InsertShows
<1>5. CASE Publish(m)
  <2>1. pc[m] = "publish" /\ mode[m] \in {"replace", "upsert", "atomic"}
    BY <1>5 DEF Publish
  <2>2. PICK rows \in Rows : rows = stage[m] /\ Owns(m, rows) /\ Whole(m, rows)
    BY <1>i, <2>1, StageIsWhole
  <2>3. CASE mode[m] = "replace"
    <3>1. after = rows
      BY <1>5, <2>2, <2>3 DEF Publish, Runs
    <3>2. \A r \in Row : rows[r] >= rows[r]
      BY RowsAre
    <3> QED BY <1>i, <2>2, <3>1, <3>2, RowsShow
  <2>4. CASE mode[m] = "upsert"
    <3>1. PICK before \in Rows : before = target /\ target # None
      BY <1>i, <2>1, <2>4 DEF LoadInv, There, Needs, TypeOK, Table
    <3>2. after = Merged(before, rows)
      BY <1>5, <2>2, <2>4, <3>1 DEF Publish, Runs
    <3>3. /\ after \in Rows /\ \A r \in Row : after[r] >= rows[r]
          /\ \A r \in Row : rows[r] = 0 /\ (target # None => target[r] = 0) => after[r] = 0
      BY <3>1, <3>2, MergedRows
    <3> QED BY <1>i, <2>2, <3>3, RowsShow
  <2>5. CASE mode[m] = "atomic"
    <3>1. target # None
      BY <1>i, <2>1, <2>5 DEF LoadInv, There, Needs
    <3>2. after \in {Plus(target, rows), Plus(target, Plus(rows, rows))}
      BY <1>5, <2>2, <2>5 DEF Publish, Inserts, Runs
    <3> QED BY <1>i, <2>2, <3>1, <3>2, InsertShows
  <2> QED BY <2>1, <2>3, <2>4, <2>5
<1>6. CASE Swap(m)
  <2>1. pc[m] = "publish" /\ after = IF known[m] THEN candidate[m] ELSE stage[m]
    BY <1>6 DEF Swap, Runs
  <2>2. CASE m = l
    BY <1>i, <2>1, <2>2, StageIsWhole DEF LoadInv, CandidateFits
  <2>3. CASE m # l
    <3>1. Owns(m, stage[m])
      BY <1>i, <2>1, StageIsWhole
    <3>2. Absent(l, stage[m])
      BY <1>1, <2>3, <3>1 DEF Owns, Absent
    <3> QED BY <2>1, <2>3, <3>2
  <2> QED BY <2>2, <2>3
<1>7. \/ CreateTarget(m) \/ Prepare(m) \/ LoadBatch(m) \/ Publish(m) \/ Swap(m)
  BY DEF Step, Check, Drop, Fails, LoadStage, LoadNothing, Keys, Audit, Extract, Reconcile, Copy, Fill, Metrics
<1> QED BY <1>3, <1>4, <1>5, <1>6, <1>7

\* What can become of the target when a statement outlives its client.
LEMMA LandingShows ==
  ASSUME LakeIInv, NEW m \in Load, Lands(m), target' # target,
         NEW l \in Load, mode[l] # "append", Absent(l, target),
         \A other \in Load \ {l} : Absent(l, Awaited(other))
  PROVE  Absent(l, target') \/ Whole(l, target')
<1>i. /\ TypeOK /\ Carries(m, pending[m]) /\ pending[m] # None /\ pending[m].rows \in Rows
  BY DEF LakeIInv, Lands, LoadInv, PendingFits, TypeOK, Pending
<1>m. UNCHANGED input /\ LandsOnTarget(m)
  BY DEF Lands, fixed
<1> SUFFICES ASSUME NEW after, after = target' PROVE Absent(l, after) \/ Whole(l, after)
  BY <1>m DEF Absent, Whole, Exact, Number
<1>1. CASE pending[m].into = "create" /\ after = Given(target)
  <2>1. \A k \in Key : <<k, l>> \in Row
    BY DEF Row
  <2> QED BY <1>1, <2>1, EmptyRows DEF Absent, Given
<1>2. CASE pending[m].into = "replace" /\ after = pending[m].rows
  <2>1. CASE m = l
    BY <1>i, <1>2, <2>1 DEF Carries
  <2>2. CASE m # l
    BY <1>i, <1>2, <2>2 DEF Awaited
  <2> QED BY <2>1, <2>2
<1>3. CASE pending[m].into = "insert" /\ after = Plus(target, pending[m].rows)
  <2>1. PICK rows \in Rows : rows = pending[m].rows
    BY <1>i
  <2>2. target # None /\ Owns(m, rows) /\ (m = l => Whole(l, rows))
    BY <1>i, <1>3, <2>1 DEF Carries
  <2>3. after \in {Plus(target, rows), Plus(target, Plus(rows, rows))}
    BY <1>3, <2>1
  <2> QED BY <1>i, <2>2, <2>3, InsertShows
<1> QED BY <1>m, <1>1, <1>2, <1>3 DEF LandsOnTarget

\* Readers of the target see a load whole or not at all, whichever statement fails,
\* loses its answer or comes late, and whatever other loads do (lake_ingest.py: ingest,
\* sqlserver_sync.py: sync).
THEOREM ReadersSeeAllOrNothing == Spec => AllOrNothing
<1> DEFINE Shows == \A l \in Load : /\ mode[l] # "append" /\ Absent(l, target)
                                    /\ \A other \in Load \ {l} : Absent(l, candidate[other]) /\ Absent(l, Awaited(other))
                      => Absent(l, target') \/ Whole(l, target')
<1>1. ASSUME LakeIInv, Next PROVE Shows
  <2>1. CASE target' = target
    BY <2>1 DEF Absent
  <2>2. CASE target' # target
    <3>1. PICK m \in Load : Step(m) \/ Lands(m)
      BY <1>1, <2>2 DEF Next, vars, Crash
    <3> QED BY <1>1, <2>2, <3>1, StepShows, LandingShows
  <2> QED BY <2>1, <2>2
<1>2. LakeIInv /\ [Next]_vars => [Shows]_vars
  BY <1>1
<1> QED BY <1>2, LakeInvariant, PTL DEF Spec, AllOrNothing

\* What a replacing sync swaps in is its batch, and what an upserting one swaps in has
\* unique keys, whatever became of the target since it was copied and however late the
\* swap takes effect (sqlserver_sync.py: sync).
THEOREM SyncsPublishTheirBatch == Spec => SyncPublishesItsBatch
<1> DEFINE Swaps == \A l \in Load : Publishes(l)
       => /\ mode[l] = "sync_replace" => target' = Exact(l)
          /\ mode[l] = "sync_upsert" /\ known[l] /\ input[l] # <<>> => Unique(target')
<1>1. ASSUME LakeIInv, Next, NEW l \in Load, Publishes(l), mode[l] \in Syncs
      PROVE  \/ Swap(l) /\ target' = IF known[l] THEN candidate[l] ELSE stage[l]
             \/ Lands(l) /\ pending[l] # None /\ pending[l].into = "replace" /\ target' = pending[l].rows
  <2>1. PICK m \in Load : Step(m) \/ Lands(m)
    BY <1>1 DEF Next, vars, Publishes, Crash
  <2>2. pc \in [Load -> Place] /\ pending \in [Load -> Pending \cup {None}]
    BY <1>1 DEF LakeIInv, TypeOK
  <2>3. CASE Lands(m)
    <3>1. UNCHANGED pc /\ pending' = [pending EXCEPT ![m] = None]
      BY <2>3 DEF Lands
    <3>2. pending[l] # None /\ pending'[l] = None /\ pending[l].into = "replace"
      BY <1>1, <3>1 DEF Publishes
    <3>3. m = l
      BY <2>2, <3>1, <3>2
    <3> QED BY <1>1, <2>3, <3>2, <3>3 DEF Lands, LandsOnTarget, Publishes
  <2>4. CASE Step(m)
    <3>1. \A other \in Load \ {m} : pc'[other] = pc[other] /\ pending'[other] = pending[other]
      BY <2>2, <2>4 DEF Step, Check, Drop, Fails, CreateTarget, LoadStage, LoadBatch,
               LoadNothing, Prepare, Keys, Publish, Audit, Extract, Reconcile, Copy, Fill, Metrics, Swap,
               Inserts, Fills, Runs, Goes, Raises
    <3>2. m = l
      BY <1>1, <3>1 DEF Publishes
    <3>3. pending[l] # None => pc[l] \in Over
      BY <1>1 DEF LakeIInv, LoadInv, PendingFits
    <3>4. Swap(l)
      BY <1>1, <2>4, <3>2, <3>3 DEF Publishes, Over, Step, Check, Drop, Fails, CreateTarget, LoadStage, LoadBatch,
             LoadNothing, Prepare, Keys, Publish, Audit, Extract, Reconcile, Copy, Fill, Metrics, Syncs
    <3> QED BY <1>1, <3>4 DEF Swap, Runs, Publishes
  <2> QED BY <2>1, <2>3, <2>4
<1>2. ASSUME LakeIInv, Next PROVE Swaps
  <2> SUFFICES ASSUME NEW l \in Load, Publishes(l), mode[l] \in {"sync_replace", "sync_upsert"}
               PROVE  /\ mode[l] = "sync_replace" => target' = Exact(l)
                      /\ mode[l] = "sync_upsert" /\ known[l] /\ input[l] # <<>> => Unique(target')
    OBVIOUS
  <2>1. LoadInv(l)
    BY <1>2 DEF LakeIInv
  <2>2. CASE Swap(l) /\ target' = IF known[l] THEN candidate[l] ELSE stage[l]
    <3>1. pc[l] = "publish" /\ stage[l] # None
      BY <2>1, <2>2 DEF Swap, LoadInv, There
    <3> QED BY <2>1, <2>2, <3>1 DEF LoadInv, ModeFits, StageFits, CandidateFits, Syncs, Over
  <2>3. CASE pending[l] # None /\ pending[l].into = "replace" /\ target' = pending[l].rows
    BY <2>1, <2>3 DEF LoadInv, PendingFits, Carries
  <2> QED BY <1>1, <1>2, <2>2, <2>3 DEF Syncs
<1>3. LakeIInv /\ [Next]_vars => [Swaps]_vars
  BY <1>2
<1> QED BY <1>3, LakeInvariant, PTL DEF Spec, SyncPublishesItsBatch

-----------------------------------------------------------------------------
(***************************************************************************)
(* Proofs about a managed mart, for any watched tables, snapshots and      *)
(* versions.                                                               *)
(*                                                                         *)
(* What a mart shows is good because whatever can become its content is:   *)
(* the audited stage of an operation that is about to replace it, and the  *)
(* statement that outlives its client.                                     *)
(*                                                                         *)
(* A check that reports "unchanged" compares the snapshots it has just     *)
(* read with the baseline.  That the mart was built from those very        *)
(* snapshots follows from an order that every step keeps: the baseline is  *)
(* no newer than what the mart was built from, and what the mart was built *)
(* from is no newer than what a refresh reads that begins after it.  The   *)
(* order needs who holds which lock (no two builds meet), which version    *)
(* of the definition the refresh is of, and what a content that is still   *)
(* on its way to the mart was built from.                                  *)
(***************************************************************************)

\* The data operation of the scheduler's or the user's refresh, and of the command line.
refresh == op["refresh"]
command == op["operator"]

\* The places where a data operation holds the operations lock, and those where the
\* refresh relies on the definition that it was admitted for.
InData   == {"build", "audit", "replace", "record"}
Relying  == {"sources", "decide", "unchanged", "data", "baseline", "finish"} \cup InData
Busy     == refresh.pc \notin {"idle", "admit"}

\* Who holds the locks.
LockInv ==
  /\ jobLock = "refresh" <=> refresh.pc # "idle"
  /\ jobLock = "editor" <=> editor # "idle"
  /\ opLock = "editor" <=> editor = "replace"
  /\ opLock = "refresh" <=> refresh.pc \in InData
  /\ opLock = "operator" <=> command.pc # "idle"
  /\ command.pc \in {"idle"} \cup InData

\* The run of the ledger is the refresh's while it lives; a doubt is in the ledger, or
\* will be when the next admission finds a run whose worker is gone.
RunInv ==
  /\ Busy => refresh.kind \in Marts!Managed /\ run = refresh.kind
  /\ Busy /\ refresh.kind = "scheduled" => refresh.watched /\ ~doubt
  /\ doubt => debt \/ (run # None /\ ~Busy)
  /\ command.pc # "idle" => command.kind \in Marts!Command

\* Whatever can become the mart's content has passed an audit.
GoodInv ==
  /\ mart # None => mart.good
  /\ past # None => past.good
  /\ late # None => late.good
  /\ \A act \in Marts!Actor :
       /\ op[act].pc = "audit" => sandbox # None
       /\ op[act].pc = "replace" => op[act].staged # None /\ op[act].staged.good

\* The definition that schedules, refreshes and baselines are of.
DefInv ==
  /\ Marts!EnabledFitsDefinition
  /\ editor = "replace" => ~schedule.on /\ (entry # None => entry.version < MaxVersion)
  /\ refresh.pc \in Relying => Marts!Owned /\ entry.version = refresh.version
  /\ refresh.pc \in {"sources", "decide"} => refresh.base = entry.baseline
  /\ entry # None /\ entry.baseline # None => entry.baseline.version = entry.version

\* Snapshots in the order in which they were committed.
UpTo(f, g) == \A t \in Watched : f[t] <= g[t]
Baselined  == entry # None /\ entry.baseline # None

\* A content that the running refresh built is no older than what the refresh has seen
\* and than what the last baseline says.
Fresh(content) ==
  ~rolled => /\ UpTo(content.from, source)
             /\ UpTo(refresh.seen, content.from)
             /\ Baselined => UpTo(entry.baseline.snapshots, content.from)

SourceInv ==
  /\ UpTo(source, newest)
  /\ ~rolled => /\ UpTo(refresh.seen, source)
                /\ Baselined => UpTo(entry.baseline.snapshots, source)
  /\ refresh.pc = "entry" => \A t \in Watched : refresh.seen[t] = 0
  /\ refresh.pc = "decide" /\ refresh.watched => \A t \in Watched : refresh.seen[t] # 0

BuiltInv ==
  /\ refresh.pc = "audit" /\ sandbox.of = refresh.version => Fresh(sandbox)
  /\ refresh.pc = "replace" /\ refresh.staged.of = refresh.version => Fresh(refresh.staged)
  /\ refresh.pc \in {"record", "baseline"} /\ ~outside =>
       mart # None /\ mart.of = refresh.version /\ Fresh(mart)

MartFits(base) == /\ mart # None /\ mart.of = base.version
                  /\ UpTo(base.snapshots, mart.from) /\ UpTo(mart.from, source)

BaselineInv ==
  ~outside /\ ~rolled /\ Baselined =>
    /\ MartFits(entry.baseline)
    /\ refresh.pc \in {"sources", "decide"} =>
         \A t \in Watched : refresh.seen[t] # 0 => mart.from[t] <= refresh.seen[t]

MartIInv == /\ Marts!TypeOK /\ LockInv /\ RunInv /\ GoodInv /\ DefInv
        /\ SourceInv /\ BuiltInv /\ BaselineInv

\* Snapshots are numbers.
LEMMA Numbers ==
  ASSUME Marts!TypeOK
  PROVE  /\ \A t \in Watched : source[t] \in Int /\ newest[t] \in Int /\ refresh.seen[t] \in Int
         /\ mart # None => \A t \in Watched : mart.from[t] \in Int
         /\ sandbox # None => \A t \in Watched : sandbox.from[t] \in Int
         /\ refresh.staged # None => \A t \in Watched : refresh.staged.from[t] \in Int
         /\ Baselined => \A t \in Watched : entry.baseline.snapshots[t] \in Int
<1>1. \A f \in Marts!Snapshots : \A t \in Watched : f[t] \in Int
  BY TablesAssumption DEF Marts!Snapshots
<1>2. source \in Marts!Snapshots /\ newest \in Marts!Snapshots /\ refresh.seen \in Marts!Snapshots
  BY DEF Marts!TypeOK, Marts!Op, Marts!Actor, refresh
<1>3. \A c \in Marts!Content : c.from \in Marts!Snapshots
  BY DEF Marts!Content
<1>4. /\ mart # None => mart \in Marts!Content
      /\ sandbox # None => sandbox \in Marts!Content
      /\ refresh.staged # None => refresh.staged \in Marts!Content
  BY DEF Marts!TypeOK, Marts!Op, Marts!Actor, refresh
<1>5. Baselined => entry.baseline.snapshots \in Marts!Snapshots
  BY DEF Marts!TypeOK, Marts!Entry, Marts!Baseline, Baselined
<1> QED BY <1>1, <1>2, <1>3, <1>4, <1>5

-----------------------------------------------------------------------------
(* What an action makes of the data operations. *)

Others(act) == \A other \in Marts!Actor \ {act} : op'[other] = op[other]

Moves(act, place) ==
  /\ op' \in [Marts!Actor -> Marts!Op] /\ Others(act)
  /\ op'[act].pc = place
  /\ op'[act].kind = op[act].kind /\ op'[act].version = op[act].version
  /\ op'[act].watched = op[act].watched /\ op'[act].seen = op[act].seen
  /\ op'[act].base = op[act].base /\ op'[act].staged = op[act].staged

Ends(act) ==
  /\ op' \in [Marts!Actor -> Marts!Op] /\ Others(act)
  /\ op'[act].pc = "idle" /\ op'[act].seen = Marts!Nothing

LEMMA NoOpTyped == Marts!NoOp \in Marts!Op
BY TablesAssumption DEF Marts!NoOp, Marts!Op, Marts!Place, Marts!Version, Marts!Snapshots, Marts!Nothing

\* Snapshots are counted from 1: 0 is a table that was not read yet.
LEMMA NothingSeen ==
  ASSUME Marts!TypeOK
  PROVE  \A t \in Watched : Marts!Nothing[t] = 0 /\ 0 <= source[t]
BY TablesAssumption DEF Marts!TypeOK, Marts!Snapshots, Marts!Nothing

LEMMA UnattributedTyped ==
  ASSUME NEW content \in Marts!Content
  PROVE  /\ Marts!Unattributed(content) \in Marts!Content
         /\ Marts!Unattributed(content).good = content.good
<1>1. Marts!Nothing \in Marts!Snapshots
  BY TablesAssumption DEF Marts!Nothing, Marts!Snapshots
<1>2. /\ Marts!Unattributed(content) = [content EXCEPT !.of = -1, !.from = Marts!Nothing]
  BY DEF Marts!Unattributed, Marts!Foreign
<1>3. -1 \in {Marts!Foreign} \cup Marts!Version
  BY DEF Marts!Foreign
<1> QED BY <1>1, <1>2, <1>3 DEF Marts!Content

LEMMA GotoMoves ==
  ASSUME Marts!TypeOK, NEW act \in Marts!Actor, NEW place \in Marts!Place, Marts!Goto(act, place)
  PROVE  Moves(act, place)
BY DEF Marts!TypeOK, Marts!Goto, Marts!Op, Moves, Others

LEMMA NoOpEnds ==
  ASSUME Marts!TypeOK, NEW act \in Marts!Actor, op' = [op EXCEPT ![act] = Marts!NoOp]
  PROVE  Ends(act)
<1>1. Marts!NoOp.pc = "idle" /\ Marts!NoOp.seen = Marts!Nothing
  BY DEF Marts!NoOp
<1> QED BY <1>1, NoOpTyped DEF Marts!TypeOK, Ends, Others

LEMMA AuditMoves ==
  ASSUME Marts!TypeOK, sandbox # None, NEW act \in Marts!Actor, Marts!Audit(act)
  PROVE  /\ op' \in [Marts!Actor -> Marts!Op] /\ Others(act)
         /\ op'[act].pc = "replace" /\ op'[act].staged = sandbox
         /\ op'[act].kind = op[act].kind /\ op'[act].version = op[act].version
         /\ op'[act].watched = op[act].watched /\ op'[act].seen = op[act].seen
BY ZenonT(30) DEF Marts!TypeOK, Marts!Audit, Marts!Op, Marts!Place, Others

LEMMA ReadEntryMoves ==
  ASSUME Marts!TypeOK, Marts!ReadEntry
  PROVE  /\ op' \in [Marts!Actor -> Marts!Op] /\ Others("refresh")
         /\ refresh'.pc = Marts!AfterEntry(refresh.watched) /\ refresh'.base = entry.baseline
         /\ refresh'.kind = refresh.kind /\ refresh'.version = refresh.version
         /\ refresh'.watched = refresh.watched /\ refresh'.seen = refresh.seen
<1> DEFINE place == Marts!AfterEntry(refresh.watched)
           base == entry.baseline
<1>1. op' = [op EXCEPT !["refresh"].pc = place, !["refresh"].base = base]
  BY DEF Marts!ReadEntry, refresh
<1>2. place \in Marts!Place /\ base \in Marts!Baseline \cup {None}
  BY TablesAssumption DEF Marts!TypeOK, Marts!ReadEntry, Marts!Owned, Marts!Entry, Marts!Place, Marts!AfterEntry
<1> HIDE DEF place, base
<1>3. /\ op' \in [Marts!Actor -> Marts!Op] /\ Others("refresh")
      /\ refresh'.pc = place /\ refresh'.base = base
      /\ refresh'.kind = refresh.kind /\ refresh'.version = refresh.version
      /\ refresh'.watched = refresh.watched /\ refresh'.seen = refresh.seen
  BY <1>1, <1>2 DEF Marts!TypeOK, Marts!Op, Marts!Actor, Others, refresh
<1> QED BY <1>3 DEF place, base

LEMMA ReadSourceMoves ==
  ASSUME Marts!TypeOK, NEW t \in Watched, Marts!ReadSource(t)
  PROVE  /\ op' \in [Marts!Actor -> Marts!Op] /\ Others("refresh")
         /\ refresh'.seen = [refresh.seen EXCEPT ![t] = source[t]]
         /\ refresh'.pc = IF \A u \in Watched : refresh'.seen[u] # 0 THEN "decide" ELSE "sources"
         /\ refresh'.kind = refresh.kind /\ refresh'.version = refresh.version
         /\ refresh'.watched = refresh.watched /\ refresh'.base = refresh.base
<1> DEFINE seen == [refresh.seen EXCEPT ![t] = source[t]]
           place == IF \A u \in Watched : seen[u] # 0 THEN "decide" ELSE "sources"
<1>1. op' = [op EXCEPT !["refresh"].seen = seen, !["refresh"].pc = place]
  BY DEF Marts!ReadSource, refresh
<1>2. seen \in Marts!Snapshots /\ place \in Marts!Place
  BY DEF Marts!TypeOK, Marts!Op, Marts!Snapshots, Marts!Place, Marts!Actor, refresh
<1> HIDE DEF seen, place
<1>3. /\ op' \in [Marts!Actor -> Marts!Op] /\ Others("refresh")
      /\ refresh'.seen = seen /\ refresh'.pc = place
      /\ refresh'.kind = refresh.kind /\ refresh'.version = refresh.version
      /\ refresh'.watched = refresh.watched /\ refresh'.base = refresh.base
  BY <1>1, <1>2 DEF Marts!TypeOK, Marts!Op, Marts!Actor, Others, refresh
<1> QED BY <1>3 DEF seen, place

LEMMA AdmittedMoves ==
  ASSUME Marts!TypeOK, Marts!Owned, NEW kind \in Marts!Managed, Marts!Admitted(kind)
  PROVE  /\ op' \in [Marts!Actor -> Marts!Op] /\ Others("refresh")
         /\ refresh'.pc = "entry" /\ refresh'.kind = kind
         /\ refresh'.version = entry.version /\ refresh'.watched = entry.watched
         /\ refresh'.seen = Marts!Nothing
<1> DEFINE o == [Marts!NoOp EXCEPT !.pc = "entry", !.kind = kind, !.version = entry.version, !.watched = entry.watched]
<1>1. op' = [op EXCEPT !["refresh"] = o]
  BY DEF Marts!Admitted
<1>2. entry.version \in Marts!Version /\ entry.watched \in BOOLEAN
  BY TablesAssumption DEF Marts!TypeOK, Marts!Owned, Marts!Entry
<1>3. /\ o \in Marts!Op /\ o.pc = "entry" /\ o.kind = kind /\ o.version = entry.version
      /\ o.watched = entry.watched /\ o.seen = Marts!Nothing
  BY <1>2, NoOpTyped DEF Marts!Op, Marts!Place, Marts!NoOp
<1> HIDE DEF o
<1> QED BY <1>1, <1>3 DEF Marts!TypeOK, Marts!Actor, Others, refresh

LEMMA RequestMoves ==
  ASSUME Marts!TypeOK, NEW kind \in Marts!Command, Marts!Request(kind)
  PROVE  /\ op' \in [Marts!Actor -> Marts!Op] /\ Others("operator")
         /\ command'.pc = IF kind = "publish" THEN "audit" ELSE "build"
         /\ command'.kind = kind
<1> DEFINE o == [Marts!NoOp EXCEPT !.kind = kind, !.pc = IF kind = "publish" THEN "audit" ELSE "build"]
<1>1. op' = [op EXCEPT !["operator"] = o]
  BY DEF Marts!Request
<1>2. /\ o \in Marts!Op /\ o.pc = (IF kind = "publish" THEN "audit" ELSE "build") /\ o.kind = kind
  BY NoOpTyped DEF Marts!Op, Marts!Place, Marts!NoOp
<1> HIDE DEF o
<1> QED BY <1>1, <1>2 DEF Marts!TypeOK, Marts!Actor, Others, command

\* A statement that outlives its client publishes what it would have published.
LEMMA StagedIsGood ==
  ASSUME Marts!TypeOK, GoodInv, NEW act \in Marts!Actor, op[act].pc = "replace"
  PROVE  /\ Marts!Unattributed(Marts!Statement(act)) \in Marts!Content
         /\ Marts!Unattributed(Marts!Statement(act)).good
<1>1. op[act].staged \in Marts!Content /\ op[act].staged.good
  BY DEF Marts!TypeOK, GoodInv, Marts!Op
<1> QED BY <1>1, UnattributedTyped DEF Marts!Statement

LEMMA AbandonedIsGood ==
  ASSUME Marts!TypeOK, GoodInv, NEW act \in Marts!Actor, late' \in Marts!Abandoned(act)
  PROVE  late' = late \/ (late' \in Marts!Content /\ late'.good)
BY StagedIsGood DEF Marts!Abandoned

-----------------------------------------------------------------------------
(* What others do to the tables, and a statement whose client is gone. *)

LEMMA CommitKeeps ==
  ASSUME MartIInv, NEW t \in Watched, Marts!Commit(t)
  PROVE  MartIInv'
<1>i. /\ Marts!TypeOK /\ LockInv /\ RunInv /\ GoodInv /\ DefInv
      /\ SourceInv /\ BuiltInv /\ BaselineInv
  BY DEF MartIInv
<1>u. UNCHANGED <<sandbox, mart, past, late, entry, schedule, run, debt, jobLock, opLock, op, editor, outside, rolled, doubt>>
  BY DEF Marts!Commit, Marts!sources, Marts!tables, Marts!ledger, Marts!history
<1>x. /\ newest' = [newest EXCEPT ![t] = @ + 1] /\ newest[t] < MaxSnapshot
      /\ source' = [source EXCEPT ![t] = newest[t] + 1]
  BY DEF Marts!Commit, Marts!sources, Marts!tables, Marts!ledger, Marts!history
<1>n. \A u \in Watched : /\ source'[u] \in Int /\ newest'[u] \in Int
                            /\ source[u] <= source'[u] /\ source'[u] <= newest'[u]
  BY <1>i, <1>x, Numbers DEF SourceInv, UpTo, Marts!TypeOK, Marts!Snapshots
<1>1. Marts!TypeOK'
  BY <1>i, <1>u, <1>x, <1>n, TablesAssumption DEF Marts!TypeOK, Marts!Snapshots
<1>2. LockInv'
  BY <1>i, <1>u, <1>x, <1>n, TablesAssumption DEF LockInv, InData, Others, Marts!Actor, refresh, command
<1>3. RunInv'
  BY <1>i, <1>u, <1>x, <1>n DEF RunInv, Busy, Others, Marts!Actor, refresh, command
<1>4. GoodInv'
  BY <1>i, <1>u, <1>x, <1>n DEF GoodInv, Others, Marts!Actor, refresh, command
<1>5. DefInv'
  BY <1>i, <1>u, <1>x, <1>n DEF DefInv, Marts!EnabledFitsDefinition, Marts!Owned, Relying, InData, refresh
<1>6. SourceInv'
  BY <1>i, <1>u, <1>x, <1>n, Numbers DEF SourceInv, UpTo, Baselined, refresh
<1>7. BuiltInv'
  BY <1>i, <1>u, <1>x, <1>n, Numbers DEF BuiltInv, Fresh, UpTo, Baselined, refresh, GoodInv, Marts!Actor
<1>8. BaselineInv'
  BY <1>i, <1>u, <1>x, <1>n, Numbers DEF BaselineInv, MartFits, UpTo, Baselined, refresh
<1> QED BY <1>1, <1>2, <1>3, <1>4, <1>5, <1>6, <1>7, <1>8 DEF MartIInv

LEMMA RollBackSourceKeeps ==
  ASSUME MartIInv, NEW t \in Watched, Marts!RollBackSource(t)
  PROVE  MartIInv'
<1>i. /\ Marts!TypeOK /\ LockInv /\ RunInv /\ GoodInv /\ DefInv
      /\ SourceInv /\ BuiltInv /\ BaselineInv
  BY DEF MartIInv
<1>u. UNCHANGED <<newest, sandbox, mart, past, late, entry, schedule, run, debt, jobLock, opLock, op, editor, outside, doubt>>
  BY DEF Marts!RollBackSource, Marts!sources, Marts!tables, Marts!ledger, Marts!history
<1>x. /\ \E s \in 1..(source[t] - 1) : source' = [source EXCEPT ![t] = s]
      /\ rolled'
  BY DEF Marts!RollBackSource, Marts!sources, Marts!tables, Marts!ledger, Marts!history
<1>n. \A u \in Watched : source'[u] \in Int /\ source'[u] <= source[u]
  BY <1>i, <1>x, Numbers DEF Marts!TypeOK, Marts!Snapshots
<1>1. Marts!TypeOK'
  BY <1>i, <1>u, <1>x, <1>n, TablesAssumption DEF Marts!TypeOK, Marts!Snapshots
<1>2. LockInv'
  BY <1>i, <1>u, <1>x, <1>n, TablesAssumption DEF LockInv, InData, Others, Marts!Actor, refresh, command
<1>3. RunInv'
  BY <1>i, <1>u, <1>x, <1>n DEF RunInv, Busy, Others, Marts!Actor, refresh, command
<1>4. GoodInv'
  BY <1>i, <1>u, <1>x, <1>n DEF GoodInv, Others, Marts!Actor, refresh, command
<1>5. DefInv'
  BY <1>i, <1>u, <1>x, <1>n DEF DefInv, Marts!EnabledFitsDefinition, Marts!Owned, Relying, InData, refresh
<1>6. SourceInv'
  BY <1>i, <1>u, <1>x, <1>n, Numbers DEF SourceInv, UpTo, Baselined, refresh
<1>7. BuiltInv'
  BY <1>i, <1>u, <1>x, <1>n DEF BuiltInv, Fresh, UpTo, Baselined, refresh
<1>8. BaselineInv'
  BY <1>i, <1>u, <1>x, <1>n DEF BaselineInv, MartFits, UpTo, Baselined, refresh
<1> QED BY <1>1, <1>2, <1>3, <1>4, <1>5, <1>6, <1>7, <1>8 DEF MartIInv

LEMMA WriteSandboxKeeps ==
  ASSUME MartIInv, Marts!WriteSandbox
  PROVE  MartIInv'
<1>i. /\ Marts!TypeOK /\ LockInv /\ RunInv /\ GoodInv /\ DefInv
      /\ SourceInv /\ BuiltInv /\ BaselineInv
  BY DEF MartIInv
<1>u. UNCHANGED <<source, newest, mart, past, late, entry, schedule, run, debt, jobLock, opLock, op, editor, outside, rolled, doubt>>
  BY DEF Marts!WriteSandbox, Marts!sources, Marts!tables, Marts!ledger, Marts!history
<1>x. \E good \in BOOLEAN : sandbox' = [of |-> Marts!Foreign, from |-> Marts!Nothing, good |-> good]
  BY DEF Marts!WriteSandbox, Marts!sources, Marts!tables, Marts!ledger, Marts!history
<1>n. sandbox' \in Marts!Content /\ sandbox' # None /\ sandbox'.of = -1
  BY <1>x, TablesAssumption DEF Marts!Content, Marts!Foreign, Marts!Nothing, Marts!Snapshots
<1>1. Marts!TypeOK'
  BY <1>i, <1>u, <1>x, <1>n, TablesAssumption DEF Marts!TypeOK
<1>2. LockInv'
  BY <1>i, <1>u, <1>x, <1>n, TablesAssumption DEF LockInv, InData, Others, Marts!Actor, refresh, command
<1>3. RunInv'
  BY <1>i, <1>u, <1>x, <1>n DEF RunInv, Busy, Others, Marts!Actor, refresh, command
<1>4. GoodInv'
  BY <1>i, <1>u, <1>x, <1>n DEF GoodInv, Others, Marts!Actor, refresh, command
<1>5. DefInv'
  BY <1>i, <1>u, <1>x, <1>n DEF DefInv, Marts!EnabledFitsDefinition, Marts!Owned, Relying, InData, refresh
<1>6. SourceInv'
  BY <1>i, <1>u, <1>x, <1>n DEF SourceInv, UpTo, Baselined, refresh
<1>7. BuiltInv'
  BY <1>i, <1>u, <1>x, <1>n, TablesAssumption DEF BuiltInv, Fresh, UpTo, Baselined, refresh, Marts!TypeOK, Marts!Op, Marts!Version, Marts!Actor
<1>8. BaselineInv'
  BY <1>i, <1>u, <1>x, <1>n DEF BaselineInv, MartFits, UpTo, Baselined, refresh
<1> QED BY <1>1, <1>2, <1>3, <1>4, <1>5, <1>6, <1>7, <1>8 DEF MartIInv

LEMMA LateEndsKeeps ==
  ASSUME MartIInv, Marts!LateEnds
  PROVE  MartIInv'
<1>i. /\ Marts!TypeOK /\ LockInv /\ RunInv /\ GoodInv /\ DefInv
      /\ SourceInv /\ BuiltInv /\ BaselineInv
  BY DEF MartIInv
<1>u. UNCHANGED <<source, newest, sandbox, entry, schedule, run, debt, jobLock, opLock, op, editor, rolled, doubt>>
  BY DEF Marts!LateEnds, Marts!sources, Marts!tables, Marts!ledger, Marts!history, Marts!Becomes
<1>x. /\ late # None /\ late' = None
      /\ \/ mart' = late /\ outside' = TRUE /\ past' = IF mart = None THEN past ELSE Marts!Unattributed(mart)
         \/ UNCHANGED <<mart, past, outside>>
  BY DEF Marts!LateEnds, Marts!sources, Marts!tables, Marts!ledger, Marts!history, Marts!Becomes
<1>n. mart # None => Marts!Unattributed(mart) \in Marts!Content /\ Marts!Unattributed(mart).good = mart.good
  BY <1>i, UnattributedTyped DEF Marts!TypeOK
<1>1. Marts!TypeOK'
  <2>1. late \in Marts!Content /\ (mart # None => mart \in Marts!Content)
    BY <1>i, <1>x DEF Marts!TypeOK
  <2>2. mart' \in Marts!Content \cup {None} /\ past' \in Marts!Content \cup {None} /\ outside' \in BOOLEAN
    BY <1>i, <1>x, <1>n, <2>1 DEF Marts!TypeOK
  <2> QED BY <1>i, <1>u, <1>x, <2>2 DEF Marts!TypeOK
<1>2. LockInv'
  BY <1>i, <1>u, <1>x, <1>n, TablesAssumption DEF LockInv, InData, Others, Marts!Actor, refresh, command
<1>3. RunInv'
  BY <1>i, <1>u, <1>x, <1>n DEF RunInv, Busy, Others, Marts!Actor, refresh, command
<1>4. GoodInv'
  BY <1>i, <1>u, <1>x, <1>n DEF GoodInv, Others, Marts!Actor, refresh, command
<1>5. DefInv'
  BY <1>i, <1>u, <1>x, <1>n DEF DefInv, Marts!EnabledFitsDefinition, Marts!Owned, Relying, InData, refresh
<1>6. SourceInv'
  BY <1>i, <1>u, <1>x, <1>n DEF SourceInv, UpTo, Baselined, refresh
<1>7. BuiltInv'
  BY <1>i, <1>u, <1>x, <1>n DEF BuiltInv, Fresh, UpTo, Baselined, refresh
<1>8. BaselineInv'
  BY <1>i, <1>u, <1>x, <1>n DEF BaselineInv, MartFits, UpTo, Baselined, refresh
<1> QED BY <1>1, <1>2, <1>3, <1>4, <1>5, <1>6, <1>7, <1>8 DEF MartIInv

-----------------------------------------------------------------------------
(* The definition is replaced. *)

LEMMA EditStartKeeps ==
  ASSUME MartIInv, Marts!EditStart
  PROVE  MartIInv'
<1>i. /\ Marts!TypeOK /\ LockInv /\ RunInv /\ GoodInv /\ DefInv
      /\ SourceInv /\ BuiltInv /\ BaselineInv
  BY DEF MartIInv
<1>u. UNCHANGED <<source, newest, sandbox, mart, past, late, entry, schedule, run, debt, opLock, op, outside, rolled, doubt>>
  BY DEF Marts!EditStart, Marts!sources, Marts!tables, Marts!ledger, Marts!history
<1>x. jobLock = Free /\ editor = "idle" /\ jobLock' = "editor" /\ editor' = "register"
  BY DEF Marts!EditStart, Marts!sources, Marts!tables, Marts!ledger, Marts!history
<1>1. Marts!TypeOK'
  BY <1>i, <1>u, <1>x, TablesAssumption DEF Marts!TypeOK
<1>2. LockInv'
  BY <1>i, <1>u, <1>x, TablesAssumption DEF LockInv, InData, Others, Marts!Actor, refresh, command
<1>3. RunInv'
  BY <1>i, <1>u, <1>x DEF RunInv, Busy, Others, Marts!Actor, refresh, command
<1>4. GoodInv'
  BY <1>i, <1>u, <1>x DEF GoodInv, Others, Marts!Actor, refresh, command
<1>5. DefInv'
  BY <1>i, <1>u, <1>x DEF DefInv, Marts!EnabledFitsDefinition, Marts!Owned, Relying, InData, refresh
<1>6. SourceInv'
  BY <1>i, <1>u, <1>x DEF SourceInv, UpTo, Baselined, refresh
<1>7. BuiltInv'
  BY <1>i, <1>u, <1>x DEF BuiltInv, Fresh, UpTo, Baselined, refresh
<1>8. BaselineInv'
  BY <1>i, <1>u, <1>x DEF BaselineInv, MartFits, UpTo, Baselined, refresh
<1> QED BY <1>1, <1>2, <1>3, <1>4, <1>5, <1>6, <1>7, <1>8 DEF MartIInv

LEMMA EditRefuseKeeps ==
  ASSUME MartIInv, Marts!EditRefuse
  PROVE  MartIInv'
<1>i. /\ Marts!TypeOK /\ LockInv /\ RunInv /\ GoodInv /\ DefInv
      /\ SourceInv /\ BuiltInv /\ BaselineInv
  BY DEF MartIInv
<1>u. UNCHANGED <<source, newest, sandbox, mart, past, late, entry, schedule, run, debt, opLock, op, outside, rolled, doubt>>
  BY DEF Marts!EditRefuse, Marts!sources, Marts!tables, Marts!ledger, Marts!history
<1>x. editor = "register" /\ opLock = Free /\ jobLock' = Free /\ editor' = "idle"
  BY DEF Marts!EditRefuse, Marts!sources, Marts!tables, Marts!ledger, Marts!history
<1>1. Marts!TypeOK'
  BY <1>i, <1>u, <1>x, TablesAssumption DEF Marts!TypeOK
<1>2. LockInv'
  BY <1>i, <1>u, <1>x, TablesAssumption DEF LockInv, InData, Others, Marts!Actor, refresh, command
<1>3. RunInv'
  BY <1>i, <1>u, <1>x DEF RunInv, Busy, Others, Marts!Actor, refresh, command
<1>4. GoodInv'
  BY <1>i, <1>u, <1>x DEF GoodInv, Others, Marts!Actor, refresh, command
<1>5. DefInv'
  BY <1>i, <1>u, <1>x DEF DefInv, Marts!EnabledFitsDefinition, Marts!Owned, Relying, InData, refresh
<1>6. SourceInv'
  BY <1>i, <1>u, <1>x DEF SourceInv, UpTo, Baselined, refresh
<1>7. BuiltInv'
  BY <1>i, <1>u, <1>x DEF BuiltInv, Fresh, UpTo, Baselined, refresh
<1>8. BaselineInv'
  BY <1>i, <1>u, <1>x DEF BaselineInv, MartFits, UpTo, Baselined, refresh
<1> QED BY <1>1, <1>2, <1>3, <1>4, <1>5, <1>6, <1>7, <1>8 DEF MartIInv

LEMMA EditPauseKeeps ==
  ASSUME MartIInv, Marts!EditPause
  PROVE  MartIInv'
<1>i. /\ Marts!TypeOK /\ LockInv /\ RunInv /\ GoodInv /\ DefInv
      /\ SourceInv /\ BuiltInv /\ BaselineInv
  BY DEF MartIInv
<1>u. UNCHANGED <<source, newest, sandbox, mart, past, late, entry, run, debt, jobLock, op, outside, rolled, doubt>>
  BY DEF Marts!EditPause, Marts!sources, Marts!tables, Marts!ledger, Marts!history
<1>x. /\ editor = "register" /\ opLock = Free /\ opLock' = "editor" /\ editor' = "replace"
      /\ (entry # None) => (entry.version < MaxVersion)
      /\ schedule' = [schedule EXCEPT !.on = FALSE]
  BY DEF Marts!EditPause, Marts!sources, Marts!tables, Marts!ledger, Marts!history
<1>1. Marts!TypeOK'
  BY ZenonT(30), <1>i, <1>u, <1>x, TablesAssumption DEF Marts!TypeOK
<1>2. LockInv'
  BY <1>i, <1>u, <1>x, TablesAssumption DEF LockInv, InData, Others, Marts!Actor, refresh, command
<1>3. RunInv'
  BY <1>i, <1>u, <1>x DEF RunInv, Busy, Others, Marts!Actor, refresh, command
<1>4. GoodInv'
  BY <1>i, <1>u, <1>x DEF GoodInv, Others, Marts!Actor, refresh, command
<1>5. DefInv'
  BY <1>i, <1>u, <1>x DEF DefInv, Marts!EnabledFitsDefinition, Marts!Owned, Relying, InData, refresh
<1>6. SourceInv'
  BY <1>i, <1>u, <1>x DEF SourceInv, UpTo, Baselined, refresh
<1>7. BuiltInv'
  BY <1>i, <1>u, <1>x DEF BuiltInv, Fresh, UpTo, Baselined, refresh
<1>8. BaselineInv'
  BY <1>i, <1>u, <1>x DEF BaselineInv, MartFits, UpTo, Baselined, refresh
<1> QED BY <1>1, <1>2, <1>3, <1>4, <1>5, <1>6, <1>7, <1>8 DEF MartIInv

LEMMA EditReplaceKeeps ==
  ASSUME MartIInv, Marts!EditReplace
  PROVE  MartIInv'
<1>i. /\ Marts!TypeOK /\ LockInv /\ RunInv /\ GoodInv /\ DefInv
      /\ SourceInv /\ BuiltInv /\ BaselineInv
  BY DEF MartIInv
<1>u. UNCHANGED <<source, newest, sandbox, mart, past, late, schedule, run, debt, op, outside, rolled, doubt>>
  BY DEF Marts!EditReplace, Marts!sources, Marts!tables, Marts!ledger, Marts!history
<1>x. /\ editor = "replace" /\ jobLock' = Free /\ opLock' = Free /\ editor' = "idle"
      /\ \/ entry' = entry
         \/ \E w \in BOOLEAN :
              entry' = [owned |-> TRUE, version |-> IF entry = None THEN 1 ELSE entry.version + 1,
                        watched |-> w, baseline |-> None]
  BY DEF Marts!EditReplace, Marts!sources, Marts!tables, Marts!ledger, Marts!history
<1>n. entry' = entry \/ (entry' \in Marts!Entry /\ entry'.baseline = None)
  <2>1. entry # None => entry.version \in 0..MaxVersion /\ entry.version < MaxVersion
    BY <1>i, <1>x DEF DefInv, Marts!TypeOK, Marts!Entry, Marts!Version
  <2>2. (IF entry = None THEN 1 ELSE entry.version + 1) \in Marts!Version
    BY <2>1, TablesAssumption DEF Marts!Version
  <2> DEFINE version == IF entry = None THEN 1 ELSE entry.version + 1
  <2>3. \/ entry' = entry
        \/ \E w \in BOOLEAN : entry' = [owned |-> TRUE, version |-> version, watched |-> w, baseline |-> None]
    BY <1>x
  <2> HIDE DEF version
  <2>4. version \in Marts!Version
    BY <2>2 DEF version
  <2>5. CASE \E w \in BOOLEAN : entry' = [owned |-> TRUE, version |-> version, watched |-> w, baseline |-> None]
    <3>1. PICK w \in BOOLEAN : entry' = [owned |-> TRUE, version |-> version, watched |-> w, baseline |-> None]
      BY <2>5
    <3> QED BY <3>1, <2>4 DEF Marts!Entry
  <2> QED BY <2>3, <2>5
<1>1. Marts!TypeOK'
  BY <1>i, <1>u, <1>x, <1>n, TablesAssumption DEF Marts!TypeOK
<1>2. LockInv'
  BY <1>i, <1>u, <1>x, <1>n, TablesAssumption DEF LockInv, InData, Others, Marts!Actor, refresh, command
<1>3. RunInv'
  BY <1>i, <1>u, <1>x, <1>n DEF RunInv, Busy, Others, Marts!Actor, refresh, command
<1>4. GoodInv'
  BY <1>i, <1>u, <1>x, <1>n DEF GoodInv, Others, Marts!Actor, refresh, command
<1>5. DefInv'
  BY <1>i, <1>u, <1>x, <1>n, TablesAssumption DEF DefInv, Marts!EnabledFitsDefinition, Marts!Owned, Relying, InData, refresh, LockInv
<1>6. SourceInv'
  BY <1>i, <1>u, <1>x, <1>n DEF SourceInv, UpTo, Baselined, refresh
<1>7. BuiltInv'
  BY <1>i, <1>u, <1>x, <1>n DEF BuiltInv, Fresh, UpTo, Baselined, refresh
<1>8. BaselineInv'
  BY <1>i, <1>u, <1>x, <1>n DEF BaselineInv, MartFits, UpTo, Baselined, refresh
<1> QED BY <1>1, <1>2, <1>3, <1>4, <1>5, <1>6, <1>7, <1>8 DEF MartIInv

-----------------------------------------------------------------------------
(* Admission: by the daemon at its start, by a tick, by a request. *)

LEMMA RecoverKeeps ==
  ASSUME MartIInv, Marts!Recover
  PROVE  MartIInv'
<1>i. /\ Marts!TypeOK /\ LockInv /\ RunInv /\ GoodInv /\ DefInv
      /\ SourceInv /\ BuiltInv /\ BaselineInv
  BY DEF MartIInv
<1>u. UNCHANGED <<source, newest, sandbox, mart, past, late, entry, jobLock, opLock, op, editor, outside, rolled, doubt>>
  BY DEF Marts!Recover, Marts!sources, Marts!tables, Marts!ledger, Marts!history, Marts!Lost
<1>x. /\ jobLock = Free /\ run # None /\ run' = None /\ debt' = TRUE /\ schedule' = [schedule EXCEPT !.on = FALSE]
  BY DEF Marts!Recover, Marts!sources, Marts!tables, Marts!ledger, Marts!history, Marts!Lost
<1>1. Marts!TypeOK'
  BY ZenonT(30), <1>i, <1>u, <1>x, TablesAssumption DEF Marts!TypeOK
<1>2. LockInv'
  BY <1>i, <1>u, <1>x, TablesAssumption DEF LockInv, InData, Others, Marts!Actor, refresh, command
<1>3. RunInv'
  BY <1>i, <1>u, <1>x, TablesAssumption DEF RunInv, Busy, Others, Marts!Actor, refresh, command, LockInv
<1>4. GoodInv'
  BY <1>i, <1>u, <1>x DEF GoodInv, Others, Marts!Actor, refresh, command
<1>5. DefInv'
  BY <1>i, <1>u, <1>x DEF DefInv, Marts!EnabledFitsDefinition, Marts!Owned, Relying, InData, refresh
<1>6. SourceInv'
  BY <1>i, <1>u, <1>x DEF SourceInv, UpTo, Baselined, refresh
<1>7. BuiltInv'
  BY <1>i, <1>u, <1>x DEF BuiltInv, Fresh, UpTo, Baselined, refresh
<1>8. BaselineInv'
  BY <1>i, <1>u, <1>x DEF BaselineInv, MartFits, UpTo, Baselined, refresh
<1> QED BY <1>1, <1>2, <1>3, <1>4, <1>5, <1>6, <1>7, <1>8 DEF MartIInv

LEMMA EnableKeeps ==
  ASSUME MartIInv, Marts!Enable
  PROVE  MartIInv'
<1>i. /\ Marts!TypeOK /\ LockInv /\ RunInv /\ GoodInv /\ DefInv
      /\ SourceInv /\ BuiltInv /\ BaselineInv
  BY DEF MartIInv
<1>u. UNCHANGED <<source, newest, sandbox, mart, past, late, entry, run, debt, jobLock, opLock, op, editor, outside, rolled, doubt>>
  BY DEF Marts!Enable, Marts!sources, Marts!tables, Marts!ledger, Marts!history
<1>x. /\ jobLock = Free /\ Marts!Owned /\ entry.watched
      /\ schedule' = [on |-> TRUE, version |-> entry.version]
  BY DEF Marts!Enable, Marts!sources, Marts!tables, Marts!ledger, Marts!history
<1>1. Marts!TypeOK'
  BY <1>i, <1>u, <1>x, TablesAssumption DEF Marts!TypeOK, Marts!Owned, Marts!Entry
<1>2. LockInv'
  BY <1>i, <1>u, <1>x, TablesAssumption DEF LockInv, InData, Others, Marts!Actor, refresh, command
<1>3. RunInv'
  BY <1>i, <1>u, <1>x DEF RunInv, Busy, Others, Marts!Actor, refresh, command
<1>4. GoodInv'
  BY <1>i, <1>u, <1>x DEF GoodInv, Others, Marts!Actor, refresh, command
<1>5. DefInv'
  BY <1>i, <1>u, <1>x, TablesAssumption DEF DefInv, Marts!EnabledFitsDefinition, Marts!Owned, Relying, InData, refresh, LockInv
<1>6. SourceInv'
  BY <1>i, <1>u, <1>x DEF SourceInv, UpTo, Baselined, refresh
<1>7. BuiltInv'
  BY <1>i, <1>u, <1>x DEF BuiltInv, Fresh, UpTo, Baselined, refresh
<1>8. BaselineInv'
  BY <1>i, <1>u, <1>x DEF BaselineInv, MartFits, UpTo, Baselined, refresh
<1> QED BY <1>1, <1>2, <1>3, <1>4, <1>5, <1>6, <1>7, <1>8 DEF MartIInv

LEMMA PauseKeeps ==
  ASSUME MartIInv, Marts!Pause
  PROVE  MartIInv'
<1>i. /\ Marts!TypeOK /\ LockInv /\ RunInv /\ GoodInv /\ DefInv
      /\ SourceInv /\ BuiltInv /\ BaselineInv
  BY DEF MartIInv
<1>u. UNCHANGED <<source, newest, sandbox, mart, past, late, entry, run, debt, jobLock, opLock, op, editor, outside, rolled, doubt>>
  BY DEF Marts!Pause, Marts!sources, Marts!tables, Marts!ledger, Marts!history
<1>x. schedule' = [schedule EXCEPT !.on = FALSE]
  BY DEF Marts!Pause, Marts!sources, Marts!tables, Marts!ledger, Marts!history
<1>n. schedule' \in [on : BOOLEAN, version : Marts!Version] /\ ~schedule'.on
  BY <1>i, <1>x DEF Marts!TypeOK
<1>1. Marts!TypeOK'
  BY <1>i, <1>u, <1>x, <1>n, TablesAssumption DEF Marts!TypeOK
<1>2. LockInv'
  BY <1>i, <1>u, <1>x, <1>n, TablesAssumption DEF LockInv, InData, Others, Marts!Actor, refresh, command
<1>3. RunInv'
  BY <1>i, <1>u, <1>x, <1>n DEF RunInv, Busy, Others, Marts!Actor, refresh, command
<1>4. GoodInv'
  BY <1>i, <1>u, <1>x, <1>n DEF GoodInv, Others, Marts!Actor, refresh, command
<1>5. DefInv'
  BY <1>i, <1>u, <1>x, <1>n DEF DefInv, Marts!EnabledFitsDefinition, Marts!Owned, Relying, InData, refresh
<1>6. SourceInv'
  BY <1>i, <1>u, <1>x, <1>n DEF SourceInv, UpTo, Baselined, refresh
<1>7. BuiltInv'
  BY <1>i, <1>u, <1>x, <1>n DEF BuiltInv, Fresh, UpTo, Baselined, refresh
<1>8. BaselineInv'
  BY <1>i, <1>u, <1>x, <1>n DEF BaselineInv, MartFits, UpTo, Baselined, refresh
<1> QED BY <1>1, <1>2, <1>3, <1>4, <1>5, <1>6, <1>7, <1>8 DEF MartIInv

LEMMA TickRefusesKeeps ==
  ASSUME MartIInv, Marts!TickRefuses
  PROVE  MartIInv'
<1>i. /\ Marts!TypeOK /\ LockInv /\ RunInv /\ GoodInv /\ DefInv
      /\ SourceInv /\ BuiltInv /\ BaselineInv
  BY DEF MartIInv
<1>u. UNCHANGED <<source, newest, sandbox, mart, past, late, entry, jobLock, opLock, op, editor, outside, rolled, doubt>>
  BY DEF Marts!TickRefuses, Marts!sources, Marts!tables, Marts!ledger, Marts!history, Marts!Lost, Marts!Debt
<1>x. /\ jobLock = Free /\ run' = None /\ debt' = (debt \/ run # None) /\ schedule' = [schedule EXCEPT !.on = FALSE]
  BY DEF Marts!TickRefuses, Marts!sources, Marts!tables, Marts!ledger, Marts!history, Marts!Lost, Marts!Debt
<1>1. Marts!TypeOK'
  BY ZenonT(30), <1>i, <1>u, <1>x, TablesAssumption DEF Marts!TypeOK
<1>2. LockInv'
  BY <1>i, <1>u, <1>x, TablesAssumption DEF LockInv, InData, Others, Marts!Actor, refresh, command
<1>3. RunInv'
  BY <1>i, <1>u, <1>x, TablesAssumption DEF RunInv, Busy, Others, Marts!Actor, refresh, command, LockInv
<1>4. GoodInv'
  BY <1>i, <1>u, <1>x DEF GoodInv, Others, Marts!Actor, refresh, command
<1>5. DefInv'
  BY <1>i, <1>u, <1>x DEF DefInv, Marts!EnabledFitsDefinition, Marts!Owned, Relying, InData, refresh
<1>6. SourceInv'
  BY <1>i, <1>u, <1>x DEF SourceInv, UpTo, Baselined, refresh
<1>7. BuiltInv'
  BY <1>i, <1>u, <1>x DEF BuiltInv, Fresh, UpTo, Baselined, refresh
<1>8. BaselineInv'
  BY <1>i, <1>u, <1>x DEF BaselineInv, MartFits, UpTo, Baselined, refresh
<1> QED BY <1>1, <1>2, <1>3, <1>4, <1>5, <1>6, <1>7, <1>8 DEF MartIInv

LEMMA TickAdmitsKeeps ==
  ASSUME MartIInv, Marts!TickAdmits
  PROVE  MartIInv'
<1>i. /\ Marts!TypeOK /\ LockInv /\ RunInv /\ GoodInv /\ DefInv
      /\ SourceInv /\ BuiltInv /\ BaselineInv
  BY DEF MartIInv
<1>u. UNCHANGED <<source, newest, sandbox, mart, past, late, entry, opLock, editor, outside, rolled, doubt>>
  BY DEF Marts!TickAdmits, Marts!sources, Marts!tables, Marts!ledger, Marts!history, Marts!Admitted
<1>m. /\ op' \in [Marts!Actor -> Marts!Op] /\ Others("refresh")
      /\ refresh'.pc = "entry" /\ refresh'.kind = "scheduled"
      /\ refresh'.version = entry.version /\ refresh'.watched = entry.watched
      /\ refresh'.seen = Marts!Nothing
  BY <1>i, AdmittedMoves DEF Marts!TickAdmits, Marts!Checkable, Marts!Managed
<1>x. /\ jobLock = Free /\ jobLock' = "refresh" /\ run' = "scheduled" /\ schedule.on
      /\ Marts!Owned /\ entry.watched /\ entry.version = schedule.version /\ ~debt /\ run = None /\ debt' = debt
      /\ \E on \in BOOLEAN : schedule' = [schedule EXCEPT !.on = on]
  BY <1>i DEF Marts!TickAdmits, Marts!Checkable, Marts!Debt, Marts!Lost, Marts!Admitted, Marts!TypeOK
<1>n. refresh.pc = "idle" /\ editor = "idle" /\ command' = command /\ schedule' \in [on : BOOLEAN, version : Marts!Version]
  BY <1>i, <1>x, <1>m, TablesAssumption DEF LockInv, Marts!TypeOK, Others, Marts!Actor, command
<1>1. Marts!TypeOK'
  BY <1>i, <1>u, <1>m, <1>x, <1>n, TablesAssumption DEF Marts!TypeOK, Marts!Managed
<1>2. LockInv'
  BY <1>i, <1>u, <1>m, <1>x, <1>n, TablesAssumption DEF LockInv, InData, Others, Marts!Actor, refresh, command
<1>3. RunInv'
  BY <1>i, <1>u, <1>m, <1>x, <1>n, TablesAssumption DEF RunInv, Busy, Others, Marts!Actor, refresh, command, Marts!Managed
<1>4. GoodInv'
  BY <1>i, <1>u, <1>m, <1>x, <1>n DEF GoodInv, Others, Marts!Actor, refresh, command
<1>5. DefInv'
  BY <1>i, <1>u, <1>m, <1>x, <1>n DEF DefInv, Marts!EnabledFitsDefinition, Marts!Owned, Relying, InData, refresh
<1>6. SourceInv'
  BY <1>i, <1>u, <1>m, <1>x, <1>n, NothingSeen DEF SourceInv, UpTo, Baselined, refresh, Marts!TypeOK
<1>7. BuiltInv'
  BY <1>i, <1>u, <1>m, <1>x, <1>n DEF BuiltInv, Fresh, UpTo, Baselined, refresh
<1>8. BaselineInv'
  BY <1>i, <1>u, <1>m, <1>x, <1>n DEF BaselineInv, MartFits, UpTo, Baselined, refresh
<1> QED BY <1>1, <1>2, <1>3, <1>4, <1>5, <1>6, <1>7, <1>8 DEF MartIInv

LEMMA SubmitStartKeeps ==
  ASSUME MartIInv, Marts!SubmitStart
  PROVE  MartIInv'
<1>i. /\ Marts!TypeOK /\ LockInv /\ RunInv /\ GoodInv /\ DefInv
      /\ SourceInv /\ BuiltInv /\ BaselineInv
  BY DEF MartIInv
<1>u. UNCHANGED <<source, newest, sandbox, mart, past, late, entry, schedule, run, debt, opLock, editor, outside, rolled, doubt>>
  BY DEF Marts!SubmitStart, Marts!sources, Marts!tables, Marts!ledger, Marts!history
<1>m. /\ op' \in [Marts!Actor -> Marts!Op] /\ command' = command /\ refresh'.pc = "admit"
      /\ refresh'.kind = refresh.kind /\ refresh'.version = refresh.version
      /\ refresh'.watched = refresh.watched /\ refresh'.seen = refresh.seen
      /\ refresh'.base = refresh.base /\ refresh'.staged = refresh.staged
  BY <1>i, GotoMoves DEF Marts!SubmitStart, Marts!Goto, Moves, Others, Marts!Actor, Marts!Place, refresh, command
<1>x. jobLock = Free /\ jobLock' = "refresh"
  BY DEF Marts!SubmitStart, Marts!sources, Marts!tables, Marts!ledger, Marts!history
<1>n. refresh.pc = "idle" /\ editor = "idle"
  BY <1>i, <1>x, TablesAssumption DEF LockInv
<1>1. Marts!TypeOK'
  BY <1>i, <1>u, <1>m, <1>x, <1>n, TablesAssumption DEF Marts!TypeOK
<1>2. LockInv'
  BY <1>i, <1>u, <1>m, <1>x, <1>n, TablesAssumption DEF LockInv, InData, Others, Marts!Actor, refresh, command
<1>3. RunInv'
  BY <1>i, <1>u, <1>m, <1>x, <1>n DEF RunInv, Busy, Others, Marts!Actor, refresh, command
<1>4. GoodInv'
  BY <1>i, <1>u, <1>m, <1>x, <1>n DEF GoodInv, Others, Marts!Actor, refresh, command
<1>5. DefInv'
  BY <1>i, <1>u, <1>m, <1>x, <1>n DEF DefInv, Marts!EnabledFitsDefinition, Marts!Owned, Relying, InData, refresh
<1>6. SourceInv'
  BY <1>i, <1>u, <1>m, <1>x, <1>n DEF SourceInv, UpTo, Baselined, refresh
<1>7. BuiltInv'
  BY <1>i, <1>u, <1>m, <1>x, <1>n DEF BuiltInv, Fresh, UpTo, Baselined, refresh
<1>8. BaselineInv'
  BY <1>i, <1>u, <1>m, <1>x, <1>n DEF BaselineInv, MartFits, UpTo, Baselined, refresh
<1> QED BY <1>1, <1>2, <1>3, <1>4, <1>5, <1>6, <1>7, <1>8 DEF MartIInv

LEMMA SubmitRefuseKeeps ==
  ASSUME MartIInv, Marts!SubmitRefuse
  PROVE  MartIInv'
<1>i. /\ Marts!TypeOK /\ LockInv /\ RunInv /\ GoodInv /\ DefInv
      /\ SourceInv /\ BuiltInv /\ BaselineInv
  BY DEF MartIInv
<1>u. UNCHANGED <<source, newest, sandbox, mart, past, late, entry, schedule, run, debt, opLock, editor, outside, rolled, doubt>>
  BY DEF Marts!SubmitRefuse, Marts!sources, Marts!tables, Marts!ledger, Marts!history, refresh
<1>m. /\ op' \in [Marts!Actor -> Marts!Op] /\ command' = command
      /\ refresh'.pc = "idle" /\ refresh'.seen = Marts!Nothing
  BY <1>i, NoOpEnds DEF Marts!SubmitRefuse, Ends, Others, Marts!Actor, refresh, command
<1>x. refresh.pc = "admit" /\ opLock = Free /\ jobLock' = Free
  BY DEF Marts!SubmitRefuse, Marts!sources, Marts!tables, Marts!ledger, Marts!history, refresh
<1>1. Marts!TypeOK'
  BY <1>i, <1>u, <1>m, <1>x, TablesAssumption DEF Marts!TypeOK
<1>2. LockInv'
  BY <1>i, <1>u, <1>m, <1>x, TablesAssumption DEF LockInv, InData, Others, Marts!Actor, refresh, command
<1>3. RunInv'
  BY <1>i, <1>u, <1>m, <1>x DEF RunInv, Busy, Others, Marts!Actor, refresh, command
<1>4. GoodInv'
  BY <1>i, <1>u, <1>m, <1>x DEF GoodInv, Others, Marts!Actor, refresh, command
<1>5. DefInv'
  BY <1>i, <1>u, <1>m, <1>x DEF DefInv, Marts!EnabledFitsDefinition, Marts!Owned, Relying, InData, refresh
<1>6. SourceInv'
  BY <1>i, <1>u, <1>m, <1>x, NothingSeen DEF SourceInv, UpTo, Baselined, refresh
<1>7. BuiltInv'
  BY <1>i, <1>u, <1>m, <1>x DEF BuiltInv, Fresh, UpTo, Baselined, refresh
<1>8. BaselineInv'
  BY <1>i, <1>u, <1>m, <1>x DEF BaselineInv, MartFits, UpTo, Baselined, refresh
<1> QED BY <1>1, <1>2, <1>3, <1>4, <1>5, <1>6, <1>7, <1>8 DEF MartIInv

LEMMA SubmitAdmitKeeps ==
  ASSUME MartIInv, Marts!SubmitAdmit
  PROVE  MartIInv'
<1>i. /\ Marts!TypeOK /\ LockInv /\ RunInv /\ GoodInv /\ DefInv
      /\ SourceInv /\ BuiltInv /\ BaselineInv
  BY DEF MartIInv
<1>u. UNCHANGED <<source, newest, sandbox, mart, past, late, entry, jobLock, opLock, editor, outside, rolled, doubt>>
  BY DEF Marts!SubmitAdmit, Marts!sources, Marts!tables, Marts!ledger, Marts!history, Marts!Admitted, Marts!On, Marts!Lost, Marts!Debt, refresh
<1>m. /\ op' \in [Marts!Actor -> Marts!Op] /\ Others("refresh")
      /\ refresh'.pc = "entry" /\ refresh'.kind = "manual"
      /\ refresh'.version = entry.version /\ refresh'.watched = entry.watched
      /\ refresh'.seen = Marts!Nothing
  BY <1>i, AdmittedMoves DEF Marts!SubmitAdmit, Marts!Managed
<1>x. /\ refresh.pc = "admit" /\ Marts!Owned /\ run' = "manual" /\ debt' = (debt \/ run # None)
      /\ schedule' = [schedule EXCEPT !.on = schedule.on /\ run = None]
  BY DEF Marts!SubmitAdmit, Marts!sources, Marts!tables, Marts!ledger, Marts!history, Marts!Admitted, Marts!On, Marts!Lost, Marts!Debt, refresh
<1>n. command' = command /\ schedule' \in [on : BOOLEAN, version : Marts!Version]
      /\ jobLock = "refresh" /\ editor # "replace" /\ (schedule'.on => schedule.on) /\ schedule'.version = schedule.version
  BY <1>i, <1>x, <1>m, TablesAssumption DEF LockInv, Marts!TypeOK, Others, Marts!Actor, command
<1>1. Marts!TypeOK'
  BY <1>i, <1>u, <1>m, <1>x, <1>n, TablesAssumption DEF Marts!TypeOK, Marts!Managed
<1>2. LockInv'
  BY <1>i, <1>u, <1>m, <1>x, <1>n, TablesAssumption DEF LockInv, InData, Others, Marts!Actor, refresh, command
<1>3. RunInv'
  BY <1>i, <1>u, <1>m, <1>x, <1>n, TablesAssumption DEF RunInv, Busy, Others, Marts!Actor, refresh, command, Marts!Managed
<1>4. GoodInv'
  BY <1>i, <1>u, <1>m, <1>x, <1>n DEF GoodInv, Others, Marts!Actor, refresh, command
<1>5. DefInv'
  BY <1>i, <1>u, <1>m, <1>x, <1>n DEF DefInv, Marts!EnabledFitsDefinition, Marts!Owned, Relying, InData, refresh
<1>6. SourceInv'
  BY <1>i, <1>u, <1>m, <1>x, <1>n, NothingSeen DEF SourceInv, UpTo, Baselined, refresh, Marts!TypeOK
<1>7. BuiltInv'
  BY <1>i, <1>u, <1>m, <1>x, <1>n DEF BuiltInv, Fresh, UpTo, Baselined, refresh
<1>8. BaselineInv'
  BY <1>i, <1>u, <1>m, <1>x, <1>n DEF BaselineInv, MartFits, UpTo, Baselined, refresh
<1> QED BY <1>1, <1>2, <1>3, <1>4, <1>5, <1>6, <1>7, <1>8 DEF MartIInv

-----------------------------------------------------------------------------
(* A refresh, up to its data operation and after it. *)

LEMMA ReadEntryKeeps ==
  ASSUME MartIInv, Marts!ReadEntry
  PROVE  MartIInv'
<1>i. /\ Marts!TypeOK /\ LockInv /\ RunInv /\ GoodInv /\ DefInv
      /\ SourceInv /\ BuiltInv /\ BaselineInv
  BY DEF MartIInv
<1>u. UNCHANGED <<source, newest, sandbox, mart, past, late, entry, schedule, run, debt, jobLock, opLock, editor, outside, rolled, doubt>>
  BY DEF Marts!ReadEntry, Marts!sources, Marts!tables, Marts!ledger, Marts!history, refresh
<1>m. /\ op' \in [Marts!Actor -> Marts!Op] /\ Others("refresh") /\ command' = command
      /\ refresh'.pc = (IF refresh.watched THEN "sources" ELSE "decide") /\ refresh'.base = entry.baseline
      /\ refresh'.kind = refresh.kind /\ refresh'.version = refresh.version
      /\ refresh'.watched = refresh.watched /\ refresh'.seen = refresh.seen
  BY <1>i, ReadEntryMoves DEF Marts!AfterEntry, Others, Marts!Actor, command
<1>x. refresh.pc = "entry" /\ Marts!Owned /\ entry.version = refresh.version
  BY DEF Marts!ReadEntry, Marts!sources, Marts!tables, Marts!ledger, Marts!history, refresh
<1>1. Marts!TypeOK'
  BY <1>i, <1>u, <1>m, <1>x, TablesAssumption DEF Marts!TypeOK
<1>2. LockInv'
  BY <1>i, <1>u, <1>m, <1>x, TablesAssumption DEF LockInv, InData, Others, Marts!Actor, refresh, command
<1>3. RunInv'
  BY <1>i, <1>u, <1>m, <1>x DEF RunInv, Busy, Others, Marts!Actor, refresh, command
<1>4. GoodInv'
  BY <1>i, <1>u, <1>m, <1>x DEF GoodInv, Others, Marts!Actor, refresh, command
<1>5. DefInv'
  BY <1>i, <1>u, <1>m, <1>x DEF DefInv, Marts!EnabledFitsDefinition, Marts!Owned, Relying, InData, refresh
<1>6. SourceInv'
  BY <1>i, <1>u, <1>m, <1>x DEF SourceInv, UpTo, Baselined, refresh
<1>7. BuiltInv'
  BY <1>i, <1>u, <1>m, <1>x DEF BuiltInv, Fresh, UpTo, Baselined, refresh
<1>8. BaselineInv'
  BY <1>i, <1>u, <1>m, <1>x DEF BaselineInv, MartFits, UpTo, Baselined, refresh, SourceInv
<1> QED BY <1>1, <1>2, <1>3, <1>4, <1>5, <1>6, <1>7, <1>8 DEF MartIInv

LEMMA ReadSourceKeeps ==
  ASSUME MartIInv, NEW t \in Watched, Marts!ReadSource(t)
  PROVE  MartIInv'
<1>i. /\ Marts!TypeOK /\ LockInv /\ RunInv /\ GoodInv /\ DefInv
      /\ SourceInv /\ BuiltInv /\ BaselineInv
  BY DEF MartIInv
<1>u. UNCHANGED <<source, newest, sandbox, mart, past, late, entry, schedule, run, debt, jobLock, opLock, editor, outside, rolled, doubt>>
  BY DEF Marts!ReadSource, Marts!sources, Marts!tables, Marts!ledger, Marts!history, refresh
<1>m. /\ op' \in [Marts!Actor -> Marts!Op] /\ Others("refresh") /\ command' = command
      /\ refresh'.seen = [refresh.seen EXCEPT ![t] = source[t]]
      /\ refresh'.pc = IF \A u \in Watched : refresh'.seen[u] # 0 THEN "decide" ELSE "sources"
      /\ refresh'.kind = refresh.kind /\ refresh'.version = refresh.version
      /\ refresh'.watched = refresh.watched /\ refresh'.base = refresh.base
  BY <1>i, ReadSourceMoves DEF Others, Marts!Actor, command
<1>x. refresh.pc = "sources"
  BY DEF Marts!ReadSource, Marts!sources, Marts!tables, Marts!ledger, Marts!history, refresh
<1>n. \A u \in Watched : refresh'.seen[u] = IF u = t THEN source[t] ELSE refresh.seen[u]
  BY <1>i, <1>m DEF Marts!TypeOK, Marts!Op, Marts!Snapshots, Marts!Actor, refresh
<1>1. Marts!TypeOK'
  BY <1>i, <1>u, <1>m, <1>x, <1>n, TablesAssumption DEF Marts!TypeOK
<1>2. LockInv'
  BY <1>i, <1>u, <1>m, <1>x, <1>n, TablesAssumption DEF LockInv, InData, Others, Marts!Actor, refresh, command
<1>3. RunInv'
  BY <1>i, <1>u, <1>m, <1>x, <1>n DEF RunInv, Busy, Others, Marts!Actor, refresh, command
<1>4. GoodInv'
  BY <1>i, <1>u, <1>m, <1>x, <1>n DEF GoodInv, Others, Marts!Actor, refresh, command
<1>5. DefInv'
  BY <1>i, <1>u, <1>m, <1>x, <1>n DEF DefInv, Marts!EnabledFitsDefinition, Marts!Owned, Relying, InData, refresh
<1>6. SourceInv'
  BY <1>i, <1>u, <1>m, <1>x, <1>n, Numbers DEF SourceInv, UpTo, Baselined, refresh
<1>7. BuiltInv'
  BY <1>i, <1>u, <1>m, <1>x, <1>n DEF BuiltInv, Fresh, UpTo, Baselined, refresh
<1>8. BaselineInv'
  BY <1>i, <1>u, <1>m, <1>x, <1>n, Numbers DEF BaselineInv, MartFits, UpTo, Baselined, refresh
<1> QED BY <1>1, <1>2, <1>3, <1>4, <1>5, <1>6, <1>7, <1>8 DEF MartIInv

LEMMA DecideKeeps ==
  ASSUME MartIInv, Marts!Decide
  PROVE  MartIInv'
<1>i. /\ Marts!TypeOK /\ LockInv /\ RunInv /\ GoodInv /\ DefInv
      /\ SourceInv /\ BuiltInv /\ BaselineInv
  BY DEF MartIInv
<1>u. UNCHANGED <<source, newest, sandbox, mart, past, late, entry, schedule, run, debt, jobLock, opLock, editor, outside, rolled, doubt>>
  BY DEF Marts!Decide, Marts!sources, Marts!tables, Marts!ledger, Marts!history, refresh
<1>m. \E place \in {"unchanged", "data"} :
        /\ op' \in [Marts!Actor -> Marts!Op] /\ command' = command /\ refresh'.pc = place
        /\ refresh'.kind = refresh.kind /\ refresh'.version = refresh.version
        /\ refresh'.watched = refresh.watched /\ refresh'.seen = refresh.seen
        /\ refresh'.base = refresh.base /\ refresh'.staged = refresh.staged
  BY <1>i, GotoMoves DEF Marts!Decide, Moves, Others, Marts!Actor, Marts!Place, refresh, command
<1>x. refresh.pc = "decide"
  BY DEF Marts!Decide, Marts!sources, Marts!tables, Marts!ledger, Marts!history, refresh
<1>1. Marts!TypeOK'
  BY <1>i, <1>u, <1>m, <1>x, TablesAssumption DEF Marts!TypeOK
<1>2. LockInv'
  BY <1>i, <1>u, <1>m, <1>x, TablesAssumption DEF LockInv, InData, Others, Marts!Actor, refresh, command
<1>3. RunInv'
  BY <1>i, <1>u, <1>m, <1>x DEF RunInv, Busy, Others, Marts!Actor, refresh, command
<1>4. GoodInv'
  BY <1>i, <1>u, <1>m, <1>x DEF GoodInv, Others, Marts!Actor, refresh, command
<1>5. DefInv'
  BY <1>i, <1>u, <1>m, <1>x DEF DefInv, Marts!EnabledFitsDefinition, Marts!Owned, Relying, InData, refresh
<1>6. SourceInv'
  BY <1>i, <1>u, <1>m, <1>x DEF SourceInv, UpTo, Baselined, refresh
<1>7. BuiltInv'
  BY <1>i, <1>u, <1>m, <1>x DEF BuiltInv, Fresh, UpTo, Baselined, refresh
<1>8. BaselineInv'
  BY <1>i, <1>u, <1>m, <1>x DEF BaselineInv, MartFits, UpTo, Baselined, refresh
<1> QED BY <1>1, <1>2, <1>3, <1>4, <1>5, <1>6, <1>7, <1>8 DEF MartIInv

LEMMA BeginDataKeeps ==
  ASSUME MartIInv, Marts!BeginData
  PROVE  MartIInv'
<1>i. /\ Marts!TypeOK /\ LockInv /\ RunInv /\ GoodInv /\ DefInv
      /\ SourceInv /\ BuiltInv /\ BaselineInv
  BY DEF MartIInv
<1>u. UNCHANGED <<source, newest, sandbox, mart, past, late, entry, schedule, run, debt, jobLock, editor, outside, rolled, doubt>>
  BY DEF Marts!BeginData, Marts!sources, Marts!tables, Marts!ledger, Marts!history, refresh
<1>m. /\ op' \in [Marts!Actor -> Marts!Op] /\ command' = command /\ refresh'.pc = "build"
      /\ refresh'.kind = refresh.kind /\ refresh'.version = refresh.version
      /\ refresh'.watched = refresh.watched /\ refresh'.seen = refresh.seen
      /\ refresh'.base = refresh.base /\ refresh'.staged = refresh.staged
  BY <1>i, GotoMoves DEF Marts!BeginData, Moves, Others, Marts!Actor, Marts!Place, refresh, command
<1>x. refresh.pc = "data" /\ opLock = Free /\ opLock' = "refresh"
  BY DEF Marts!BeginData, Marts!sources, Marts!tables, Marts!ledger, Marts!history, refresh
<1>1. Marts!TypeOK'
  BY <1>i, <1>u, <1>m, <1>x, TablesAssumption DEF Marts!TypeOK
<1>2. LockInv'
  BY <1>i, <1>u, <1>m, <1>x, TablesAssumption DEF LockInv, InData, Others, Marts!Actor, refresh, command
<1>3. RunInv'
  BY <1>i, <1>u, <1>m, <1>x DEF RunInv, Busy, Others, Marts!Actor, refresh, command
<1>4. GoodInv'
  BY <1>i, <1>u, <1>m, <1>x DEF GoodInv, Others, Marts!Actor, refresh, command
<1>5. DefInv'
  BY <1>i, <1>u, <1>m, <1>x DEF DefInv, Marts!EnabledFitsDefinition, Marts!Owned, Relying, InData, refresh
<1>6. SourceInv'
  BY <1>i, <1>u, <1>m, <1>x DEF SourceInv, UpTo, Baselined, refresh
<1>7. BuiltInv'
  BY <1>i, <1>u, <1>m, <1>x DEF BuiltInv, Fresh, UpTo, Baselined, refresh
<1>8. BaselineInv'
  BY <1>i, <1>u, <1>m, <1>x DEF BaselineInv, MartFits, UpTo, Baselined, refresh
<1> QED BY <1>1, <1>2, <1>3, <1>4, <1>5, <1>6, <1>7, <1>8 DEF MartIInv

LEMMA SaveBaselineKeeps ==
  ASSUME MartIInv, Marts!SaveBaseline
  PROVE  MartIInv'
<1>i. /\ Marts!TypeOK /\ LockInv /\ RunInv /\ GoodInv /\ DefInv
      /\ SourceInv /\ BuiltInv /\ BaselineInv
  BY DEF MartIInv
<1>u. UNCHANGED <<source, newest, sandbox, mart, past, late, schedule, run, debt, jobLock, opLock, editor, outside, rolled, doubt>>
  BY DEF Marts!SaveBaseline, Marts!sources, Marts!tables, Marts!ledger, Marts!history, refresh, Marts!BaselineOf
<1>m. /\ op' \in [Marts!Actor -> Marts!Op] /\ command' = command /\ refresh'.pc = "finish"
      /\ refresh'.kind = refresh.kind /\ refresh'.version = refresh.version
      /\ refresh'.watched = refresh.watched /\ refresh'.seen = refresh.seen
      /\ refresh'.base = refresh.base /\ refresh'.staged = refresh.staged
  BY <1>i, GotoMoves DEF Marts!SaveBaseline, Moves, Others, Marts!Actor, Marts!Place, refresh, command
<1>x. /\ refresh.pc = "baseline" /\ opLock = Free /\ Marts!Owned /\ entry.version = refresh.version
      /\ entry' = [entry EXCEPT !.baseline = [version |-> refresh.version, snapshots |-> refresh.seen]]
  BY DEF Marts!SaveBaseline, Marts!sources, Marts!tables, Marts!ledger, Marts!history, refresh, Marts!BaselineOf
<1>n. /\ entry' \in Marts!Entry /\ entry' # None /\ entry'.owned = entry.owned /\ entry'.version = entry.version
      /\ entry'.watched = entry.watched
      /\ entry'.baseline = [version |-> refresh.version, snapshots |-> refresh.seen]
  <2>1. entry \in Marts!Entry /\ refresh \in Marts!Op
    BY <1>i, <1>x DEF Marts!TypeOK, Marts!Owned, Marts!Actor, refresh
  <2>2. [version |-> refresh.version, snapshots |-> refresh.seen] \in Marts!Baseline
    BY <2>1 DEF Marts!Op, Marts!Baseline
  <2> QED BY <1>x, <2>1, <2>2, TablesAssumption DEF Marts!Entry
<1>1. Marts!TypeOK'
  BY <1>i, <1>u, <1>m, <1>x, <1>n, TablesAssumption DEF Marts!TypeOK
<1>2. LockInv'
  BY <1>i, <1>u, <1>m, <1>x, <1>n, TablesAssumption DEF LockInv, InData, Others, Marts!Actor, refresh, command
<1>3. RunInv'
  BY <1>i, <1>u, <1>m, <1>x, <1>n DEF RunInv, Busy, Others, Marts!Actor, refresh, command
<1>4. GoodInv'
  BY <1>i, <1>u, <1>m, <1>x, <1>n DEF GoodInv, Others, Marts!Actor, refresh, command
<1>5. DefInv'
  BY <1>i, <1>u, <1>m, <1>x, <1>n DEF DefInv, Marts!EnabledFitsDefinition, Marts!Owned, Relying, InData, refresh
<1>6. SourceInv'
  BY <1>i, <1>u, <1>m, <1>x, <1>n DEF SourceInv, UpTo, Baselined, refresh
<1>7. BuiltInv'
  BY <1>i, <1>u, <1>m, <1>x, <1>n DEF BuiltInv, Fresh, UpTo, Baselined, refresh
<1>8. BaselineInv'
  BY <1>i, <1>u, <1>m, <1>x, <1>n DEF BaselineInv, MartFits, UpTo, Baselined, refresh, BuiltInv, Fresh
<1> QED BY <1>1, <1>2, <1>3, <1>4, <1>5, <1>6, <1>7, <1>8 DEF MartIInv

LEMMA FinishKeeps ==
  ASSUME MartIInv, Marts!Finish
  PROVE  MartIInv'
<1>i. /\ Marts!TypeOK /\ LockInv /\ RunInv /\ GoodInv /\ DefInv
      /\ SourceInv /\ BuiltInv /\ BaselineInv
  BY DEF MartIInv
<1>u. UNCHANGED <<source, newest, sandbox, mart, past, late, entry, schedule, opLock, editor, outside, rolled>>
  BY DEF Marts!Finish, Marts!sources, Marts!tables, Marts!ledger, Marts!history, refresh
<1>m. /\ op' \in [Marts!Actor -> Marts!Op] /\ command' = command
      /\ refresh'.pc = "idle" /\ refresh'.seen = Marts!Nothing
  BY <1>i, NoOpEnds DEF Marts!Finish, Ends, Others, Marts!Actor, refresh, command
<1>x. /\ refresh.pc \in {"unchanged", "finish"} /\ run' = None /\ jobLock' = Free
      /\ debt' = (debt /\ refresh.kind # "manual") /\ doubt' = (doubt /\ refresh.kind # "manual")
  BY DEF Marts!Finish, Marts!sources, Marts!tables, Marts!ledger, Marts!history, refresh
<1>1. Marts!TypeOK'
  BY <1>i, <1>u, <1>m, <1>x, TablesAssumption DEF Marts!TypeOK
<1>2. LockInv'
  BY <1>i, <1>u, <1>m, <1>x, TablesAssumption DEF LockInv, InData, Others, Marts!Actor, refresh, command
<1>3. RunInv'
  BY <1>i, <1>u, <1>m, <1>x DEF RunInv, Busy, Others, Marts!Actor, refresh, command
<1>4. GoodInv'
  BY <1>i, <1>u, <1>m, <1>x DEF GoodInv, Others, Marts!Actor, refresh, command
<1>5. DefInv'
  BY <1>i, <1>u, <1>m, <1>x DEF DefInv, Marts!EnabledFitsDefinition, Marts!Owned, Relying, InData, refresh
<1>6. SourceInv'
  BY <1>i, <1>u, <1>m, <1>x, NothingSeen DEF SourceInv, UpTo, Baselined, refresh
<1>7. BuiltInv'
  BY <1>i, <1>u, <1>m, <1>x DEF BuiltInv, Fresh, UpTo, Baselined, refresh
<1>8. BaselineInv'
  BY <1>i, <1>u, <1>m, <1>x DEF BaselineInv, MartFits, UpTo, Baselined, refresh
<1> QED BY <1>1, <1>2, <1>3, <1>4, <1>5, <1>6, <1>7, <1>8 DEF MartIInv

-----------------------------------------------------------------------------
(* An operation raises: with the outcome known, or in doubt. *)

\* A data operation that raises.
LEMMA RefreshRaisesKeeps ==
  ASSUME MartIInv, NEW unknown \in BOOLEAN, UNCHANGED <<source, newest, sandbox, mart, past, entry, editor, outside, rolled>>,
         late' = late \/ (late' \in Marts!Content /\ late'.good),
         Busy, Marts!InDoubt("refresh") => unknown, Marts!Raises("refresh", unknown)
  PROVE  MartIInv'
<1>i. /\ Marts!TypeOK /\ LockInv /\ RunInv /\ GoodInv /\ DefInv
      /\ SourceInv /\ BuiltInv /\ BaselineInv
  BY DEF MartIInv
<1>u. UNCHANGED <<source, newest, sandbox, mart, past, entry, editor, outside, rolled>>
  BY DEF Marts!Raises, Marts!sources, Marts!tables, Marts!ledger, Marts!history
<1>m. /\ op' \in [Marts!Actor -> Marts!Op] /\ command' = command
      /\ refresh'.pc = "idle" /\ refresh'.seen = Marts!Nothing
  BY <1>i, NoOpEnds DEF Marts!Raises, Ends, Others, Marts!Actor, refresh, command
<1>x. /\ run' = None /\ debt' = (debt \/ unknown) /\ jobLock' = Free
      /\ schedule' = [schedule EXCEPT !.on = FALSE]
      /\ doubt' = (doubt \/ Marts!InDoubt("refresh")) /\ Marts!InDoubt("refresh") \in BOOLEAN
      /\ opLock' = IF opLock = "refresh" THEN Free ELSE opLock
  BY DEF Marts!Raises, Marts!InDoubt
<1>1. Marts!TypeOK'
  BY <1>i, <1>u, <1>m, <1>x, TablesAssumption DEF Marts!TypeOK
<1>2. LockInv'
  BY <1>i, <1>u, <1>m, <1>x, TablesAssumption DEF LockInv, InData, Others, Marts!Actor, refresh, command, Busy
<1>3. RunInv'
  BY <1>i, <1>u, <1>m, <1>x DEF RunInv, Busy, Others, Marts!Actor, refresh, command
<1>4. GoodInv'
  BY <1>i, <1>u, <1>m, <1>x DEF GoodInv, Others, Marts!Actor, refresh, command
<1>5. DefInv'
  BY <1>i, <1>u, <1>m, <1>x DEF DefInv, Marts!EnabledFitsDefinition, Marts!Owned, Relying, InData, refresh
<1>6. SourceInv'
  BY <1>i, <1>u, <1>m, <1>x, NothingSeen DEF SourceInv, UpTo, Baselined, refresh
<1>7. BuiltInv'
  BY <1>i, <1>u, <1>m, <1>x DEF BuiltInv, Fresh, UpTo, Baselined, refresh
<1>8. BaselineInv'
  BY <1>i, <1>u, <1>m, <1>x DEF BaselineInv, MartFits, UpTo, Baselined, refresh
<1> QED BY <1>1, <1>2, <1>3, <1>4, <1>5, <1>6, <1>7, <1>8 DEF MartIInv

LEMMA CommandRaisesKeeps ==
  ASSUME MartIInv, NEW unknown \in BOOLEAN, UNCHANGED <<source, newest, sandbox, mart, past, entry, editor, outside, rolled>>,
         late' = late \/ (late' \in Marts!Content /\ late'.good),
         command.pc # "idle", Marts!Raises("operator", unknown)
  PROVE  MartIInv'
<1>i. /\ Marts!TypeOK /\ LockInv /\ RunInv /\ GoodInv /\ DefInv
      /\ SourceInv /\ BuiltInv /\ BaselineInv
  BY DEF MartIInv
<1>u. UNCHANGED <<source, newest, sandbox, mart, past, entry, schedule, run, debt, jobLock, editor, outside, rolled>>
  BY DEF Marts!Raises, Marts!sources, Marts!tables, Marts!ledger, Marts!history
<1>m. /\ op' \in [Marts!Actor -> Marts!Op] /\ refresh' = refresh
      /\ command'.pc = "idle"
  BY <1>i, NoOpEnds DEF Marts!Raises, Ends, Others, Marts!Actor, refresh, command
<1>x. /\ opLock' = (IF opLock = "operator" THEN Free ELSE opLock) /\ doubt' = doubt
  BY <1>i DEF Marts!Raises, Marts!InDoubt, Marts!TypeOK
<1>1. Marts!TypeOK'
  BY <1>i, <1>u, <1>m, <1>x, TablesAssumption DEF Marts!TypeOK
<1>2. LockInv'
  BY <1>i, <1>u, <1>m, <1>x, TablesAssumption DEF LockInv, InData, Others, Marts!Actor, refresh, command
<1>3. RunInv'
  BY <1>i, <1>u, <1>m, <1>x DEF RunInv, Busy, Others, Marts!Actor, refresh, command
<1>4. GoodInv'
  BY <1>i, <1>u, <1>m, <1>x DEF GoodInv, Others, Marts!Actor, refresh, command
<1>5. DefInv'
  BY <1>i, <1>u, <1>m, <1>x DEF DefInv, Marts!EnabledFitsDefinition, Marts!Owned, Relying, InData, refresh
<1>6. SourceInv'
  BY <1>i, <1>u, <1>m, <1>x DEF SourceInv, UpTo, Baselined, refresh
<1>7. BuiltInv'
  BY <1>i, <1>u, <1>m, <1>x DEF BuiltInv, Fresh, UpTo, Baselined, refresh
<1>8. BaselineInv'
  BY <1>i, <1>u, <1>m, <1>x DEF BaselineInv, MartFits, UpTo, Baselined, refresh
<1> QED BY <1>1, <1>2, <1>3, <1>4, <1>5, <1>6, <1>7, <1>8 DEF MartIInv

-----------------------------------------------------------------------------
(* The commands, and the data operations of both. *)

LEMMA RequestKeeps ==
  ASSUME MartIInv, NEW kind \in Marts!Command, Marts!Request(kind)
  PROVE  MartIInv'
<1>i. /\ Marts!TypeOK /\ LockInv /\ RunInv /\ GoodInv /\ DefInv
      /\ SourceInv /\ BuiltInv /\ BaselineInv
  BY DEF MartIInv
<1>u. UNCHANGED <<source, newest, sandbox, mart, past, late, entry, schedule, run, debt, jobLock, editor, outside, rolled, doubt>>
  BY DEF Marts!Request, Marts!sources, Marts!tables, Marts!ledger, Marts!history, command
<1>m. /\ op' \in [Marts!Actor -> Marts!Op] /\ refresh' = refresh
      /\ command'.pc = (IF kind = "publish" THEN "audit" ELSE "build")
      /\ command'.kind = kind
  BY <1>i, RequestMoves DEF Others, Marts!Actor, refresh
<1>x. /\ command.pc = "idle" /\ opLock = Free /\ opLock' = "operator"
      /\ kind = "publish" => sandbox # None
  BY DEF Marts!Request, Marts!sources, Marts!tables, Marts!ledger, Marts!history, command
<1>1. Marts!TypeOK'
  BY <1>i, <1>u, <1>m, <1>x, TablesAssumption DEF Marts!TypeOK
<1>2. LockInv'
  BY <1>i, <1>u, <1>m, <1>x, TablesAssumption DEF LockInv, InData, Others, Marts!Actor, refresh, command
<1>3. RunInv'
  BY <1>i, <1>u, <1>m, <1>x DEF RunInv, Busy, Others, Marts!Actor, refresh, command
<1>4. GoodInv'
  BY <1>i, <1>u, <1>m, <1>x DEF GoodInv, Others, Marts!Actor, refresh, command
<1>5. DefInv'
  BY <1>i, <1>u, <1>m, <1>x DEF DefInv, Marts!EnabledFitsDefinition, Marts!Owned, Relying, InData, refresh
<1>6. SourceInv'
  BY <1>i, <1>u, <1>m, <1>x DEF SourceInv, UpTo, Baselined, refresh
<1>7. BuiltInv'
  BY <1>i, <1>u, <1>m, <1>x DEF BuiltInv, Fresh, UpTo, Baselined, refresh
<1>8. BaselineInv'
  BY <1>i, <1>u, <1>m, <1>x DEF BaselineInv, MartFits, UpTo, Baselined, refresh
<1> QED BY <1>1, <1>2, <1>3, <1>4, <1>5, <1>6, <1>7, <1>8 DEF MartIInv

LEMMA RollBackKeeps ==
  ASSUME MartIInv, Marts!RollBack
  PROVE  MartIInv'
<1>i. /\ Marts!TypeOK /\ LockInv /\ RunInv /\ GoodInv /\ DefInv
      /\ SourceInv /\ BuiltInv /\ BaselineInv
  BY DEF MartIInv
<1>u. UNCHANGED <<source, newest, sandbox, past, late, entry, schedule, run, debt, jobLock, editor, rolled, doubt>>
  BY DEF Marts!RollBack, Marts!sources, Marts!tables, Marts!ledger, Marts!history, command
<1>m. /\ op' \in [Marts!Actor -> Marts!Op] /\ refresh' = refresh
      /\ command'.pc = "idle"
  BY <1>i, NoOpEnds DEF Marts!RollBack, Ends, Others, Marts!Actor, refresh, command
<1>x. /\ command.pc = "build" /\ past # None /\ mart' = past /\ outside' = TRUE /\ opLock' = Free
  BY DEF Marts!RollBack, Marts!sources, Marts!tables, Marts!ledger, Marts!history, command
<1>1. Marts!TypeOK'
  BY <1>i, <1>u, <1>m, <1>x, TablesAssumption DEF Marts!TypeOK
<1>2. LockInv'
  BY <1>i, <1>u, <1>m, <1>x, TablesAssumption DEF LockInv, InData, Others, Marts!Actor, refresh, command
<1>3. RunInv'
  BY <1>i, <1>u, <1>m, <1>x DEF RunInv, Busy, Others, Marts!Actor, refresh, command
<1>4. GoodInv'
  BY <1>i, <1>u, <1>m, <1>x DEF GoodInv, Others, Marts!Actor, refresh, command
<1>5. DefInv'
  BY <1>i, <1>u, <1>m, <1>x DEF DefInv, Marts!EnabledFitsDefinition, Marts!Owned, Relying, InData, refresh
<1>6. SourceInv'
  BY <1>i, <1>u, <1>m, <1>x DEF SourceInv, UpTo, Baselined, refresh
<1>7. BuiltInv'
  BY <1>i, <1>u, <1>m, <1>x DEF BuiltInv, Fresh, UpTo, Baselined, refresh
<1>8. BaselineInv'
  BY <1>i, <1>u, <1>m, <1>x DEF BaselineInv, MartFits, UpTo, Baselined, refresh
<1> QED BY <1>1, <1>2, <1>3, <1>4, <1>5, <1>6, <1>7, <1>8 DEF MartIInv

LEMMA BuildOfRefreshKeeps ==
  ASSUME MartIInv, Marts!Build("refresh")
  PROVE  MartIInv'
<1>i. /\ Marts!TypeOK /\ LockInv /\ RunInv /\ GoodInv /\ DefInv
      /\ SourceInv /\ BuiltInv /\ BaselineInv
  BY DEF MartIInv
<1>u. UNCHANGED <<source, newest, mart, past, late, entry, schedule, run, debt, jobLock, opLock, editor, outside, rolled, doubt>>
  BY DEF Marts!Build, Marts!sources, Marts!tables, Marts!ledger, Marts!history
<1>m. /\ op' \in [Marts!Actor -> Marts!Op] /\ command' = command /\ refresh'.pc = "audit"
      /\ refresh'.kind = refresh.kind /\ refresh'.version = refresh.version
      /\ refresh'.watched = refresh.watched /\ refresh'.seen = refresh.seen
      /\ refresh'.base = refresh.base /\ refresh'.staged = refresh.staged
  BY <1>i, GotoMoves DEF Marts!Build, Moves, Others, Marts!Actor, Marts!Place, refresh, command
<1>x. /\ refresh.pc = "build"
      /\ \E good \in BOOLEAN :
           sandbox' = [of |-> refresh.version, from |-> source, good |-> good]
  BY <1>i DEF Marts!Build, Marts!Mine, RunInv, Busy, refresh
<1>n. sandbox' \in Marts!Content /\ sandbox' # None /\ sandbox'.from = source
  BY <1>i, <1>x, TablesAssumption DEF Marts!TypeOK, Marts!Op, Marts!Actor, Marts!Content, refresh
<1>1. Marts!TypeOK'
  BY <1>i, <1>u, <1>m, <1>x, <1>n, TablesAssumption DEF Marts!TypeOK
<1>2. LockInv'
  BY <1>i, <1>u, <1>m, <1>x, <1>n, TablesAssumption DEF LockInv, InData, Others, Marts!Actor, refresh, command
<1>3. RunInv'
  BY <1>i, <1>u, <1>m, <1>x, <1>n DEF RunInv, Busy, Others, Marts!Actor, refresh, command
<1>4. GoodInv'
  BY <1>i, <1>u, <1>m, <1>x, <1>n DEF GoodInv, Others, Marts!Actor, refresh, command
<1>5. DefInv'
  BY <1>i, <1>u, <1>m, <1>x, <1>n DEF DefInv, Marts!EnabledFitsDefinition, Marts!Owned, Relying, InData, refresh
<1>6. SourceInv'
  BY <1>i, <1>u, <1>m, <1>x, <1>n DEF SourceInv, UpTo, Baselined, refresh
<1>7. BuiltInv'
  BY <1>i, <1>u, <1>m, <1>x, <1>n, Numbers DEF BuiltInv, Fresh, UpTo, Baselined, refresh, SourceInv
<1>8. BaselineInv'
  BY <1>i, <1>u, <1>m, <1>x, <1>n DEF BaselineInv, MartFits, UpTo, Baselined, refresh
<1> QED BY <1>1, <1>2, <1>3, <1>4, <1>5, <1>6, <1>7, <1>8 DEF MartIInv

LEMMA BuildOfCommandKeeps ==
  ASSUME MartIInv, Marts!Build("operator")
  PROVE  MartIInv'
<1>i. /\ Marts!TypeOK /\ LockInv /\ RunInv /\ GoodInv /\ DefInv
      /\ SourceInv /\ BuiltInv /\ BaselineInv
  BY DEF MartIInv
<1>u. UNCHANGED <<source, newest, mart, past, late, entry, schedule, run, debt, jobLock, opLock, editor, outside, rolled, doubt>>
  BY DEF Marts!Build, Marts!sources, Marts!tables, Marts!ledger, Marts!history, command
<1>m. /\ op' \in [Marts!Actor -> Marts!Op] /\ refresh' = refresh /\ command'.pc = "audit"
      /\ command'.kind = command.kind /\ command'.version = command.version
      /\ command'.watched = command.watched /\ command'.seen = command.seen
      /\ command'.base = command.base /\ command'.staged = command.staged
  BY <1>i, GotoMoves DEF Marts!Build, Moves, Others, Marts!Actor, Marts!Place, refresh, command
<1>x. /\ command.pc = "build"
      /\ \E good \in BOOLEAN, from \in {source, Marts!Nothing} :
           sandbox' = [of |-> command.version, from |-> from, good |-> good]
  BY DEF Marts!Build, Marts!sources, Marts!tables, Marts!ledger, Marts!history, command
<1>n. sandbox' \in Marts!Content /\ sandbox' # None /\ refresh.pc \notin InData
  <2>1. Marts!Nothing \in Marts!Snapshots /\ source \in Marts!Snapshots
    BY <1>i, TablesAssumption DEF Marts!TypeOK, Marts!Nothing, Marts!Snapshots
  <2>2. command.version \in Marts!Version
    BY <1>i DEF Marts!TypeOK, Marts!Op, Marts!Actor, command
  <2>3. sandbox' \in Marts!Content
    BY <1>x, <2>1, <2>2 DEF Marts!Content
  <2> QED BY <1>i, <1>x, <2>3, TablesAssumption DEF LockInv
<1>1. Marts!TypeOK'
  BY <1>i, <1>u, <1>m, <1>x, <1>n, TablesAssumption DEF Marts!TypeOK
<1>2. LockInv'
  BY <1>i, <1>u, <1>m, <1>x, <1>n, TablesAssumption DEF LockInv, InData, Others, Marts!Actor, refresh, command
<1>3. RunInv'
  BY <1>i, <1>u, <1>m, <1>x, <1>n DEF RunInv, Busy, Others, Marts!Actor, refresh, command
<1>4. GoodInv'
  BY <1>i, <1>u, <1>m, <1>x, <1>n DEF GoodInv, Others, Marts!Actor, refresh, command
<1>5. DefInv'
  BY <1>i, <1>u, <1>m, <1>x, <1>n DEF DefInv, Marts!EnabledFitsDefinition, Marts!Owned, Relying, InData, refresh
<1>6. SourceInv'
  BY <1>i, <1>u, <1>m, <1>x, <1>n DEF SourceInv, UpTo, Baselined, refresh
<1>7. BuiltInv'
  BY <1>i, <1>u, <1>m, <1>x, <1>n DEF BuiltInv, Fresh, UpTo, Baselined, refresh, InData
<1>8. BaselineInv'
  BY <1>i, <1>u, <1>m, <1>x, <1>n DEF BaselineInv, MartFits, UpTo, Baselined, refresh
<1> QED BY <1>1, <1>2, <1>3, <1>4, <1>5, <1>6, <1>7, <1>8 DEF MartIInv

LEMMA AuditOfRefreshKeeps ==
  ASSUME MartIInv, Marts!Audit("refresh")
  PROVE  MartIInv'
<1>i. /\ Marts!TypeOK /\ LockInv /\ RunInv /\ GoodInv /\ DefInv
      /\ SourceInv /\ BuiltInv /\ BaselineInv
  BY DEF MartIInv
<1>u. UNCHANGED <<source, newest, sandbox, mart, past, late, entry, schedule, run, debt, jobLock, opLock, editor, outside, rolled, doubt>>
  BY DEF Marts!Audit, Marts!sources, Marts!tables, Marts!ledger, Marts!history
<1>m. /\ op' \in [Marts!Actor -> Marts!Op] /\ command' = command
      /\ refresh'.pc = "replace" /\ refresh'.staged = sandbox
      /\ refresh'.kind = refresh.kind /\ refresh'.version = refresh.version
      /\ refresh'.watched = refresh.watched /\ refresh'.seen = refresh.seen
  BY <1>i, AuditMoves DEF Marts!Audit, GoodInv, Others, Marts!Actor, refresh, command
<1>x. refresh.pc = "audit" /\ sandbox.good /\ sandbox # None
  BY <1>i DEF Marts!Audit, GoodInv, Marts!Actor, refresh
<1>1. Marts!TypeOK'
  BY <1>i, <1>u, <1>m, <1>x, TablesAssumption DEF Marts!TypeOK
<1>2. LockInv'
  BY <1>i, <1>u, <1>m, <1>x, TablesAssumption DEF LockInv, InData, Others, Marts!Actor, refresh, command
<1>3. RunInv'
  BY <1>i, <1>u, <1>m, <1>x DEF RunInv, Busy, Others, Marts!Actor, refresh, command
<1>4. GoodInv'
  BY <1>i, <1>u, <1>m, <1>x DEF GoodInv, Others, Marts!Actor, refresh, command
<1>5. DefInv'
  BY <1>i, <1>u, <1>m, <1>x DEF DefInv, Marts!EnabledFitsDefinition, Marts!Owned, Relying, InData, refresh
<1>6. SourceInv'
  BY <1>i, <1>u, <1>m, <1>x DEF SourceInv, UpTo, Baselined, refresh
<1>7. BuiltInv'
  BY <1>i, <1>u, <1>m, <1>x DEF BuiltInv, Fresh, UpTo, Baselined, refresh
<1>8. BaselineInv'
  BY <1>i, <1>u, <1>m, <1>x DEF BaselineInv, MartFits, UpTo, Baselined, refresh
<1> QED BY <1>1, <1>2, <1>3, <1>4, <1>5, <1>6, <1>7, <1>8 DEF MartIInv

LEMMA AuditOfCommandKeeps ==
  ASSUME MartIInv, Marts!Audit("operator")
  PROVE  MartIInv'
<1>i. /\ Marts!TypeOK /\ LockInv /\ RunInv /\ GoodInv /\ DefInv
      /\ SourceInv /\ BuiltInv /\ BaselineInv
  BY DEF MartIInv
<1>u. UNCHANGED <<source, newest, sandbox, mart, past, late, entry, schedule, run, debt, jobLock, opLock, editor, outside, rolled, doubt>>
  BY DEF Marts!Audit, Marts!sources, Marts!tables, Marts!ledger, Marts!history
<1>m. /\ op' \in [Marts!Actor -> Marts!Op] /\ refresh' = refresh
      /\ command'.pc = "replace" /\ command'.staged = sandbox
      /\ command'.kind = command.kind
  BY <1>i, AuditMoves DEF Marts!Audit, GoodInv, Others, Marts!Actor, refresh, command
<1>x. command.pc = "audit" /\ sandbox.good /\ sandbox # None
  BY <1>i DEF Marts!Audit, GoodInv, Marts!Actor, command
<1>1. Marts!TypeOK'
  BY <1>i, <1>u, <1>m, <1>x, TablesAssumption DEF Marts!TypeOK
<1>2. LockInv'
  BY <1>i, <1>u, <1>m, <1>x, TablesAssumption DEF LockInv, InData, Others, Marts!Actor, refresh, command
<1>3. RunInv'
  BY <1>i, <1>u, <1>m, <1>x DEF RunInv, Busy, Others, Marts!Actor, refresh, command
<1>4. GoodInv'
  BY <1>i, <1>u, <1>m, <1>x DEF GoodInv, Others, Marts!Actor, refresh, command
<1>5. DefInv'
  BY <1>i, <1>u, <1>m, <1>x DEF DefInv, Marts!EnabledFitsDefinition, Marts!Owned, Relying, InData, refresh
<1>6. SourceInv'
  BY <1>i, <1>u, <1>m, <1>x DEF SourceInv, UpTo, Baselined, refresh
<1>7. BuiltInv'
  BY <1>i, <1>u, <1>m, <1>x DEF BuiltInv, Fresh, UpTo, Baselined, refresh
<1>8. BaselineInv'
  BY <1>i, <1>u, <1>m, <1>x DEF BaselineInv, MartFits, UpTo, Baselined, refresh
<1> QED BY <1>1, <1>2, <1>3, <1>4, <1>5, <1>6, <1>7, <1>8 DEF MartIInv

LEMMA ReplaceOfRefreshKeeps ==
  ASSUME MartIInv, Marts!Replace("refresh")
  PROVE  MartIInv'
<1>i. /\ Marts!TypeOK /\ LockInv /\ RunInv /\ GoodInv /\ DefInv
      /\ SourceInv /\ BuiltInv /\ BaselineInv
  BY DEF MartIInv
<1>u. UNCHANGED <<source, newest, sandbox, late, entry, schedule, run, debt, jobLock, opLock, editor, rolled, doubt>>
  BY DEF Marts!Replace, Marts!sources, Marts!tables, Marts!ledger, Marts!history, Marts!Becomes, Marts!Statement
<1>m. /\ op' \in [Marts!Actor -> Marts!Op] /\ command' = command /\ refresh'.pc = "record"
      /\ refresh'.kind = refresh.kind /\ refresh'.version = refresh.version
      /\ refresh'.watched = refresh.watched /\ refresh'.seen = refresh.seen
      /\ refresh'.base = refresh.base /\ refresh'.staged = refresh.staged
  BY <1>i, GotoMoves DEF Marts!Replace, Moves, Others, Marts!Actor, Marts!Place, refresh, command
<1>x. /\ refresh.pc = "replace" /\ mart' = refresh.staged
      /\ past' = (IF mart = None THEN past ELSE Marts!Unattributed(mart))
      /\ outside' \in BOOLEAN /\ (~outside' => refresh.staged.of = refresh.version)
  BY DEF Marts!Replace, Marts!Becomes, Marts!Statement, refresh
<1>n. /\ refresh.staged \in Marts!Content /\ refresh.staged # None /\ refresh.staged.good
      /\ mart # None => Marts!Unattributed(mart) \in Marts!Content /\ Marts!Unattributed(mart).good = mart.good
  BY <1>i, <1>x, UnattributedTyped DEF GoodInv, Marts!TypeOK, Marts!Op, Marts!Actor, refresh
<1>1. Marts!TypeOK'
  BY <1>i, <1>u, <1>m, <1>x, <1>n, TablesAssumption DEF Marts!TypeOK
<1>2. LockInv'
  BY <1>i, <1>u, <1>m, <1>x, <1>n, TablesAssumption DEF LockInv, InData, Others, Marts!Actor, refresh, command
<1>3. RunInv'
  BY <1>i, <1>u, <1>m, <1>x, <1>n DEF RunInv, Busy, Others, Marts!Actor, refresh, command
<1>4. GoodInv'
  BY <1>i, <1>u, <1>m, <1>x, <1>n DEF GoodInv, Others, Marts!Actor, refresh, command
<1>5. DefInv'
  BY <1>i, <1>u, <1>m, <1>x, <1>n DEF DefInv, Marts!EnabledFitsDefinition, Marts!Owned, Relying, InData, refresh
<1>6. SourceInv'
  BY <1>i, <1>u, <1>m, <1>x, <1>n DEF SourceInv, UpTo, Baselined, refresh
<1>7. BuiltInv'
  BY <1>i, <1>u, <1>m, <1>x, <1>n DEF BuiltInv, Fresh, UpTo, Baselined, refresh
<1>8. BaselineInv'
  BY <1>i, <1>u, <1>m, <1>x, <1>n DEF BaselineInv, MartFits, UpTo, Baselined, refresh, BuiltInv, Fresh, DefInv, Relying, InData
<1> QED BY <1>1, <1>2, <1>3, <1>4, <1>5, <1>6, <1>7, <1>8 DEF MartIInv

LEMMA ReplaceOfCommandKeeps ==
  ASSUME MartIInv, Marts!Replace("operator")
  PROVE  MartIInv'
<1>i. /\ Marts!TypeOK /\ LockInv /\ RunInv /\ GoodInv /\ DefInv
      /\ SourceInv /\ BuiltInv /\ BaselineInv
  BY DEF MartIInv
<1>u. UNCHANGED <<source, newest, sandbox, late, entry, schedule, run, debt, jobLock, opLock, editor, rolled, doubt>>
  BY DEF Marts!Replace, Marts!sources, Marts!tables, Marts!ledger, Marts!history, Marts!Becomes, Marts!Statement
<1>m. /\ op' \in [Marts!Actor -> Marts!Op] /\ refresh' = refresh /\ command'.pc = "record"
      /\ command'.kind = command.kind /\ command'.version = command.version
      /\ command'.watched = command.watched /\ command'.seen = command.seen
      /\ command'.base = command.base /\ command'.staged = command.staged
  BY <1>i, GotoMoves DEF Marts!Replace, Moves, Others, Marts!Actor, Marts!Place, refresh, command
<1>x. /\ command.pc = "replace" /\ mart' = command.staged /\ outside' = TRUE
      /\ past' = (IF mart = None THEN past ELSE Marts!Unattributed(mart))
  BY <1>i DEF Marts!Replace, Marts!Becomes, Marts!Statement, Marts!Mine, RunInv, Marts!Command, Marts!Managed, command
<1>n. /\ command.staged \in Marts!Content /\ command.staged # None /\ command.staged.good
      /\ mart # None => Marts!Unattributed(mart) \in Marts!Content /\ Marts!Unattributed(mart).good = mart.good
  BY <1>i, <1>x, UnattributedTyped DEF GoodInv, Marts!TypeOK, Marts!Op, Marts!Actor, command
<1>1. Marts!TypeOK'
  BY <1>i, <1>u, <1>m, <1>x, <1>n, TablesAssumption DEF Marts!TypeOK
<1>2. LockInv'
  BY <1>i, <1>u, <1>m, <1>x, <1>n, TablesAssumption DEF LockInv, InData, Others, Marts!Actor, refresh, command
<1>3. RunInv'
  BY <1>i, <1>u, <1>m, <1>x, <1>n DEF RunInv, Busy, Others, Marts!Actor, refresh, command
<1>4. GoodInv'
  BY <1>i, <1>u, <1>m, <1>x, <1>n DEF GoodInv, Others, Marts!Actor, refresh, command
<1>5. DefInv'
  BY <1>i, <1>u, <1>m, <1>x, <1>n DEF DefInv, Marts!EnabledFitsDefinition, Marts!Owned, Relying, InData, refresh
<1>6. SourceInv'
  BY <1>i, <1>u, <1>m, <1>x, <1>n DEF SourceInv, UpTo, Baselined, refresh
<1>7. BuiltInv'
  BY <1>i, <1>u, <1>m, <1>x, <1>n DEF BuiltInv, Fresh, UpTo, Baselined, refresh
<1>8. BaselineInv'
  BY <1>i, <1>u, <1>m, <1>x, <1>n DEF BaselineInv, MartFits, UpTo, Baselined, refresh
<1> QED BY <1>1, <1>2, <1>3, <1>4, <1>5, <1>6, <1>7, <1>8 DEF MartIInv

LEMMA RecordOfRefreshKeeps ==
  ASSUME MartIInv, Marts!Record("refresh")
  PROVE  MartIInv'
<1>i. /\ Marts!TypeOK /\ LockInv /\ RunInv /\ GoodInv /\ DefInv
      /\ SourceInv /\ BuiltInv /\ BaselineInv
  BY DEF MartIInv
<1>u. UNCHANGED <<source, newest, sandbox, mart, past, late, schedule, run, debt, jobLock, editor, outside, rolled, doubt>>
  BY DEF Marts!Record, Marts!sources, Marts!tables, Marts!ledger, Marts!history
<1>m. \E place \in {"baseline", "finish"} :
        /\ op' \in [Marts!Actor -> Marts!Op] /\ command' = command /\ refresh'.pc = place
        /\ refresh'.kind = refresh.kind /\ refresh'.version = refresh.version
        /\ refresh'.watched = refresh.watched /\ refresh'.seen = refresh.seen
        /\ refresh'.base = refresh.base /\ refresh'.staged = refresh.staged
  BY <1>i DEF Marts!Record, Marts!TypeOK, Marts!Op, Marts!Place, Marts!Actor, refresh, command
<1>x. /\ refresh.pc = "record" /\ opLock' = Free
      /\ entry' = entry
  BY <1>i DEF Marts!Record, RunInv, Busy, Marts!Managed, DefInv, Relying, InData, Marts!Owned, refresh
<1>1. Marts!TypeOK'
  BY <1>i, <1>u, <1>m, <1>x, TablesAssumption DEF Marts!TypeOK
<1>2. LockInv'
  BY <1>i, <1>u, <1>m, <1>x, TablesAssumption DEF LockInv, InData, Others, Marts!Actor, refresh, command
<1>3. RunInv'
  BY <1>i, <1>u, <1>m, <1>x DEF RunInv, Busy, Others, Marts!Actor, refresh, command
<1>4. GoodInv'
  BY <1>i, <1>u, <1>m, <1>x DEF GoodInv, Others, Marts!Actor, refresh, command
<1>5. DefInv'
  BY <1>i, <1>u, <1>m, <1>x DEF DefInv, Marts!EnabledFitsDefinition, Marts!Owned, Relying, InData, refresh
<1>6. SourceInv'
  BY <1>i, <1>u, <1>m, <1>x DEF SourceInv, UpTo, Baselined, refresh
<1>7. BuiltInv'
  BY <1>i, <1>u, <1>m, <1>x DEF BuiltInv, Fresh, UpTo, Baselined, refresh
<1>8. BaselineInv'
  BY <1>i, <1>u, <1>m, <1>x DEF BaselineInv, MartFits, UpTo, Baselined, refresh
<1> QED BY <1>1, <1>2, <1>3, <1>4, <1>5, <1>6, <1>7, <1>8 DEF MartIInv

LEMMA RecordOfCommandKeeps ==
  ASSUME MartIInv, Marts!Record("operator")
  PROVE  MartIInv'
<1>i. /\ Marts!TypeOK /\ LockInv /\ RunInv /\ GoodInv /\ DefInv
      /\ SourceInv /\ BuiltInv /\ BaselineInv
  BY DEF MartIInv
<1>u. UNCHANGED <<source, newest, sandbox, mart, past, late, schedule, run, debt, jobLock, editor, outside, rolled, doubt>>
  BY DEF Marts!Record, Marts!sources, Marts!tables, Marts!ledger, Marts!history
<1>m. /\ op' \in [Marts!Actor -> Marts!Op] /\ refresh' = refresh
      /\ command'.pc = "idle"
  BY <1>i, NoOpEnds DEF Marts!Record, Ends, Others, Marts!Actor, refresh, command
<1>x. /\ command.pc # "idle" /\ opLock' = Free
      /\ entry' = (IF entry = None THEN Marts!Legacy ELSE entry)
  BY DEF Marts!Record, command
<1>n. /\ Marts!Legacy \in Marts!Entry /\ Marts!Legacy.baseline = None /\ editor # "replace"
  BY <1>i, <1>x, TablesAssumption DEF LockInv, Marts!Legacy, Marts!Entry, Marts!Version
<1>1. Marts!TypeOK'
  BY <1>i, <1>u, <1>m, <1>x, <1>n, TablesAssumption DEF Marts!TypeOK
<1>2. LockInv'
  BY <1>i, <1>u, <1>m, <1>x, <1>n, TablesAssumption DEF LockInv, InData, Others, Marts!Actor, refresh, command
<1>3. RunInv'
  BY <1>i, <1>u, <1>m, <1>x, <1>n DEF RunInv, Busy, Others, Marts!Actor, refresh, command
<1>4. GoodInv'
  BY <1>i, <1>u, <1>m, <1>x, <1>n DEF GoodInv, Others, Marts!Actor, refresh, command
<1>5. DefInv'
  BY <1>i, <1>u, <1>m, <1>x, <1>n DEF DefInv, Marts!EnabledFitsDefinition, Marts!Owned, Relying, InData, refresh
<1>6. SourceInv'
  BY <1>i, <1>u, <1>m, <1>x, <1>n DEF SourceInv, UpTo, Baselined, refresh
<1>7. BuiltInv'
  BY <1>i, <1>u, <1>m, <1>x, <1>n DEF BuiltInv, Fresh, UpTo, Baselined, refresh
<1>8. BaselineInv'
  BY <1>i, <1>u, <1>m, <1>x, <1>n DEF BaselineInv, MartFits, UpTo, Baselined, refresh
<1> QED BY <1>1, <1>2, <1>3, <1>4, <1>5, <1>6, <1>7, <1>8 DEF MartIInv

-----------------------------------------------------------------------------
(* A process dies. *)

LEMMA CrashServerKeeps ==
  ASSUME MartIInv, Marts!CrashServer
  PROVE  MartIInv'
<1>i. /\ Marts!TypeOK /\ LockInv /\ RunInv /\ GoodInv /\ DefInv
      /\ SourceInv /\ BuiltInv /\ BaselineInv
  BY DEF MartIInv
<1>u. UNCHANGED <<source, newest, sandbox, mart, past, entry, schedule, run, debt, outside, rolled>>
  BY DEF Marts!CrashServer, Marts!sources, Marts!tables, Marts!ledger, Marts!history
<1>m. /\ op' \in [Marts!Actor -> Marts!Op] /\ command' = command
      /\ refresh'.pc = "idle" /\ refresh'.seen = Marts!Nothing
  BY <1>i, NoOpEnds DEF Marts!CrashServer, Ends, Others, Marts!Actor, refresh, command
<1>x. /\ jobLock # Free /\ jobLock' = Free /\ editor' = "idle"
      /\ doubt' = (doubt \/ Marts!InDoubt("refresh")) /\ (Marts!InDoubt("refresh") => Busy)
      /\ Marts!InDoubt("refresh") \in BOOLEAN
      /\ opLock' = IF opLock = "operator" THEN opLock ELSE Free
  BY DEF Marts!CrashServer, Marts!InDoubt, Busy, refresh
<1>n. late' = late \/ (late' \in Marts!Content /\ late'.good)
  BY <1>i, AbandonedIsGood DEF Marts!CrashServer, Marts!Actor
<1>1. Marts!TypeOK'
  BY <1>i, <1>u, <1>m, <1>x, <1>n, TablesAssumption DEF Marts!TypeOK
<1>2. LockInv'
  BY <1>i, <1>u, <1>m, <1>x, <1>n, TablesAssumption DEF LockInv, InData, Others, Marts!Actor, refresh, command
<1>3. RunInv'
  BY <1>i, <1>u, <1>m, <1>x, <1>n, TablesAssumption DEF RunInv, Busy, Others, Marts!Actor, refresh, command, Marts!Managed
<1>4. GoodInv'
  BY <1>i, <1>u, <1>m, <1>x, <1>n DEF GoodInv, Others, Marts!Actor, refresh, command
<1>5. DefInv'
  BY <1>i, <1>u, <1>m, <1>x, <1>n DEF DefInv, Marts!EnabledFitsDefinition, Marts!Owned, Relying, InData, refresh
<1>6. SourceInv'
  BY <1>i, <1>u, <1>m, <1>x, <1>n, NothingSeen DEF SourceInv, UpTo, Baselined, refresh
<1>7. BuiltInv'
  BY <1>i, <1>u, <1>m, <1>x, <1>n DEF BuiltInv, Fresh, UpTo, Baselined, refresh
<1>8. BaselineInv'
  BY <1>i, <1>u, <1>m, <1>x, <1>n DEF BaselineInv, MartFits, UpTo, Baselined, refresh
<1> QED BY <1>1, <1>2, <1>3, <1>4, <1>5, <1>6, <1>7, <1>8 DEF MartIInv

LEMMA CrashOperatorKeeps ==
  ASSUME MartIInv, Marts!CrashOperator
  PROVE  MartIInv'
<1>i. /\ Marts!TypeOK /\ LockInv /\ RunInv /\ GoodInv /\ DefInv
      /\ SourceInv /\ BuiltInv /\ BaselineInv
  BY DEF MartIInv
<1>u. UNCHANGED <<source, newest, sandbox, mart, past, entry, schedule, run, debt, jobLock, editor, outside, rolled, doubt>>
  BY DEF Marts!CrashOperator, Marts!sources, Marts!tables, Marts!ledger, Marts!history, command
<1>m. /\ op' \in [Marts!Actor -> Marts!Op] /\ refresh' = refresh
      /\ command'.pc = "idle"
  BY <1>i, NoOpEnds DEF Marts!CrashOperator, Ends, Others, Marts!Actor, refresh, command
<1>x. command.pc # "idle" /\ opLock' = Free
  BY DEF Marts!CrashOperator, Marts!sources, Marts!tables, Marts!ledger, Marts!history, command
<1>n. late' = late \/ (late' \in Marts!Content /\ late'.good)
  BY <1>i, AbandonedIsGood DEF Marts!CrashOperator, Marts!Actor
<1>1. Marts!TypeOK'
  BY <1>i, <1>u, <1>m, <1>x, <1>n, TablesAssumption DEF Marts!TypeOK
<1>2. LockInv'
  BY <1>i, <1>u, <1>m, <1>x, <1>n, TablesAssumption DEF LockInv, InData, Others, Marts!Actor, refresh, command
<1>3. RunInv'
  BY <1>i, <1>u, <1>m, <1>x, <1>n DEF RunInv, Busy, Others, Marts!Actor, refresh, command
<1>4. GoodInv'
  BY <1>i, <1>u, <1>m, <1>x, <1>n DEF GoodInv, Others, Marts!Actor, refresh, command
<1>5. DefInv'
  BY <1>i, <1>u, <1>m, <1>x, <1>n DEF DefInv, Marts!EnabledFitsDefinition, Marts!Owned, Relying, InData, refresh
<1>6. SourceInv'
  BY <1>i, <1>u, <1>m, <1>x, <1>n DEF SourceInv, UpTo, Baselined, refresh
<1>7. BuiltInv'
  BY <1>i, <1>u, <1>m, <1>x, <1>n DEF BuiltInv, Fresh, UpTo, Baselined, refresh
<1>8. BaselineInv'
  BY <1>i, <1>u, <1>m, <1>x, <1>n DEF BaselineInv, MartFits, UpTo, Baselined, refresh
<1> QED BY <1>1, <1>2, <1>3, <1>4, <1>5, <1>6, <1>7, <1>8 DEF MartIInv
-----------------------------------------------------------------------------
(* The theorems. *)

LEMMA MartInit == TablesInit => MartIInv
<1> SUFFICES ASSUME Marts!Init PROVE MartIInv
  BY DEF TablesInit
<1>1. /\ mart = None /\ sandbox = None /\ past = None /\ late = None /\ entry = None
      /\ source = [t \in Watched |-> 1] /\ newest = source
      /\ schedule = [on |-> FALSE, version |-> 0] /\ run = None /\ debt = FALSE
      /\ jobLock = Free /\ opLock = Free /\ editor = "idle"
      /\ outside = FALSE /\ rolled = FALSE /\ doubt = FALSE
      /\ op = [act \in Marts!Actor |-> Marts!NoOp]
  BY DEF Marts!Init
<1>2. /\ refresh.pc = "idle" /\ command.pc = "idle" /\ refresh.seen = Marts!Nothing
      /\ \A act \in Marts!Actor : op[act].pc = "idle"
  BY <1>1 DEF Marts!NoOp, Marts!Actor, refresh, command
<1>3. Marts!TypeOK
  <2>1. [t \in Watched |-> 1] \in Marts!Snapshots
    BY TablesAssumption DEF Marts!Snapshots
  <2>2. op \in [Marts!Actor -> Marts!Op]
    BY <1>1, NoOpTyped
  <2>3. [on |-> FALSE, version |-> 0] \in [on : BOOLEAN, version : Marts!Version]
    BY TablesAssumption DEF Marts!Version
  <2> QED BY <1>1, <2>1, <2>2, <2>3 DEF Marts!TypeOK
<1>4. LockInv
  BY <1>1, <1>2, TablesAssumption DEF LockInv, InData
<1>5. RunInv /\ GoodInv
  BY <1>1, <1>2 DEF RunInv, GoodInv, Busy
<1>6. DefInv
  BY <1>1, <1>2 DEF DefInv, Marts!EnabledFitsDefinition, Relying, InData
<1>7. SourceInv
  BY <1>1, <1>2, <1>3, NothingSeen DEF SourceInv, UpTo, Baselined
<1>8. BuiltInv /\ BaselineInv
  BY <1>1, <1>2 DEF BuiltInv, BaselineInv, Baselined
<1> QED BY <1>3, <1>4, <1>5, <1>6, <1>7, <1>8 DEF MartIInv

LEMMA FailKeeps ==
  ASSUME MartIInv, NEW act \in Marts!Actor, Marts!Fail(act)
  PROVE  MartIInv'
<1>1. PICK unknown \in BOOLEAN : Marts!Raises(act, unknown)
  BY DEF Marts!Fail
<1>2. /\ UNCHANGED <<source, newest, sandbox, mart, past, late, entry, editor, outside, rolled>>
      /\ op[act].pc \in {"entry", "sources", "decide", "data", "build", "audit"}
  BY DEF Marts!Fail, Marts!sources, Marts!tables
<1>3. CASE act = "refresh"
  BY <1>1, <1>2, <1>3, RefreshRaisesKeeps DEF Marts!InDoubt, Busy, refresh
<1>4. CASE act = "operator"
  BY <1>1, <1>2, <1>4, CommandRaisesKeeps DEF command
<1> QED BY <1>3, <1>4 DEF Marts!Actor

LEMMA ReplaceLostKeeps ==
  ASSUME MartIInv, NEW act \in Marts!Actor, Marts!ReplaceLost(act)
  PROVE  MartIInv'
<1>1. /\ UNCHANGED <<source, newest, sandbox, mart, past, entry, editor, outside, rolled>>
      /\ op[act].pc = "replace" /\ Marts!Raises(act, TRUE)
      /\ late' \in {late, Marts!Unattributed(Marts!Statement(act))}
  BY DEF Marts!ReplaceLost, Marts!sources
<1>2. late' = late \/ (late' \in Marts!Content /\ late'.good)
  BY <1>1, StagedIsGood DEF MartIInv
<1>3. CASE act = "refresh"
  BY <1>1, <1>2, <1>3, RefreshRaisesKeeps DEF Busy, refresh
<1>4. CASE act = "operator"
  BY <1>1, <1>2, <1>4, CommandRaisesKeeps DEF command
<1> QED BY <1>3, <1>4 DEF Marts!Actor

LEMMA RecordLostKeeps ==
  ASSUME MartIInv, NEW act \in Marts!Actor, Marts!RecordLost(act)
  PROVE  MartIInv'
<1>1. /\ UNCHANGED <<source, newest, sandbox, mart, past, late, entry, editor, outside, rolled>>
      /\ op[act].pc = "record" /\ Marts!Raises(act, TRUE)
  BY DEF Marts!RecordLost, Marts!sources, Marts!tables
<1>2. CASE act = "refresh"
  BY <1>1, <1>2, RefreshRaisesKeeps DEF Busy, refresh
<1>3. CASE act = "operator"
  BY <1>1, <1>3, CommandRaisesKeeps DEF command
<1> QED BY <1>2, <1>3 DEF Marts!Actor

LEMMA LedgerLostKeeps ==
  ASSUME MartIInv, Marts!BaselineLost \/ Marts!FinishLost
  PROVE  MartIInv'
<1>1. /\ UNCHANGED <<source, newest, sandbox, mart, past, late, entry, editor, outside, rolled>>
      /\ refresh.pc \in {"baseline", "unchanged", "finish"} /\ Marts!Raises("refresh", TRUE)
  BY DEF Marts!BaselineLost, Marts!FinishLost, Marts!sources, Marts!tables, refresh
<1> QED BY <1>1, RefreshRaisesKeeps DEF Busy

LEMMA DataKeeps ==
  ASSUME MartIInv, NEW act \in Marts!Actor, Marts!Data(act)
  PROVE  MartIInv'
<1>1. CASE act = "refresh"
  BY <1>1, BuildOfRefreshKeeps, AuditOfRefreshKeeps, ReplaceOfRefreshKeeps, RecordOfRefreshKeeps,
     ReplaceLostKeeps, RecordLostKeeps, FailKeeps DEF Marts!Data
<1>2. CASE act = "operator"
  BY <1>2, BuildOfCommandKeeps, AuditOfCommandKeeps, ReplaceOfCommandKeeps, RecordOfCommandKeeps,
     ReplaceLostKeeps, RecordLostKeeps, FailKeeps DEF Marts!Data
<1> QED BY <1>1, <1>2 DEF Marts!Actor

LEMMA RestKeeps ==
  ASSUME MartIInv, UNCHANGED Marts!vars
  PROVE  MartIInv'
<1>1. /\ UNCHANGED <<source, newest, sandbox, mart, past, late, entry, schedule, run, debt>>
      /\ UNCHANGED <<jobLock, opLock, op, editor, outside, rolled, doubt>>
  BY DEF Marts!vars
<1>2. Marts!TypeOK'
  BY <1>1 DEF MartIInv, Marts!TypeOK
<1>3. LockInv' /\ RunInv' /\ GoodInv'
  BY <1>1 DEF MartIInv, LockInv, RunInv, GoodInv, Busy, refresh, command
<1>4. DefInv'
  BY <1>1 DEF MartIInv, DefInv, Marts!EnabledFitsDefinition, Marts!Owned, refresh
<1>5. SourceInv' /\ BuiltInv' /\ BaselineInv'
  BY <1>1 DEF MartIInv, SourceInv, BuiltInv, BaselineInv, Fresh, MartFits, UpTo, Baselined, refresh
<1> QED BY <1>2, <1>3, <1>4, <1>5 DEF MartIInv

LEMMA MartStep == MartIInv /\ [TablesNext]_<<part, vars, martVars>> => MartIInv'
<1> SUFFICES ASSUME MartIInv, [TablesNext]_<<part, vars, martVars>> PROVE MartIInv'
  OBVIOUS
<1>1. CASE UNCHANGED Marts!vars
  BY <1>1, RestKeeps
<1>2. CASE Marts!Next
  <2>1. CASE Marts!Users
    BY <2>1, CommitKeeps, RollBackSourceKeeps, WriteSandboxKeeps, LateEndsKeeps DEF Marts!Users
  <2>2. CASE Marts!Edit
    BY <2>2, EditStartKeeps, EditRefuseKeeps, EditPauseKeeps, EditReplaceKeeps DEF Marts!Edit
  <2>3. CASE Marts!Admission
    BY <2>3, RecoverKeeps, EnableKeeps, PauseKeeps, TickRefusesKeeps, TickAdmitsKeeps,
       SubmitStartKeeps, SubmitRefuseKeeps, SubmitAdmitKeeps DEF Marts!Admission
  <2>4. CASE Marts!Refresh
    BY <2>4, ReadEntryKeeps, ReadSourceKeeps, DecideKeeps, BeginDataKeeps, SaveBaselineKeeps,
       LedgerLostKeeps, FinishKeeps DEF Marts!Refresh
  <2> QED BY <1>2, <2>1, <2>2, <2>3, <2>4, RequestKeeps, RollBackKeeps, DataKeeps,
             CrashServerKeeps, CrashOperatorKeeps DEF Marts!Next
<1> QED BY <1>1, <1>2 DEF TablesNext, martVars, Marts!vars

\* The inductive invariant of the mart holds in every state (marts_resident.py,
\* wap_resident.py).
THEOREM MartInvariant == TablesSpec => []MartIInv
<1> QED BY MartInit, MartStep, PTL DEF TablesSpec

\* What a mart shows has passed its audit, whoever wrote to the working table, whatever
\* answer was lost and whatever was rolled back; a timed check that is on is for the
\* definition that is registered (wap_resident.py, marts_resident.py: save_target).
THEOREM MartsShowAuditedContent == TablesSpec => []MartsInv
<1>1. MartIInv => MartsInv
  BY DEF MartIInv, GoodInv, DefInv, MartsInv, Marts!MartsInv, Marts!NeverUnaudited
<1> QED BY <1>1, MartInvariant, PTL

\* While a publication's outcome is in doubt no check publishes or says "unchanged"
\* (marts_resident.py: _execute_active_refresh).
THEOREM ChecksAreNotInDoubt == TablesSpec => Marts!NoCheckInDoubt
<1>1. MartIInv /\ [TablesNext]_<<part, vars, martVars>> =>
        [op["refresh"].kind = "scheduled" /\ (Marts!ReportsUnchanged \/ Marts!Publishes) => ~doubt]_Marts!vars
  BY DEF MartIInv, RunInv, Busy, Marts!ReportsUnchanged, Marts!Publishes, refresh
<1> QED BY <1>1, MartInvariant, PTL DEF TablesSpec, Marts!NoCheckInDoubt

\* Only the decision can report that nothing has changed.
LEMMA OnlyDecideReports ==
  ASSUME MartIInv, Marts!Next, Marts!ReportsUnchanged
  PROVE  Marts!Decide
<1>1. refresh.pc = "decide" /\ refresh'.pc = "unchanged" /\ op \in [Marts!Actor -> Marts!Op]
  BY DEF Marts!ReportsUnchanged, refresh, MartIInv, Marts!TypeOK
<1>2. op' # op
  BY <1>1 DEF refresh
<1>3. jobLock # Free
  BY <1>1, TablesAssumption DEF MartIInv, LockInv
<1>4. ~Marts!Users /\ ~Marts!Edit
  BY <1>2 DEF Marts!Users, Marts!Commit, Marts!RollBackSource, Marts!WriteSandbox, Marts!LateEnds,
              Marts!Edit, Marts!EditStart, Marts!EditRefuse, Marts!EditPause, Marts!EditReplace
<1>5. ~Marts!Admission
  BY <1>1, <1>2, <1>3 DEF Marts!Admission, Marts!Recover, Marts!Enable, Marts!Pause, Marts!TickRefuses,
     Marts!TickAdmits, Marts!SubmitStart, Marts!SubmitRefuse, Marts!SubmitAdmit, refresh
<1>6. \A act \in Marts!Actor : \A o : op' = [op EXCEPT ![act] = o] => act = "refresh" /\ o.pc = "unchanged"
  BY <1>1 DEF Marts!Actor, refresh
<1>7. Marts!NoOp.pc # "unchanged"
  BY DEF Marts!NoOp
<1>8. ~ \E act \in Marts!Actor, unknown \in BOOLEAN : Marts!Raises(act, unknown)
  BY <1>6, <1>7 DEF Marts!Raises
<1>9. Marts!Refresh => Marts!Decide
  BY <1>1, <1>6, <1>7, <1>8 DEF Marts!Refresh, Marts!ReadEntry, Marts!ReadSource, Marts!BeginData,
     Marts!SaveBaseline, Marts!BaselineLost, Marts!Finish, Marts!FinishLost, Marts!Actor, refresh
<1>10. ~ \E kind \in Marts!Command : Marts!Request(kind)
  BY <1>6 DEF Marts!Request, Marts!Actor
<1>11. ~Marts!RollBack /\ ~Marts!CrashServer /\ ~Marts!CrashOperator
  BY <1>6, <1>7 DEF Marts!RollBack, Marts!CrashServer, Marts!CrashOperator, Marts!Actor
<1>12. ASSUME NEW act \in Marts!Actor, Marts!Data(act) PROVE FALSE
  <2>1. CASE act = "refresh"
    BY <1>1, <1>8, <1>12, <2>1 DEF Marts!Data, Marts!Build, Marts!Audit, Marts!Replace, Marts!ReplaceLost,
       Marts!Record, Marts!RecordLost, Marts!Fail, refresh
  <2>2. ~ \E place \in Marts!Place : Marts!Goto("operator", place)
    <3> SUFFICES ASSUME NEW place \in Marts!Place, Marts!Goto("operator", place) PROVE FALSE
      OBVIOUS
    <3>1. Moves("operator", place)
      BY <1>1, GotoMoves DEF Marts!Actor, MartIInv
    <3>2. op'["refresh"] = op["refresh"]
      BY <3>1 DEF Moves, Others, Marts!Actor
    <3> QED BY <1>1, <3>2 DEF refresh
  <2>3. CASE act = "operator"
    BY <1>1, <1>6, <1>8, <1>12, <2>2, <2>3 DEF Marts!Data, Marts!Build, Marts!Audit, Marts!Replace,
       Marts!ReplaceLost, Marts!Record, Marts!RecordLost, Marts!Fail, Marts!Place, Marts!Actor, refresh
  <2> QED BY <2>1, <2>3 DEF Marts!Actor
<1> QED BY <1>4, <1>5, <1>9, <1>10, <1>11, <1>12 DEF Marts!Next

\* A check that says "unchanged" is right unless others wrote to the mart or a source
\* went back: the mart was built by this version from the very snapshots that the check
\* has seen, since baseline <= built from <= seen, and the check found baseline = seen
\* (marts_resident.py: _execute_active_refresh).
THEOREM UnchangedIsCurrent == TablesSpec => Marts!UnchangedMeansCurrent
<1>1. ASSUME MartIInv, Marts!Next, Marts!ReportsUnchanged, ~outside, ~rolled PROVE Marts!Current
  <2>1. Marts!Decide
    BY <1>1, OnlyDecideReports
  <2>2. refresh.pc = "decide" /\ refresh.kind = "scheduled" /\ refresh.base = Marts!BaselineOf(refresh)
    <3>1. op'["refresh"].pc = "unchanged"
      BY <1>1 DEF Marts!ReportsUnchanged
    <3>2. op["refresh"] \in Marts!Op
      BY <1>1 DEF MartIInv, Marts!TypeOK, Marts!Actor
    <3> QED BY <2>1, <3>1, <3>2, <1>1 DEF Marts!Decide, Marts!Goto, refresh, MartIInv, Marts!TypeOK, Marts!Actor, Marts!Op
  <2>3. refresh.watched /\ \A t \in Watched : refresh.seen[t] # 0
    BY <1>1, <2>2 DEF MartIInv, RunInv, Busy, SourceInv
  <2>4. /\ entry # None /\ refresh.version = entry.version
        /\ entry.baseline = [version |-> refresh.version, snapshots |-> refresh.seen]
    BY <1>1, <2>2 DEF MartIInv, DefInv, Relying, Marts!Owned, Marts!BaselineOf
  <2>5. refresh \in Marts!Op
    BY <1>1 DEF MartIInv, Marts!TypeOK, Marts!Actor, refresh
  <2>6. Baselined
    BY <2>4, <2>5, TablesAssumption DEF Baselined, Marts!Op, Marts!Baseline
  <2>7. /\ mart # None /\ mart.of = refresh.version
        /\ \A t \in Watched : refresh.seen[t] <= mart.from[t] /\ mart.from[t] <= refresh.seen[t]
    BY <1>1, <2>2, <2>3, <2>4, <2>6 DEF MartIInv, BaselineInv, MartFits, UpTo
  <2>8. \A t \in Watched : mart.from[t] = refresh.seen[t]
    BY <1>1, <2>7, Numbers DEF MartIInv
  <2>9. mart.from \in Marts!Snapshots /\ refresh.seen \in Marts!Snapshots
    BY <1>1, <2>5, <2>7 DEF MartIInv, Marts!TypeOK, Marts!Content, Marts!Op
  <2> QED BY <2>7, <2>8, <2>9 DEF Marts!Current, Marts!Snapshots, refresh
<1>2. MartIInv /\ [TablesNext]_<<part, vars, martVars>> =>
        [Marts!ReportsUnchanged => outside \/ rolled \/ Marts!Current]_Marts!vars
  BY <1>1 DEF TablesNext, martVars, Marts!vars
<1> QED BY <1>2, MartInvariant, PTL DEF TablesSpec, Marts!UnchangedMeansCurrent

\* Both together: what a check by schedule says and does can be relied on, however the
\* writes of a refresh were cut before it (marts_resident.py: _execute_active_refresh).
THEOREM ChecksCanBeReliedOn == TablesSpec => ChecksAreRight
<1> QED BY ChecksAreNotInDoubt, UnchangedIsCurrent DEF ChecksAreRight, Marts!ChecksAreRight
=============================================================================
