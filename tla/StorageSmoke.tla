---------------------------- MODULE StorageSmoke ----------------------------
(***************************************************************************)
(* run_smoke of scripts/object_storage_s3.py: a bucket of its own is        *)
(* created, an object put, read, listed and deleted, the bucket deleted;    *)
(* and the clean-up when a request fails on the way.                        *)
(***************************************************************************)
EXTENDS Naturals

CONSTANT Attempts     \* how often it deletes until what it deleted has gone: 20 in the code

VARIABLES smoke,      \* its place, and what it believes it has made
          store       \* the bucket and the object there are

vars == <<smoke, store>>

Place == {"create", "put", "get", "delete", "converge", "drop", "clean object", "clean bucket", "done", "failed"}

TypeOK ==
  /\ smoke \in [pc : Place, bucket : BOOLEAN, object : BOOLEAN, left : 0..Attempts,
                lost : BOOLEAN]           \* history: an answer was lost, a deletion refused
  /\ store \in [bucket : BOOLEAN, object : BOOLEAN]

Init ==
  /\ smoke = [pc |-> "create", bucket |-> FALSE, object |-> FALSE, left |-> Attempts, lost |-> FALSE]
  /\ store = [bucket |-> FALSE, object |-> FALSE]

\* A request takes effect and is answered, takes effect and is not, or fails.
Requests(effect, done) ==
  \/ store' = effect /\ smoke' = done
  \/ /\ store' \in {store, effect}
     /\ smoke' = [smoke EXCEPT !.pc = "clean object", !.lost = @ \/ store' # store]

SmokeCreates ==
  /\ smoke.pc = "create"
  /\ Requests([store EXCEPT !.bucket = TRUE], [smoke EXCEPT !.pc = "put", !.bucket = TRUE])

SmokePuts ==
  /\ smoke.pc = "put"
  /\ Requests([store EXCEPT !.object = TRUE], [smoke EXCEPT !.pc = "get", !.object = TRUE])

\* It is read, compared, and found in a listing.
SmokeGets ==
  /\ smoke.pc = "get"
  /\ Requests(store, [smoke EXCEPT !.pc = "delete"])

\* A deletion may take more than one request to be seen.
SmokeDeletes ==
  /\ smoke.pc = "delete"
  /\ \E gone \in BOOLEAN :
       Requests([store EXCEPT !.object = ~gone],
                [smoke EXCEPT !.pc = "converge", !.object = FALSE, !.left = Attempts, !.lost = ~gone])

\* It is listed, and deleted again while it is there.  A listing may fail; and after the
\* last deletion there is none, so that the test fails whether the object has gone or not.
SmokeConverges ==
  /\ smoke.pc = "converge"
  /\ \/ /\ smoke.left > 0 /\ ~store.object
        /\ smoke' = [smoke EXCEPT !.pc = "drop", !.left = Attempts] /\ UNCHANGED store
     \/ /\ smoke.left > 0 /\ store.object
        /\ \E gone \in BOOLEAN :
             Requests([store EXCEPT !.object = ~gone], [smoke EXCEPT !.left = @ - 1])
     \/ smoke' = [smoke EXCEPT !.pc = "clean object"] /\ UNCHANGED store

\* A bucket that holds an object cannot be deleted.
Drops(last) ==
  \/ /\ ~store.object /\ store' = [store EXCEPT !.bucket = FALSE]
     /\ smoke' = [smoke EXCEPT !.pc = last, !.bucket = FALSE]
  \/ /\ smoke.left > 0 /\ smoke' = [smoke EXCEPT !.left = @ - 1] /\ UNCHANGED store

SmokeDrops ==
  /\ smoke.pc = "drop"
  /\ \/ Drops("done")
     \/ smoke.left = 0 /\ smoke' = [smoke EXCEPT !.pc = "clean bucket", !.left = Attempts] /\ UNCHANGED store

\* Mutant: a bucket is dropped without its object.
SmokeKeepsObject ==
  /\ smoke.pc = "clean object"
  /\ smoke' = [smoke EXCEPT !.pc = "clean bucket", !.left = Attempts] /\ UNCHANGED store

SmokeCleansObject ==
  /\ smoke.pc = "clean object"
  /\ \E deleted \in BOOLEAN :
       /\ store' = [store EXCEPT !.object = @ /\ ~(smoke.object /\ deleted)]
       /\ smoke' = [smoke EXCEPT !.pc = "clean bucket", !.left = Attempts, !.lost = @ \/ ~deleted]

SmokeCleansBucket ==
  /\ smoke.pc = "clean bucket"
  /\ \/ ~smoke.bucket /\ smoke' = [smoke EXCEPT !.pc = "failed"] /\ UNCHANGED store
     \/ smoke.bucket /\ Drops("failed")
     \/ smoke.bucket /\ smoke.left = 0 /\ smoke' = [smoke EXCEPT !.pc = "failed", !.lost = @ \/ ~store.object] /\ UNCHANGED store

Next ==
  \/ SmokeCreates \/ SmokePuts \/ SmokeGets \/ SmokeDeletes \/ SmokeConverges
  \/ SmokeDrops \/ SmokeCleansObject \/ SmokeCleansBucket

Spec == Init /\ [][Next]_vars

\* The smoke test leaves no bucket and no object behind, at whichever request it
\* fails, unless an answer was lost or the store refused to delete
\* (object_storage_s3.py:373-411).
SmokeLeavesNothing ==
  smoke.pc \in {"done", "failed"} /\ ~smoke.lost => ~store.bucket /\ ~store.object

\* Types, and a smoke test that tidies up (run_smoke).
SmokeInv == TypeOK /\ SmokeLeavesNothing
=============================================================================
