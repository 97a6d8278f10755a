----------------------------- MODULE StageClaims -----------------------------
(***************************************************************************)
(* What the ledger promises of the contents of stages, without its runs,   *)
(* lock, files and threads: whoever takes contents takes them together,    *)
(* works on one at a time, and leaves none behind that others could not    *)
(* take.  A content that was handed to the table is known to be there, or  *)
(* known to be in doubt, and nothing but a request for that one content    *)
(* hands it over again.                                                    *)
(***************************************************************************)
EXTENDS Naturals

CONSTANT Key  \* what is imported once: a content under a stage's settings

VARIABLES
  claim,  \* what the ledger says of each content
  place,  \* where each content is with the one who took it
  handed  \* how often each content was handed over to the table

claimVars == <<claim, place, handed>>

Pending == {"queued", "running"}
Place   == {"nobody", "waiting", "importing", "imported", "in doubt"}

Held == { k \in Key : place[k] # "nobody" }

Lost(c) == IF c \in Pending THEN "unknown" ELSE c

Init ==
  /\ claim = [k \in Key |-> "new"]
  /\ place = [k \in Key |-> "nobody"]
  /\ handed = [k \in Key |-> 0]

\* New contents are taken together, one that failed or whose outcome is unknown by
\* itself.  Whoever looks, even to take nothing, settles what was left behind.
Takeable(S) ==
  \/ \A k \in S : claim[k] = "new"
  \/ \E k \in S : S = {k} /\ Lost(claim[k]) \in {"failed", "unknown"}

Take ==
  /\ Held = {}
  /\ \E S \in SUBSET Key :
       /\ Takeable(S)
       /\ claim' = [k \in Key |-> IF k \in S THEN "queued" ELSE Lost(claim[k])]
       /\ place' = [k \in Key |-> IF k \in S THEN "waiting" ELSE "nobody"]
  /\ UNCHANGED handed

Alone(k) == \A other \in Key \ {k} : place[other] \in {"nobody", "waiting"}

Begin(k) ==
  /\ place[k] = "waiting" /\ Alone(k)
  /\ claim' = [claim EXCEPT ![k] = "running"]
  /\ place' = [place EXCEPT ![k] = "importing"]
  /\ UNCHANGED handed

\* The table has it, or nobody can tell whether it has.
Import(k) ==
  /\ place[k] = "importing"
  /\ \/ /\ handed' = [handed EXCEPT ![k] = @ + 1]
        /\ \E p \in {"imported", "in doubt"} : place' = [place EXCEPT ![k] = p]
     \/ place' = [place EXCEPT ![k] = "in doubt"] /\ UNCHANGED handed
  /\ UNCHANGED claim

\* Something went wrong after it.
Doubt(k) ==
  /\ place[k] = "imported"
  /\ place' = [place EXCEPT ![k] = "in doubt"]
  /\ UNCHANGED <<claim, handed>>

Succeed(k) ==
  /\ place[k] = "imported"
  /\ claim' = [claim EXCEPT ![k] = "success"]
  /\ place' = [place EXCEPT ![k] = "nobody"]
  /\ UNCHANGED handed

\* The first that fails ends it: what still waits is free again.
Fail(k) ==
  /\ place[k] \in {"waiting", "in doubt"} /\ Alone(k)
  /\ place' = [j \in Key |-> "nobody"]
  /\ \E c \in {"failed", "unknown"} :
       /\ place[k] = "in doubt" => c = "unknown"
       /\ claim' = [j \in Key |-> IF j = k THEN c ELSE IF place[j] = "waiting" THEN "new" ELSE claim[j]]
  /\ UNCHANGED handed

\* Whoever holds them is gone; the claims stay as they were.
Crash ==
  /\ UNCHANGED <<claim, handed>>
  /\ place' = [k \in Key |-> "nobody"]

Next ==
  \/ Crash
  \/ \E k \in Held : Begin(k) \/ Import(k) \/ Doubt(k) \/ Succeed(k) \/ Fail(k)
  \/ Take

Spec == Init /\ [][Next]_claimVars
=============================================================================
