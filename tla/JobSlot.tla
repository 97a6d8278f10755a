------------------------------- MODULE JobSlot -------------------------------
(***************************************************************************)
(* What the jobs ledger promises, without its lock file, threads, steps    *)
(* and claims: one place for a run, no queue behind it, and a run is       *)
(* declared lost only when the place is empty.                             *)
(***************************************************************************)
EXTENDS Integers

CONSTANT Run

VARIABLES
  status,  \* of each run
  holder   \* the run whose admission or worker has the place, 0 if none

slotVars == <<status, holder>>

Active == {"queued", "running"}

Lost(st) == [r \in Run |-> IF st[r] \in Active THEN "unknown" ELSE st[r]]

Init ==
  /\ status = [r \in Run |-> "absent"]
  /\ holder = 0

\* Taking the place settles whatever its last holder left behind.
Admit(r) ==
  /\ holder = 0 /\ status[r] = "absent"
  /\ status' = [Lost(status) EXCEPT ![r] = "queued"]
  /\ holder' = r

Recover ==
  /\ holder = 0
  /\ status' = Lost(status)
  /\ UNCHANGED holder

\* A scheduled slot that does not run leaves a row; next to a holder it settles
\* nothing.
Skip(r) ==
  /\ status[r] = "absent"
  /\ \/ status' = [status EXCEPT ![r] = "skipped"]
     \/ holder = 0 /\ status' = [Lost(status) EXCEPT ![r] = "skipped"]
  /\ UNCHANGED holder

Begin(r) ==
  /\ holder = r /\ status[r] = "queued"
  /\ status' = [status EXCEPT ![r] = "running"]
  /\ UNCHANGED holder

End(r) ==
  /\ holder = r /\ status[r] = "running"
  /\ \E s \in {"success", "failed", "unknown"} : status' = [status EXCEPT ![r] = s]
  /\ UNCHANGED holder

\* The holder is done, died, or never started its worker.
Leave ==
  /\ holder # 0
  /\ holder' = 0
  /\ UNCHANGED status

Next ==
  \/ \E r \in Run : Admit(r) \/ Skip(r) \/ Begin(r) \/ End(r)
  \/ Recover \/ Leave

Spec == Init /\ [][Next]_slotVars
=============================================================================
