------------------------------- MODULE Alerts -------------------------------
(***************************************************************************)
(* The alerts of one registered job.  A run carries the rules its          *)
(* definition had when it was submitted; the definition can be saved while *)
(* the run evaluates them, and an alert is acknowledged at any time.       *)
(* Source: alerts_resident.py, and save_job and the worker's success       *)
(* transaction in jobs_resident.py.                                        *)
(*                                                                         *)
(* A rule stands for its key: SQL, schema, message, severity, name and     *)
(* parameters.  The alert's other columns tell when and how often.         *)
(***************************************************************************)
EXTENDS Naturals

CONSTANTS Position,   \* the steps of the job
          Rule,       \* the rules an alert step may have
          Arguments,  \* the arguments a run may have
          Id,         \* the alerts: a bound on how many are ever opened
          None        \* a step that is no alert, no alert, no run

VARIABLES rules,      \* the rule of each step in the saved definition
          alerts,     \* the table alerts
          run         \* the run that holds the jobs lock

vars == <<rules, alerts, run>>

Rules == [Position -> Rule \cup {None}]
Alert == [position : Position, rule : Rule, arguments : Arguments,
          state : {"open", "cleared", "retired"}, acknowledged : BOOLEAN]
Run   == [rules : Rules, arguments : Arguments, todo : SUBSET Position,
          met : {"unknown", "yes", "no"}, at : Position]

ASSUME AlertsAssumption == None \notin Rule /\ None \notin Alert /\ None \notin Run

TypeOK ==
  /\ rules \in Rules
  /\ alerts \in [Id -> Alert \cup {None}]
  /\ run \in Run \cup {None}

Init ==
  /\ rules \in Rules
  /\ alerts = [i \in Id |-> None]
  /\ run = None

Opened   == { i \in Id : alerts[i] # None }
Unsolved == { i \in Opened : alerts[i].state = "open" }

\* Mutant: the alerts are left to the next evaluation.
SaveOnly ==
  \E new \in Rules :
    /\ rules' = new
    /\ UNCHANGED <<alerts, run>>

\* save_job, with retire_changed in its transaction; no lock is taken.
Save ==
  \E new \in Rules :
    /\ rules' = new
    /\ alerts' = [i \in Id |->
         IF i \in Unsolved /\ new[alerts[i].position] # alerts[i].rule
           THEN [alerts[i] EXCEPT !.state = "retired"] ELSE alerts[i]]
    /\ UNCHANGED run

Submit ==
  /\ run = None
  /\ \E a \in Arguments, p \in Position :
       run' = [rules |-> rules, arguments |-> a, met |-> "unknown", at |-> p,
               todo |-> { q \in Position : rules[q] # None }]
  /\ UNCHANGED <<rules, alerts>>

\* The query of a rule gives one truth value, or the run fails.
Evaluate ==
  /\ run # None /\ run.met = "unknown"
  /\ \E p \in run.todo, m \in {"yes", "no"} :
       run' = [run EXCEPT !.at = p, !.met = m, !.todo = @ \ {p}]
  /\ UNCHANGED <<rules, alerts>>

\* All evaluated, or one failed, or the server stopped.
End ==
  /\ run # None
  /\ run' = None
  /\ UNCHANGED <<rules, alerts>>

\* The unresolved alert of a rule with these arguments.
Same(i, p, r, a) ==
  /\ alerts[i].position = p /\ alerts[i].rule = r /\ alerts[i].arguments = a
\* Mutant: resolved alerts are found too.
ExistingEver(p, r, a) == { i \in Opened : Same(i, p, r, a) }
Existing(p, r, a) == { i \in Unsolved : Same(i, p, r, a) }
Recorded == [run EXCEPT !.met = "unknown"]

Open(p, r, a) ==
  \E i \in Id \ Opened :
    alerts' = [alerts EXCEPT ![i] =
      [position |-> p, rule |-> r, arguments |-> a, state |-> "open", acknowledged |-> FALSE]]

Clear(p, r, a) ==
  \E i \in Existing(p, r, a) : alerts' = [alerts EXCEPT ![i].state = "cleared"]

\* Mutant: the rule of the run's own definition is recorded.
RecordOld ==
  /\ run # None /\ run.met # "unknown"
  /\ run' = Recorded
  /\ LET p == run.at  r == run.rules[p]  a == run.arguments
     IN CASE run.met = "yes" /\ Existing(p, r, a) = {} -> Open(p, r, a)
          [] run.met = "no" /\ Existing(p, r, a) # {}  -> Clear(p, r, a)
          [] OTHER -> UNCHANGED alerts
  /\ UNCHANGED rules

\* record, in the transaction that ends the step: a rule that is not the saved
\* definition's any more is not recorded.
Record ==
  /\ run # None /\ run.met # "unknown"
  /\ run' = Recorded
  /\ LET p == run.at  r == run.rules[p]  a == run.arguments
     IN CASE rules[p] # r -> UNCHANGED alerts
          [] rules[p] = r /\ run.met = "yes" /\ Existing(p, r, a) = {} -> Open(p, r, a)
          [] rules[p] = r /\ run.met = "no" /\ Existing(p, r, a) # {}  -> Clear(p, r, a)
          [] OTHER -> UNCHANGED alerts
  /\ UNCHANGED rules

Acknowledge ==
  /\ \E i \in Opened : alerts' = [alerts EXCEPT ![i].acknowledged = TRUE]
  /\ UNCHANGED <<rules, run>>

Next == Save \/ Submit \/ Evaluate \/ End \/ Record \/ Acknowledge

Spec == Init /\ [][Next]_vars

-----------------------------------------------------------------------------
\* An alert is open for a rule of the saved definition and once for the same
\* arguments, although a run that still carries the rules of an older definition may
\* record after the definition was saved (alerts_resident.py:28-37, 56-90).
CurrentRules == \A i \in Unsolved : rules[alerts[i].position] = alerts[i].rule
OpenOnce ==
  \A i, j \in Unsolved :
    Same(i, alerts[j].position, alerts[j].rule, alerts[j].arguments) => i = j
\* Types; open alerts are of saved rules, one of a kind (retire_changed, record).
AlertsInv == TypeOK /\ CurrentRules /\ OpenOnce

KeepsResolved ==
  \A i \in Opened :
    /\ alerts'[i] # None
    /\ alerts[i].state # "open" => alerts'[i].state = alerts[i].state
    /\ alerts[i].acknowledged => alerts'[i].acknowledged

\* What was resolved stays resolved in the way it was, and what was acknowledged stays
\* so: a later run opens another alert (alerts_resident.py:70-89, 107-119).
ResolvedForGood == [][KeepsResolved]_vars
=============================================================================
