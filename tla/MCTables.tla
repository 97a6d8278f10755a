------------------------------- MODULE MCTables -------------------------------
(***************************************************************************)
(* Instances for TLC of what writes the tables of Trino: the loads of a     *)
(* table, and a managed mart.  They share no state, so a behaviour is of    *)
(* one of them, the other being at rest.                                    *)
(*                                                                         *)
(* Two loads share a key, one of two batches, the other of one key twice or *)
(* of no row.                                                              *)
(***************************************************************************)
EXTENDS Lake, TLC

CONSTANTS l1, l2, a, b,
          Watched, MaxSnapshot, MaxVersion, Free

VARIABLES part,
          source, newest, sandbox, mart, past, late, entry, schedule, run, debt,
          jobLock, opLock, op, editor, outside, rolled, doubt

Marts == INSTANCE Marts WITH Table <- Watched, target <- mart

martVars == <<source, newest, sandbox, mart, past, late, entry, schedule, run, debt,
              jobLock, opLock, op, editor, outside, rolled, doubt>>

\* None is no content, entry, baseline or kind, and a lock that is free is nobody's.
ASSUME TablesAssumption ==
  /\ MaxSnapshot \in Nat \ {0} /\ MaxVersion \in Nat \ {0}
  /\ None \notin Marts!Content /\ None \notin Marts!Entry /\ None \notin Marts!Baseline
  /\ None \notin Marts!Managed \cup Marts!Command
  /\ Free \notin {"refresh", "operator", "editor"}

TwoLoads == (l1 :> {<<a, b>>}) @@ (l2 :> {<<b, b>>, <<>>})

\* The properties of Marts, over the variables of this module.
MartsInv       == Marts!MartsInv
ChecksAreRight == Marts!ChecksAreRight

LoadsRest ==
  /\ old = None /\ mode = [l \in Load |-> "append"]
  /\ input = (l1 :> <<a, b>>) @@ (l2 :> <<>>)

TablesInit ==
  /\ part \in {"loads", "mart"}
  /\ Marts!Init
  /\ Init
  /\ part # "loads" => LoadsRest

TablesNext ==
  \/ part = "loads" /\ Next /\ UNCHANGED <<part, martVars>>
  \/ part = "mart" /\ Marts!Next /\ UNCHANGED <<part, vars>>

TablesSpec == TablesInit /\ [][TablesNext]_<<part, vars, martVars>>
=============================================================================
