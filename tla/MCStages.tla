------------------------------ MODULE MCStages ------------------------------
(***************************************************************************)
(* Instances for TLC of a stage: two files of interchangeable contents that *)
(* are imported, and two exports to one name of a table that may outgrow    *)
(* them.  What they share is a run of the ledger, which Stages has; a       *)
(* behaviour is of one of them, the other being at rest.                    *)
(***************************************************************************)
EXTENDS Stages, TLC

CONSTANTS b1, b2,
          Name, Limit, MaxSize, MaxExports

VARIABLES part,
          revision, size, asked, export, runs, dir, temps, kept, linked

Exports == INSTANCE StageExports

exportVars == <<revision, size, asked, export, runs, dir, temps, kept, linked>>

\* Bounds are numbers, and nothing is neither a row of the ledger nor a file.
ASSUME StageExportsAssumption ==
  /\ Limit \in Nat /\ MaxSize \in Nat /\ MaxExports \in Nat /\ MaxRevision \in Nat \ {0}
  /\ None \notin Exports!Row /\ None \notin Exports!Published /\ None \notin Exports!Request

Alike == Permutations(Content)

\* The property of StageExports, over the variables of this module.
ExportsInv == Exports!ExportsInv

StageInit == part \in {"imports", "exports"} /\ Init /\ Exports!Init

StageNext ==
  \/ part = "imports" /\ Next /\ UNCHANGED <<part, exportVars>>
  \/ part = "exports" /\ Exports!Next /\ UNCHANGED <<part, vars>>

StageSpec == StageInit /\ [][StageNext]_<<part, vars, exportVars>>
=============================================================================
