----------------------------- MODULE MCRecovery -----------------------------
(* Instances of Recovery for TLC. *)
EXTENDS Recovery, TLC

CONSTANTS stored, inner, outer, p1, p2

\* The outer view selects from the inner one, which selects from a table.
NestedViews == (inner :> {stored}) @@ (outer :> {inner})
SomeOptions == {[dry |-> FALSE, sql |-> TRUE], [dry |-> FALSE, sql |-> FALSE], [dry |-> TRUE, sql |-> TRUE]}
OneChunk == (stored :> 1)
=============================================================================
