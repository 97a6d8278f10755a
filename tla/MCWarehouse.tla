------------------------------ MODULE MCWarehouse ------------------------------
(* Instances of Warehouse for TLC: two clients in one server process, or one *)
(* client in each of two.                                                    *)
EXTENDS Warehouse

CONSTANTS p1, p2, c1, c2

OneServer  == [t \in Client |-> p1]
TwoServers == [t \in Client |-> IF t = c1 THEN p1 ELSE p2]

=============================================================================
