------------------------------ MODULE MCOrders ------------------------------
(* Values of the constants of Orders and OrdersRefinement for TLC. *)
EXTENDS OrdersRefinement, TLC

CONSTANTS c1, c2

MCOwner == [o \in Orders |-> c1]

Symmetry == Permutations(Requests) \cup Permutations(Snaps)
=============================================================================
