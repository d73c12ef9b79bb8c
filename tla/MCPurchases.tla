---------------------------- MODULE MCPurchases ----------------------------
(* Values of the constants of Purchases for TLC. *)
EXTENDS Purchases, TLC

CONSTANTS c1

MCOwner == [o \in Orders |-> c1]
MCItems == [o \in Orders |-> Products]
=============================================================================
