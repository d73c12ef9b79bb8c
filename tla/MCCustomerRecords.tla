------------------------- MODULE MCCustomerRecords -------------------------
(* CustomerRecords for TLC. *)
EXTENDS CustomerRecords
=============================================================================
