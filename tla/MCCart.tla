------------------------------- MODULE MCCart -------------------------------
(* The cart for TLC: its constants are given in the .cfg files. *)
EXTENDS Cart
=============================================================================
