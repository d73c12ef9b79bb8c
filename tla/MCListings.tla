----------------------------- MODULE MCListings -----------------------------
(* Values of the constants of Listings for TLC. *)
EXTENDS Listings

SomeLimits == -1..4
=============================================================================
