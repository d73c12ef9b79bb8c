---------------------------- MODULE MCCatalogue ----------------------------
(* Values of the constants of Catalogue for TLC. *)
EXTENDS Catalogue, TLC

Symmetry == Permutations(Jobs) \cup Permutations(Files)
=============================================================================
