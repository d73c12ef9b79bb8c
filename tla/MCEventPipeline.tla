--------------------------- MODULE MCEventPipeline ---------------------------
(* Values of the constants of EventPipeline for TLC. *)
EXTENDS EventPipeline, TLC

Symmetry == Permutations(Workers) \cup Permutations(Partitions)
=============================================================================
