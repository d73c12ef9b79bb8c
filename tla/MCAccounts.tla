----------------------------- MODULE MCAccounts -----------------------------
(* Values of the constants of Accounts for TLC. *)
EXTENDS Accounts, TLC

\* The ages are bounded by the lives: two units stand for three and for six.
MCTTL == [kind \in Kinds |-> 2]

Symmetry == Permutations(Requests) \cup Permutations(Users) \cup Permutations(Pins)
=============================================================================
