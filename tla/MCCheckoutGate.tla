--------------------------- MODULE MCCheckoutGate ---------------------------
(* Values of the constants of CheckoutGate for TLC. *)
EXTENDS CheckoutGate

CONSTANT key

\* Retries of one checkout carry one key.
MCKeyOf == [r \in Requests |-> key]
=============================================================================
