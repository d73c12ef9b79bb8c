----------------------------- MODULE AtLeastOnce -----------------------------
(***************************************************************************)
(* What the outbox and the message broker are there for: an event that was *)
(* recorded takes effect, in its own time and perhaps more than once, and  *)
(* nothing takes effect that was not recorded.                             *)
(***************************************************************************)
CONSTANT Events

VARIABLES recorded, effective

deliveryVars == <<recorded, effective>>

Init == recorded = {} /\ effective = {}

Record(e) ==
  /\ e \notin recorded
  /\ recorded' = recorded \cup {e}
  /\ UNCHANGED effective

\* The first time; to take effect again changes nothing here.
Deliver(e) ==
  /\ e \in recorded \ effective
  /\ effective' = effective \cup {e}
  /\ UNCHANGED recorded

Next == \E e \in Events : Record(e) \/ Deliver(e)

Spec == Init /\ [][Next]_deliveryVars

FairSpec == Spec /\ \A e \in Events : WF_deliveryVars(Deliver(e))
=============================================================================
