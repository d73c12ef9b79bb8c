---------------------------- MODULE PaymentLedger ----------------------------
(***************************************************************************)
(* What the payment side of the order service promises its readers, and    *)
(* the readers of the outbox: there is one payment status per order, it    *)
(* moves along a fixed table, and each move is written to the log in the   *)
(* same step with the status it left and the status it reached.  Anything  *)
(* else that is logged leaves every payment status alone.                  *)
(***************************************************************************)
EXTENDS Naturals, Sequences

CONSTANTS
  Orders,
  Payments,      \* payment statuses
  Transitions,   \* the statuses each one may move to
  Notes          \* the other events an order can log

VARIABLES payment, log

ledgerVars == <<payment, log>>

Init ==
  /\ payment = [o \in Orders |-> "UNPAID"]
  /\ log = <<>>

\* A payment status changes and the change is logged.
Move(o, next) ==
  /\ next \in Transitions[payment[o]]
  /\ payment' = [payment EXCEPT ![o] = next]
  /\ log' = Append(log, [type |-> "ORDER_PAYMENT_UPDATED", order |-> o,
                         old |-> payment[o], new |-> next])

\* Some other event of the order is logged.
Note ==
  /\ \E e \in Notes : log' = Append(log, e)
  /\ UNCHANGED payment

Next == Note \/ \E o \in Orders, next \in Payments : Move(o, next)

Spec == Init /\ [][Next]_ledgerVars
=============================================================================
