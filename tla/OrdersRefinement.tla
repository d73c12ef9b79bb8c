-------------------------- MODULE OrdersRefinement --------------------------
(* The order service implements the payment ledger: the payment_status      *)
(* column is the ledger's status and the outbox is its log.                 *)
EXTENDS Orders

OtherEvents == {e \in Event : e.type # "ORDER_PAYMENT_UPDATED"}

Ledger == INSTANCE PaymentLedger WITH
            Transitions <- PaymentStatusTransitions,
            Notes <- OtherEvents,
            payment <- [o \in Orders |-> row[o].payment],
            log <- outbox

\* Every behaviour of the order service is one of the ledger: no interleaving of
\* requests loses a payment move, logs one that did not happen, or logs it with
\* the wrong endpoints.
ImplementsPaymentLedger == Ledger!Spec
=============================================================================
