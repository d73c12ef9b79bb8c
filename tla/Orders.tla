------------------------------- MODULE Orders -------------------------------
(***************************************************************************)
(* The order service: placing an order, cancelling and completing it, the  *)
(* administrator's fulfilment updates, and the payment updates that come   *)
(* from an administrator or from a Midtrans notification.                  *)
(*                                                                         *)
(* Every request is a process of its own.  A request that reads a row and  *)
(* later writes it takes two steps, since other requests run in between:   *)
(* PostgreSQL runs these transactions at READ COMMITTED, so a plain SELECT *)
(* takes no lock, and only the payment update reads with FOR UPDATE.  An   *)
(* UPDATE keeps the row locked until COMMIT and readers see the committed  *)
(* row, so UPDATE, outbox INSERT and COMMIT together are one step, enabled *)
(* when no other transaction holds the row.                                *)
(*                                                                         *)
(* Data is kept only where the control depends on it: a timestamp column   *)
(* is a Boolean ("is it set"), amounts, items, notes and the payment       *)
(* method are left out.                                                    *)
(***************************************************************************)
EXTENDS Naturals, Sequences, FiniteSets

CONSTANTS
  Orders,          \* order ids (an id is in placed once its row exists)
  Customers,
  Owner,           \* orders.user_id
  Requests,        \* concurrent request handlers
  NoOne,           \* the holder of an unlocked row
  Snaps,           \* bound: Midtrans transactions per order
  MidtransActive,  \* the environment variable MIDTRANS_ACTIVE
  MaxEvents        \* bound: outbox rows, counting those still to be written

ASSUME OrdersAssumption ==
  /\ Owner \in [Orders -> Customers]
  /\ NoOne \notin Requests
  /\ MidtransActive \in BOOLEAN
  /\ MaxEvents \in Nat

VARIABLES
  placed,    \* orders whose row has been inserted
  row,       \* the orders table
  lock,      \* holder of each row lock taken by SELECT ... FOR UPDATE
  req,       \* what each request handler has read and is about to write
  outbox,    \* the outbox_events table, in order of creation
  snap,      \* Midtrans: the state of each Snap transaction of an order
  everPaid   \* history: orders whose payment status has been PAID

vars == <<placed, row, lock, req, outbox, snap, everPaid>>

-----------------------------------------------------------------------------
(* The columns.                                                            *)

Statuses == {"PENDING", "PAID", "PROCESSING", "SHIPPED", "DELIVERED",
             "COMPLETED", "CANCELLED"}
Payments == {"UNPAID", "PAID", "REFUNDED"}

Row == [status : Statuses, payment : Payments, paidAt : BOOLEAN,
        cancelledAt : BOOLEAN, completedAt : BOOLEAN, tokenFresh : BOOLEAN]

\* The columns that GetOrderPaymentForUpdate selects.
PaymentRow == [status : Statuses, payment : Payments, paidAt : BOOLEAN,
               cancelledAt : BOOLEAN]

PaymentColumns(rw) == [status |-> rw.status, payment |-> rw.payment,
                       paidAt |-> rw.paidAt, cancelledAt |-> rw.cancelledAt]

\* What INSERT leaves in the row: the service's values and column defaults.
\* snap_token_expired_at stays NULL, so a checkout token never counts as fresh.
NewRow == [status |-> "PENDING", payment |-> "UNPAID", paidAt |-> FALSE,
           cancelledAt |-> FALSE, completedAt |-> FALSE, tokenFresh |-> FALSE]

PaymentStatusTransitions ==
  [UNPAID |-> {"PAID", "REFUNDED"}, PAID |-> {"UNPAID", "REFUNDED"},
   REFUNDED |-> {}]

Event ==
       [type : {"DELETE_CART"}, order : Orders]
  \cup [type : {"ORDER_STATUS_CHANGED"}, order : Orders,
        old : Statuses, new : Statuses]
  \cup [type : {"ORDER_PAYMENT_UPDATED"}, order : Orders,
        old : Payments, new : Payments]

\* A handler's local state: nothing, a status update with the status it read,
\* a payment transaction with the row it locked, or a payment retry.
Idle == [op |-> "idle"]
StatusRequest  == [op : {"cancel", "complete", "admin"}, order : Orders,
                   old : Statuses, new : Statuses]
PaymentRequest == [op : {"payment"}, order : Orders, seen : PaymentRow,
                   new : Payments]
SnapRequest    == [op : {"continue", "saveToken"}, order : Orders]
RequestState   == {Idle} \cup StatusRequest \cup PaymentRequest \cup SnapRequest

TypeOK ==
  /\ placed \in SUBSET Orders
  /\ row \in [Orders -> Row]
  /\ lock \in [Orders -> Requests \cup {NoOne}]
  /\ req \in [Requests -> RequestState]
  /\ outbox \in Seq(Event)
  /\ snap \in [Orders -> [Snaps -> {"none", "open", "settlement", "expire"}]]
  /\ everPaid \in SUBSET Orders

Init ==
  /\ placed = {}
  /\ row = [o \in Orders |-> NewRow]
  /\ lock = [o \in Orders |-> NoOne]
  /\ req = [r \in Requests |-> Idle]
  /\ outbox = <<>>
  /\ snap = [o \in Orders |-> [s \in Snaps |-> "none"]]
  /\ everPaid = {}

-----------------------------------------------------------------------------
(* Helpers.                                                                *)

Busy == {r \in Requests : req[r] # Idle}

\* The bound on outbox rows is met when a request starts, never when it ends.
Room == Len(outbox) + Cardinality(Busy) < MaxEvents

Begin(r, state) ==
  /\ Room
  /\ req[r] = Idle
  /\ req' = [req EXCEPT ![r] = state]

End(r) == req' = [req EXCEPT ![r] = Idle]

Free(o) == lock[o] = NoOne

Release(o) == lock' = [lock EXCEPT ![o] = NoOne]

Emit(e) == outbox' = Append(outbox, e)

\* UpdateOrderStatus: the row's current content is overwritten without a look
\* at it; completed_at and cancelled_at are set with the status they go with.
WithStatus(current, status) ==
  [current EXCEPT !.status = status,
                  !.completedAt = @ \/ status = "COMPLETED",
                  !.cancelledAt = @ \/ status = "CANCELLED"]

UpdateStatus(o, status) == row' = [row EXCEPT ![o] = WithStatus(@, status)]

-----------------------------------------------------------------------------
(* Checkout.  The Snap token is created before the transaction; when the   *)
(* transaction fails no row exists and notifications for it find no order. *)

Checkout(o) ==
  /\ o \notin placed
  /\ Room
  /\ placed' = placed \cup {o}
  /\ row' = [row EXCEPT ![o] = NewRow]
  /\ \/ ~MidtransActive /\ snap' = snap
     \/ /\ MidtransActive
        /\ \E s \in Snaps : snap' = [snap EXCEPT ![o][s] = "open"]
  /\ Emit([type |-> "DELETE_CART", order |-> o])
  /\ UNCHANGED <<lock, req, everPaid>>

-----------------------------------------------------------------------------
(* Cancel: the check reads outside the transaction that writes.            *)

CancelRead(r, o) ==
  /\ o \in placed
  /\ row[o].status = "PENDING"
  /\ Begin(r, [op |-> "cancel", order |-> o,
               old |-> row[o].status, new |-> "CANCELLED"])
  /\ UNCHANGED <<placed, row, lock, outbox, snap, everPaid>>

CancelCommit(r) ==
  /\ req[r].op = "cancel"
  /\ Free(req[r].order)
  /\ UpdateStatus(req[r].order, "CANCELLED")
  /\ End(r)
  /\ UNCHANGED <<placed, lock, outbox, snap, everPaid>>

(* Complete: the handler always asks for COMPLETED, and no status is       *)
(* checked.                                                                *)

CompleteRead(r, o, u) ==
  /\ o \in placed
  /\ Owner[o] = u
  /\ Begin(r, [op |-> "complete", order |-> o,
               old |-> row[o].status, new |-> "COMPLETED"])
  /\ UNCHANGED <<placed, row, lock, outbox, snap, everPaid>>

(* UpdateStatusByAdmin: the transition is checked against an unlocked read.*)

\* Mutant: processing starts before payment.
FulfilmentFromPending == [PROCESSING |-> "PENDING", SHIPPED |-> "PROCESSING",
                          DELIVERED |-> "SHIPPED"]

FulfilmentFrom == [PROCESSING |-> "PAID", SHIPPED |-> "PROCESSING",
                   DELIVERED |-> "SHIPPED"]

AdminRead(r, o, next, receipt) ==
  /\ o \in placed
  /\ row[o].status = FulfilmentFrom[next]
  /\ next = "SHIPPED" => receipt
  /\ Begin(r, [op |-> "admin", order |-> o,
               old |-> row[o].status, new |-> next])
  /\ UNCHANGED <<placed, row, lock, outbox, snap, everPaid>>

\* The common end of Complete and UpdateStatusByAdmin: the event carries the
\* status that was read, not the one that is overwritten.
StatusCommit(r) ==
  /\ req[r].op \in {"complete", "admin"}
  /\ Free(req[r].order)
  /\ UpdateStatus(req[r].order, req[r].new)
  /\ Emit([type |-> "ORDER_STATUS_CHANGED", order |-> req[r].order,
           old |-> req[r].old, new |-> req[r].new])
  /\ End(r)
  /\ UNCHANGED <<placed, lock, snap, everPaid>>

-----------------------------------------------------------------------------
(* Payment updates: the row is read FOR UPDATE and stays locked.           *)

\* Mutant: the row is read without FOR UPDATE.
PaymentReadUnlocked(r, o, next) ==
  /\ o \in placed
  /\ Begin(r, [op |-> "payment", order |-> o,
               seen |-> PaymentColumns(row[o]), new |-> next])
  /\ UNCHANGED <<placed, row, lock, outbox, snap, everPaid>>

PaymentRead(r, o, next) ==
  /\ o \in placed
  /\ Free(o)
  /\ lock' = [lock EXCEPT ![o] = r]
  /\ Begin(r, [op |-> "payment", order |-> o,
               seen |-> PaymentColumns(row[o]), new |-> next])
  /\ UNCHANGED <<placed, row, outbox, snap, everPaid>>

AdminPayment(r, o, next) == PaymentRead(r, o, next)

\* Notifications may come late, twice, and from any Snap transaction of the
\* order: the suffix that tells them apart is cut off.
SettlementNotification(r, o) ==
  /\ \E s \in Snaps : snap[o][s] = "settlement"
  /\ PaymentRead(r, o, "PAID")

ExpireNotification(r, o) ==
  /\ \E s \in Snaps : snap[o][s] = "expire"
  /\ PaymentRead(r, o, "REFUNDED")

\* Mutants: a refund is copied into the order status; a reversal leaves it; a
\* reversal resets it whatever it is.
NextOrderStatusCopied(status, next) ==
  CASE next = "PAID" /\ status = "PENDING" -> "PAID"
    [] next = "REFUNDED" -> "REFUNDED"
    [] next = "UNPAID" /\ status = "PAID" -> "PENDING"
    [] OTHER -> status

NextOrderStatusNotReversed(status, next) ==
  CASE next = "PAID" /\ status = "PENDING" -> "PAID"
    [] next = "REFUNDED" /\ status \in {"PENDING", "PAID"} -> "CANCELLED"
    [] OTHER -> status

NextOrderStatusReset(status, next) ==
  CASE next = "PAID" /\ status = "PENDING" -> "PAID"
    [] next = "REFUNDED" /\ status \in {"PENDING", "PAID"} -> "CANCELLED"
    [] next = "UNPAID" -> "PENDING"
    [] OTHER -> status

\* The order status that goes with a payment status, given the one read.
NextOrderStatus(status, next) ==
  CASE next = "PAID" /\ status = "PENDING" -> "PAID"
    [] next = "REFUNDED" /\ status \in {"PENDING", "PAID"} -> "CANCELLED"
    [] next = "UNPAID" /\ status = "PAID" -> "PENDING"
    [] OTHER -> status

\* Mutants: a reversal keeps paid_at; a payment clears cancelled_at.
AfterPaymentKeepsPaidAt(current, seen, next) ==
  [current EXCEPT !.status = NextOrderStatus(seen.status, next),
                  !.payment = next,
                  !.paidAt = next = "PAID" \/ seen.paidAt,
                  !.cancelledAt = next = "REFUNDED" \/ seen.cancelledAt]

AfterPaymentDropsCancelledAt(current, seen, next) ==
  [current EXCEPT !.status = NextOrderStatus(seen.status, next),
                  !.payment = next,
                  !.paidAt = next = "PAID" \/ (next = "REFUNDED" /\ seen.paidAt),
                  !.cancelledAt = next = "REFUNDED"]

AfterPayment(current, seen, next) ==
  [current EXCEPT !.status = NextOrderStatus(seen.status, next),
                  !.payment = next,
                  !.paidAt = next = "PAID" \/ (next = "REFUNDED" /\ seen.paidAt),
                  !.cancelledAt = next = "REFUNDED" \/ seen.cancelledAt]

PaymentCommit(r) ==
  LET o == req[r].order
      seen == req[r].seen
      next == req[r].new
  IN  /\ req[r].op = "payment"
      /\ next \in PaymentStatusTransitions[seen.payment]
      /\ row' = [row EXCEPT ![o] = AfterPayment(@, seen, next)]
      /\ Emit([type |-> "ORDER_PAYMENT_UPDATED", order |-> o,
               old |-> seen.payment, new |-> next])
      /\ everPaid' = IF next = "PAID" THEN everPaid \cup {o} ELSE everPaid
      /\ Release(o)
      /\ End(r)
      /\ UNCHANGED <<placed, snap>>

\* Mutants: the event of a refused update is written; the transaction of a
\* refused update stays open.
PaymentRefusedLogged(r) ==
  /\ req[r].op = "payment"
  /\ req[r].new \notin PaymentStatusTransitions[req[r].seen.payment]
  /\ Emit([type |-> "ORDER_PAYMENT_UPDATED", order |-> req[r].order,
           old |-> req[r].seen.payment, new |-> req[r].new])
  /\ Release(req[r].order)
  /\ End(r)
  /\ UNCHANGED <<placed, row, snap, everPaid>>

PaymentRefusedLeftOpen(r) ==
  /\ req[r].op = "payment"
  /\ req[r].new \notin PaymentStatusTransitions[req[r].seen.payment]
  /\ End(r)
  /\ UNCHANGED <<placed, row, lock, outbox, snap, everPaid>>

\* The same status again commits without a write; a transition the table does
\* not have rolls back.  Either way the lock goes and nothing is written.
PaymentRefused(r) ==
  /\ req[r].op = "payment"
  /\ req[r].new \notin PaymentStatusTransitions[req[r].seen.payment]
  /\ Release(req[r].order)
  /\ End(r)
  /\ UNCHANGED <<placed, row, outbox, snap, everPaid>>

-----------------------------------------------------------------------------
(* ContinuePayment: no transaction; read, call Midtrans, save the token.   *)

ContinueRead(r, o, u) ==
  /\ o \in placed
  /\ Owner[o] = u
  /\ row[o].payment = "UNPAID"
  /\ ~row[o].tokenFresh
  /\ MidtransActive
  /\ Begin(r, [op |-> "continue", order |-> o])
  /\ UNCHANGED <<placed, row, lock, outbox, snap, everPaid>>

ContinueCreate(r) ==
  /\ req[r].op = "continue"
  /\ \E s \in Snaps :
       /\ snap[req[r].order][s] = "none"
       /\ snap' = [snap EXCEPT ![req[r].order][s] = "open"]
  /\ req' = [req EXCEPT ![r].op = "saveToken"]
  /\ UNCHANGED <<placed, row, lock, outbox, everPaid>>

\* Midtrans answers with an error, or with nothing.
ContinueFailed(r) ==
  /\ req[r].op = "continue"
  /\ End(r)
  /\ UNCHANGED <<placed, row, lock, outbox, snap, everPaid>>

ContinueSave(r) ==
  /\ req[r].op = "saveToken"
  /\ Free(req[r].order)
  /\ row' = [row EXCEPT ![req[r].order].tokenFresh = TRUE]
  /\ End(r)
  /\ UNCHANGED <<placed, lock, outbox, snap, everPaid>>

-----------------------------------------------------------------------------
(* Failures and the outside world.                                         *)

\* A database error, a cancelled request context or a crash of the process:
\* the transaction is rolled back, and what Midtrans created stays.
Abort(r) ==
  /\ req[r] # Idle
  /\ lock' = [o \in Orders |-> IF lock[o] = r THEN NoOne ELSE lock[o]]
  /\ End(r)
  /\ UNCHANGED <<placed, row, outbox, snap, everPaid>>

\* snap_token_expired_at passes.
TokenExpires(o) ==
  /\ row[o].tokenFresh
  /\ row' = [row EXCEPT ![o].tokenFresh = FALSE]
  /\ UNCHANGED <<placed, lock, req, outbox, snap, everPaid>>

SnapOutcome(o, s, outcome) ==
  /\ snap[o][s] = "open"
  /\ snap' = [snap EXCEPT ![o][s] = outcome]
  /\ UNCHANGED <<placed, row, lock, req, outbox, everPaid>>

-----------------------------------------------------------------------------

Start(r, o) ==
  \/ CancelRead(r, o)
  \/ \E u \in Customers : CompleteRead(r, o, u) \/ ContinueRead(r, o, u)
  \/ \E next \in {"PROCESSING", "SHIPPED", "DELIVERED"}, receipt \in BOOLEAN :
       AdminRead(r, o, next, receipt)
  \/ \E next \in Payments : AdminPayment(r, o, next)
  \/ SettlementNotification(r, o)
  \/ ExpireNotification(r, o)

Finish(r) ==
  \/ CancelCommit(r)
  \/ StatusCommit(r)
  \/ PaymentCommit(r)
  \/ PaymentRefused(r)
  \/ ContinueCreate(r)
  \/ ContinueFailed(r)
  \/ ContinueSave(r)

Environment ==
  \E o \in Orders :
    \/ TokenExpires(o)
    \/ \E s \in Snaps, outcome \in {"settlement", "expire"} :
         SnapOutcome(o, s, outcome)

Next ==
  \/ \E o \in Orders : Checkout(o)
  \/ \E r \in Requests :
       \/ \E o \in Orders : Start(r, o)
       \/ Finish(r)
       \/ Abort(r)
  \/ Environment

Spec == Init /\ [][Next]_vars

\* The Go scheduler runs every handler on, and PostgreSQL queues the waiters of
\* a row lock, so a handler whose next step is enabled again and again takes
\* it.  Nothing is assumed of clients, failures or Midtrans.
Fairness == \A r \in Requests : SF_vars(Finish(r))

-----------------------------------------------------------------------------
(* Safety.                                                                 *)

\* A payment transaction works on the row as it is: as long as it is open, no
\* other request changes what it read, which is what FOR UPDATE is there for
\* (updatePaymentStatusWithFilter).
PaymentSnapshotIsCurrent ==
  \A r \in Requests : req[r].op = "payment" =>
    /\ lock[req[r].order] = r
    /\ req[r].seen = PaymentColumns(row[req[r].order])

\* The two columns tell one story before fulfilment: an order that still shows
\* PENDING has not been paid, one that shows PAID has, whatever payments,
\* reversals, cancellations and admin updates ran at the same time.
StatusMatchesPayment ==
  \A o \in Orders :
    /\ row[o].status = "PENDING" => row[o].payment = "UNPAID"
    /\ row[o].status = "PAID" => row[o].payment = "PAID"

\* The timestamps agree with the columns they document: paid_at is set exactly
\* while a payment stands, and a refunded or cancelled order, and a completed
\* one, carry the time; no concurrent update loses it.
TimestampsMatch ==
  \A o \in Orders :
    /\ row[o].payment = "PAID" => row[o].paidAt
    /\ row[o].payment = "UNPAID" => ~row[o].paidAt
    /\ row[o].payment = "REFUNDED" => row[o].cancelledAt
    /\ row[o].status = "CANCELLED" => row[o].cancelledAt
    /\ row[o].status = "COMPLETED" => row[o].completedAt

\* Nothing is prepared or shipped for an order nobody ever paid, although the
\* admin's check reads without a lock and its write may come much later.
NoFulfilmentWithoutPayment ==
  \A o \in Orders :
    row[o].status \in {"PROCESSING", "SHIPPED", "DELIVERED"} => o \in everPaid

\* What the requests in flight may write: only orders that exist are written, a
\* cancellation and a completion write their one status, and the admin's status
\* is a fulfilment status of an order that was paid when it was read.
RequestsAreSound ==
  /\ \A o \in Orders \ placed : row[o] = NewRow
  /\ \A r \in Requests :
       /\ req[r] # Idle => req[r].order \in placed
       /\ req[r].op = "cancel" => req[r].new = "CANCELLED"
       /\ req[r].op = "complete" => req[r].new = "COMPLETED"
       /\ req[r].op = "admin" =>
            /\ req[r].new \in {"PROCESSING", "SHIPPED", "DELIVERED"}
            /\ req[r].order \in everPaid

PaidIsRemembered == \A o \in Orders : row[o].payment = "PAID" => o \in everPaid

\* The inductive invariant.
IInv ==
  /\ TypeOK
  /\ PaymentSnapshotIsCurrent
  /\ StatusMatchesPayment
  /\ TimestampsMatch
  /\ NoFulfilmentWithoutPayment
  /\ RequestsAreSound
  /\ PaidIsRemembered

(* What a step may never do.                                               *)

\* The payment status moves only along the transition table; two payment
\* updates at once cannot revive a refunded order.
PaymentMovesByTheTable ==
  [][\A o \in Orders : row'[o].payment # row[o].payment =>
       row'[o].payment \in PaymentStatusTransitions[row[o].payment]]_vars

\* An order that went past payment never shows PENDING or PAID again: a payment
\* update that started before a fulfilment step or a cancellation does not
\* write its old status back over it.
NoWayBackToCheckout ==
  [][\A o \in Orders : row[o].status \notin {"PENDING", "PAID"} =>
       row'[o].status \notin {"PENDING", "PAID"}]_vars

\* The traces of a cancellation and of a completion stay: no update clears
\* cancelled_at or completed_at, a payment update in flight included.
TracesAreKept ==
  [][\A o \in Orders : /\ row[o].cancelledAt => row'[o].cancelledAt
                       /\ row[o].completedAt => row'[o].completedAt]_vars

(* What must happen.                                                       *)

\* Every handler ends, those that wait for a locked row included: each way out
\* of a payment transaction gives the row back.
RequestsEnd == \A r \in Requests : req[r] # Idle ~> req[r] = Idle
=============================================================================
