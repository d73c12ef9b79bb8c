--------------------------- MODULE Orders_proofs ---------------------------
(***************************************************************************)
(* Type correctness and the safety properties of the order service, for    *)
(* any number of orders, requests, Snap transactions and events, and what  *)
(* the review service promises of its orders, for any number of products   *)
(* and reviews.                                                            *)
(***************************************************************************)
EXTENDS OrdersRefinement, Purchases, TLAPS

-----------------------------------------------------------------------------
(* Types.                                                                  *)

\* The operation tag of a request determines the fields it has.
LEMMA RequestTypes ==
  ASSUME NEW x \in RequestState
  PROVE  /\ x.op = "payment" => x \in PaymentRequest
         /\ x.op \in {"cancel", "complete", "admin"} => x \in StatusRequest
         /\ x.op \in {"continue", "saveToken"} => x \in SnapRequest
         /\ x.op = "idle" <=> x = Idle
  BY DEF RequestState, Idle, StatusRequest, PaymentRequest, SnapRequest

LEMMA RowTypes ==
  /\ NewRow \in Row
  /\ \A rw \in Row : PaymentColumns(rw) \in PaymentRow
  /\ \A rw \in Row, seen \in PaymentRow, next \in Payments :
       AfterPayment(rw, seen, next) \in Row
  /\ PaymentStatusTransitions \in [Payments -> SUBSET Payments]
<1>1. \A st \in Statuses, next \in Payments :
        NextOrderStatus(st, next) \in Statuses
  BY DEF NextOrderStatus, Statuses
<1>2. \A rw \in Row, seen \in PaymentRow, next \in Payments :
        AfterPayment(rw, seen, next) \in Row
  BY <1>1 DEF AfterPayment, Row, PaymentRow
<1>3. QED
  BY <1>2 DEF NewRow, Row, PaymentRow, PaymentColumns, Statuses, Payments,
              PaymentStatusTransitions

\* UpdateStatus yields a table of rows again.
LEMMA UpdateStatusType ==
  ASSUME TypeOK, NEW o \in Orders, NEW st \in Statuses, UpdateStatus(o, st)
  PROVE  row' \in [Orders -> Row]
<1>1. WithStatus(row[o], st) \in Row
  BY DEF TypeOK, WithStatus, Row
<1>2. QED
  BY <1>1 DEF TypeOK, UpdateStatus

LEMMA TypeInit == Init => TypeOK
  BY OrdersAssumption, RowTypes
  DEF Init, TypeOK, RequestState

LEMMA TypeNext == TypeOK /\ [Next]_vars => TypeOK'
<1> SUFFICES ASSUME TypeOK, [Next]_vars PROVE TypeOK'
  OBVIOUS
<1> USE DEF TypeOK
<1>0. Idle \in RequestState
  BY DEF RequestState
<1>1. ASSUME NEW o \in Orders, Checkout(o) PROVE TypeOK'
  <2>1. row' \in [Orders -> Row] /\ outbox' \in Seq(Event)
    BY <1>1, RowTypes DEF Checkout, Emit, Event
  <2>2. snap' \in [Orders -> [Snaps -> {"none", "open", "settlement", "expire"}]]
    <3>1. CASE snap' = snap
      BY <3>1
    <3>2. ASSUME NEW s \in Snaps, snap' = [snap EXCEPT ![o][s] = "open"]
          PROVE  snap' \in [Orders -> [Snaps -> {"none", "open", "settlement", "expire"}]]
      BY <3>2
    <3>3. QED
      BY <1>1, <3>1, <3>2 DEF Checkout
  <2>3. QED
    BY <1>1, <2>1, <2>2 DEF Checkout
<1>2. ASSUME NEW r \in Requests, NEW o \in Orders, CancelRead(r, o)
      PROVE TypeOK'
  BY <1>2 DEF CancelRead, Begin, RequestState, StatusRequest, Statuses, Row
<1>3. ASSUME NEW r \in Requests, NEW o \in Orders, NEW u \in Customers,
             CompleteRead(r, o, u)
      PROVE TypeOK'
  BY <1>3 DEF CompleteRead, Begin, RequestState, StatusRequest, Statuses, Row
<1>4. ASSUME NEW r \in Requests, NEW o \in Orders, NEW u \in Customers,
             ContinueRead(r, o, u)
      PROVE TypeOK'
  BY <1>4 DEF ContinueRead, Begin, RequestState, SnapRequest
<1>5. ASSUME NEW r \in Requests, NEW o \in Orders, NEW receipt \in BOOLEAN,
             NEW next \in {"PROCESSING", "SHIPPED", "DELIVERED"},
             AdminRead(r, o, next, receipt)
      PROVE TypeOK'
  BY <1>5 DEF AdminRead, Begin, RequestState, StatusRequest, Statuses, Row
<1>6. ASSUME NEW r \in Requests, NEW o \in Orders, NEW next \in Payments,
             PaymentRead(r, o, next)
      PROVE TypeOK'
  BY <1>6, RowTypes DEF PaymentRead, Begin, RequestState, PaymentRequest
<1>7. ASSUME NEW r \in Requests, CancelCommit(r) PROVE TypeOK'
  BY <1>7, <1>0, RequestTypes, UpdateStatusType
  DEF CancelCommit, End, StatusRequest, Statuses
<1>8. ASSUME NEW r \in Requests, StatusCommit(r) PROVE TypeOK'
  BY <1>8, <1>0, RequestTypes, UpdateStatusType
  DEF StatusCommit, End, Emit, StatusRequest, Event
<1>9. ASSUME NEW r \in Requests, PaymentCommit(r) PROVE TypeOK'
  <2>1. req[r] \in PaymentRequest
    BY <1>9, RequestTypes DEF PaymentCommit
  <2>2. row' \in [Orders -> Row]
    BY <1>9, <2>1, RowTypes DEF PaymentCommit, PaymentRequest
  <2>3. outbox' \in Seq(Event)
    BY <1>9, <2>1 DEF PaymentCommit, PaymentRequest, PaymentRow, Emit, Event
  <2>4. QED
    BY <1>9, <1>0, <2>1, <2>2, <2>3
    DEF PaymentCommit, PaymentRequest, Release, End
<1>10. ASSUME NEW r \in Requests, PaymentRefused(r) PROVE TypeOK'
  BY <1>10, <1>0, RequestTypes DEF PaymentRefused, PaymentRequest, Release, End
<1>11. ASSUME NEW r \in Requests, ContinueCreate(r) PROVE TypeOK'
  <2>1. req[r] \in SnapRequest
    BY <1>11, RequestTypes DEF ContinueCreate
  <2>2. [req[r] EXCEPT !.op = "saveToken"] \in RequestState
    BY <2>1 DEF SnapRequest, RequestState
  <2>3. snap' \in [Orders -> [Snaps -> {"none", "open", "settlement", "expire"}]]
    BY <1>11, <2>1 DEF ContinueCreate, SnapRequest
  <2>4. QED
    BY <1>11, <2>2, <2>3 DEF ContinueCreate
<1>12. ASSUME NEW r \in Requests, ContinueFailed(r) \/ ContinueSave(r)
       PROVE TypeOK'
  <2>1. CASE ContinueFailed(r)
    BY <2>1, <1>0 DEF ContinueFailed, End
  <2>2. CASE ContinueSave(r)
    <3>1. req[r].order \in Orders
      BY <2>2, RequestTypes DEF ContinueSave, SnapRequest
    <3>2. \A rw \in Row : [rw EXCEPT !.tokenFresh = TRUE] \in Row
      BY DEF Row
    <3>3. QED
      BY <2>2, <3>1, <3>2, <1>0 DEF ContinueSave, End
  <2>3. QED
    BY <1>12, <2>1, <2>2
<1>13. ASSUME NEW r \in Requests, Abort(r) PROVE TypeOK'
  BY <1>13, <1>0 DEF Abort, End
<1>14. CASE Environment
  <2>1. ASSUME NEW o \in Orders, TokenExpires(o) PROVE TypeOK'
    <3>1. [row[o] EXCEPT !.tokenFresh = FALSE] \in Row
      BY DEF Row
    <3>2. QED
      BY <2>1, <3>1 DEF TokenExpires
  <2>2. ASSUME NEW o \in Orders, NEW s \in Snaps,
               NEW outcome \in {"settlement", "expire"},
               SnapOutcome(o, s, outcome)
        PROVE  TypeOK'
    BY <2>2 DEF SnapOutcome
  <2>3. QED
    BY <1>14, <2>1, <2>2 DEF Environment
<1>15. CASE UNCHANGED vars
  BY <1>15 DEF vars
<1>16. QED
  BY <1>1, <1>2, <1>3, <1>4, <1>5, <1>6, <1>7, <1>8, <1>9, <1>10, <1>11,
     <1>12, <1>13, <1>14, <1>15
  DEF Next, Start, Finish, AdminPayment, SettlementNotification,
      ExpireNotification, Payments

\* The variables keep their types: rows hold only known statuses, requests only
\* the fields of their operation, the outbox only well-formed events.
THEOREM TypeCorrect == Spec => []TypeOK
  BY TypeInit, TypeNext, PTL DEF Spec

-----------------------------------------------------------------------------
(* The inductive invariant.                                                *)

\* What a row looks like whatever the requests do: the part of the invariant
\* that speaks of one row at a time.
RowInv(rw, o, paid) ==
  /\ rw.status = "PENDING" => rw.payment = "UNPAID"
  /\ rw.status = "PAID" => rw.payment = "PAID"
  /\ rw.payment = "PAID" => rw.paidAt
  /\ rw.payment = "UNPAID" => ~rw.paidAt
  /\ rw.payment = "REFUNDED" => rw.cancelledAt
  /\ rw.status = "CANCELLED" => rw.cancelledAt
  /\ rw.status = "COMPLETED" => rw.completedAt
  /\ rw.status \in {"PROCESSING", "SHIPPED", "DELIVERED"} => o \in paid
  /\ rw.payment = "PAID" => o \in paid

RowsInv == \A o \in Orders : RowInv(row[o], o, everPaid)

LEMMA IInvByRows ==
  IInv <=> TypeOK /\ RowsInv /\ PaymentSnapshotIsCurrent /\ RequestsAreSound
  BY DEF IInv, RowsInv, RowInv, StatusMatchesPayment, TimestampsMatch,
         NoFulfilmentWithoutPayment, PaidIsRemembered

\* A status write keeps a row consistent unless it writes PENDING or PAID; a
\* fulfilment status needs the order to have been paid once.
LEMMA StatusWriteKeepsRow ==
  ASSUME NEW rw \in Row, NEW o, NEW paid, RowInv(rw, o, paid),
         NEW st \in {"CANCELLED", "COMPLETED", "PROCESSING", "SHIPPED", "DELIVERED"},
         st \in {"PROCESSING", "SHIPPED", "DELIVERED"} => o \in paid
  PROVE  RowInv(WithStatus(rw, st), o, paid)
  BY DEF RowInv, WithStatus, Row

\* A payment write keeps a row consistent if it is computed from that row.
LEMMA PaymentWriteKeepsRow ==
  ASSUME NEW rw \in Row, NEW o, NEW paid, RowInv(rw, o, paid),
         NEW next \in Payments,
         next \in PaymentStatusTransitions[rw.payment]
  PROVE  RowInv(AfterPayment(rw, PaymentColumns(rw), next),
                o, IF next = "PAID" THEN paid \cup {o} ELSE paid)
  BY DEF RowInv, AfterPayment, PaymentColumns, NextOrderStatus, Row, Payments,
         Statuses, PaymentStatusTransitions

LEMMA IInvInit == Init => IInv
<1> SUFFICES ASSUME Init PROVE IInv
  OBVIOUS
<1>1. TypeOK
  BY TypeInit
<1>2. RowsInv
  BY DEF Init, RowsInv, RowInv, NewRow
<1>3. PaymentSnapshotIsCurrent /\ RequestsAreSound
  BY DEF Init, PaymentSnapshotIsCurrent, RequestsAreSound, Idle
<1>4. QED
  BY <1>1, <1>2, <1>3, IInvByRows

LEMMA IInvNext == IInv /\ [Next]_vars => IInv'
<1> SUFFICES ASSUME IInv, [Next]_vars
             PROVE  RowsInv' /\ PaymentSnapshotIsCurrent' /\ RequestsAreSound'
  BY TypeNext, IInvByRows DEF IInv, RowsInv, RowInv, StatusMatchesPayment,
     TimestampsMatch, NoFulfilmentWithoutPayment, PaidIsRemembered
<1> DEFINE Goal == RowsInv /\ PaymentSnapshotIsCurrent /\ RequestsAreSound
<1>0. TypeOK /\ Goal
  BY IInvByRows
<1> USE <1>0
<1>a. Goal' = (RowsInv' /\ PaymentSnapshotIsCurrent' /\ RequestsAreSound')
  OBVIOUS
<1> HIDE DEF Goal
<1>1. ASSUME NEW o \in Orders, Checkout(o) PROVE Goal'
  <2>1. RowsInv'
    BY <1>1, RowTypes DEF Goal, Checkout, RowsInv, RowInv, NewRow, TypeOK
  <2>2. PaymentSnapshotIsCurrent'
    BY <1>1 DEF Goal, Checkout, PaymentSnapshotIsCurrent, RequestsAreSound, TypeOK,
       Idle
  <2>3. RequestsAreSound'
    BY <1>1 DEF Goal, Checkout, RequestsAreSound, TypeOK
  <2>4. QED
    BY <2>1, <2>2, <2>3 DEF Goal
<1>2. ASSUME NEW r \in Requests, NEW o \in Orders, CancelRead(r, o)
      PROVE  Goal'
  BY <1>2 DEF Goal, CancelRead, Begin, Idle, RowsInv, PaymentSnapshotIsCurrent,
     RequestsAreSound, TypeOK
<1>3. ASSUME NEW r \in Requests, NEW o \in Orders, NEW u \in Customers,
             CompleteRead(r, o, u)
      PROVE  Goal'
  BY <1>3 DEF Goal, CompleteRead, Begin, Idle, RowsInv, PaymentSnapshotIsCurrent,
     RequestsAreSound, TypeOK
<1>4. ASSUME NEW r \in Requests, NEW o \in Orders, NEW u \in Customers,
             ContinueRead(r, o, u)
      PROVE  Goal'
  BY <1>4 DEF Goal, ContinueRead, Begin, Idle, RowsInv, PaymentSnapshotIsCurrent,
     RequestsAreSound, TypeOK
<1>5. ASSUME NEW r \in Requests, NEW o \in Orders, NEW receipt \in BOOLEAN,
             NEW next \in {"PROCESSING", "SHIPPED", "DELIVERED"},
             AdminRead(r, o, next, receipt)
      PROVE  Goal'
  <2>1. o \in everPaid
    BY <1>5 DEF Goal, AdminRead, FulfilmentFrom, RowsInv, RowInv
  <2>2. QED
    BY <1>5, <2>1 DEF Goal, AdminRead, Begin, Idle, RowsInv,
       PaymentSnapshotIsCurrent, RequestsAreSound, TypeOK
<1>6. ASSUME NEW r \in Requests, NEW o \in Orders, NEW next \in Payments,
             PaymentRead(r, o, next)
      PROVE  Goal'
  <2>1. RowsInv' /\ RequestsAreSound'
    BY <1>6 DEF Goal, PaymentRead, Begin, Idle, RowsInv, RequestsAreSound, TypeOK
  <2>2. PaymentSnapshotIsCurrent'
    BY <1>6, OrdersAssumption DEF Goal, PaymentRead, Free, Begin, Idle,
       PaymentSnapshotIsCurrent, TypeOK
  <2>3. QED
    BY <2>1, <2>2 DEF Goal
<1>7. ASSUME NEW r \in Requests, NEW st, req[r] \in StatusRequest,
             st = req[r].new, UpdateStatus(req[r].order, st),
             Free(req[r].order), End(r), UNCHANGED <<placed, lock, everPaid>>
      PROVE  Goal'
  <2>1. /\ req[r].order \in Orders /\ req[r].order \in placed
        /\ st \in {"CANCELLED", "COMPLETED", "PROCESSING", "SHIPPED", "DELIVERED"}
        /\ st \in {"PROCESSING", "SHIPPED", "DELIVERED"} =>
             req[r].order \in everPaid
    BY <1>7 DEF Goal, StatusRequest, RequestsAreSound, Idle
  <2>2. row' = [row EXCEPT ![req[r].order] = WithStatus(@, st)]
    BY <1>7 DEF UpdateStatus
  <2>3. RowsInv'
    <3>1. RowInv(row'[req[r].order], req[r].order, everPaid)
      BY <1>7, <2>1, <2>2, StatusWriteKeepsRow DEF Goal, RowsInv, TypeOK
    <3>2. ASSUME NEW p \in Orders, p # req[r].order
          PROVE  row'[p] = row[p]
      BY <2>1, <2>2, <3>2 DEF TypeOK
    <3>3. QED
      BY <1>7, <3>1, <3>2 DEF Goal, RowsInv
  <2>4. PaymentSnapshotIsCurrent'
    BY <1>7, <2>1, <2>2, OrdersAssumption
    DEF Goal, PaymentSnapshotIsCurrent, Free, End, Idle, TypeOK
  <2>5. RequestsAreSound'
    BY <1>7, <2>1, <2>2 DEF Goal, RequestsAreSound, End, Idle, TypeOK
  <2>6. QED
    BY <2>3, <2>4, <2>5 DEF Goal
<1>8. ASSUME NEW r \in Requests, CancelCommit(r) \/ StatusCommit(r) PROVE Goal'
  <2>1. CASE CancelCommit(r)
    BY <2>1, <1>7, RequestTypes
    DEF CancelCommit, Goal, RequestsAreSound, TypeOK
  <2>2. CASE StatusCommit(r)
    BY <2>2, <1>7, RequestTypes DEF StatusCommit, TypeOK
  <2>3. QED
    BY <1>8, <2>1, <2>2
<1>9. ASSUME NEW r \in Requests, PaymentCommit(r) PROVE Goal'
  <2> DEFINE o == req[r].order
             next == req[r].new
  <2>1. /\ req[r] \in PaymentRequest /\ o \in Orders /\ next \in Payments
        /\ o \in placed
    BY <1>9, RequestTypes DEF PaymentCommit, PaymentRequest, TypeOK, Goal,
       RequestsAreSound, Idle
  <2>2. lock[o] = r /\ req[r].seen = PaymentColumns(row[o])
    BY <1>9 DEF PaymentCommit, Goal, PaymentSnapshotIsCurrent
  <2>3. /\ next \in PaymentStatusTransitions[row[o].payment]
        /\ row' = [row EXCEPT ![o] = AfterPayment(@, PaymentColumns(row[o]), next)]
        /\ everPaid' = IF next = "PAID" THEN everPaid \cup {o} ELSE everPaid
    BY <1>9, <2>2 DEF PaymentCommit, PaymentColumns
  <2>4. RowsInv'
    <3>1. RowInv(row'[o], o, everPaid')
      BY <2>1, <2>3, PaymentWriteKeepsRow DEF Goal, RowsInv, TypeOK
    <3>2. ASSUME NEW p \in Orders, p # o PROVE RowInv(row'[p], p, everPaid')
      BY <2>1, <2>3, <3>2 DEF Goal, RowsInv, RowInv, TypeOK
    <3>3. QED
      BY <3>1, <3>2 DEF RowsInv
  <2>5. PaymentSnapshotIsCurrent'
    BY <1>9, <2>1, <2>2, <2>3 DEF Goal, PaymentCommit, PaymentSnapshotIsCurrent,
       Release, End, Idle, TypeOK
  <2>6. RequestsAreSound'
    BY <1>9, <2>1, <2>3 DEF Goal, PaymentCommit, RequestsAreSound, End, Idle,
       TypeOK
  <2>7. QED
    BY <2>4, <2>5, <2>6 DEF Goal
<1>10. ASSUME NEW r \in Requests, PaymentRefused(r) PROVE Goal'
  <2>1. RowsInv' /\ RequestsAreSound'
    BY <1>10 DEF Goal, PaymentRefused, End, Idle, RowsInv, RequestsAreSound, TypeOK
  <2>2. PaymentSnapshotIsCurrent'
    BY <1>10, RequestTypes DEF Goal, PaymentRefused, Release, End, Idle,
       PaymentSnapshotIsCurrent, TypeOK
  <2>3. QED
    BY <2>1, <2>2 DEF Goal
<1>11. ASSUME NEW r \in Requests, ContinueCreate(r) PROVE Goal'
  <2>1. req[r] \in SnapRequest
    BY <1>11, RequestTypes DEF ContinueCreate, TypeOK
  <2>2. QED
    BY <1>11, <2>1 DEF Goal, ContinueCreate, SnapRequest, Idle, RowsInv,
       PaymentSnapshotIsCurrent, RequestsAreSound, TypeOK
<1>12. ASSUME NEW r \in Requests, ContinueFailed(r) PROVE Goal'
  BY <1>12 DEF Goal, ContinueFailed, End, Idle, RowsInv,
     PaymentSnapshotIsCurrent, RequestsAreSound, TypeOK
<1>13. ASSUME NEW o \in placed, NEW fresh \in BOOLEAN,
              row' = [row EXCEPT ![o].tokenFresh = fresh],
              UNCHANGED <<placed, lock, everPaid>>,
              UNCHANGED req \/ \E r \in Requests : End(r)
       PROVE  Goal'
  <2>0. o \in Orders
    BY DEF TypeOK
  <2>1. \A p \in Orders :
          /\ PaymentColumns(row'[p]) = PaymentColumns(row[p])
          /\ row'[p].status = row[p].status /\ row'[p].payment = row[p].payment
          /\ row'[p].paidAt = row[p].paidAt
          /\ row'[p].cancelledAt = row[p].cancelledAt
          /\ row'[p].completedAt = row[p].completedAt
          /\ p # o => row'[p] = row[p]
    BY <1>13, <2>0 DEF TypeOK, Row, PaymentColumns
  <2>2. RowsInv'
    BY <1>13, <2>1 DEF Goal, RowsInv, RowInv
  <2>3. PaymentSnapshotIsCurrent'
    <3>1. \A q \in Requests : req'[q] = req[q] \/ req'[q] = Idle
      BY <1>13 DEF End, TypeOK
    <3>2. \A q \in Requests : req[q].op = "payment" => req[q].order \in Orders
      BY RequestTypes DEF TypeOK, PaymentRequest
    <3>3. QED
      BY <1>13, <2>1, <3>1, <3>2 DEF Goal, PaymentSnapshotIsCurrent, Idle
  <2>4. RequestsAreSound'
    <3>1. \A q \in Requests : req'[q] = req[q] \/ req'[q] = Idle
      BY <1>13 DEF End, TypeOK
    <3>2. QED
      BY <1>13, <2>1, <3>1 DEF Goal, RequestsAreSound, Idle
  <2>5. QED
    BY <2>2, <2>3, <2>4 DEF Goal
<1>14. ASSUME NEW r \in Requests, ContinueSave(r) PROVE Goal'
  <2>1. req[r].order \in placed
    BY <1>14 DEF ContinueSave, Goal, RequestsAreSound, Idle
  <2>2. QED
    BY <1>14, <2>1, <1>13 DEF ContinueSave
<1>15. ASSUME NEW o \in Orders, TokenExpires(o) PROVE Goal'
  <2>1. o \in placed
    BY <1>15 DEF TokenExpires, Goal, RequestsAreSound, NewRow
  <2>2. QED
    BY <1>15, <2>1, <1>13 DEF TokenExpires
<1>16. ASSUME NEW r \in Requests, Abort(r) PROVE Goal'
  <2>1. RowsInv' /\ RequestsAreSound'
    BY <1>16 DEF Goal, Abort, End, Idle, RowsInv, RequestsAreSound, TypeOK
  <2>2. PaymentSnapshotIsCurrent'
    BY <1>16, RequestTypes DEF Goal, Abort, End, Idle, PaymentSnapshotIsCurrent,
       TypeOK, PaymentRequest
  <2>3. QED
    BY <2>1, <2>2 DEF Goal
<1>17. ASSUME NEW o \in Orders, NEW s \in Snaps, NEW outcome,
              SnapOutcome(o, s, outcome)
       PROVE  Goal'
  BY <1>17 DEF Goal, SnapOutcome, RowsInv, PaymentSnapshotIsCurrent,
     RequestsAreSound
<1>18. ASSUME UNCHANGED vars PROVE Goal'
  BY <1>18 DEF Goal, vars, RowsInv, PaymentSnapshotIsCurrent, RequestsAreSound
<1>19. QED
  <2>1. ASSUME NEW r \in Requests, NEW o \in Orders, Start(r, o) PROVE Goal'
    BY <2>1, <1>2, <1>3, <1>4, <1>5, <1>6
    DEF Start, AdminPayment, SettlementNotification, ExpireNotification, Payments
  <2>2. ASSUME NEW r \in Requests, Finish(r) PROVE Goal'
    BY <2>2, <1>8, <1>9, <1>10, <1>11, <1>12, <1>14 DEF Finish
  <2>3. ASSUME Environment PROVE Goal'
    BY <2>3, <1>15, <1>17 DEF Environment
  <2>4. Goal'
    BY <2>1, <2>2, <2>3, <1>1, <1>16, <1>18 DEF Next
  <2>5. QED
    BY <2>4, <1>a

LEMMA Invariance == Spec => []IInv
  BY IInvInit, IInvNext, PTL DEF Spec

\* FOR UPDATE does what it is there for: what an open payment transaction has read is the
\* row as it stands (updatePaymentStatusWithFilter).
THEOREM PaymentSnapshots == Spec => []PaymentSnapshotIsCurrent
  BY Invariance, PTL DEF IInv

\* PENDING orders are unpaid and PAID orders are paid, for any number of
\* concurrent payments, cancellations and admin updates.
THEOREM StatusAndPayment == Spec => []StatusMatchesPayment
  BY Invariance, PTL DEF IInv

\* The paid, cancelled and completed times agree with the statuses.
THEOREM Timestamps == Spec => []TimestampsMatch
  BY Invariance, PTL DEF IInv

\* No order is in fulfilment that was never paid.
THEOREM FulfilmentIsPaid == Spec => []NoFulfilmentWithoutPayment
  BY Invariance, PTL DEF IInv

-----------------------------------------------------------------------------
(* What one step does to the orders and to the outbox.                     *)

SameColumns(a, b) ==
  /\ a.status = b.status
  /\ a.payment = b.payment
  /\ a.cancelledAt = b.cancelledAt
  /\ a.completedAt = b.completedAt

OutboxQuiet == outbox' = outbox \/ \E e \in OtherEvents : outbox' = Append(outbox, e)

RowsUntouched == \A o \in Orders : SameColumns(row[o], row'[o])

StatusWritten ==
  \E o \in Orders,
     st \in {"CANCELLED", "COMPLETED", "PROCESSING", "SHIPPED", "DELIVERED"} :
       row' = [row EXCEPT ![o] = WithStatus(@, st)]

PaymentMoved ==
  \E o \in Orders : \E next \in PaymentStatusTransitions[row[o].payment] :
    /\ row' = [row EXCEPT ![o] = AfterPayment(@, PaymentColumns(row[o]), next)]
    /\ outbox' = Append(outbox, [type |-> "ORDER_PAYMENT_UPDATED", order |-> o,
                                 old |-> row[o].payment, new |-> next])

\* A status write changes no payment status and clears no trace.
LEMMA WithStatusFields ==
  ASSUME NEW rw \in Row, NEW st \in Statuses
  PROVE  /\ WithStatus(rw, st).payment = rw.payment
         /\ WithStatus(rw, st).status = st
         /\ rw.cancelledAt => WithStatus(rw, st).cancelledAt
         /\ rw.completedAt => WithStatus(rw, st).completedAt
  BY DEF WithStatus, Row

LEMMA StatusWriteKeepsPayment ==
  ASSUME TypeOK, StatusWritten
  PROVE  \A o \in Orders : row'[o].payment = row[o].payment
  BY WithStatusFields DEF TypeOK, StatusWritten, Statuses

LEMMA StepEffect ==
  ASSUME IInv, [Next]_vars
  PROVE  \/ OutboxQuiet /\ (RowsUntouched \/ StatusWritten)
         \/ PaymentMoved
<1> DEFINE Goal == (OutboxQuiet /\ (RowsUntouched \/ StatusWritten)) \/ PaymentMoved
<1>0. TypeOK /\ PaymentSnapshotIsCurrent /\ RequestsAreSound
  BY DEF IInv
<1> USE <1>0
<1>1. ASSUME UNCHANGED <<row, outbox>> PROVE Goal
  BY <1>1 DEF OutboxQuiet, RowsUntouched, SameColumns
<1>2. ASSUME NEW o \in Orders, Checkout(o) PROVE Goal
  <2>1. RowsUntouched
    BY <1>2 DEF Checkout, RowsUntouched, SameColumns, RequestsAreSound, TypeOK
  <2>2. OutboxQuiet
    BY <1>2 DEF Checkout, Emit, OutboxQuiet, OtherEvents, Event
  <2>3. QED
    BY <2>1, <2>2
<1>3. ASSUME NEW r \in Requests, CancelCommit(r) PROVE Goal
  <2>1. req[r] \in StatusRequest
    BY <1>3, RequestTypes DEF CancelCommit, TypeOK
  <2>2. StatusWritten
    BY <1>3, <2>1 DEF CancelCommit, StatusWritten, StatusRequest, UpdateStatus
  <2>3. QED
    BY <1>3, <2>2 DEF CancelCommit, OutboxQuiet
<1>4. ASSUME NEW r \in Requests, StatusCommit(r) PROVE Goal
  <2>1. req[r] \in StatusRequest
    BY <1>4, RequestTypes DEF StatusCommit, TypeOK
  <2>2. StatusWritten
    BY <1>4, <2>1 DEF StatusCommit, StatusWritten, StatusRequest, UpdateStatus,
       RequestsAreSound
  <2>3. OutboxQuiet
    BY <1>4, <2>1 DEF StatusCommit, Emit, OutboxQuiet, OtherEvents, Event,
       StatusRequest
  <2>4. QED
    BY <2>2, <2>3
<1>5. ASSUME NEW r \in Requests, PaymentCommit(r) PROVE Goal
  <2>1. req[r] \in PaymentRequest
    BY <1>5, RequestTypes DEF PaymentCommit, TypeOK
  <2>2. req[r].seen = PaymentColumns(row[req[r].order])
    BY <1>5 DEF PaymentCommit, PaymentSnapshotIsCurrent
  <2> DEFINE o == req[r].order
             next == req[r].new
  <2>3. PaymentMoved
    <3>1. o \in Orders /\ req[r].seen.payment = row[o].payment
      BY <2>1, <2>2 DEF PaymentRequest, PaymentColumns
    <3>2. /\ next \in PaymentStatusTransitions[row[o].payment]
          /\ row' = [row EXCEPT ![o] = AfterPayment(@, PaymentColumns(row[o]), next)]
          /\ outbox' = Append(outbox, [type |-> "ORDER_PAYMENT_UPDATED", order |-> o,
                                       old |-> row[o].payment, new |-> next])
      BY <1>5, <2>2, <3>1 DEF PaymentCommit, Emit
    <3>3. QED
      BY <3>1, <3>2 DEF PaymentMoved
  <2>4. QED
    BY <2>3
<1>6. ASSUME NEW o \in Orders, NEW fresh \in BOOLEAN,
             row' = [row EXCEPT ![o].tokenFresh = fresh], outbox' = outbox
      PROVE  Goal
  BY <1>6 DEF OutboxQuiet, RowsUntouched, SameColumns, TypeOK, Row
<1>7. ASSUME NEW r \in Requests, ContinueSave(r) PROVE Goal
  <2>1. req[r].order \in Orders
    BY <1>7, RequestTypes DEF ContinueSave, SnapRequest, TypeOK
  <2>2. QED
    BY <1>7, <2>1, <1>6 DEF ContinueSave
<1>8. ASSUME NEW o \in Orders, TokenExpires(o) PROVE Goal
  BY <1>8, <1>6 DEF TokenExpires
<1>9. Goal
  <2>1. ASSUME NEW r \in Requests, NEW o \in Orders, Start(r, o) PROVE Goal
    BY <2>1, <1>1
    DEF Start, CancelRead, CompleteRead, ContinueRead, AdminRead, PaymentRead,
        AdminPayment, SettlementNotification, ExpireNotification
  <2>2. ASSUME NEW r \in Requests, Finish(r) PROVE Goal
    BY <2>2, <1>1, <1>3, <1>4, <1>5, <1>7
    DEF Finish, PaymentRefused, ContinueCreate, ContinueFailed
  <2>3. ASSUME Environment PROVE Goal
    BY <2>3, <1>1, <1>8 DEF Environment, SnapOutcome
  <2>4. QED
    BY <2>1, <2>2, <2>3, <1>1, <1>2 DEF Next, Abort, vars
<1>10. QED
  BY <1>9

-----------------------------------------------------------------------------
(* What a step may never do.                                               *)

\* The payment status follows the transition table in every step: a refund is
\* final even when a settlement arrives at the same moment.
THEOREM PaymentTable == Spec => PaymentMovesByTheTable
<1>1. IInv /\ [Next]_vars =>
        [\A o \in Orders : row'[o].payment # row[o].payment =>
           row'[o].payment \in PaymentStatusTransitions[row[o].payment]]_vars
  <2> SUFFICES ASSUME IInv, [Next]_vars, NEW o \in Orders,
                      row'[o].payment # row[o].payment
               PROVE  row'[o].payment \in PaymentStatusTransitions[row[o].payment]
    OBVIOUS
  <2>1. ~RowsUntouched
    BY DEF RowsUntouched, SameColumns
  <2>2. ~StatusWritten
    BY StatusWriteKeepsPayment DEF IInv
  <2>3. PaymentMoved
    BY <2>1, <2>2, StepEffect
  <2>4. QED
    BY <2>3 DEF PaymentMoved, AfterPayment, IInv, TypeOK, Row
<1>2. QED
  BY <1>1, Invariance, PTL DEF Spec, PaymentMovesByTheTable

\* No late payment update writes PENDING or PAID over an order that went on to
\* fulfilment or was cancelled.
THEOREM PastCheckout == Spec => NoWayBackToCheckout
<1>1. IInv /\ [Next]_vars =>
        [\A o \in Orders : row[o].status \notin {"PENDING", "PAID"} =>
           row'[o].status \notin {"PENDING", "PAID"}]_vars
  <2> SUFFICES ASSUME IInv, [Next]_vars, NEW o \in Orders,
                      row[o].status \notin {"PENDING", "PAID"}
               PROVE  row'[o].status \notin {"PENDING", "PAID"}
    OBVIOUS
  <2>1. CASE RowsUntouched
    BY <2>1 DEF RowsUntouched, SameColumns
  <2>2. CASE StatusWritten
    BY <2>2 DEF StatusWritten, WithStatus, IInv, TypeOK, Row
  <2>3. CASE PaymentMoved
    BY <2>3 DEF PaymentMoved, AfterPayment, PaymentColumns, NextOrderStatus,
       IInv, TypeOK, Row
  <2>4. QED
    BY <2>1, <2>2, <2>3, StepEffect
<1>2. QED
  BY <1>1, Invariance, PTL DEF Spec, NoWayBackToCheckout

\* cancelled_at and completed_at, once set, stay set.
THEOREM Traces == Spec => TracesAreKept
<1>1. IInv /\ [Next]_vars =>
        [\A o \in Orders : /\ row[o].cancelledAt => row'[o].cancelledAt
                           /\ row[o].completedAt => row'[o].completedAt]_vars
  <2> SUFFICES ASSUME IInv, [Next]_vars, NEW o \in Orders
               PROVE  /\ row[o].cancelledAt => row'[o].cancelledAt
                      /\ row[o].completedAt => row'[o].completedAt
    OBVIOUS
  <2>1. CASE RowsUntouched
    BY <2>1 DEF RowsUntouched, SameColumns
  <2>2. CASE StatusWritten
    BY <2>2 DEF StatusWritten, WithStatus, IInv, TypeOK, Row
  <2>3. CASE PaymentMoved
    BY <2>3 DEF PaymentMoved, AfterPayment, PaymentColumns, IInv, TypeOK, Row
  <2>4. QED
    BY <2>1, <2>2, <2>3, StepEffect
<1>2. QED
  BY <1>1, Invariance, PTL DEF Spec, TracesAreKept

-----------------------------------------------------------------------------
(* The order service implements the payment ledger.                        *)

\* Every behaviour of the order service is one of the ledger: payment moves follow
\* the table and reach the outbox in the same commit, with their true endpoints.
THEOREM Refinement == Spec => ImplementsPaymentLedger
<1>1. Init => Ledger!Init
  BY DEF Init, Ledger!Init, NewRow
<1>2. IInv /\ [Next]_vars => [Ledger!Next]_(Ledger!ledgerVars)
  <2> SUFFICES ASSUME IInv, [Next]_vars
               PROVE  [Ledger!Next]_(Ledger!ledgerVars)
    OBVIOUS
  <2> DEFINE payment == [o \in Orders |-> row[o].payment]
  <2>1. CASE OutboxQuiet /\ (RowsUntouched \/ StatusWritten)
    <3>1. payment' = payment
      BY <2>1, StatusWriteKeepsPayment DEF RowsUntouched, SameColumns, IInv
    <3>2. QED
      BY <2>1, <3>1 DEF OutboxQuiet, Ledger!Next, Ledger!Note, Ledger!ledgerVars
  <2>2. CASE PaymentMoved
    <3>0. PICK o \in Orders :
            \E next \in PaymentStatusTransitions[row[o].payment] :
              /\ row' = [row EXCEPT ![o] = AfterPayment(@, PaymentColumns(row[o]), next)]
              /\ outbox' = Append(outbox, [type |-> "ORDER_PAYMENT_UPDATED",
                                           order |-> o, old |-> row[o].payment,
                                           new |-> next])
      BY <2>2 DEF PaymentMoved
    <3>1. PICK next \in PaymentStatusTransitions[row[o].payment] :
            /\ row' = [row EXCEPT ![o] = AfterPayment(@, PaymentColumns(row[o]), next)]
            /\ outbox' = Append(outbox, [type |-> "ORDER_PAYMENT_UPDATED",
                                         order |-> o, old |-> row[o].payment,
                                         new |-> next])
      BY <3>0
    <3>2. next \in Payments
      BY RowTypes DEF IInv, TypeOK, Row
    <3>3. payment' = [payment EXCEPT ![o] = next]
      BY <3>1 DEF AfterPayment, IInv, TypeOK, Row
    <3>4. Ledger!Move(o, next)
      BY <3>1, <3>3 DEF Ledger!Move
    <3>5. QED
      BY <3>2, <3>4 DEF Ledger!Next
  <2>3. QED
    BY <2>1, <2>2, StepEffect
<1>3. QED
  BY <1>1, <1>2, Invariance, PTL DEF Spec, ImplementsPaymentLedger, Ledger!Spec

-----------------------------------------------------------------------------
(* What the order service does to the orders that reviews name.            *)

LEMMA PlacedStays ==
  ASSUME IInv, [Next]_vars
  PROVE  placed \subseteq placed'
<1>1. ASSUME NEW r \in Requests, NEW o \in Orders, Start(r, o) PROVE placed' = placed
  BY <1>1 DEF Start, CancelRead, CompleteRead, ContinueRead, AdminRead, PaymentRead,
              AdminPayment, SettlementNotification, ExpireNotification
<1>2. ASSUME NEW r \in Requests, Finish(r) \/ Abort(r) PROVE placed' = placed
  BY <1>2 DEF Finish, Abort, CancelCommit, StatusCommit, PaymentCommit, PaymentRefused,
              ContinueCreate, ContinueFailed, ContinueSave
<1>3. CASE Environment
  BY <1>3 DEF Environment, TokenExpires, SnapOutcome
<1>4. QED
  BY <1>1, <1>2, <1>3 DEF Next, Checkout, vars

LEMMA CompletionStays ==
  ASSUME IInv, [Next]_vars, NEW o \in Orders, row[o].completedAt
  PROVE  row'[o].completedAt
<1>1. CASE RowsUntouched
  BY <1>1 DEF RowsUntouched, SameColumns
<1>2. CASE StatusWritten
  BY <1>2 DEF StatusWritten, WithStatus, IInv, TypeOK, Row
<1>3. CASE PaymentMoved
  BY <1>3 DEF PaymentMoved, AfterPayment, PaymentColumns, IInv, TypeOK, Row
<1>4. QED
  BY <1>1, <1>2, <1>3, StepEffect

\* A purchase is a fact for good: no cancellation, refund or overwritten status undoes it.
LEMMA BoughtStays ==
  ASSUME IInv, [Next]_vars, NEW user, NEW product, NEW o, Bought(user, product, o)
  PROVE  Bought(user, product, o)'
<1>1. o \in Orders
  BY DEF Bought, IInv, TypeOK
<1>2. QED
  BY <1>1, PlacedStays, CompletionStays DEF Bought

\* What the third SELECT of Create finds is a purchase.
LEMMA CompletedOrderIsBought ==
  ASSUME IInv, NEW user, NEW product, NEW o \in R!CompletedOrders(user, product)
  PROVE  o \in placed /\ Bought(user, product, o)
<1>1. /\ o \in placed
      /\ OrdersTable[o].user = Owner[o]
      /\ OrdersTable[o].products = Items[o]
      /\ OrdersTable[o].status = row[o].status
  BY DEF R!CompletedOrders, OrdersTable
<1>2. Owner[o] = user /\ product \in Items[o] /\ row[o].status = "COMPLETED"
  BY <1>1 DEF R!CompletedOrders
<1>3. row[o].completedAt
  BY <1>1, <1>2 DEF IInv, TypeOK, TimestampsMatch
<1>4. QED
  BY <1>1, <1>2, <1>3 DEF Bought

-----------------------------------------------------------------------------
(* Reviews and the tasks that write them.                                  *)

\* ReviewsAreOfBuyers in terms of purchases.
BoughtByAuthors ==
  \A id \in R!Rows : Bought(reviews[id].user, reviews[id].product, reviews[id].order)

LEMMA BuyersAreBought ==
  ASSUME R!ReviewsTypeOK
  PROVE  ReviewsAreOfBuyers <=> BoughtByAuthors
<1>1. \A id \in R!Rows : reviews[id].order \in placed
  BY DEF R!ReviewsTypeOK, R!Rows, R!Review, OrdersTable
<1>2. \A o \in placed : /\ OrdersTable[o].user = Owner[o]
                        /\ OrdersTable[o].products = Items[o]
                        /\ OrdersTable[o].completed = row[o].completedAt
  BY DEF OrdersTable
<1>3. QED
  BY <1>1, <1>2 DEF ReviewsAreOfBuyers, R!ReviewsAreOfBuyers, BoughtByAuthors, Bought

\* The operation tag of a task determines the fields it has.
LEMMA TaskTypes ==
  ASSUME NEW x \in R!Task
  PROVE  /\ x.op \in {"purchased", "order"} =>
              x \in [op : {"purchased", "order"}, user : Customers, product : Products]
         /\ x.op = "insert" =>
              x \in [op : {"insert"}, user : Customers, product : Products, order : placed]
         /\ x.op \in {"update", "delete"} => x \in [op : {"update", "delete"}, id : ReviewIds]
         /\ x.op = "idle" <=> x = R!NoTask
  BY DEF R!Task, R!NoTask, OrdersTable

ReviewType == [user : Customers, product : Products, order : placed,
               rating : Ratings, deleted : BOOLEAN]

\* The part of the invariant that reviews and tasks have.
ReviewsInv == R!ReviewsTypeOK /\ FoundStaysTrue /\ BoughtByAuthors

LEMMA PurchasesInvParts == PurchasesInv <=> IInv /\ ReviewsInv
  BY BuyersAreBought DEF PurchasesInv, ReviewsInv

LEMMA TypesUnfolded ==
  ASSUME R!ReviewsTypeOK
  PROVE  /\ reviews \in [ReviewIds -> ReviewType \cup {NoReview}]
         /\ task \in [ReviewRequests -> R!Task]
  BY DEF R!ReviewsTypeOK, R!Review, ReviewType, OrdersTable

\* A review is not the mark of an empty row.
LEMMA ReviewIsARow ==
  ASSUME IInv, NEW x \in ReviewType
  PROVE  x # NoReview
  BY ItemsAssumption DEF ReviewType, IInv, TypeOK

\* A step of a handler that writes no review: what it has found is there.
LEMMA HandlerReads ==
  ASSUME ReviewsInv, NEW r \in ReviewRequests, NEW x \in R!Task,
         task' = [task EXCEPT ![r] = x], UNCHANGED <<vars, reviews>>,
         x.op = "insert" => Bought(x.user, x.product, x.order),
         x.op \in {"update", "delete"} => x.id \in R!Rows
  PROVE  ReviewsInv'
<1>1. task \in [ReviewRequests -> R!Task]
  BY TypesUnfolded DEF ReviewsInv
<1>2. placed' = placed /\ row' = row /\ reviews' = reviews
  BY DEF vars
<1>3. R!Task' = R!Task /\ R!Review' = R!Review /\ R!Rows' = R!Rows
  BY <1>2 DEF R!Task, R!Review, R!Rows, OrdersTable
<1>4. R!ReviewsTypeOK'
  BY <1>1, <1>2, <1>3 DEF ReviewsInv, R!ReviewsTypeOK
<1>5. FoundStaysTrue'
  BY <1>1, <1>2, <1>3 DEF ReviewsInv, FoundStaysTrue, Bought
<1>6. BoughtByAuthors'
  BY <1>2, <1>3 DEF ReviewsInv, BoughtByAuthors, Bought
<1>7. QED
  BY <1>4, <1>5, <1>6 DEF ReviewsInv

\* A write of one review of something bought.
LEMMA HandlerWrites ==
  ASSUME IInv, ReviewsInv, NEW r \in ReviewRequests, NEW id \in ReviewIds, NEW x \in ReviewType,
         task' = [task EXCEPT ![r] = R!NoTask], reviews' = [reviews EXCEPT ![id] = x],
         UNCHANGED vars,
         Bought(x.user, x.product, x.order)
  PROVE  ReviewsInv'
<1>1. /\ reviews \in [ReviewIds -> ReviewType \cup {NoReview}]
      /\ task \in [ReviewRequests -> R!Task]
  BY TypesUnfolded DEF ReviewsInv
<1>2. placed' = placed /\ row' = row
  BY DEF vars
<1>3. R!Task' = R!Task /\ R!Review' = ReviewType
  BY <1>2 DEF R!Task, R!Review, ReviewType, OrdersTable
<1>4. R!Rows' = R!Rows \cup {id}
  BY <1>1, ReviewIsARow DEF R!Rows
<1>5. /\ reviews'[id] = x
      /\ \A other \in ReviewIds \ {id} : reviews'[other] = reviews[other]
  BY <1>1
<1>6. R!NoTask \in R!Task /\ R!NoTask.op = "idle"
  BY DEF R!Task, R!NoTask
<1>7. R!ReviewsTypeOK'
  BY <1>1, <1>3, <1>6 DEF R!ReviewsTypeOK
<1>8. FoundStaysTrue'
  BY <1>1, <1>2, <1>4, <1>6 DEF ReviewsInv, FoundStaysTrue, Bought
<1>9. BoughtByAuthors'
  <2>1. ASSUME NEW other \in R!Rows, other # id
        PROVE  Bought(reviews'[other].user, reviews'[other].product, reviews'[other].order)
    BY <1>5, <2>1 DEF ReviewsInv, BoughtByAuthors, R!Rows
  <2>2. Bought(reviews'[id].user, reviews'[id].product, reviews'[id].order)
    BY <1>5
  <2>3. QED
    BY <1>2, <1>4, <2>1, <2>2 DEF BoughtByAuthors, Bought
<1>10. QED
  BY <1>7, <1>8, <1>9 DEF ReviewsInv

\* A step of the order service takes no purchase away.
LEMMA OrdersStep ==
  ASSUME IInv, ReviewsInv, [Next]_vars, UNCHANGED <<reviews, task>>
  PROVE  ReviewsInv'
<1>1. placed \subseteq placed'
  BY PlacedStays
<1>2. R!Task \subseteq R!Task' /\ R!Review \subseteq R!Review' /\ R!Rows' = R!Rows
  BY <1>1 DEF R!Task, R!Review, R!Rows, OrdersTable
<1>3. R!ReviewsTypeOK'
  BY <1>2 DEF ReviewsInv, R!ReviewsTypeOK
<1>4. FoundStaysTrue'
  BY <1>2, BoughtStays DEF ReviewsInv, FoundStaysTrue
<1>5. BoughtByAuthors'
  BY <1>2, BoughtStays DEF ReviewsInv, BoughtByAuthors
<1>6. QED
  BY <1>3, <1>4, <1>5 DEF ReviewsInv

LEMMA ReviewsStep ==
  ASSUME IInv, ReviewsInv, R!ReviewsNext, UNCHANGED vars
  PROVE  ReviewsInv'
<1>0. /\ reviews \in [ReviewIds -> ReviewType \cup {NoReview}]
      /\ task \in [ReviewRequests -> R!Task]
  BY TypesUnfolded DEF ReviewsInv
<1>1. ASSUME NEW r \in ReviewRequests, NEW user \in Customers, NEW product \in Products,
             R!CreateCheck(r, user, product)
      PROVE  ReviewsInv'
  <2>1. [op |-> "purchased", user |-> user, product |-> product] \in R!Task
    BY DEF R!Task
  <2>2. QED
    BY <1>1, <2>1, HandlerReads DEF R!CreateCheck, R!Proceed
<1>2. ASSUME NEW r \in ReviewRequests, R!CreatePurchased(r) PROVE ReviewsInv'
  <2>1. task[r] \in [op : {"purchased", "order"}, user : Customers, product : Products]
    BY <1>0, <1>2, TaskTypes DEF R!CreatePurchased
  <2>2. [task[r] EXCEPT !.op = "order"] \in R!Task /\ [task[r] EXCEPT !.op = "order"].op = "order"
    BY <2>1 DEF R!Task
  <2>3. task' = [task EXCEPT ![r] = [task[r] EXCEPT !.op = "order"]]
    BY <1>2 DEF R!CreatePurchased
  <2>4. QED
    BY <1>2, <2>2, <2>3, HandlerReads DEF R!CreatePurchased
<1>3. ASSUME NEW r \in ReviewRequests, R!CreateOrder(r) PROVE ReviewsInv'
  <2>1. task[r] \in [op : {"purchased", "order"}, user : Customers, product : Products]
    BY <1>0, <1>3, TaskTypes DEF R!CreateOrder
  <2>2. PICK o \in R!CompletedOrders(task[r].user, task[r].product) :
          R!Proceed(r, [op |-> "insert", user |-> task[r].user,
                        product |-> task[r].product, order |-> o])
    BY <1>3 DEF R!CreateOrder
  <2>3. o \in placed /\ Bought(task[r].user, task[r].product, o)
    BY CompletedOrderIsBought
  <2>4. [op |-> "insert", user |-> task[r].user, product |-> task[r].product, order |-> o]
          \in R!Task
    BY <2>1, <2>3 DEF R!Task, OrdersTable
  <2>5. QED
    BY <1>3, <2>2, <2>3, <2>4, HandlerReads DEF R!CreateOrder, R!Proceed
<1>4. ASSUME NEW r \in ReviewRequests, NEW rating \in Ratings, R!CreateInsert(r, rating)
      PROVE  ReviewsInv'
  <2> DEFINE x == [user |-> task[r].user, product |-> task[r].product,
                   order |-> task[r].order, rating |-> rating, deleted |-> FALSE]
  <2>1. task[r] \in [op : {"insert"}, user : Customers, product : Products, order : placed]
    BY <1>0, <1>4, TaskTypes DEF R!CreateInsert
  <2>2. PICK id \in ReviewIds \ R!Rows : reviews' = [reviews EXCEPT ![id] = x]
    BY <1>4 DEF R!CreateInsert
  <2>3. x \in ReviewType
    BY <2>1 DEF ReviewType
  <2>4. Bought(x.user, x.product, x.order)
    BY <1>4 DEF R!CreateInsert, ReviewsInv, FoundStaysTrue
  <2>5. task' = [task EXCEPT ![r] = R!NoTask]
    BY <1>4 DEF R!CreateInsert, R!FinishTask, R!Proceed
  <2> HIDE DEF x
  <2>6. QED
    BY <2>2, <2>3, <2>4, <2>5, HandlerWrites
<1>5. ASSUME NEW r \in ReviewRequests, R!TaskFails(r) PROVE ReviewsInv'
  <2>1. R!NoTask \in R!Task /\ R!NoTask.op = "idle"
    BY DEF R!Task, R!NoTask
  <2>2. QED
    BY <1>5, <2>1, HandlerReads DEF R!TaskFails, R!FinishTask, R!Proceed
<1>6. ASSUME NEW r \in ReviewRequests, NEW user \in Customers, NEW id \in ReviewIds,
             R!UpdateReviewRead(r, user, id) \/ R!DeleteReviewRead(r, user, id)
      PROVE  ReviewsInv'
  <2>1. /\ [op |-> "update", id |-> id] \in R!Task
        /\ [op |-> "delete", id |-> id] \in R!Task
    BY DEF R!Task
  <2>2. id \in R!Rows
    BY <1>6 DEF R!UpdateReviewRead, R!DeleteReviewRead, R!OwnReview, R!LiveRows
  <2>3. QED
    BY <1>6, <2>1, <2>2, HandlerReads DEF R!UpdateReviewRead, R!DeleteReviewRead, R!Proceed
<1>7. ASSUME NEW r \in ReviewRequests, task[r].op \in {"update", "delete"},
             NEW x \in ReviewType, reviews' = [reviews EXCEPT ![task[r].id] = x],
             x.user = reviews[task[r].id].user, x.product = reviews[task[r].id].product,
             x.order = reviews[task[r].id].order, R!FinishTask(r)
      PROVE  ReviewsInv'
  <2>1. task[r].id \in R!Rows /\ task[r].id \in ReviewIds
    BY <1>7 DEF ReviewsInv, FoundStaysTrue, R!Rows
  <2>2. Bought(x.user, x.product, x.order)
    BY <1>7, <2>1 DEF ReviewsInv, BoughtByAuthors
  <2>3. QED
    BY <1>7, <2>1, <2>2, HandlerWrites DEF R!FinishTask, R!Proceed
<1>8. ASSUME NEW r \in ReviewRequests, task[r].op \in {"update", "delete"}
      PROVE  reviews[task[r].id] \in ReviewType
  BY <1>0, <1>8 DEF ReviewsInv, FoundStaysTrue, R!Rows
<1>9. ASSUME NEW r \in ReviewRequests, NEW rating \in Ratings, R!UpdateReview(r, rating)
      PROVE  ReviewsInv'
  <2> DEFINE old == reviews[task[r].id]
             x == [old EXCEPT !.rating = rating]
  <2>1. old \in ReviewType
    BY <1>8, <1>9 DEF R!UpdateReview
  <2>2. x \in ReviewType /\ x.user = old.user /\ x.product = old.product /\ x.order = old.order
    BY <2>1 DEF ReviewType
  <2>3. reviews' = [reviews EXCEPT ![task[r].id] = x]
    BY <1>9 DEF R!UpdateReview
  <2> HIDE DEF x
  <2>4. QED
    BY <1>7, <1>9, <2>2, <2>3 DEF R!UpdateReview
<1>10. ASSUME NEW r \in ReviewRequests, R!DeleteReview(r) PROVE ReviewsInv'
  <2> DEFINE old == reviews[task[r].id]
             x == [old EXCEPT !.deleted = TRUE]
  <2>1. old \in ReviewType
    BY <1>8, <1>10 DEF R!DeleteReview
  <2>2. x \in ReviewType /\ x.user = old.user /\ x.product = old.product /\ x.order = old.order
    BY <2>1 DEF ReviewType
  <2>3. reviews' = [reviews EXCEPT ![task[r].id] = x]
    BY <1>10 DEF R!DeleteReview
  <2> HIDE DEF x
  <2>4. QED
    BY <1>7, <1>10, <2>2, <2>3 DEF R!DeleteReview
<1>11. QED
  BY <1>1, <1>2, <1>3, <1>4, <1>5, <1>6, <1>9, <1>10 DEF R!ReviewsNext

-----------------------------------------------------------------------------
(* The theorems.                                                           *)

LEMMA PurchasesInitially == PurchasesInit => PurchasesInv
<1> SUFFICES ASSUME Init, R!ReviewsInit PROVE IInv /\ ReviewsInv
  BY PurchasesInvParts DEF PurchasesInit
<1>1. R!Rows = {}
  BY DEF R!ReviewsInit, R!Rows
<1>2. R!NoTask \in R!Task /\ R!NoTask.op = "idle"
  BY DEF R!Task, R!NoTask
<1>3. R!ReviewsTypeOK
  BY <1>2 DEF R!ReviewsInit, R!ReviewsTypeOK
<1>4. FoundStaysTrue
  BY <1>2 DEF R!ReviewsInit, FoundStaysTrue
<1>5. BoughtByAuthors
  BY <1>1 DEF BoughtByAuthors
<1>6. QED
  BY <1>3, <1>4, <1>5, IInvInit DEF ReviewsInv

LEMMA PurchasesInductive == PurchasesInv /\ [PurchasesNext]_purchaseVars => PurchasesInv'
<1>0. (PurchasesInv <=> IInv /\ ReviewsInv)'
  BY PurchasesInvParts, PTL
<1> SUFFICES ASSUME IInv, ReviewsInv, [PurchasesNext]_purchaseVars
             PROVE  IInv' /\ ReviewsInv'
  BY <1>0, PurchasesInvParts
<1>1. [Next]_vars
  BY DEF PurchasesNext, purchaseVars
<1>2. IInv'
  BY <1>1, IInvNext
<1>3. ReviewsInv'
  BY <1>1, OrdersStep, ReviewsStep DEF PurchasesNext, purchaseVars
<1>4. QED
  BY <1>2, <1>3

LEMMA PurchasesInvariance == PurchasesSpec => []PurchasesInv
  BY PurchasesInitially, PurchasesInductive, PTL DEF PurchasesSpec

\* A review is of a product its author bought in an order that was completed, whatever
\* the order service does between the reads of Create and its INSERT.
THEOREM VerifiedPurchases == PurchasesSpec => []ReviewsAreOfBuyers
<1>1. PurchasesInv => ReviewsAreOfBuyers
  BY DEF PurchasesInv
<1>2. QED
  BY <1>1, PurchasesInvariance, PTL
=============================================================================
