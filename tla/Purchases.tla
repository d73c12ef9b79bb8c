----------------------------- MODULE Purchases -----------------------------
(* Orders and the reviews of what was ordered: the review service reads the *)
(* orders table between the steps of the order service and writes only its  *)
(* own.  order_items are written once, by the checkout.                     *)
EXTENDS OrdersRefinement

CONSTANTS
  Products,
  Items,           \* the products of an order
  ReviewIds, NoReview, Ratings, ReviewRequests

ASSUME ItemsAssumption ==
  /\ Items \in [Orders -> SUBSET Products]
  /\ NoReview \notin [user : Customers, product : Products, order : Orders,
                     rating : Ratings, deleted : BOOLEAN]

VARIABLES reviews, task

\* What CheckUserPurchasedProduct and GetCompletedOrderForReview join.
OrdersTable ==
  [o \in placed |-> [user |-> Owner[o], products |-> Items[o],
                     status |-> row[o].status, completed |-> row[o].completedAt]]

R == INSTANCE Reviews WITH Users <- Customers, orders <- OrdersTable

purchaseVars == <<vars, reviews, task>>

PurchasesInit == Init /\ R!ReviewsInit

PurchasesNext ==
  \/ Next /\ UNCHANGED <<reviews, task>>
  \/ R!ReviewsNext /\ UNCHANGED vars

PurchasesSpec == PurchasesInit /\ [][PurchasesNext]_purchaseVars /\ Fairness

\* Reviews!ReviewsAreOfBuyers, of the orders of this system: whatever cancels,
\* refunds or overwrites an order between the three reads and the INSERT.
ReviewsAreOfBuyers == R!ReviewsAreOfBuyers

(* Why they hold: the inductive invariant.                                 *)

Bought(user, product, o) ==
  /\ o \in placed
  /\ Owner[o] = user
  /\ product \in Items[o]
  /\ row[o].completedAt

\* What a handler has found stays true until it writes: the purchase it is about to
\* name, and the row it is about to change.
FoundStaysTrue ==
  \A r \in ReviewRequests :
    /\ task[r].op = "insert" => Bought(task[r].user, task[r].product, task[r].order)
    /\ task[r].op \in {"update", "delete"} => task[r].id \in R!Rows

PurchasesInv ==
  /\ IInv
  /\ R!ReviewsTypeOK
  /\ FoundStaysTrue
  /\ ReviewsAreOfBuyers
=============================================================================
