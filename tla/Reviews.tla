------------------------------ MODULE Reviews ------------------------------
(***************************************************************************)
(* The review service: a user who has a completed order for a product      *)
(* writes one review of it, may change it and may delete it.  A deletion   *)
(* is soft, and the unique constraint of the table counts deleted rows.    *)
(*                                                                         *)
(* Create runs three SELECTs outside of any transaction and then a         *)
(* transaction with one INSERT; Update and Delete read first and write     *)
(* later.  Each statement is a step.  A unique index makes a second INSERT *)
(* wait for the first transaction, so INSERT and COMMIT are one step.      *)
(*                                                                         *)
(* The orders table belongs to another module, which says what orders is.  *)
(* Comments, times and the names joined for the answer are left out.       *)
(***************************************************************************)
EXTENDS Naturals

CONSTANTS
  Users,
  Products,
  ReviewIds,       \* bound: rows the reviews table can hold
  NoReview,        \* an id that has no row
  Ratings,
  ReviewRequests   \* concurrent request handlers

VARIABLES
  orders,    \* the orders table, joined with order_items, as this module reads it
  reviews,   \* the reviews table
  task       \* what each handler has read and is about to do

-----------------------------------------------------------------------------

Review == [user : Users, product : Products, order : DOMAIN orders,
           rating : Ratings, deleted : BOOLEAN]

NoTask == [op |-> "idle"]

Task ==
       {NoTask}
  \cup [op : {"purchased", "order"}, user : Users, product : Products]
  \cup [op : {"insert"}, user : Users, product : Products, order : DOMAIN orders]
  \cup [op : {"update", "delete"}, id : ReviewIds]

ReviewsTypeOK ==
  /\ reviews \in [ReviewIds -> Review \cup {NoReview}]
  /\ task \in [ReviewRequests -> Task]

ReviewsInit ==
  /\ reviews = [id \in ReviewIds |-> NoReview]
  /\ task = [r \in ReviewRequests |-> NoTask]

-----------------------------------------------------------------------------
(* The queries.                                                            *)

Rows == {id \in ReviewIds : reviews[id] # NoReview}
LiveRows == {id \in Rows : ~reviews[id].deleted}

Of(user, product) ==
  {id \in Rows : reviews[id].user = user /\ reviews[id].product = product}

CheckReviewExists(user, product) == Of(user, product) \cap LiveRows # {}

\* Mutant: an order that was placed counts as a purchase.
PlacedOrders(user, product) ==
  {o \in DOMAIN orders : orders[o].user = user /\ product \in orders[o].products}

CompletedOrders(user, product) ==
  {o \in DOMAIN orders : /\ orders[o].user = user
                         /\ product \in orders[o].products
                         /\ orders[o].status = "COMPLETED"}

CheckUserPurchased(user, product) == CompletedOrders(user, product) # {}

\* uniq_user_product_review has no condition on deleted_at.
UniqueUserProduct(user, product) == Of(user, product) = {}

-----------------------------------------------------------------------------
(* Steps.                                                                  *)

Proceed(r, next) == task' = [task EXCEPT ![r] = next]

FinishTask(r) == Proceed(r, NoTask)

\* Create, statement by statement.
CreateCheck(r, user, product) ==
  /\ task[r] = NoTask
  /\ ~CheckReviewExists(user, product)
  /\ Proceed(r, [op |-> "purchased", user |-> user, product |-> product])
  /\ UNCHANGED reviews

CreatePurchased(r) ==
  /\ task[r].op = "purchased"
  /\ CheckUserPurchased(task[r].user, task[r].product)
  /\ task' = [task EXCEPT ![r].op = "order"]
  /\ UNCHANGED reviews

\* ORDER BY completed_at DESC LIMIT 1: which of several orders is left open.
CreateOrder(r) ==
  /\ task[r].op = "order"
  /\ \E o \in CompletedOrders(task[r].user, task[r].product) :
       Proceed(r, [op |-> "insert", user |-> task[r].user,
                   product |-> task[r].product, order |-> o])
  /\ UNCHANGED reviews

CreateInsert(r, rating) ==
  /\ task[r].op = "insert"
  /\ UniqueUserProduct(task[r].user, task[r].product)
  /\ \E id \in ReviewIds \ Rows :
       reviews' = [reviews EXCEPT ![id] =
                     [user |-> task[r].user, product |-> task[r].product,
                      order |-> task[r].order, rating |-> rating,
                      deleted |-> FALSE]]
  /\ FinishTask(r)

\* A check or the constraint refuses, the database fails, the client leaves or
\* the process dies: the handler ends without a write.
TaskFails(r) ==
  /\ task[r] # NoTask
  /\ FinishTask(r)
  /\ UNCHANGED reviews

\* GetReviewByID finds live rows only, and only the author goes on.
OwnReview(user, id) == id \in LiveRows /\ reviews[id].user = user

UpdateReviewRead(r, user, id) ==
  /\ task[r] = NoTask
  /\ OwnReview(user, id)
  /\ Proceed(r, [op |-> "update", id |-> id])
  /\ UNCHANGED reviews

UpdateReview(r, rating) ==
  /\ task[r].op = "update"
  /\ task[r].id \in LiveRows
  /\ reviews' = [reviews EXCEPT ![task[r].id].rating = rating]
  /\ FinishTask(r)

DeleteReviewRead(r, user, id) ==
  /\ task[r] = NoTask
  /\ OwnReview(user, id)
  /\ Proceed(r, [op |-> "delete", id |-> id])
  /\ UNCHANGED reviews

DeleteReview(r) ==
  /\ task[r].op = "delete"
  /\ reviews' = [reviews EXCEPT ![task[r].id].deleted = TRUE]
  /\ FinishTask(r)

ReviewsNext ==
  \E r \in ReviewRequests :
    \/ \E user \in Users, product \in Products : CreateCheck(r, user, product)
    \/ CreatePurchased(r)
    \/ CreateOrder(r)
    \/ \E rating \in Ratings : CreateInsert(r, rating) \/ UpdateReview(r, rating)
    \/ \E user \in Users, id \in ReviewIds :
         UpdateReviewRead(r, user, id) \/ DeleteReviewRead(r, user, id)
    \/ DeleteReview(r)
    \/ TaskFails(r)

-----------------------------------------------------------------------------
(* Safety.                                                                 *)

\* What "verified purchase" rests on: each review names an order of its author
\* that contains the product and was completed, although the order is looked
\* up before the transaction and may be overwritten before the INSERT.
ReviewsAreOfBuyers ==
  \A id \in Rows :
    LET o == reviews[id].order
    IN  /\ orders[o].user = reviews[id].user
        /\ reviews[id].product \in orders[o].products
        /\ orders[o].completed
=============================================================================
