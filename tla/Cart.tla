-------------------------------- MODULE Cart --------------------------------
(***************************************************************************)
(* The cart of one user: the carts row, its cart_items lines, and the      *)
(* service's operations on them, called by the user's requests and by the  *)
(* consumer of DELETE_CART.                                                *)
(*                                                                         *)
(* An operation first reads the id of the cart, then writes under that id; *)
(* between the two, and between the two statements of Decrement, which is  *)
(* no transaction, other requests run.  Each statement is one step, and so *)
(* are the writes of a transaction with its commit.                        *)
(***************************************************************************)
EXTENDS Integers, FiniteSets

CONSTANTS
  Products,
  Requests,   \* concurrent operations
  MaxQty,     \* the largest value of the quantity column; a larger one is an error
              \* (bound: no decrement starts near -MaxQty)
  MaxCarts,   \* bound: carts rows created for the user, one after the other
  Failures    \* may the database fail or a process die

ASSUME CartAssumption ==
  /\ IsFiniteSet(Requests)
  /\ MaxQty \in Nat \ {0}
  /\ Cardinality(Requests) <= MaxQty   \* in the code 2^31 - 1
  /\ MaxCarts \in Nat \ {0}
  /\ Failures \in BOOLEAN

NoCart == 0
CartIds == 1 .. MaxCarts

VARIABLES
  cart,      \* the id of the user's cart, or NoCart
  created,   \* how many carts have been created: their ids are never used again
  lines,     \* the products with a line in the cart
  qty,       \* cart_items.quantity, 0 where there is no line
  req,       \* what each request is about to do, and the cart id it read
  stranded   \* history: lines at zero or below whose delete never came

vars == <<cart, created, lines, qty, req, stranded>>

Idle == [op |-> "idle"]

Request == [op : {"create", "clear", "drop"}, cart : CartIds \cup {NoCart}]
      \cup [op : {"inc", "dec", "purge", "remove"}, cart : CartIds, product : Products]
      \cup [op : {"add", "set"}, cart : CartIds \cup {NoCart}, product : Products,
            n : 1 .. MaxQty]

TypeOK ==
  /\ cart \in CartIds \cup {NoCart}
  /\ created \in 0 .. MaxCarts
  /\ lines \in SUBSET Products
  /\ qty \in [Products -> -MaxQty .. MaxQty]
  /\ req \in [Requests -> {Idle} \cup Request]
  /\ stranded \in SUBSET Products

Init ==
  /\ cart = NoCart
  /\ created = 0
  /\ lines = {}
  /\ qty = [p \in Products |-> 0]
  /\ req = [r \in Requests |-> Idle]
  /\ stranded = {}

-----------------------------------------------------------------------------
(* Helpers.                                                                *)

Begin(r, request) ==
  /\ req[r] = Idle
  /\ req' = [req EXCEPT ![r] = request]
  /\ UNCHANGED <<cart, created, lines, qty, stranded>>

End(r) == req' = [req EXCEPT ![r] = Idle]

\* The row that the WHERE clause of r's statement selects is there.
Found(r) == req[r].cart = cart /\ req[r].product \in lines

SetLine(p, n) ==
  /\ lines' = lines \cup {p}
  /\ qty' = [qty EXCEPT ![p] = n]
  /\ stranded' = IF n > 0 THEN stranded \ {p} ELSE stranded

DeleteLines(gone) ==
  /\ lines' = lines \ gone
  /\ qty' = [p \in Products |-> IF p \in gone THEN 0 ELSE qty[p]]
  /\ stranded' = stranded \ gone

\* The upsert of CreateCart: the row that is there, or a new one.
UpsertCart ==
  \/ cart # NoCart /\ UNCHANGED <<cart, created>>
  \/ /\ cart = NoCart
     /\ cart' = created + 1
     /\ created' = created + 1

-----------------------------------------------------------------------------
(* Reading the cart id.                                                    *)

\* getOrCreateCart of Create, and of AddItem in its transaction.
ReadOrCreate(r) ==
  \/ Begin(r, [op |-> "create", cart |-> cart])
  \/ \E p \in Products, n \in 1 .. MaxQty :
       Begin(r, [op |-> "add", cart |-> cart, product |-> p, n |-> n])

\* getCartOnly of the others, which fail when there is no cart.
ReadOnly(r) ==
  /\ cart # NoCart
  /\ \/ Begin(r, [op |-> "clear", cart |-> cart])
     \/ created < MaxCarts /\ Begin(r, [op |-> "drop", cart |-> cart])
     \/ \E op \in {"inc", "dec", "remove"}, p \in Products :
          /\ op = "dec" => qty[p] > -MaxQty + Cardinality(Requests)
          /\ Begin(r, [op |-> op, cart |-> cart, product |-> p])
     \/ \E p \in Products, n \in 1 .. MaxQty :
          Begin(r, [op |-> "set", cart |-> cart, product |-> p, n |-> n])

-----------------------------------------------------------------------------
(* Writing under the id that was read.                                     *)

Create(r) ==
  /\ req[r].op = "create"
  /\ \/ req[r].cart = NoCart /\ UpsertCart
     \/ req[r].cart # NoCart /\ UNCHANGED <<cart, created>>
  /\ End(r)
  /\ UNCHANGED <<lines, qty, stranded>>

\* INSERT ... ON CONFLICT adds to the quantity of the line that is there.
AddItem(r) ==
  /\ req[r].op = "add"
  /\ \/ req[r].cart = NoCart /\ UpsertCart
     \/ req[r].cart = cart /\ cart # NoCart /\ UNCHANGED <<cart, created>>
  /\ qty[req[r].product] + req[r].n <= MaxQty
  /\ SetLine(req[r].product, qty[req[r].product] + req[r].n)
  /\ End(r)

\* The cart is gone (the foreign key fails) or the sum is out of range.
AddItemFails(r) ==
  /\ req[r].op = "add"
  /\ \/ req[r].cart \notin {cart, NoCart}
     \/ qty[req[r].product] + req[r].n > MaxQty
  /\ End(r)
  /\ UNCHANGED <<cart, created, lines, qty, stranded>>

UpdateQty(r) ==
  /\ req[r].op = "set"
  /\ Found(r)
  /\ SetLine(req[r].product, req[r].n)
  /\ End(r)
  /\ UNCHANGED <<cart, created>>

\* Mutant: the column takes any value.
IncrementUnbounded(r) ==
  /\ req[r].op = "inc"
  /\ Found(r)
  /\ SetLine(req[r].product, qty[req[r].product] + 1)
  /\ End(r)
  /\ UNCHANGED <<cart, created>>

Increment(r) ==
  /\ req[r].op = "inc"
  /\ Found(r)
  /\ qty[req[r].product] < MaxQty
  /\ SetLine(req[r].product, qty[req[r].product] + 1)
  /\ End(r)
  /\ UNCHANGED <<cart, created>>

\* UPDATE ... RETURNING finds no row, or the value is out of range.
NoRow(r) ==
  /\ \/ req[r].op \in {"set", "inc", "dec"} /\ ~Found(r)
     \/ req[r].op = "inc" /\ Found(r) /\ qty[req[r].product] = MaxQty
  /\ End(r)
  /\ UNCHANGED <<cart, created, lines, qty, stranded>>

Purge(r) == req' = [req EXCEPT ![r].op = "purge"]

\* Mutant: only a negative quantity is deleted.
DecrementToZero(r) ==
  LET p == req[r].product
  IN  /\ req[r].op = "dec"
      /\ Found(r)
      /\ SetLine(p, qty[p] - 1)
      /\ IF qty[p] - 1 < 0 THEN Purge(r) ELSE End(r)
      /\ UNCHANGED <<cart, created>>

\* A quantity of zero or less is deleted by a statement of its own.
Decrement(r) ==
  LET p == req[r].product
  IN  /\ req[r].op = "dec"
      /\ Found(r)
      /\ SetLine(p, qty[p] - 1)
      /\ IF qty[p] - 1 <= 0 THEN Purge(r) ELSE End(r)
      /\ UNCHANGED <<cart, created>>

\* Any error but "no rows" leaves the returned item zero, and its quantity is
\* what the code looks at; the statement may have been executed.
DecrementError(r) ==
  /\ Failures
  /\ req[r].op = "dec"
  /\ \/ UNCHANGED <<lines, qty, stranded>>
     \/ Found(r) /\ SetLine(req[r].product, qty[req[r].product] - 1)
  /\ Purge(r)
  /\ UNCHANGED <<cart, created>>

\* DeleteItem, and the second statement of Decrement.
DeleteItem(r) ==
  /\ req[r].op \in {"remove", "purge"}
  /\ DeleteLines(IF req[r].cart = cart THEN {req[r].product} ELSE {})
  /\ End(r)
  /\ UNCHANGED <<cart, created>>

\* Mutant: the lines of the user's cart are deleted, whichever it is by now.
ClearCartOfUser(r) ==
  /\ req[r].op = "clear"
  /\ DeleteLines(lines)
  /\ End(r)
  /\ UNCHANGED <<cart, created>>

ClearCart(r) ==
  /\ req[r].op = "clear"
  /\ DeleteLines(IF req[r].cart = cart THEN lines ELSE {})
  /\ End(r)
  /\ UNCHANGED <<cart, created>>

\* Delete of the service; no route of the API leads to it.
Delete(r) ==
  /\ req[r].op = "drop"
  /\ IF req[r].cart = cart
       THEN cart' = NoCart /\ DeleteLines(lines)
       ELSE UNCHANGED <<cart, lines, qty, stranded>>
  /\ End(r)
  /\ UNCHANGED created

\* The database or the process fails before the statement is executed.
Abort(r) ==
  /\ Failures
  /\ req[r] # Idle
  /\ stranded' = IF req[r].op = "purge" /\ Found(r) /\ qty[req[r].product] <= 0
                   THEN stranded \cup {req[r].product} ELSE stranded
  /\ End(r)
  /\ UNCHANGED <<cart, created, lines, qty>>

-----------------------------------------------------------------------------

Finish(r) ==
  \/ Create(r)
  \/ AddItem(r)
  \/ AddItemFails(r)
  \/ UpdateQty(r)
  \/ Increment(r)
  \/ NoRow(r)
  \/ Decrement(r)
  \/ DecrementError(r)
  \/ DeleteItem(r)
  \/ ClearCart(r)
  \/ Delete(r)

Next == \E r \in Requests : ReadOrCreate(r) \/ ReadOnly(r) \/ Finish(r) \/ Abort(r)

Spec == Init /\ [][Next]_vars

-----------------------------------------------------------------------------
(* Safety.                                                                 *)

\* A line at zero or below is about to be deleted by the request that brought it
\* there, unless that request died: whatever is added, set or deleted between the
\* two statements of Decrement, no such line is forgotten.
EmptyLineIsOnItsWayOut ==
  \A p \in lines : qty[p] <= 0 =>
    \/ p \in stranded
    \/ \E r \in Requests : req[r].op = "purge" /\ req[r].product = p /\ req[r].cart = cart

(* Why it holds: the inductive invariant.                                  *)

\* Lines belong to a cart that is there, and no line means no quantity.
LinesAreOfTheCart ==
  /\ cart = NoCart => lines = {}
  /\ \A p \in Products \ lines : qty[p] = 0

\* The user's cart is the last one created, and another one fits the bound.
CartsFit ==
  /\ cart \in {created, NoCart}
  /\ cart = NoCart => created < MaxCarts
  /\ \A r \in Requests : req[r].op = "drop" => req[r].cart < MaxCarts

Decrementing(p) == {r \in Requests : req[r].op = "dec" /\ req[r].product = p}

\* No decrement that has been started leaves the range of the column.
DecrementsFit == \A p \in Products : Cardinality(Decrementing(p)) - MaxQty <= qty[p]

IInv ==
  /\ TypeOK
  /\ LinesAreOfTheCart
  /\ CartsFit
  /\ DecrementsFit
  /\ EmptyLineIsOnItsWayOut

(* What a step may never do.                                               *)

\* A request only writes into the cart whose id it read, or made sure of: one
\* that read the id of a cart since deleted changes no line of the next cart.
StaleCartIsNotWritten ==
  [][\A r \in Requests :
       /\ req'[r] # req[r]
       /\ req[r] # Idle
       /\ req[r].cart \notin {cart, NoCart}
       => UNCHANGED <<cart, lines, qty>>]_vars
=============================================================================
