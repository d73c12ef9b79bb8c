------------------------------ MODULE Wishlist ------------------------------
(***************************************************************************)
(* The wishlist service.  Create runs its statements in a transaction that *)
(* begins with an upsert of the user's wishlist row, whose lock it holds   *)
(* to the end; Delete reads without a lock and then deletes by key.        *)
(***************************************************************************)
EXTENDS Naturals

CONSTANTS Users, Products, Requests, NoOne

VARIABLES
  lists,   \* the wishlists table: the users who have a row
  items,   \* the wishlist_items table, unique by user and product
  holder,  \* the lock of each user's row in wishlists
  work     \* what each request is about to do

vars == <<lists, items, holder, work>>

NoWork == [op |-> "none"]

Work == {NoWork} \cup [op : {"check", "insert", "added", "delete"},
                       user : Users, product : Products]

TypeOK ==
  /\ lists \subseteq Users
  /\ items \subseteq lists \X Products
  /\ holder \in [Users -> Requests \cup {NoOne}]
  /\ work \in [Requests -> Work]

Init ==
  /\ lists = {} /\ items = {}
  /\ holder = [u \in Users |-> NoOne]
  /\ work = [r \in Requests |-> NoWork]

Key(r) == <<work[r].user, work[r].product>>
Then(r, op) == work' = [work EXCEPT ![r].op = op]

Finish(r) ==
  /\ work' = [work EXCEPT ![r] = NoWork]
  /\ holder' = [u \in Users |-> IF holder[u] = r THEN NoOne ELSE holder[u]]

\* Mutant: ON CONFLICT DO NOTHING and a SELECT, which take no lock.
GetOrCreateUnlocked(r, user, product) ==
  /\ work[r] = NoWork
  /\ work' = [work EXCEPT ![r] =
                [op |-> "check", user |-> user, product |-> product]]
  /\ UNCHANGED <<lists, items, holder>>

\* INSERT ... ON CONFLICT DO UPDATE locks the row, be it new or old.
GetOrCreate(r, user, product) ==
  /\ work[r] = NoWork
  /\ holder[user] = NoOne
  /\ holder' = [holder EXCEPT ![user] = r]
  /\ work' = [work EXCEPT ![r] =
                [op |-> "check", user |-> user, product |-> product]]
  /\ UNCHANGED <<lists, items>>

\* An item that exists ends the request with an error, and a row that is new is
\* rolled back.
CheckItemExists(r) ==
  /\ work[r].op = "check"
  /\ IF Key(r) \in items THEN Finish(r) ELSE Then(r, "insert") /\ holder' = holder
  /\ UNCHANGED <<lists, items>>

\* INSERT ... ON CONFLICT DO NOTHING, and COMMIT.
AddItem(r) ==
  /\ work[r].op = "insert"
  /\ lists' = lists \cup {work[r].user}
  /\ items' = items \cup {Key(r)}
  /\ holder' = [u \in Users |-> IF holder[u] = r THEN NoOne ELSE holder[u]]
  /\ Then(r, "added")

\* The client is told that the product was added.
Answer(r) == work[r].op = "added" /\ Finish(r) /\ UNCHANGED <<lists, items>>

\* GetWishlistByUserID and CheckItemExists: without either the request ends.
DeleteRead(r, user, product) ==
  /\ work[r] = NoWork
  /\ <<user, product>> \in items
  /\ work' = [work EXCEPT ![r] =
                [op |-> "delete", user |-> user, product |-> product]]
  /\ UNCHANGED <<lists, items, holder>>

DeleteItem(r) ==
  /\ work[r].op = "delete"
  /\ items' = items \ {Key(r)}
  /\ Finish(r)
  /\ UNCHANGED lists

Abort(r) == work[r] # NoWork /\ Finish(r) /\ UNCHANGED <<lists, items>>

Next ==
  \E r \in Requests :
    \/ \E user \in Users, product \in Products :
         GetOrCreate(r, user, product) \/ DeleteRead(r, user, product)
    \/ CheckItemExists(r)
    \/ AddItem(r)
    \/ Answer(r)
    \/ DeleteItem(r)
    \/ Abort(r)

-----------------------------------------------------------------------------

\* Of two requests that add a product at once, one is told that it was added and
\* the other that it is there already: ON CONFLICT DO NOTHING never makes an
\* addition out of nothing.
AddedWasInserted ==
  [][\A r \in Requests :
       work'[r].op = "added" /\ work[r].op # "added" =>
         Key(r) \in items' \ items]_vars

(* Why it holds: the inductive invariant.                                  *)

\* Between its upsert and its INSERT a request holds the lock of the user's row, so what
\* its check did not find is still not there.
LockedUntilAdded ==
  \A r \in Requests :
    /\ work[r].op \in {"check", "insert"} => holder[work[r].user] = r
    /\ work[r].op = "insert" => Key(r) \notin items

IInv == TypeOK /\ LockedUntilAdded
=============================================================================
