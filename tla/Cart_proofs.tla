---------------------------- MODULE Cart_proofs ----------------------------
(***************************************************************************)
(* The cart of one user, for any number of products, concurrent requests   *)
(* and carts, and any range of the quantity column.                        *)
(***************************************************************************)
EXTENDS Cart, FiniteSetTheorems, TLAPS

-----------------------------------------------------------------------------
(* Requests.                                                               *)

\* The operation tag of a request determines the fields it has.
LEMMA RequestTypes ==
  ASSUME NEW x \in {Idle} \cup Request
  PROVE  /\ x = Idle <=> x.op = "idle"
         /\ x # Idle => x.cart \in CartIds \cup {NoCart}
         /\ x.op \in {"inc", "dec", "purge", "remove"} =>
              x \in [op : {"inc", "dec", "purge", "remove"}, cart : CartIds,
                     product : Products]
         /\ x.op \in {"add", "set"} =>
              x \in [op : {"add", "set"}, cart : CartIds \cup {NoCart},
                     product : Products, n : 1 .. MaxQty]
  BY DEF Request, Idle

\* What the operations' steps do to the requests.
LEMMA Ended ==
  ASSUME TypeOK, NEW r \in Requests, End(r)
  PROVE  /\ req' \in [Requests -> {Idle} \cup Request]
         /\ req'[r] = Idle
         /\ \A q \in Requests \ {r} : req'[q] = req[q]
  BY DEF TypeOK, End

LEMMA Purging ==
  ASSUME TypeOK, NEW r \in Requests, req[r].op = "dec", Purge(r)
  PROVE  /\ req' \in [Requests -> {Idle} \cup Request]
         /\ req'[r] = [op |-> "purge", cart |-> req[r].cart, product |-> req[r].product]
         /\ \A q \in Requests \ {r} : req'[q] = req[q]
<1>1. req[r] \in [op : {"inc", "dec", "purge", "remove"}, cart : CartIds, product : Products]
  BY RequestTypes DEF TypeOK
<1>2. [req[r] EXCEPT !.op = "purge"] =
        [op |-> "purge", cart |-> req[r].cart, product |-> req[r].product]
  BY <1>1
<1>3. [op |-> "purge", cart |-> req[r].cart, product |-> req[r].product] \in Request
  BY <1>1 DEF Request
<1>4. QED
  BY <1>2, <1>3 DEF TypeOK, Purge

\* A request that took its step is about to do nothing, or to delete its line.
LEMMA EndedIsNoMore ==
  ASSUME TypeOK, NEW r \in Requests, End(r) \/ (req[r].op = "dec" /\ Purge(r))
  PROVE  /\ req'[r].op \in {"idle", "purge"}
         /\ \A q \in Requests \ {r} : req'[q] = req[q]
<1>1. CASE End(r)
  BY <1>1, Ended DEF Idle
<1>2. CASE req[r].op = "dec" /\ Purge(r)
  <2>1. req'[r] = [op |-> "purge", cart |-> req[r].cart, product |-> req[r].product]
    BY <1>2, Purging
  <2>2. req'[r].op = "purge"
    BY <2>1
  <2>3. QED
    BY <1>2, <2>2, Purging
<1>3. QED
  BY <1>1, <1>2

LEMMA Begun ==
  ASSUME TypeOK, NEW r \in Requests, ReadOrCreate(r) \/ ReadOnly(r)
  PROVE  \E x \in Request :
           /\ Begin(r, x)
           /\ x.op # "purge"
           /\ x.op = "drop" => created < MaxCarts /\ x.cart = cart /\ cart # NoCart
           /\ x.op = "dec" => qty[x.product] > -MaxQty + Cardinality(Requests)
<1>1. CASE ReadOrCreate(r)
  <2>1. [op |-> "create", cart |-> cart] \in Request
    BY DEF TypeOK, Request
  <2>2. \A p \in Products, n \in 1 .. MaxQty :
          [op |-> "add", cart |-> cart, product |-> p, n |-> n] \in Request
    BY DEF TypeOK, Request
  <2>3. QED
    BY <1>1, <2>1, <2>2 DEF ReadOrCreate
<1>2. CASE ReadOnly(r)
  <2>1. cart \in CartIds /\ cart # NoCart
    BY <1>2 DEF ReadOnly, TypeOK
  <2>2. [op |-> "clear", cart |-> cart] \in Request /\ [op |-> "drop", cart |-> cart] \in Request
    BY <2>1 DEF Request
  <2>3. \A op \in {"inc", "dec", "remove"}, p \in Products :
          [op |-> op, cart |-> cart, product |-> p] \in Request
    BY <2>1 DEF Request
  <2>4. \A p \in Products, n \in 1 .. MaxQty :
          [op |-> "set", cart |-> cart, product |-> p, n |-> n] \in Request
    BY <2>1 DEF Request
  <2>5. QED
    BY <1>2, <2>1, <2>2, <2>3, <2>4 DEF ReadOnly
<1>3. QED
  BY <1>1, <1>2

-----------------------------------------------------------------------------
(* Types.                                                                  *)

LEMMA TypeInit == Init => TypeOK
  BY CartAssumption DEF Init, TypeOK, NoCart

LEMMA LineSet ==
  ASSUME TypeOK, NEW p \in Products, NEW n \in -MaxQty .. MaxQty, SetLine(p, n)
  PROVE  /\ lines' \in SUBSET Products
         /\ qty' \in [Products -> -MaxQty .. MaxQty]
         /\ stranded' \in SUBSET Products
  BY DEF TypeOK, SetLine

LEMMA LinesDeleted ==
  ASSUME TypeOK, NEW gone, DeleteLines(gone)
  PROVE  /\ lines' \in SUBSET Products
         /\ qty' \in [Products -> -MaxQty .. MaxQty]
         /\ stranded' \in SUBSET Products
  BY CartAssumption DEF TypeOK, DeleteLines

LEMMA CartUpserted ==
  ASSUME TypeOK, CartsFit, UpsertCart
  PROVE  /\ cart' \in CartIds /\ cart' = created' /\ created' \in 0 .. MaxCarts
         /\ cart # NoCart => cart' = cart
         /\ created <= created'
  BY CartAssumption DEF TypeOK, CartsFit, UpsertCart, CartIds, NoCart

\* A started decrement has room below the quantity it finds.
LEMMA RoomToDecrement ==
  ASSUME TypeOK, DecrementsFit, NEW r \in Requests, req[r].op = "dec"
  PROVE  qty[req[r].product] - 1 \in -MaxQty .. MaxQty
<1> DEFINE p == req[r].product
<1>1. p \in Products
  BY RequestTypes DEF TypeOK
<1>2. IsFiniteSet(Decrementing(p)) /\ r \in Decrementing(p)
  BY CartAssumption, FS_Subset DEF Decrementing
<1>3. Cardinality(Decrementing(p)) \in Nat /\ Cardinality(Decrementing(p)) # 0
  BY <1>2, FS_CardinalityType, FS_EmptySet
<1>4. QED
  BY <1>1, <1>3, CartAssumption DEF TypeOK, DecrementsFit

LEMMA TypeNext == TypeOK /\ CartsFit /\ DecrementsFit /\ [Next]_vars => TypeOK'
<1> SUFFICES ASSUME TypeOK, CartsFit, DecrementsFit, [Next]_vars PROVE TypeOK'
  OBVIOUS
<1>1. ASSUME NEW r \in Requests, ReadOrCreate(r) \/ ReadOnly(r) PROVE TypeOK'
  BY <1>1, Begun DEF Begin, TypeOK
<1>2. ASSUME NEW r \in Requests, Create(r) PROVE TypeOK'
  BY <1>2, Ended, CartUpserted DEF Create, TypeOK
<1>3. ASSUME NEW r \in Requests, AddItem(r) PROVE TypeOK'
  <2>1. req[r].product \in Products /\ req[r].n \in 1 .. MaxQty
    BY <1>3, RequestTypes DEF AddItem, TypeOK
  <2>2. qty[req[r].product] + req[r].n \in -MaxQty .. MaxQty
    BY <1>3, <2>1, CartAssumption DEF AddItem, TypeOK
  <2>3. QED
    BY <1>3, <2>1, <2>2, Ended, LineSet, CartUpserted DEF AddItem, TypeOK
<1>4. ASSUME NEW r \in Requests, AddItemFails(r) \/ NoRow(r) PROVE TypeOK'
  BY <1>4, Ended DEF AddItemFails, NoRow, TypeOK
<1>5. ASSUME NEW r \in Requests, UpdateQty(r) PROVE TypeOK'
  <2>1. req[r].product \in Products /\ req[r].n \in -MaxQty .. MaxQty
    BY <1>5, RequestTypes, CartAssumption DEF UpdateQty, TypeOK
  <2>2. QED
    BY <1>5, <2>1, Ended, LineSet DEF UpdateQty, TypeOK
<1>6. ASSUME NEW r \in Requests, Increment(r) PROVE TypeOK'
  <2>1. req[r].product \in Products
    BY <1>6, RequestTypes DEF Increment, TypeOK
  <2>2. qty[req[r].product] + 1 \in -MaxQty .. MaxQty
    BY <1>6, <2>1, CartAssumption DEF Increment, TypeOK
  <2>3. QED
    BY <1>6, <2>1, <2>2, Ended, LineSet DEF Increment, TypeOK
<1>7. ASSUME NEW r \in Requests, Decrement(r) \/ DecrementError(r) PROVE TypeOK'
  <2>1. req[r].op = "dec" /\ req[r].product \in Products
    BY <1>7, RequestTypes DEF Decrement, DecrementError, TypeOK
  <2>2. qty[req[r].product] - 1 \in -MaxQty .. MaxQty
    BY <2>1, RoomToDecrement
  <2>3. End(r) \/ Purge(r) => req' \in [Requests -> {Idle} \cup Request]
    BY <2>1, Ended, Purging
  <2>4. QED
    BY <1>7, <2>1, <2>2, <2>3, LineSet DEF Decrement, DecrementError, TypeOK
<1>8. ASSUME NEW r \in Requests, DeleteItem(r) \/ ClearCart(r) PROVE TypeOK'
  BY <1>8, Ended, LinesDeleted DEF DeleteItem, ClearCart, TypeOK
<1>9. ASSUME NEW r \in Requests, Delete(r) PROVE TypeOK'
  BY <1>9, Ended, LinesDeleted DEF Delete, TypeOK
<1>10. ASSUME NEW r \in Requests, Abort(r) PROVE TypeOK'
  <2>1. req[r].op = "purge" => req[r].product \in Products
    BY RequestTypes DEF TypeOK
  <2>2. QED
    BY <1>10, <2>1, Ended DEF Abort, TypeOK
<1>11. CASE UNCHANGED vars
  BY <1>11 DEF vars, TypeOK
<1>12. QED
  BY <1>1, <1>2, <1>3, <1>4, <1>5, <1>6, <1>7, <1>8, <1>9, <1>10, <1>11 DEF Next, Finish

-----------------------------------------------------------------------------
(* The cart and its lines.                                                 *)

\* The row that a statement finds belongs to the user's cart, so there is one.
LEMMA FoundInCart ==
  ASSUME LinesAreOfTheCart, NEW r \in Requests, Found(r)
  PROVE  cart # NoCart
  BY DEF LinesAreOfTheCart, Found

LEMMA LinesNext == TypeOK /\ CartsFit /\ LinesAreOfTheCart /\ [Next]_vars => LinesAreOfTheCart'
<1> SUFFICES ASSUME TypeOK, CartsFit, LinesAreOfTheCart, [Next]_vars PROVE LinesAreOfTheCart'
  OBVIOUS
<1> USE DEF LinesAreOfTheCart
<1>1. ASSUME NEW r \in Requests, ReadOrCreate(r) \/ ReadOnly(r) PROVE LinesAreOfTheCart'
  BY <1>1, Begun DEF Begin
<1>2. ASSUME NEW p \in Products, NEW n, SetLine(p, n), cart' # NoCart PROVE LinesAreOfTheCart'
  BY <1>2 DEF SetLine, TypeOK
<1>3. ASSUME NEW gone, DeleteLines(gone), cart' = cart PROVE LinesAreOfTheCart'
  BY <1>3 DEF DeleteLines, TypeOK
<1>4. ASSUME NEW r \in Requests, Create(r) PROVE LinesAreOfTheCart'
  BY <1>4, CartUpserted DEF Create, CartIds, NoCart
<1>5. ASSUME NEW r \in Requests, AddItem(r) PROVE LinesAreOfTheCart'
  <2>1. req[r].product \in Products
    BY <1>5, RequestTypes DEF AddItem, TypeOK
  <2>2. cart' # NoCart
    BY <1>5, CartUpserted DEF AddItem, CartIds, NoCart
  <2>3. QED
    BY <1>2, <1>5, <2>1, <2>2 DEF AddItem
<1>6. ASSUME NEW r \in Requests, UpdateQty(r) \/ Increment(r) \/ Decrement(r) \/ DecrementError(r)
      PROVE  LinesAreOfTheCart'
  <2>1. req[r].product \in Products
    BY <1>6, RequestTypes DEF UpdateQty, Increment, Decrement, DecrementError, TypeOK
  <2>2. QED
    BY <1>2, <1>6, <2>1, FoundInCart DEF UpdateQty, Increment, Decrement, DecrementError
<1>7. ASSUME NEW r \in Requests, AddItemFails(r) \/ NoRow(r) \/ Abort(r) PROVE LinesAreOfTheCart'
  BY <1>7 DEF AddItemFails, NoRow, Abort
<1>8. ASSUME NEW r \in Requests, DeleteItem(r) \/ ClearCart(r) PROVE LinesAreOfTheCart'
  BY <1>3, <1>8 DEF DeleteItem, ClearCart
<1>9. ASSUME NEW r \in Requests, Delete(r) PROVE LinesAreOfTheCart'
  BY <1>9 DEF Delete, DeleteLines, TypeOK
<1>10. CASE UNCHANGED vars
  BY <1>10 DEF vars
<1>11. QED
  BY <1>1, <1>4, <1>5, <1>6, <1>7, <1>8, <1>9, <1>10 DEF Next, Finish

LEMMA CartsNext == TypeOK /\ CartsFit /\ [Next]_vars => CartsFit'
<1> SUFFICES ASSUME TypeOK, CartsFit, [Next]_vars PROVE CartsFit'
  OBVIOUS
<1>1. ASSUME NEW r \in Requests, ReadOrCreate(r) \/ ReadOnly(r) PROVE CartsFit'
  <2>1. PICK x \in Request : Begin(r, x) /\ (x.op = "drop" => created < MaxCarts /\ x.cart = cart)
    BY <1>1, Begun
  <2>2. x.op = "drop" => x.cart < MaxCarts
    BY <2>1, CartAssumption DEF CartsFit, TypeOK, NoCart
  <2>3. QED
    BY <2>1, <2>2 DEF Begin, CartsFit, TypeOK
<1>2. ASSUME NEW r \in Requests, End(r) \/ (req[r].op = "dec" /\ Purge(r))
      PROVE  \A q \in Requests : req'[q].op = "drop" => req'[q].cart < MaxCarts
  <2>1. req'[r].op # "drop" /\ \A q \in Requests \ {r} : req'[q] = req[q]
    BY <1>2, EndedIsNoMore
  <2>2. QED
    BY <2>1 DEF CartsFit
<1>3. ASSUME NEW r \in Requests, Create(r) \/ AddItem(r) PROVE CartsFit'
  BY <1>2, <1>3, CartUpserted DEF Create, AddItem, CartsFit, CartIds, NoCart
<1>4. ASSUME NEW r \in Requests, Delete(r) PROVE CartsFit'
  <2>1. req[r].cart = cart => created < MaxCarts
    BY <1>4 DEF Delete, CartsFit
  <2>2. QED
    BY <1>2, <1>4, <2>1 DEF Delete, CartsFit
<1>5. ASSUME NEW r \in Requests, Abort(r) \/ (Finish(r) /\ ~Create(r) /\ ~AddItem(r) /\ ~Delete(r))
      PROVE  CartsFit'
  <2>1. End(r) \/ (req[r].op = "dec" /\ Purge(r))
    BY <1>5 DEF Abort, Finish, AddItemFails, UpdateQty, Increment, NoRow, Decrement,
                DecrementError, DeleteItem, ClearCart
  <2>2. UNCHANGED <<cart, created>>
    BY <1>5 DEF Abort, Finish, AddItemFails, UpdateQty, Increment, NoRow, Decrement,
                DecrementError, DeleteItem, ClearCart
  <2>3. QED
    BY <1>2, <2>1, <2>2 DEF CartsFit
<1>6. CASE UNCHANGED vars
  BY <1>6 DEF vars, CartsFit
<1>7. QED
  BY <1>1, <1>3, <1>4, <1>5, <1>6 DEF Next, Finish

-----------------------------------------------------------------------------
(* Room to decrement.                                                      *)

LEMMA DecrementingCount ==
  ASSUME NEW p \in Products
  PROVE  /\ IsFiniteSet(Decrementing(p))
         /\ Cardinality(Decrementing(p)) \in 0 .. MaxQty
         /\ Cardinality(Decrementing(p)) <= Cardinality(Requests)
<1>1. Decrementing(p) \subseteq Requests /\ IsFiniteSet(Requests)
  BY CartAssumption DEF Decrementing
<1>2. /\ IsFiniteSet(Decrementing(p))
      /\ Cardinality(Decrementing(p)) <= Cardinality(Requests)
  BY <1>1, FS_Subset
<1>3. Cardinality(Decrementing(p)) \in Nat /\ Cardinality(Requests) \in Nat
  BY <1>1, <1>2, FS_CardinalityType
<1>4. QED
  BY <1>2, <1>3, CartAssumption

\* The same bounds in the state after a step.
LEMMA DecrementingCountNext ==
  ASSUME NEW p \in Products
  PROVE  /\ Cardinality(Decrementing(p))' \in 0 .. MaxQty
         /\ Cardinality(Decrementing(p))' <= Cardinality(Requests)
<1> DEFINE D == {r \in Requests : req'[r].op = "dec" /\ req'[r].product = p}
<1>1. D \subseteq Requests /\ IsFiniteSet(Requests)
  BY CartAssumption
<1>2. IsFiniteSet(D) /\ Cardinality(D) <= Cardinality(Requests)
  BY <1>1, FS_Subset
<1>3. Cardinality(D) \in Nat /\ Cardinality(Requests) \in Nat
  BY <1>1, <1>2, FS_CardinalityType
<1>4. Decrementing(p)' = D
  BY DEF Decrementing
<1>5. Cardinality(Decrementing(p))' = Cardinality(D)
  BY <1>4
<1> HIDE DEF D
<1>6. QED
  BY <1>2, <1>3, <1>5, CartAssumption

\* A request that is no decrement after the step makes room if it was one before.
LEMMA DecrementingShrinks ==
  ASSUME NEW p \in Products, NEW r \in Requests, req'[r].op # "dec",
         \A q \in Requests \ {r} : req'[q] = req[q]
  PROVE  /\ Cardinality(Decrementing(p))' <= Cardinality(Decrementing(p))
         /\ r \in Decrementing(p) =>
              Cardinality(Decrementing(p))' = Cardinality(Decrementing(p)) - 1
<1>1. Decrementing(p)' = Decrementing(p) \ {r}
  BY DEF Decrementing
<1>2. IsFiniteSet(Decrementing(p)) /\ Cardinality(Decrementing(p)) \in 0 .. MaxQty
  BY DecrementingCount
<1>3. Cardinality(Decrementing(p) \ {r}) =
        IF r \in Decrementing(p) THEN Cardinality(Decrementing(p)) - 1
                                 ELSE Cardinality(Decrementing(p))
  BY <1>2, FS_RemoveElement
<1>4. Cardinality(Decrementing(p))' = Cardinality(Decrementing(p) \ {r})
  BY <1>1
<1>5. QED
  BY <1>2, <1>3, <1>4, CartAssumption

\* A step that ends or purges for r keeps the room if it lowers no quantity, unless
\* r was a decrement of that line and lowers it by one, or the line is deleted.
LEMMA RoomIsKept ==
  ASSUME TypeOK, TypeOK', DecrementsFit, NEW r \in Requests,
         End(r) \/ (req[r].op = "dec" /\ Purge(r)),
         \A p \in Products :
           \/ qty'[p] >= qty[p]
           \/ qty'[p] = 0
           \/ r \in Decrementing(p) /\ qty'[p] = qty[p] - 1
  PROVE  DecrementsFit'
<1>1. req'[r].op # "dec" /\ \A q \in Requests \ {r} : req'[q] = req[q]
  BY EndedIsNoMore
<1>2. SUFFICES ASSUME NEW p \in Products
               PROVE  Cardinality(Decrementing(p))' - MaxQty <= qty'[p]
  BY DEF DecrementsFit
<1>3. /\ Cardinality(Decrementing(p)) \in 0 .. MaxQty
      /\ Cardinality(Decrementing(p))' \in 0 .. MaxQty
  BY DecrementingCount, DecrementingCountNext
<1>4. /\ Cardinality(Decrementing(p))' <= Cardinality(Decrementing(p))
      /\ r \in Decrementing(p) =>
           Cardinality(Decrementing(p))' = Cardinality(Decrementing(p)) - 1
  BY <1>1, DecrementingShrinks
<1>5. Cardinality(Decrementing(p)) - MaxQty <= qty[p]
  BY DEF DecrementsFit
<1>6. qty[p] \in Int /\ qty'[p] \in Int /\ MaxQty \in Nat
  BY CartAssumption DEF TypeOK
<1>7. QED
  BY <1>3, <1>4, <1>5, <1>6

LEMMA DecrementsNext ==
  TypeOK /\ TypeOK' /\ DecrementsFit /\ LinesAreOfTheCart /\ [Next]_vars => DecrementsFit'
<1> SUFFICES ASSUME TypeOK, TypeOK', DecrementsFit, LinesAreOfTheCart, [Next]_vars
             PROVE  DecrementsFit'
  OBVIOUS
<1> DEFINE Tolerable(r) ==
             \A p \in Products :
               \/ qty'[p] >= qty[p]
               \/ qty'[p] = 0
               \/ r \in Decrementing(p) /\ qty'[p] = qty[p] - 1
<1>0. \A p \in Products : qty[p] \in Int
  BY CartAssumption DEF TypeOK
<1>1. ASSUME NEW r \in Requests, ReadOrCreate(r) \/ ReadOnly(r) PROVE DecrementsFit'
  <2>1. PICK x \in Request :
          Begin(r, x) /\ (x.op = "dec" => qty[x.product] > -MaxQty + Cardinality(Requests))
    BY <1>1, Begun
  <2>2. SUFFICES ASSUME NEW p \in Products
                 PROVE  Cardinality(Decrementing(p))' - MaxQty <= qty[p]
    BY <2>1 DEF DecrementsFit, Begin
  <2>3. CASE x.op = "dec" /\ x.product = p
    <3>1. Cardinality(Requests) \in Nat
      BY CartAssumption, FS_CardinalityType
    <3>2. QED
      BY <1>0, <2>1, <2>3, <3>1, DecrementingCountNext, CartAssumption
  <2>4. CASE ~(x.op = "dec" /\ x.product = p)
    <3>1. req[r].op # "dec"
      BY <2>1 DEF Begin, Idle
    <3>2. Decrementing(p)' = Decrementing(p)
      BY <2>1, <2>4, <3>1 DEF Begin, Decrementing, TypeOK
    <3>3. QED
      BY <3>2 DEF DecrementsFit
  <2>5. QED
    BY <2>3, <2>4
<1>2. ASSUME NEW r \in Requests, Finish(r) \/ Abort(r)
      PROVE  End(r) \/ (req[r].op = "dec" /\ Purge(r))
  BY <1>2 DEF Finish, Abort, Create, AddItem, AddItemFails, UpdateQty, Increment, NoRow,
              Decrement, DecrementError, DeleteItem, ClearCart, Delete
<1>3. ASSUME NEW r \in Requests, Abort(r) \/ Create(r) \/ AddItemFails(r) \/ NoRow(r)
      PROVE  Tolerable(r)
  BY <1>0, <1>3 DEF Abort, Create, AddItemFails, NoRow
<1>4. ASSUME NEW r \in Requests, AddItem(r) PROVE Tolerable(r)
  <2>1. req[r].product \in Products /\ req[r].n \in Nat
    BY <1>4, RequestTypes DEF AddItem, TypeOK
  <2>2. QED
    BY <1>0, <1>4, <2>1 DEF AddItem, SetLine, TypeOK
<1>5. ASSUME NEW r \in Requests, Increment(r) PROVE Tolerable(r)
  <2>1. req[r].product \in Products
    BY <1>5, RequestTypes DEF Increment, TypeOK
  <2>2. QED
    BY <1>0, <1>5, <2>1 DEF Increment, SetLine, TypeOK
<1>6. ASSUME NEW r \in Requests, Decrement(r) \/ DecrementError(r) PROVE Tolerable(r)
  <2>1. req[r].product \in Products /\ r \in Decrementing(req[r].product)
    BY <1>6, RequestTypes DEF Decrement, DecrementError, TypeOK, Decrementing
  <2>2. QED
    BY <1>0, <1>6, <2>1 DEF Decrement, DecrementError, SetLine, TypeOK
<1>7. ASSUME NEW r \in Requests, DeleteItem(r) \/ ClearCart(r) \/ Delete(r) PROVE Tolerable(r)
  BY <1>0, <1>7 DEF DeleteItem, ClearCart, Delete, DeleteLines
<1>8. ASSUME NEW r \in Requests, UpdateQty(r) PROVE DecrementsFit'
  <2>1. req[r].product \in Products /\ req[r].n \in Nat
    BY <1>8, RequestTypes DEF UpdateQty, TypeOK
  <2>2. req'[r].op # "dec" /\ \A q \in Requests \ {r} : req'[q] = req[q]
    BY <1>8, Ended DEF UpdateQty, Idle
  <2>3. SUFFICES ASSUME NEW p \in Products
                 PROVE  Cardinality(Decrementing(p))' - MaxQty <= qty'[p]
    BY DEF DecrementsFit
  <2>4. CASE p = req[r].product
    BY <1>8, <2>1, <2>4, DecrementingCountNext, CartAssumption DEF UpdateQty, SetLine, TypeOK
  <2>5. CASE p # req[r].product
    <3>1. qty'[p] = qty[p]
      BY <1>8, <2>5 DEF UpdateQty, SetLine, TypeOK
    <3>2. Cardinality(Decrementing(p))' <= Cardinality(Decrementing(p))
      BY <2>2, DecrementingShrinks
    <3>3. Cardinality(Decrementing(p)) - MaxQty <= qty[p]
      BY DEF DecrementsFit
    <3>4. QED
      BY <1>0, <3>1, <3>2, <3>3, DecrementingCount, DecrementingCountNext, CartAssumption
  <2>6. QED
    BY <2>4, <2>5
<1>9. CASE UNCHANGED vars
  BY <1>9 DEF vars, DecrementsFit, Decrementing
<1>10. QED
  BY <1>1, <1>2, <1>3, <1>4, <1>5, <1>6, <1>7, <1>8, <1>9, RoomIsKept DEF Next, Finish

-----------------------------------------------------------------------------
(* Lines at zero or below.                                                 *)

\* The line of p may stay at zero or below: it is being deleted, or was given up.
LeavesOrStranded(p) ==
  \/ p \in stranded
  \/ \E q \in Requests : req[q].op = "purge" /\ req[q].product = p /\ req[q].cart = cart

\* A step of r that deletes nothing and leaves the cart is no reason to forget the
\* line of p, as long as p stays stranded.
LEMMA StillLeaving ==
  ASSUME TypeOK, NEW p, NEW r \in Requests, LeavesOrStranded(p),
         cart' = cart, \A q \in Requests \ {r} : req'[q] = req[q],
         ~(req[r].op = "purge" /\ req[r].product = p /\ req[r].cart = cart),
         p \in stranded => p \in stranded'
  PROVE  LeavesOrStranded(p)'
  BY DEF LeavesOrStranded

LEMMA EmptyNext ==
  TypeOK /\ LinesAreOfTheCart /\ EmptyLineIsOnItsWayOut /\ [Next]_vars => EmptyLineIsOnItsWayOut'
<1> SUFFICES ASSUME TypeOK, LinesAreOfTheCart, EmptyLineIsOnItsWayOut, [Next]_vars,
                    NEW p \in lines', qty'[p] <= 0
             PROVE  LeavesOrStranded(p)'
  BY DEF EmptyLineIsOnItsWayOut, LeavesOrStranded
<1> DEFINE Goal == LeavesOrStranded(p)'
<1>1. p \in lines /\ qty[p] <= 0 => LeavesOrStranded(p)
  BY DEF EmptyLineIsOnItsWayOut, LeavesOrStranded
<1>2. \A q \in Products : qty[q] \in Int /\ (q \notin lines => qty[q] = 0)
  BY CartAssumption DEF TypeOK, LinesAreOfTheCart
<1>3. ASSUME NEW r \in Requests, ReadOrCreate(r) \/ ReadOnly(r) PROVE Goal
  <2>1. PICK x \in Request : Begin(r, x)
    BY <1>3, Begun
  <2>2. /\ UNCHANGED <<cart, lines, qty, stranded>>
        /\ req[r].op # "purge"
        /\ \A q \in Requests \ {r} : req'[q] = req[q]
    BY <2>1 DEF Begin, Idle, TypeOK
  <2>3. QED
    BY <1>1, <2>2, StillLeaving
<1>4. ASSUME NEW r \in Requests, req[r].op # "purge", UNCHANGED <<lines, qty, stranded>>,
             cart' = cart, \A q \in Requests \ {r} : req'[q] = req[q]
      PROVE  Goal
  BY <1>1, <1>4, StillLeaving
<1>5. ASSUME NEW r \in Requests, Create(r) PROVE Goal
  <2>1. cart # NoCart
    BY <1>5 DEF Create, LinesAreOfTheCart
  <2>2. cart' = cart
    BY <1>5, <2>1 DEF Create, UpsertCart
  <2>3. QED
    BY <1>4, <1>5, <2>2, Ended DEF Create
<1>6. ASSUME NEW r \in Requests, AddItem(r) PROVE Goal
  <2>1. req[r].product \in Products /\ req[r].n \in 1 .. MaxQty
    BY <1>6, RequestTypes DEF AddItem, TypeOK
  <2>2. p \in lines /\ qty[p] <= 0
    BY <1>2, <1>6, <2>1, CartAssumption DEF AddItem, SetLine, TypeOK
  <2>3. cart' = cart
    BY <1>6, <2>2 DEF AddItem, UpsertCart, LinesAreOfTheCart
  <2>4. p \in stranded => p \in stranded'
    BY <1>6, <2>1 DEF AddItem, SetLine, TypeOK
  <2>5. QED
    BY <1>1, <1>6, <2>2, <2>3, <2>4, Ended, StillLeaving DEF AddItem
<1>7. ASSUME NEW r \in Requests, AddItemFails(r) \/ NoRow(r) PROVE Goal
  BY <1>4, <1>7, Ended DEF AddItemFails, NoRow
<1>8. ASSUME NEW r \in Requests, UpdateQty(r) \/ Increment(r) PROVE Goal
  <2>1. /\ req[r].product \in Products
        /\ req[r].op = "set" => req[r].n \in 1 .. MaxQty
    BY <1>8, RequestTypes DEF UpdateQty, Increment, TypeOK
  <2>2. p \in lines /\ qty[p] <= 0
    BY <1>2, <1>8, <2>1, CartAssumption DEF UpdateQty, Increment, Found, SetLine, TypeOK
  <2>3. p \in stranded => p \in stranded'
    BY <1>8, <2>1 DEF UpdateQty, Increment, SetLine, TypeOK
  <2>4. QED
    BY <1>1, <1>8, <2>2, <2>3, Ended, StillLeaving DEF UpdateQty, Increment
<1>9. ASSUME NEW r \in Requests, req[r].op = "dec", Found(r), cart' = cart,
             SetLine(req[r].product, qty[req[r].product] - 1),
             Purge(r) \/ (qty[req[r].product] - 1 > 0 /\ End(r))
      PROVE  Goal
  <2>1. req[r].product \in Products
    BY <1>9, RequestTypes DEF TypeOK
  <2>2. CASE p = req[r].product
    <3>1. qty'[p] = qty[p] - 1
      BY <1>9, <2>1, <2>2 DEF SetLine, TypeOK
    <3>2. Purge(r)
      BY <1>2, <1>9, <2>1, <2>2, <3>1
    <3>3. req'[r].op = "purge" /\ req'[r].product = p /\ req'[r].cart = cart'
      <4>1. req'[r] = [op |-> "purge", cart |-> req[r].cart, product |-> req[r].product]
        BY <1>9, <3>2, Purging
      <4>2. req[r].cart = cart /\ req[r].product = p
        BY <1>9, <2>2 DEF Found
      <4>3. QED
        BY <1>9, <4>1, <4>2
    <3>4. \E q \in Requests : /\ req'[q].op = "purge"
                             /\ req'[q].product = p
                             /\ req'[q].cart = cart'
      BY <3>3
    <3>5. QED
      BY <3>4 DEF LeavesOrStranded
  <2>3. CASE p # req[r].product
    <3>1. p \in lines /\ qty[p] <= 0 /\ (p \in stranded => p \in stranded')
      BY <1>9, <2>3 DEF SetLine, TypeOK
    <3>2. \A q \in Requests \ {r} : req'[q] = req[q]
      BY <1>9, EndedIsNoMore
    <3>3. QED
      BY <1>1, <1>9, <3>1, <3>2, StillLeaving
  <2>4. QED
    BY <2>2, <2>3
<1>10. ASSUME NEW r \in Requests, Decrement(r) \/ DecrementError(r) PROVE Goal
  <2>1. CASE Decrement(r)
    <3>1. req[r].product \in Products
      BY <2>1, RequestTypes DEF Decrement, TypeOK
    <3>2. QED
      BY <1>2, <1>9, <2>1, <3>1 DEF Decrement
  <2>2. CASE DecrementError(r) /\ UNCHANGED <<lines, qty, stranded>>
    BY <1>4, <2>2, EndedIsNoMore DEF DecrementError
  <2>3. CASE DecrementError(r) /\ Found(r) /\ SetLine(req[r].product, qty[req[r].product] - 1)
    BY <1>9, <2>3 DEF DecrementError
  <2>4. QED
    BY <1>10, <2>1, <2>2, <2>3 DEF DecrementError
<1>11. ASSUME NEW r \in Requests, DeleteItem(r) \/ ClearCart(r) PROVE Goal
  <2>1. PICK gone : /\ DeleteLines(gone)
                    /\ req[r].op = "purge" /\ req[r].cart = cart => req[r].product \in gone
    BY <1>11 DEF DeleteItem, ClearCart
  <2>2. p \notin gone /\ p \in lines /\ qty[p] <= 0
    BY <1>11, <2>1 DEF DeleteLines, TypeOK
  <2>3. cart' = cart /\ \A q \in Requests \ {r} : req'[q] = req[q]
    BY <1>11, Ended DEF DeleteItem, ClearCart
  <2>4. QED
    BY <1>1, <2>1, <2>2, <2>3, StillLeaving DEF DeleteLines
<1>12. ASSUME NEW r \in Requests, Delete(r) PROVE Goal
  <2>1. req[r].cart # cart
    BY <1>12 DEF Delete, DeleteLines
  <2>2. QED
    BY <1>4, <1>12, <2>1, Ended DEF Delete
<1>13. ASSUME NEW r \in Requests, Abort(r) PROVE Goal
  <2>1. CASE req[r].op = "purge" /\ req[r].product = p /\ req[r].cart = cart
    BY <1>13, <2>1 DEF Abort, Found, LeavesOrStranded
  <2>2. CASE ~(req[r].op = "purge" /\ req[r].product = p /\ req[r].cart = cart)
    <3>1. UNCHANGED <<cart, lines, qty>> /\ (p \in stranded => p \in stranded')
      BY <1>13 DEF Abort
    <3>2. \A q \in Requests \ {r} : req'[q] = req[q]
      BY <1>13, Ended DEF Abort
    <3>3. QED
      BY <1>1, <2>2, <3>1, <3>2, StillLeaving
  <2>3. QED
    BY <2>1, <2>2
<1>14. CASE UNCHANGED vars
  BY <1>1, <1>14 DEF vars, LeavesOrStranded
<1>15. QED
  BY <1>3, <1>5, <1>6, <1>7, <1>8, <1>10, <1>11, <1>12, <1>13, <1>14 DEF Next, Finish

-----------------------------------------------------------------------------
(* The theorems.                                                           *)

LEMMA Initially == Init => IInv
<1> SUFFICES ASSUME Init PROVE IInv
  OBVIOUS
<1>1. LinesAreOfTheCart /\ EmptyLineIsOnItsWayOut
  BY DEF Init, LinesAreOfTheCart, EmptyLineIsOnItsWayOut
<1>2. CartsFit
  BY CartAssumption DEF Init, CartsFit, Idle, NoCart
<1>3. DecrementsFit
  <2>1. SUFFICES ASSUME NEW p \in Products PROVE Cardinality(Decrementing(p)) - MaxQty <= 0
    BY DEF Init, DecrementsFit
  <2>2. QED
    BY DecrementingCount, CartAssumption
<1>4. QED
  BY <1>1, <1>2, <1>3, TypeInit DEF IInv

LEMMA Inductive == IInv /\ [Next]_vars => IInv'
  BY TypeNext, LinesNext, CartsNext, DecrementsNext, EmptyNext DEF IInv

LEMMA Invariance == Spec => []IInv
  BY Initially, Inductive, PTL DEF Spec

\* Every variable keeps its type: no quantity leaves the range of its column, and
\* every request holds a cart id that was given out.
THEOREM TypeCorrect == Spec => []TypeOK
<1>1. IInv => TypeOK
  BY DEF IInv
<1>2. QED
  BY <1>1, Invariance, PTL

\* Whatever runs between the two statements of Decrement, a line at zero or below is
\* about to be deleted, or its request died.
THEOREM EmptyLinesLeave == Spec => []EmptyLineIsOnItsWayOut
<1>1. IInv => EmptyLineIsOnItsWayOut
  BY DEF IInv
<1>2. QED
  BY <1>1, Invariance, PTL

-----------------------------------------------------------------------------
(* Stale carts.                                                            *)

\* A step of one request leaves the others' requests alone.
LEMMA OneRequestMoves ==
  ASSUME TypeOK, NEW r \in Requests, ReadOrCreate(r) \/ ReadOnly(r) \/ Finish(r) \/ Abort(r)
  PROVE  /\ \A q \in Requests \ {r} : req'[q] = req[q]
         /\ req[r] # Idle => Finish(r) \/ Abort(r)
<1>1. CASE ReadOrCreate(r) \/ ReadOnly(r)
  BY <1>1, Begun DEF Begin, TypeOK
<1>2. CASE Finish(r) \/ Abort(r)
  <2>1. End(r) \/ (req[r].op = "dec" /\ Purge(r))
    BY <1>2 DEF Finish, Abort, Create, AddItem, AddItemFails, UpdateQty, Increment, NoRow,
                Decrement, DecrementError, DeleteItem, ClearCart, Delete
  <2>2. QED
    BY <1>2, <2>1, EndedIsNoMore
<1>3. QED
  BY <1>1, <1>2

LEMMA StaleWritesNothing ==
  ASSUME TypeOK, NEW r \in Requests, Finish(r) \/ Abort(r), req[r].cart \notin {cart, NoCart}
  PROVE  UNCHANGED <<cart, lines, qty>>
<1>1. ASSUME DeleteLines({}) PROVE UNCHANGED <<lines, qty>>
  BY <1>1 DEF DeleteLines, TypeOK
<1>2. CASE Create(r) \/ AddItem(r) \/ AddItemFails(r) \/ NoRow(r) \/ Abort(r)
  BY <1>2 DEF Create, AddItem, AddItemFails, NoRow, Abort
<1>3. CASE UpdateQty(r) \/ Increment(r) \/ Decrement(r) \/ DecrementError(r)
  BY <1>3 DEF UpdateQty, Increment, Decrement, DecrementError, Found
<1>4. CASE DeleteItem(r) \/ ClearCart(r) \/ Delete(r)
  BY <1>1, <1>4 DEF DeleteItem, ClearCart, Delete
<1>5. QED
  BY <1>2, <1>3, <1>4 DEF Finish

\* A request that read the id of a cart since deleted writes into no cart.
THEOREM StaleCartsAreSafe == Spec => StaleCartIsNotWritten
<1> DEFINE Stale(r) == /\ req'[r] # req[r]
                       /\ req[r] # Idle
                       /\ req[r].cart \notin {cart, NoCart}
           A == \A r \in Requests : Stale(r) => UNCHANGED <<cart, lines, qty>>
<1>1. TypeOK /\ [Next]_vars => [A]_vars
  <2> SUFFICES ASSUME TypeOK, Next PROVE A
    OBVIOUS
  <2>1. SUFFICES ASSUME NEW r \in Requests, Stale(r) PROVE UNCHANGED <<cart, lines, qty>>
    OBVIOUS
  <2>2. Finish(r) \/ Abort(r)
    BY <2>1, OneRequestMoves DEF Next
  <2>3. QED
    BY <2>1, <2>2, StaleWritesNothing
<1>2. QED
  BY <1>1, TypeCorrect, PTL DEF Spec, StaleCartIsNotWritten
=============================================================================
