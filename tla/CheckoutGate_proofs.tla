------------------------ MODULE CheckoutGate_proofs ------------------------
(***************************************************************************)
(* What the idempotency middleware guarantees, for any number of requests  *)
(* and keys, any expiry of the lock, and with or without failures.         *)
(***************************************************************************)
EXTENDS CheckoutGate, TLAPS

Inside == {"checkout", "save", "unlock"}

LEMMA InHolding ==
  ASSUME NEW r \in Requests, NEW k \in Keys
  PROVE  r \in Holding(k) <=> KeyOf[r] = k /\ at[r] \in Inside
  BY DEF Holding, Inside

-----------------------------------------------------------------------------
(* Types.                                                                  *)

LEMMA TypeInit == Init => TypeOK
  BY GateAssumption DEF Init, TypeOK

LEMMA TypeNext == TypeOK /\ [Next]_vars => TypeOK'
<1> SUFFICES ASSUME TypeOK, [Next]_vars PROVE TypeOK'
  OBVIOUS
<1> USE GateAssumption DEF TypeOK, Go, Answer, redisVars, historyVars
<1>1. ASSUME NEW r \in Requests, Arrive(r) PROVE TypeOK'
  BY <1>1 DEF Arrive
<1>2. ASSUME NEW r \in Requests, Lookup(r) PROVE TypeOK'
  BY <1>2 DEF Lookup
<1>3. ASSUME NEW k \in Keys, SetNX(k) PROVE lock' \in [Keys -> 0 .. LockTTL]
  BY <1>3 DEF SetNX
<1>4. ASSUME NEW r \in Requests, Lock(r) PROVE TypeOK'
  BY <1>3, <1>4 DEF Lock
<1>5. ASSUME NEW r \in Requests, Conflict(r) PROVE TypeOK'
  BY <1>3, <1>5 DEF Conflict
<1>6. ASSUME NEW r \in Requests, Place(r) PROVE TypeOK'
  BY <1>6 DEF Place
<1>7. ASSUME NEW r \in Requests, PlaceUnnoticed(r) PROVE TypeOK'
  BY <1>7 DEF PlaceUnnoticed
<1>8. ASSUME NEW r \in Requests, Reject(r) PROVE TypeOK'
  BY <1>8 DEF Reject
<1>9. ASSUME NEW r \in Requests, SaveResponse(r) PROVE TypeOK'
  BY <1>9 DEF SaveResponse
<1>10. ASSUME NEW r \in Requests, Unlock(r) PROVE TypeOK'
  BY <1>10 DEF Unlock
<1>11. ASSUME NEW r \in Requests, Leave(r) PROVE TypeOK'
  BY <1>11 DEF Leave
<1>12. CASE Restart
  BY <1>12 DEF Restart
<1>13. CASE Tick
  <2>1. lock' \in [Keys -> 0 .. LockTTL]
    BY <1>13 DEF Tick, NoExpiry
  <2>2. expired' \in SUBSET Keys
    BY <1>13 DEF Tick
  <2>3. QED
    BY <1>13, <2>1, <2>2 DEF Tick
<1>14. CASE ClearCart \/ AddItem
  <2>1. CASE ClearCart
    <3>1. clearing' \in Nat
      BY <2>1 DEF ClearCart
    <3>2. cart' \in BOOLEAN
      BY <2>1 DEF ClearCart
    <3>3. QED
      BY <2>1, <3>1, <3>2 DEF ClearCart
  <2>2. CASE AddItem
    BY <2>2 DEF AddItem
  <2>3. QED
    BY <1>14, <2>1, <2>2
<1>15. CASE UNCHANGED vars
  BY <1>15 DEF vars
<1>16. QED
  BY <1>1, <1>2, <1>4, <1>5, <1>6, <1>7, <1>8, <1>9, <1>10, <1>11, <1>12, <1>13, <1>14, <1>15
  DEF Next, Step

-----------------------------------------------------------------------------
(* The lock.                                                               *)

LockInv == OneAtATime /\ HolderHasTheLock

LEMMA LockInit == Init => LockInv
  BY DEF Init, LockInv, OneAtATime, HolderHasTheLock, Holding

\* Where no request enters the handler and no lock goes, nothing can be lost.
LEMMA LockStays ==
  ASSUME TypeOK, LockInv,
         \A r \in Requests : at'[r] \in Inside => at[r] \in Inside,
         expired \subseteq expired',
         \A k \in Keys : lock[k] > 0 =>
           lock'[k] > 0 \/ k \in expired' \/ \A r \in Requests : KeyOf[r] = k => at'[r] \notin Inside
  PROVE  LockInv'
  BY GateAssumption DEF TypeOK, LockInv, OneAtATime, HolderHasTheLock, Holding, Inside

LEMMA LockNext == TypeOK /\ LockInv /\ [Next]_vars => LockInv'
<1> SUFFICES ASSUME TypeOK, LockInv, [Next]_vars PROVE LockInv'
  OBVIOUS
<1> USE GateAssumption DEF TypeOK
<1>1. ASSUME UNCHANGED <<lock, expired>>,
             \A r \in Requests : at'[r] \in Inside => at[r] \in Inside
      PROVE  LockInv'
  BY <1>1, LockStays
<1>2. ASSUME NEW r \in Requests, Lock(r) PROVE LockInv'
  <2>1. \A s \in Requests : KeyOf[s] = KeyOf[r] /\ at[s] \in Inside => KeyOf[r] \in expired
    BY <1>2, InHolding DEF Lock, SetNX, LockInv, HolderHasTheLock
  <2>2. OneAtATime'
    BY <1>2, <2>1 DEF Lock, Go, LockInv, OneAtATime, Holding, Inside
  <2>3. HolderHasTheLock'
    BY <1>2 DEF Lock, Go, SetNX, LockInv, HolderHasTheLock, Holding
  <2>4. QED
    BY <2>2, <2>3 DEF LockInv
<1>3. ASSUME NEW r \in Requests, Conflict(r) PROVE LockInv'
  BY <1>3, LockStays DEF Conflict, Go, SetNX, Inside, historyVars
<1>4. ASSUME NEW r \in Requests, Unlock(r) PROVE LockInv'
  <2>1. \A s \in Requests : KeyOf[s] = KeyOf[r] /\ at'[s] \in Inside => KeyOf[r] \in expired
    BY <1>4, InHolding DEF Unlock, Go, Inside, LockInv, OneAtATime
  <2>2. QED
    BY <1>4, <2>1, LockStays DEF Unlock, Go, Inside, historyVars
<1>5. ASSUME NEW r \in Requests, Arrive(r) \/ Lookup(r) PROVE LockInv'
  BY <1>1, <1>5 DEF Arrive, Lookup, Go, Inside, redisVars, historyVars
<1>6. ASSUME NEW r \in Requests, Place(r) \/ PlaceUnnoticed(r) PROVE LockInv'
  BY <1>1, <1>6 DEF Place, PlaceUnnoticed, Go, Inside, redisVars, historyVars
<1>7. ASSUME NEW r \in Requests, Reject(r) \/ SaveResponse(r) PROVE LockInv'
  BY <1>1, <1>7 DEF Reject, SaveResponse, Go, Inside, redisVars, historyVars
<1>8. CASE Restart
  BY <1>1, <1>8 DEF Restart, Inside, redisVars
<1>9. CASE Tick
  <2>1. ASSUME NEW k \in Keys, lock[k] > 0, lock'[k] = 0, NEW r \in Requests,
               KeyOf[r] = k, at[r] \in Inside
        PROVE  k \in expired'
    BY <1>9, <2>1, InHolding DEF Tick, NoExpiry
  <2>2. \A k \in Keys : lock'[k] >= 0
    BY TypeNext
  <2>3. QED
    BY <1>9, <2>1, <2>2, LockStays DEF Tick
<1>10. CASE UNCHANGED <<at, lock, expired>>
  BY <1>1, <1>10
<1>11. QED
  BY <1>2, <1>3, <1>4, <1>5, <1>6, <1>7, <1>8, <1>9, <1>10
  DEF Next, Step, Leave, ClearCart, AddItem, vars, redisVars, historyVars

-----------------------------------------------------------------------------
(* The orders.                                                             *)

OrdersInv == OrderIsKnown /\ CheckoutMissedTheCache /\ DuplicateHasACause

LEMMA OrdersInit == Init => OrdersInv
  BY DEF Init, OrdersInv, OrderIsKnown, CheckoutMissedTheCache, DuplicateHasACause

\* Only four steps touch what these three speak of.
LEMMA OrdersStay ==
  ASSUME TypeOK, OrdersInv, UNCHANGED <<orders, cache>>,
         expired \subseteq expired', unsaved \subseteq unsaved', late \subseteq late',
         \A r \in Requests :
           /\ at'[r] = "checkout" => at[r] = "checkout"
           /\ at[r] = "save" => at'[r] = "save" \/ KeyOf[r] \in unsaved'
  PROVE  OrdersInv'
<1> USE GateAssumption DEF TypeOK
<1>1. OrderIsKnown'
  BY DEF OrdersInv, OrderIsKnown, Causes
<1>2. CheckoutMissedTheCache' /\ DuplicateHasACause'
  BY DEF OrdersInv, CheckoutMissedTheCache, DuplicateHasACause
<1>3. QED
  BY <1>1, <1>2 DEF OrdersInv

LEMMA OrdersNext == TypeOK /\ LockInv /\ OrdersInv /\ [Next]_vars => OrdersInv'
<1> SUFFICES ASSUME TypeOK, LockInv, OrdersInv, [Next]_vars PROVE OrdersInv'
  OBVIOUS
<1> USE GateAssumption DEF TypeOK
<1>1. ASSUME NEW r \in Requests, NEW s \in Requests, r # s, KeyOf[r] = KeyOf[s],
             at[r] \in Inside, at[s] \in Inside
      PROVE  KeyOf[r] \in expired
  BY <1>1, InHolding DEF LockInv, OneAtATime
<1>2. ASSUME NEW r \in Requests, Lock(r) PROVE OrdersInv'
  BY <1>2 DEF Lock, Go, OrdersInv, OrderIsKnown, CheckoutMissedTheCache,
              DuplicateHasACause, Causes
<1>3. ASSUME NEW r \in Requests, Place(r) PROVE OrdersInv'
  <2> DEFINE k == KeyOf[r]
  <2>1. at[r] = "checkout" /\ at' = [at EXCEPT ![r] = "save"]
    BY <1>3 DEF Place, Go
  <2>2. k \notin Causes => orders[k] = 0
    <3> SUFFICES ASSUME k \notin Causes, orders[k] > 0 PROVE FALSE
      OBVIOUS
    <3>1. k \notin cache
      BY <2>1 DEF OrdersInv, CheckoutMissedTheCache, Causes
    <3>2. PICK s \in Requests : KeyOf[s] = k /\ at[s] = "save"
      BY <3>1 DEF OrdersInv, OrderIsKnown
    <3>3. QED
      BY <1>1, <2>1, <3>2 DEF Inside, Causes
  <2>3. OrderIsKnown'
    BY <1>3, <2>1 DEF Place, OrdersInv, OrderIsKnown, Causes, redisVars, historyVars
  <2>4. CheckoutMissedTheCache'
    BY <1>3, <2>1 DEF Place, OrdersInv, CheckoutMissedTheCache, redisVars, historyVars
  <2>5. DuplicateHasACause'
    BY <1>3, <2>2 DEF Place, OrdersInv, DuplicateHasACause, Causes, historyVars
  <2>6. QED
    BY <2>3, <2>4, <2>5 DEF OrdersInv
<1>4. ASSUME NEW r \in Requests, PlaceUnnoticed(r) PROVE OrdersInv'
  BY <1>4 DEF PlaceUnnoticed, Go, OrdersInv, OrderIsKnown, CheckoutMissedTheCache,
              DuplicateHasACause, Causes, redisVars
<1>5. ASSUME NEW r \in Requests, SaveResponse(r) PROVE OrdersInv'
  <2>1. at[r] = "save" /\ at' = [at EXCEPT ![r] = "unlock"]
    BY <1>5 DEF SaveResponse, Go
  <2>2. ASSUME NEW s \in Requests, at[s] = "checkout", KeyOf[s] = KeyOf[r]
        PROVE  KeyOf[s] \in expired
    BY <1>1, <2>1, <2>2 DEF Inside
  <2>3. OrderIsKnown'
    BY <1>5, <2>1 DEF SaveResponse, OrdersInv, OrderIsKnown, Causes
  <2>4. CheckoutMissedTheCache' /\ DuplicateHasACause'
    BY <1>5, <2>1, <2>2 DEF SaveResponse, OrdersInv, CheckoutMissedTheCache, DuplicateHasACause
  <2>5. QED
    BY <2>3, <2>4 DEF OrdersInv
<1>6. ASSUME NEW r \in Requests, Arrive(r) \/ Lookup(r) \/ Conflict(r) PROVE OrdersInv'
  BY <1>6, OrdersStay DEF Arrive, Lookup, Conflict, Go, redisVars, historyVars
<1>7. ASSUME NEW r \in Requests, Reject(r) \/ Unlock(r) PROVE OrdersInv'
  BY <1>7, OrdersStay DEF Reject, Unlock, Go, redisVars, historyVars
<1>8. CASE Restart
  BY <1>8, OrdersStay DEF Restart, redisVars
<1>9. CASE Tick
  BY <1>9, OrdersStay DEF Tick
<1>10. CASE UNCHANGED <<at, cache, orders, historyVars>>
  BY <1>10, OrdersStay DEF historyVars
<1>11. QED
  BY <1>2, <1>3, <1>4, <1>5, <1>6, <1>7, <1>8, <1>9, <1>10
  DEF Next, Step, Leave, ClearCart, AddItem, vars, redisVars

-----------------------------------------------------------------------------
(* Invariance.                                                             *)

LEMMA Invariance == Spec => []IInv
<1>1. Init => IInv
  BY TypeInit, LockInit, OrdersInit DEF IInv, LockInv, OrdersInv
<1>2. IInv /\ [Next]_vars => IInv'
  BY TypeNext, LockNext, OrdersNext DEF IInv, LockInv, OrdersInv
<1>3. QED
  BY <1>1, <1>2, PTL DEF Spec

\* The variables keep their types: no lock outlives its expiry.
THEOREM TypeCorrect == Spec => []TypeOK
  BY Invariance, PTL DEF IInv

\* The Redis lock excludes two requests with one key from the handler as long as it
\* does not run out under one of them, although DEL asks for no owner.
THEOREM LockExcludes == Spec => []OneAtATime
  BY Invariance, PTL DEF IInv

\* A second order under one idempotency key needs a lock that ran out, a response
\* that was not cached, or a request that looked too early.
THEOREM DuplicatesAreExplained == Spec => []DuplicateHasACause
  BY Invariance, PTL DEF IInv
=============================================================================
