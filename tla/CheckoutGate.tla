---------------------------- MODULE CheckoutGate ----------------------------
(***************************************************************************)
(* POST /orders/checkout of one user: the per-user rate limit, the         *)
(* idempotency middleware with its response cache and lock in Redis, the   *)
(* handler, and the cart that the consumer empties some time later.        *)
(*                                                                         *)
(* Time runs in units of ten seconds, the rate limit's interval.  A        *)
(* request may take any number of units: the call to Midtrans is not bound *)
(* to the request's context.  The cached response outlives the model: it   *)
(* is kept for a day.                                                      *)
(***************************************************************************)
EXTENDS Naturals, FiniteSets

CONSTANTS
  Requests,     \* bound: the HTTP requests the client sends, retries included
  Keys,         \* Idempotency-Key header values
  KeyOf,        \* the key each request carries
  LockTTL,      \* expiry of the lock in units of time
  Failures,     \* may a Redis command fail, or the answer to COMMIT be lost
  Leavers       \* requests whose client may close its connection early

ASSUME GateAssumption ==
  /\ KeyOf \in [Requests -> Keys]
  /\ LockTTL \in Nat \ {0}
  /\ Failures \in BOOLEAN
  /\ Leavers \subseteq Requests

VARIABLES
  at,        \* where each request is
  answer,    \* what it was answered
  gone,      \* requests whose client left: their context is cancelled
  allowed,   \* the rate limiter's bucket, which holds one request
  cache,     \* keys whose response is in Redis
  lock,      \* the time left to each lock key, 0 when it is not there
  cart,      \* does the user's cart hold items
  clearing,  \* DELETE_CART events the consumer has not handled yet
  orders,    \* the number of orders placed under each key
  expired,   \* history: keys whose lock ran out under a request that held it
  unsaved,   \* history: keys with an order whose response was not cached
  late       \* history: keys locked by a request when the response was cached

redisVars   == <<cache, lock>>
historyVars == <<expired, unsaved, late>>
vars == <<at, answer, gone, allowed, redisVars, cart, clearing, orders, historyVars>>

TypeOK ==
  /\ at \in [Requests -> {"client", "lookup", "lock", "checkout",
                          "save", "unlock", "end"}]
  /\ answer \in [Requests -> {"none", "429", "replay", "409", "created", "error"}]
  /\ gone \in SUBSET Requests
  /\ allowed \in BOOLEAN
  /\ cache \in SUBSET Keys
  /\ lock \in [Keys -> 0 .. LockTTL]
  /\ cart \in BOOLEAN
  /\ clearing \in Nat
  /\ orders \in [Keys -> Nat]
  /\ {expired, unsaved, late} \subseteq SUBSET Keys

Init ==
  /\ at = [r \in Requests |-> "client"]
  /\ answer = [r \in Requests |-> "none"]
  /\ gone = {}
  /\ allowed = TRUE
  /\ cache = {}
  /\ lock = [k \in Keys |-> 0]
  /\ cart = TRUE
  /\ clearing = 0
  /\ orders = [k \in Keys |-> 0]
  /\ expired = {}
  /\ unsaved = {}
  /\ late = {}

Go(r, from, to) == at[r] = from /\ at' = [at EXCEPT ![r] = to]

Answer(r, what) == answer' = [answer EXCEPT ![r] = what]

\* A Redis command of r may fail: Redis is down, or the client left.
MayFail(r) == Failures \/ r \in gone

-----------------------------------------------------------------------------

\* The request arrives and meets RateLimitByUser(0.1, 1).
Arrive(r) ==
  /\ \/ allowed /\ Go(r, "client", "lookup") /\ UNCHANGED answer
     \/ ~allowed /\ Go(r, "client", "end") /\ Answer(r, "429")
  /\ allowed' = FALSE
  /\ UNCHANGED <<gone, redisVars, cart, clearing, orders, historyVars>>

\* An error of the command counts as a miss.
Lookup(r) ==
  /\ \/ /\ KeyOf[r] \in cache
        /\ r \notin gone
        /\ Go(r, "lookup", "end")
        /\ Answer(r, "replay")
     \/ /\ KeyOf[r] \notin cache \/ MayFail(r)
        /\ Go(r, "lookup", "lock")
        /\ UNCHANGED answer
  /\ UNCHANGED <<gone, allowed, redisVars, cart, clearing, orders, historyVars>>

\* What TTL answers for a key that has no expiry.
NoExpiry == LockTTL + 1

\* Mutant: the lock is set without an expiry.
SetNXForGood(k) ==
  /\ lock[k] = 0
  /\ lock' = [lock EXCEPT ![k] = NoExpiry]

SetNX(k) ==
  /\ lock[k] = 0
  /\ lock' = [lock EXCEPT ![k] = LockTTL]

Lock(r) ==
  /\ r \notin gone
  /\ SetNX(KeyOf[r])
  /\ Go(r, "lock", "checkout")
  /\ late' = IF KeyOf[r] \in cache THEN late \cup {KeyOf[r]} ELSE late
  /\ UNCHANGED <<answer, gone, allowed, cache, cart, clearing, orders, expired, unsaved>>

\* Mutant: a refused request runs the deferred DEL as well.
ConflictUnlocks(r) ==
  /\ lock[KeyOf[r]] > 0 \/ MayFail(r)
  /\ Go(r, "lock", "end")
  /\ Answer(r, "409")
  /\ lock' = [lock EXCEPT ![KeyOf[r]] = 0]
  /\ UNCHANGED <<gone, allowed, cache, cart, clearing, orders, historyVars>>

\* Someone holds the lock, or the command fails and counts as that, even when
\* Redis has set the key and only its reply is lost.
Conflict(r) ==
  /\ lock[KeyOf[r]] > 0 \/ MayFail(r)
  /\ Go(r, "lock", "end")
  /\ Answer(r, "409")
  /\ UNCHANGED lock \/ SetNX(KeyOf[r])
  /\ UNCHANGED <<gone, allowed, cache, cart, clearing, orders, historyVars>>

\* The service places an order for what is in the cart.
Place(r) ==
  /\ r \notin gone
  /\ cart
  /\ Go(r, "checkout", "save")
  /\ orders' = [orders EXCEPT ![KeyOf[r]] = @ + 1]
  /\ clearing' = clearing + 1
  /\ UNCHANGED <<answer, gone, allowed, redisVars, cart, historyVars>>

\* PostgreSQL commits but its answer is lost: the service reports an error.
PlaceUnnoticed(r) ==
  /\ Failures
  /\ cart
  /\ Go(r, "checkout", "unlock")
  /\ Answer(r, "error")
  /\ orders' = [orders EXCEPT ![KeyOf[r]] = @ + 1]
  /\ clearing' = clearing + 1
  /\ unsaved' = unsaved \cup {KeyOf[r]}
  /\ UNCHANGED <<gone, allowed, redisVars, cart, expired, late>>

\* The cart is empty, or the input, Midtrans or the database fails.
Reject(r) ==
  /\ Go(r, "checkout", "unlock")
  /\ Answer(r, "error")
  /\ UNCHANGED <<gone, allowed, redisVars, cart, clearing, orders, historyVars>>

\* Mutant: the handler does not find the cache key in the context.
SaveResponseSkipped(r) ==
  /\ Go(r, "save", "unlock")
  /\ Answer(r, "created")
  /\ UNCHANGED <<gone, allowed, redisVars, cart, clearing, orders, historyVars>>

\* The result of SET is not looked at.
SaveResponse(r) ==
  /\ Go(r, "save", "unlock")
  /\ Answer(r, "created")
  /\ \/ /\ r \notin gone
        /\ cache' = cache \cup {KeyOf[r]}
        /\ UNCHANGED unsaved
     \/ /\ MayFail(r)
        /\ unsaved' = unsaved \cup {KeyOf[r]}
        /\ UNCHANGED cache
  /\ UNCHANGED <<gone, allowed, lock, cart, clearing, orders, expired, late>>

\* The deferred DEL: it asks neither whose lock it deletes nor whether it did.
Unlock(r) ==
  /\ Go(r, "unlock", "end")
  /\ \/ r \notin gone /\ lock' = [lock EXCEPT ![KeyOf[r]] = 0]
     \/ MayFail(r) /\ UNCHANGED lock
  /\ UNCHANGED <<answer, gone, allowed, cache, cart, clearing, orders, historyVars>>

-----------------------------------------------------------------------------

Holding(k) == {r \in Requests : KeyOf[r] = k /\ at[r] \in {"checkout", "save", "unlock"}}

Leave(r) ==
  /\ r \in Leavers
  /\ at[r] \notin {"client", "end"}
  /\ gone' = gone \cup {r}
  /\ UNCHANGED <<at, answer, allowed, redisVars, cart, clearing, orders, historyVars>>

\* The API process restarts: requests end without an answer, the limiter starts
\* with a full bucket, Redis and the database keep what they have.
Restart ==
  LET lost == {r \in Requests : at[r] \notin {"client", "end"}}
  IN  /\ lost # {} \/ ~allowed
      /\ at' = [r \in Requests |-> IF r \in lost THEN "end" ELSE at[r]]
      /\ allowed' = TRUE
      /\ unsaved' = unsaved \cup {KeyOf[r] : r \in {s \in lost : at[s] = "save"}}
      /\ UNCHANGED <<answer, gone, redisVars, cart, clearing, orders, expired, late>>

\* Ten seconds pass.
Tick ==
  /\ ~allowed \/ \E k \in Keys : lock[k] > 0
  /\ allowed' = TRUE
  /\ lock' = [k \in Keys |-> IF lock[k] \in {0, NoExpiry} THEN lock[k] ELSE lock[k] - 1]
  /\ expired' = expired \cup {k \in Keys : lock[k] = 1 /\ Holding(k) # {}}
  /\ UNCHANGED <<at, answer, gone, cache, cart, clearing, orders, unsaved, late>>

\* The consumer handles DELETE_CART.
ClearCart ==
  /\ clearing > 0
  /\ clearing' = clearing - 1
  /\ cart' = FALSE
  /\ UNCHANGED <<at, answer, gone, allowed, redisVars, orders, historyVars>>

AddItem ==
  /\ ~cart
  /\ cart' = TRUE
  /\ UNCHANGED <<at, answer, gone, allowed, redisVars, clearing, orders, historyVars>>

-----------------------------------------------------------------------------

Step(r) ==
  \/ Lookup(r)
  \/ Lock(r)
  \/ Conflict(r)
  \/ Place(r)
  \/ PlaceUnnoticed(r)
  \/ Reject(r)
  \/ SaveResponse(r)
  \/ Unlock(r)

Next ==
  \/ \E r \in Requests : Arrive(r) \/ Step(r) \/ Leave(r)
  \/ Restart
  \/ Tick
  \/ ClearCart
  \/ AddItem

Spec == Init /\ [][Next]_vars

\* Handlers run on and time passes.  Clients need not send anything, and the
\* consumer need not run.
Fairness == WF_vars(Tick) /\ \A r \in Requests : WF_vars(Step(r))

FairSpec == Spec /\ Fairness

-----------------------------------------------------------------------------
(* Safety.                                                                 *)

\* Two requests with one key are in the handler at the same time only after a
\* lock ran out under its holder: that a request deletes the lock of another one
\* is a consequence of that too.
OneAtATime ==
  \A r, s \in Requests :
    /\ r # s
    /\ KeyOf[r] = KeyOf[s]
    /\ {r, s} \subseteq Holding(KeyOf[r])
    => KeyOf[r] \in expired

\* A second order under one key has one of three causes: a lock that ran out, an
\* order whose response did not reach the cache, or a request that missed the
\* cache, for it looked too early or in vain, and took the lock once the response
\* was there.
DuplicateHasACause ==
  \A k \in Keys : orders[k] > 1 => k \in expired \cup unsaved \cup late

(* Why they hold: the inductive invariant.                                 *)

Causes == expired \cup unsaved \cup late

\* Whoever is in the handler has its key locked, unless the lock ran out on it.
HolderHasTheLock ==
  \A r \in Requests :
    r \in Holding(KeyOf[r]) => lock[KeyOf[r]] > 0 \/ KeyOf[r] \in expired

\* An order leads to a cached response, or is on its way there.
OrderIsKnown ==
  \A k \in Keys \ Causes : orders[k] > 0 =>
    k \in cache \/ \E r \in Requests : KeyOf[r] = k /\ at[r] = "save"

\* Who is about to place an order has passed a cached response only by being late.
CheckoutMissedTheCache ==
  \A r \in Requests :
    at[r] = "checkout" /\ KeyOf[r] \in cache => KeyOf[r] \in expired \cup late

IInv ==
  /\ TypeOK
  /\ OneAtATime
  /\ HolderHasTheLock
  /\ OrderIsKnown
  /\ CheckoutMissedTheCache
  /\ DuplicateHasACause

(* What must happen.                                                       *)

\* No lock stays, whichever process died with it and whichever DEL failed.
LockGoes == \A k \in Keys : lock[k] > 0 ~> lock[k] = 0

(* What the repository says and the code does not do (refuted).            *)

\* README.md: idempotent checkout prevents duplicate orders in retry and
\* double-click scenarios.
AtMostOneOrder == \A k \in Keys : orders[k] <= 1
=============================================================================
