---------------------------- MODULE AddressBook ----------------------------
(***************************************************************************)
(* The address service.  A user has any number of addresses and means to   *)
(* have one primary one: a request that makes an address primary first     *)
(* clears the flag of all addresses of the user, in the same transaction.  *)
(*                                                                         *)
(* The UPDATE that clears the flags works on the rows its snapshot shows,  *)
(* locks them one at a time, in no promised order, waits for each row that *)
(* another transaction holds and looks at it again when it gets it.  What  *)
(* is inserted after the snapshot is not seen.  Locks are held, and what a *)
(* transaction writes is hidden, until it commits.                         *)
(*                                                                         *)
(* Labels, names and streets are left out.                                 *)
(***************************************************************************)
EXTENDS Naturals, FiniteSets

CONSTANTS
  Users,
  AddressIds,  \* bound: rows the addresses table can hold
  NoAddress,
  Requests,    \* concurrent request handlers
  NoOne        \* the holder of an unlocked row

VARIABLES
  address,   \* the addresses table, as committed
  lock,      \* the holder of each row
  tx,        \* the transaction of each request
  raced      \* history: users two of whose transactions made an address primary
             \* at once, or whose address was updated by another user

vars == <<address, lock, tx, raced>>

-----------------------------------------------------------------------------

Address == [user : Users, primary : BOOLEAN, live : BOOLEAN]

NoTx == [op |-> "none"]

\* unset: the rows whose flag is still to be cleared.
Tx == {NoTx}
      \cup [op : {"create"}, user : Users, primary : BOOLEAN,
            unset : SUBSET AddressIds]
      \cup [op : {"update"}, user : Users, primary : BOOLEAN,
            unset : SUBSET AddressIds, id : AddressIds]

TypeOK ==
  /\ address \in [AddressIds -> Address \cup {NoAddress}]
  /\ lock \in [AddressIds -> Requests \cup {NoOne}]
  /\ tx \in [Requests -> Tx]
  /\ raced \subseteq Users

Init ==
  /\ address = [a \in AddressIds |-> NoAddress]
  /\ lock = [a \in AddressIds |-> NoOne]
  /\ tx = [r \in Requests |-> NoTx]
  /\ raced = {}

Rows == {a \in AddressIds : address[a] # NoAddress}
Live == {a \in Rows : address[a].live}
Of(user) == {a \in Live : address[a].user = user}
Primaries(user) == {a \in Of(user) : address[a].primary}

Held(r) == {a \in AddressIds : lock[a] = r}
Mine(r, a) == lock[a] \in {r, NoOne}
Waits(r, q) == \E a \in AddressIds :
  /\ lock[a] = q
  /\ tx[r].op # "none"
  /\ a \in tx[r].unset \/ (tx[r].unset = {} /\ tx[r].op = "update" /\ a = tx[r].id)

-----------------------------------------------------------------------------
(* Create and Update.                                                      *)

MakesPrimary(r, user) == tx[r].op # "none" /\ tx[r].primary /\ tx[r].user = user

\* Mutant: no flag is cleared.
UnsetNone(user, primary) == {}

\* UnsetPrimaryByUser runs on its snapshot when the request asks for a primary.
ToUnset(user, primary) == IF primary THEN Of(user) ELSE {}

BeginTx(r, new) ==
  /\ tx[r] = NoTx
  /\ tx' = [tx EXCEPT ![r] = new]
  /\ raced' = IF new.primary /\ \E q \in Requests : MakesPrimary(q, new.user)
              THEN raced \cup {new.user} ELSE raced
  /\ UNCHANGED <<address, lock>>

CreateBegin(r, user, primary) ==
  BeginTx(r, [op |-> "create", user |-> user, primary |-> primary,
              unset |-> ToUnset(user, primary)])

UpdateBegin(r, user, id, primary) ==
  BeginTx(r, [op |-> "update", user |-> user, primary |-> primary,
              unset |-> ToUnset(user, primary), id |-> id])

\* Mutant: the flags are cleared outside of the transaction.
UnsetRowAtOnce(r, a) ==
  /\ tx[r].op # "none" /\ a \in tx[r].unset
  /\ lock[a] = NoOne
  /\ tx' = [tx EXCEPT ![r].unset = @ \ {a}]
  /\ address' = [address EXCEPT ![a].primary = @ /\ ~address[a].live]
  /\ UNCHANGED <<lock, raced>>

UnsetRow(r, a) ==
  /\ tx[r].op # "none" /\ a \in tx[r].unset
  /\ lock[a] = NoOne
  /\ tx' = [tx EXCEPT ![r].unset = @ \ {a}]
  /\ lock' = IF a \in Live THEN [lock EXCEPT ![a] = r] ELSE lock
  /\ UNCHANGED <<address, raced>>

Finish(r) ==
  /\ tx' = [tx EXCEPT ![r] = NoTx]
  /\ lock' = [a \in AddressIds |-> IF lock[a] = r THEN NoOne ELSE lock[a]]

\* COMMIT: the flags of the rows the transaction holds are cleared.
Unset(r) == [a \in AddressIds |->
               IF a \in Held(r) THEN [address[a] EXCEPT !.primary = FALSE]
                                ELSE address[a]]

CreateCommit(r) ==
  /\ tx[r].op = "create" /\ tx[r].unset = {}
  /\ \E a \in AddressIds \ Rows :
       address' = [Unset(r) EXCEPT ![a] = [user |-> tx[r].user, live |-> TRUE,
                                           primary |-> tx[r].primary]]
  /\ Finish(r)
  /\ UNCHANGED raced

\* UpdateAddress finds the row by its id alone.
UpdateCommit(r) ==
  /\ tx[r].op = "update" /\ tx[r].unset = {}
  /\ Mine(r, tx[r].id)
  /\ tx[r].id \in Live
  /\ address' = [Unset(r) EXCEPT ![tx[r].id].primary = tx[r].primary]
  /\ raced' = IF address[tx[r].id].user = tx[r].user THEN raced
              ELSE raced \cup {address[tx[r].id].user}
  /\ Finish(r)

\* Mutant: without the deferred rollback the locks of a failed update stay.
UpdateMissingLeftOpen(r) ==
  /\ tx[r].op = "update" /\ tx[r].unset = {}
  /\ Mine(r, tx[r].id)
  /\ tx[r].id \notin Live
  /\ tx' = [tx EXCEPT ![r] = NoTx]
  /\ UNCHANGED <<address, lock, raced>>

UpdateMissing(r) ==
  /\ tx[r].op = "update" /\ tx[r].unset = {}
  /\ Mine(r, tx[r].id)
  /\ tx[r].id \notin Live
  /\ Finish(r)
  /\ UNCHANGED <<address, raced>>

(* Delete is one statement.                                                *)

Delete(user, id) ==
  /\ id \in Of(user)
  /\ lock[id] = NoOne
  /\ address' = [address EXCEPT ![id].live = FALSE]
  /\ UNCHANGED <<lock, tx, raced>>

\* A database error, a client that leaves, a crash.
Abort(r) ==
  /\ tx[r] # NoTx
  /\ Finish(r)
  /\ UNCHANGED <<address, raced>>

\* PostgreSQL aborts one of two transactions that wait for each other.
DeadlockDetected(r) ==
  /\ \E q \in Requests \ {r} : Waits(r, q) /\ Waits(q, r)
  /\ Abort(r)

-----------------------------------------------------------------------------

Step(r) ==
  \/ \E a \in AddressIds : UnsetRow(r, a)
  \/ CreateCommit(r)
  \/ UpdateCommit(r)
  \/ UpdateMissing(r)
  \/ DeadlockDetected(r)

\* The rows of the table are the bound: a creation starts while there is room.
Room == Cardinality(AddressIds \ Rows)
          > Cardinality({r \in Requests : tx[r].op = "create"})

Begin(r) ==
  \E user \in Users, primary \in BOOLEAN :
    \/ Room /\ CreateBegin(r, user, primary)
    \/ \E id \in Rows : UpdateBegin(r, user, id, primary)

Next ==
  \/ \E r \in Requests : Begin(r) \/ Step(r) \/ Abort(r)
  \/ \E user \in Users, id \in AddressIds : Delete(user, id)

Fairness == \A r \in Requests : SF_vars(Step(r))

-----------------------------------------------------------------------------

\* A user has two primary addresses only when two transactions that each made
\* one primary ran at once, or another user's request updated one of them.
TwoPrimariesHaveACause ==
  \A user \in Users \ raced : \A a, b \in Primaries(user) : a = b

\* Whoever had a primary address still has one unless the last one is deleted,
\* or demoted by an update of its row, or its owner's request makes primary an
\* address that is not the owner's, which UpdateAddress does not refuse and which
\* clears the owner's flags: a request that clears the flags and then fails takes
\* nothing away.
Demoted(a) ==
  \E r \in Requests :
    /\ tx[r].op = "update" /\ tx'[r] = NoTx
    /\ \/ tx[r].id = a
       \/ /\ tx[r].user = address[a].user /\ tx[r].primary
          /\ tx[r].id \notin Of(tx[r].user)

NobodyLosesIt ==
  \A user \in Users :
    Primaries(user) # {} /\ Primaries(user)' = {} =>
      \E a \in Primaries(user) : ~address'[a].live \/ Demoted(a)

PrimaryIsKept == [][NobodyLosesIt]_vars

\* Every transaction ends: waiting for a row another one holds, and waiting in
\* a circle, come to an end.
AddressRequestsEnd == \A r \in Requests : tx[r] # NoTx ~> tx[r] = NoTx

(* Why they hold: the inductive invariant.                                 *)

\* A transaction locks, or will lock, rows of its own user only, and only to make another
\* address primary.
FlagsAreOwn ==
  \A r \in Requests, a \in AddressIds :
    (tx[r].op # "none" /\ a \in tx[r].unset) \/ lock[a] = r =>
      /\ tx[r].op # "none" /\ tx[r].primary
      /\ a \in Rows /\ address[a].user = tx[r].user

UnracedAreAlone ==
  \A user \in Users \ raced : \A q, r \in Requests :
    MakesPrimary(q, user) /\ MakesPrimary(r, user) => q = r

\* The one transaction that makes an address of a user primary has all the others in
\* its hands: no primary address is added behind its snapshot.
PrimariesWillGo ==
  \A user \in Users \ raced : \A r \in Requests :
    MakesPrimary(r, user) => Primaries(user) \subseteq tx[r].unset \cup Held(r)

IInv ==
  TypeOK /\ FlagsAreOwn /\ UnracedAreAlone /\ PrimariesWillGo /\ TwoPrimariesHaveACause
=============================================================================
