-------------------------- MODULE Accounts_proofs --------------------------
(***************************************************************************)
(* The e-mail confirmation and password reset tokens, for any number of    *)
(* users, requests and PINs, and any life of the tokens.                   *)
(***************************************************************************)
EXTENDS Accounts, FiniteSetTheorems, TLAPS

-----------------------------------------------------------------------------
(* Times, tokens and requests.                                             *)

LEMMA Times ==
  /\ \A k \in Kinds : TTL[k] \in Nat \ {0}
  /\ 0 \in Ages
  /\ \A k \in Kinds, a \in Ages : Older(k, a) \in Ages \ {0}
<1>1. \A k \in Kinds : TTL[k] \in Nat \ {0}
  BY AccountsAssumption
<1>2. TTL["reset"] \in Nat \ {0} /\ TTL["confirm"] \in Nat \ {0}
  BY <1>1 DEF Kinds
<1>3. QED
  BY <1>1, <1>2 DEF Ages, Older, Kinds

RequestState == {Idle} \cup Issuing \cup Sending \cup Typing \cup Redeeming

\* The operation tag of a request determines the fields it has.
LEMMA RequestTypes ==
  ASSUME NEW x \in RequestState
  PROVE  /\ x = Idle <=> x.op = "idle"
         /\ x.op \in {"request", "throttle", "delete", "store"} => x \in Issuing
         /\ x.op = "mail" => x \in Sending
         /\ x.op = "pin" => x \in Typing
         /\ x.op \in {"apply", "drop"} => x \in Redeeming
  BY DEF RequestState, Idle, Issuing, Sending, Typing, Redeeming

\* TypeOK, conjunct by conjunct.
TypeParts ==
  /\ confirmed \subseteq users
  /\ users \subseteq Users
  /\ token \in Seq(Token)
  /\ Len(token) <= MaxTokens
  /\ live \subseteq DOMAIN token
  /\ mailed \subseteq DOMAIN token
  /\ applied \subseteq DOMAIN token
  /\ leftover \subseteq DOMAIN token
  /\ raced \subseteq DOMAIN token
  /\ \A s, t \in live :
       token[s].user = token[t].user /\ token[s].kind = token[t].kind => s = t
  /\ req \in [Requests -> RequestState]

LEMMA TypeUnfolded == TypeOK <=> TypeParts
  BY DEF TypeOK, TypeParts, RequestState

LEMMA TokenTable ==
  ASSUME TypeParts
  PROVE  /\ Len(token) \in Nat
         /\ DOMAIN token = 1 .. Len(token)
         /\ \A t \in DOMAIN token : token[t] \in Token
  BY DEF TypeParts

LEMMA Appended ==
  ASSUME TypeParts, NEW x \in Token, token' = Append(token, x)
  PROVE  /\ token' \in Seq(Token)
         /\ Len(token') = Len(token) + 1
         /\ DOMAIN token' = DOMAIN token \cup {Len(token) + 1}
         /\ Len(token) + 1 \notin DOMAIN token
         /\ token'[Len(token) + 1] = x
         /\ \A t \in DOMAIN token : token'[t] = token[t]
  BY TokenTable DEF TypeParts

LEMMA Aged ==
  ASSUME TypeParts, Tick
  PROVE  /\ token' \in Seq(Token)
         /\ Len(token') = Len(token)
         /\ DOMAIN token' = DOMAIN token
         /\ \A t \in DOMAIN token : /\ token'[t].user = token[t].user
                                    /\ token'[t].kind = token[t].kind
                                    /\ token'[t].pin = token[t].pin
                                    /\ token'[t].age # 0
<1>1. \A t \in DOMAIN token :
        /\ token[t] \in Token
        /\ token'[t] = [token[t] EXCEPT !.age = Older(token[t].kind, token[t].age)]
  BY TokenTable DEF Tick
<1>2. \A x \in Token : LET y == [x EXCEPT !.age = Older(x.kind, x.age)]
                       IN  /\ y \in Token
                           /\ y.user = x.user /\ y.kind = x.kind /\ y.pin = x.pin
                           /\ y.age # 0
  BY Times DEF Token
<1>3. \A t \in DOMAIN token : token'[t] \in Token
  BY <1>1, <1>2
<1>4. token' \in [1 .. Len(token) -> Token]
  BY <1>3, TokenTable DEF Tick
<1>5. token' \in Seq(Token) /\ Len(token') = Len(token) /\ DOMAIN token' = DOMAIN token
  BY <1>4, TokenTable
<1>6. QED
  BY <1>1, <1>2, <1>5

\* A new token of a request that stores one.
LEMMA NewToken ==
  ASSUME TypeParts, NEW r \in Requests, Store(r)
  PROVE  \E x \in Token : /\ x.user = req[r].user /\ x.kind = req[r].kind
                          /\ token' = Append(token, x)
<1>1. req[r] \in Issuing
  BY RequestTypes DEF TypeParts, Store
<1>2. \A pin \in Pins : [user |-> req[r].user, kind |-> req[r].kind, pin |-> pin,
                         age |-> req[r].age] \in Token
  BY <1>1 DEF Issuing, Token
<1>3. QED
  BY <1>2 DEF Store

-----------------------------------------------------------------------------
(* What a step may do to the tokens and to the other requests.             *)

\* A token stays in its table of all tokens as it is, but for its age.
TokensStay ==
  /\ DOMAIN token \subseteq DOMAIN token'
  /\ \A t \in DOMAIN token : /\ token'[t].user = token[t].user
                             /\ token'[t].kind = token[t].kind
                             /\ token'[t].pin = token[t].pin

LEMMA StepKeepsTokens ==
  ASSUME TypeParts, [Next]_vars
  PROVE  TokensStay
<1>1. CASE Tick
  BY <1>1, Aged DEF TokensStay
<1>2. CASE \E r \in Requests : Store(r)
  BY <1>2, NewToken, Appended DEF TokensStay
<1>3. CASE token' = token
  BY <1>3 DEF TokensStay
<1>4. ASSUME NEW r \in Requests, Start(r) \/ Abort(r) \/ (Step(r) /\ ~Store(r))
      PROVE  token' = token
  BY <1>4 DEF Start, Abort, Step, Register, Ask, EnterPin, LookUp, FindUser, Throttle,
              DeleteOld, Mail, ComparePin, Apply, Drop
<1>5. QED
  BY <1>1, <1>2, <1>3, <1>4 DEF Next, vars

LEMMA PinsStayShared ==
  ASSUME TokensStay, NEW t \in DOMAIN token, SharesPin(t)
  PROVE  SharesPin(t)'
  BY DEF TokensStay, SharesPin

LEMMA OthersStay ==
  ASSUME TypeParts, NEW r \in Requests, NEW x, Go(r, x)
  PROVE  req'[r] = x /\ \A q \in Requests \ {r} : req'[q] = req[q]
  BY DEF TypeParts, Go

-----------------------------------------------------------------------------
(* What a request goes on with.                                            *)

\* RequestsAreSound, of one request.
Sound(x) ==
  /\ x # Idle => x.user \in users
  /\ x.op \in {"mail", "apply", "drop"} =>
       /\ x.token \in DOMAIN token
       /\ token[x.token].user = x.user
  /\ x.op \in {"apply", "drop"} /\ x.by = "pin" => token[x.token].kind = "confirm"

LEMMA SoundUnfolded ==
  RequestsAreSound <=> /\ \A t \in DOMAIN token : token[t].user \in users
                       /\ \A r \in Requests : Sound(req[r])
  BY DEF RequestsAreSound, Sound

\* A token that is still to be stored fits the bound.
LEMMA RoomToStore ==
  ASSUME TypeParts, StoresFit, NEW r \in Storing
  PROVE  Len(token) + 1 \in 1 .. MaxTokens
<1>1. IsFiniteSet(Storing)
  BY AccountsAssumption, FS_Subset DEF Storing
<1>2. Cardinality(Storing) \in Nat /\ Cardinality(Storing) # 0
  BY <1>1, FS_CardinalityType, FS_EmptySet
<1>3. QED
  BY <1>2, TokenTable, AccountsAssumption DEF StoresFit

LEMMA HandlerStep ==
  ASSUME TypeParts, StoresFit, RequestsAreSound, NEW r \in Requests,
         Start(r) \/ Step(r) \/ Abort(r)
  PROVE  \E x \in RequestState : Go(r, x) /\ Sound(x)'
<1> DEFINE Goal == \E x \in RequestState : Go(r, x) /\ Sound(x)'
<1>0. Sound(req[r]) /\ \A t \in DOMAIN token : token[t].user \in users
  BY SoundUnfolded
<1>1. ASSUME End(r) PROVE Goal
  BY <1>1 DEF End, RequestState, Sound, Idle
<1>2. ASSUME NEW u \in users', NEW k \in Kinds, NEW resend \in BOOLEAN,
             Go(r, NewRequest(u, k, resend)), users' \subseteq Users
      PROVE  Goal
  <2>1. PICK x : x = NewRequest(u, k, resend)
    OBVIOUS
  <2>2. x \in Issuing /\ x.op = "request" /\ x.user = u
    BY <1>2, <2>1, Times DEF NewRequest, Issuing
  <2>3. Sound(x)'
    BY <1>2, <2>2 DEF Sound
  <2>4. QED
    BY <1>2, <2>1, <2>2, <2>3 DEF RequestState
<1>3. ASSUME NEW op \in {"throttle", "delete", "store"}, req[r] \in Issuing,
             Go(r, [req[r] EXCEPT !.op = op]), users' = users
      PROVE  Goal
  <2>0. PICK x : x = [req[r] EXCEPT !.op = op]
    OBVIOUS
  <2>1. x \in Issuing /\ x.op = op /\ x.user = req[r].user
    BY <1>3, <2>0 DEF Issuing
  <2>2. req[r] # Idle
    BY <1>3 DEF Issuing, Idle
  <2>3. Sound(x)'
    BY <1>0, <1>3, <2>1, <2>2 DEF Sound
  <2>4. QED
    BY <1>3, <2>0, <2>1, <2>3 DEF RequestState
<1>4. ASSUME NEW t \in DOMAIN token, NEW op \in {"apply", "drop"}, NEW by \in {"token", "pin"},
             Go(r, Redeem(r, t, op, by)), UNCHANGED <<users, token>>,
             by = "pin" => token[t].kind = "confirm"
      PROVE  Goal
  <2>1. token[t] \in Token /\ t \in 1 .. MaxTokens
    BY TokenTable, AccountsAssumption DEF TypeParts
  <2>2. PICK x : x = Redeem(r, t, op, by)
    OBVIOUS
  <2>3. /\ x \in Redeeming
        /\ x.op = op /\ x.token = t /\ x.user = token[t].user /\ x.by = by
    BY <2>1, <2>2 DEF Redeem, Redeeming, Token
  <2>4. Sound(x)'
    BY <1>0, <1>4, <2>3 DEF Sound
  <2>5. QED
    BY <1>4, <2>2, <2>3, <2>4 DEF RequestState
<1>5. ASSUME NEW u \in Users, Register(r, u) PROVE Goal
  BY <1>2, <1>5 DEF Register, Kinds, TypeParts
<1>6. ASSUME NEW u \in Users, Ask(r, u) PROVE Goal
  BY <1>2, <1>6 DEF Ask, Kinds, TypeParts
<1>7. ASSUME NEW u \in Users, NEW pin \in Pins, EnterPin(r, u, pin) PROVE Goal
  <2>1. PICK x : x = [op |-> "pin", user |-> u, pin |-> pin]
    OBVIOUS
  <2>2. x \in Typing /\ x.op = "pin" /\ x.user = u
    BY <2>1 DEF Typing
  <2>3. Sound(x)'
    BY <1>7, <2>2 DEF EnterPin, Sound
  <2>4. QED
    BY <1>7, <2>1, <2>2, <2>3 DEF EnterPin, RequestState
<1>8. ASSUME NEW t \in DOMAIN token, LookUp(r, t) PROVE Goal
  BY <1>4, <1>8 DEF LookUp
<1>9. ASSUME ComparePin(r) PROVE Goal
  <2>1. CASE End(r)
    BY <1>1, <2>1
  <2>2. CASE ~End(r)
    <3>1. PICK t \in RowOf("confirm", req[r].user) :
            Go(r, Redeem(r, t, IF Expired(t) THEN "drop" ELSE "apply", "pin"))
      BY <1>9, <2>2 DEF ComparePin
    <3>2. t \in DOMAIN token /\ token[t].kind = "confirm"
      BY DEF RowOf, TypeParts
    <3>3. QED
      BY <1>4, <1>9, <3>1, <3>2 DEF ComparePin
  <2>3. QED
    BY <2>1, <2>2
<1>10. ASSUME FindUser(r) \/ Throttle(r) \/ DeleteOld(r) PROVE Goal
  <2>1. req[r] \in Issuing
    BY <1>10, RequestTypes DEF FindUser, Throttle, DeleteOld, TypeParts
  <2>2. CASE FindUser(r)
    BY <1>1, <1>3, <2>1, <2>2 DEF FindUser
  <2>3. CASE Throttle(r)
    BY <1>1, <1>3, <2>1, <2>3 DEF Throttle
  <2>4. CASE DeleteOld(r)
    BY <1>3, <2>1, <2>4 DEF DeleteOld
  <2>5. QED
    BY <1>10, <2>2, <2>3, <2>4
<1>11. ASSUME Store(r) PROVE Goal
  <2>0. PICK x : x = [op |-> "mail", user |-> req[r].user, token |-> Len(token) + 1]
    OBVIOUS
  <2>1. req[r] \in Issuing /\ r \in Storing /\ req[r] # Idle
    BY <1>11, RequestTypes DEF Store, TypeParts, Storing, Idle
  <2>2. /\ x \in Sending /\ x.op = "mail"
        /\ x.user = req[r].user /\ x.token = Len(token) + 1
    BY <2>0, <2>1, RoomToStore DEF Sending, Issuing
  <2>3. PICK new \in Token : new.user = req[r].user /\ token' = Append(token, new)
    BY <1>11, NewToken
  <2>4. Len(token) + 1 \in DOMAIN token' /\ token'[Len(token) + 1] = new
    BY <2>3, Appended
  <2>5. req[r].user \in users'
    BY <1>0, <1>11, <2>1 DEF Store, Sound
  <2>6. Sound(x)'
    BY <2>2, <2>3, <2>4, <2>5 DEF Sound
  <2>7. QED
    BY <1>11, <2>0, <2>2, <2>6 DEF Store, RequestState
<1>12. ASSUME Apply(r) PROVE Goal
  <2>0. PICK x : x = [req[r] EXCEPT !.op = "drop"]
    OBVIOUS
  <2>1. req[r] \in Redeeming /\ req[r] # Idle
    BY <1>12, RequestTypes DEF Apply, TypeParts, Idle
  <2>2. /\ x \in Redeeming /\ x.op = "drop" /\ x.user = req[r].user
        /\ x.token = req[r].token /\ x.by = req[r].by
    BY <2>0, <2>1 DEF Redeeming
  <2>3. Sound(x)'
    BY <1>0, <1>12, <2>1, <2>2 DEF Apply, Sound
  <2>4. QED
    BY <1>12, <2>0, <2>2, <2>3 DEF Apply, RequestState
<1>13. ASSUME Mail(r) \/ Drop(r) \/ Abort(r) PROVE Goal
  BY <1>1, <1>13 DEF Mail, Drop, Abort
<1>14. QED
  BY <1>5, <1>6, <1>7, <1>8, <1>9, <1>10, <1>11, <1>12, <1>13 DEF Start, Step

\* Time makes requests older and changes nothing else of them.
LEMMA AgedRequests ==
  ASSUME TypeParts, Tick, NEW q \in Requests
  PROVE  /\ req'[q] \in RequestState
         /\ req'[q].op = req[q].op
         /\ req[q].op \in {"delete", "store"} =>
              req'[q].user = req[q].user /\ req'[q].kind = req[q].kind
         /\ req[q].op \notin {"delete", "store"} => req'[q] = req[q]
<1>1. CASE req[q].op \in {"delete", "store"}
  <2>1. req[q] \in Issuing
    BY <1>1, RequestTypes DEF TypeParts
  <2>2. req'[q] = [req[q] EXCEPT !.age = Older(req[q].kind, req[q].age)]
    BY <1>1 DEF Tick
  <2>3. Older(req[q].kind, req[q].age) \in Ages
    BY <2>1, Times DEF Issuing
  <2>4. /\ req'[q] \in Issuing
        /\ req'[q].op = req[q].op /\ req'[q].user = req[q].user /\ req'[q].kind = req[q].kind
    BY <2>1, <2>2, <2>3 DEF Issuing
  <2>5. QED
    BY <1>1, <2>4 DEF RequestState
<1>2. CASE req[q].op \notin {"delete", "store"}
  BY <1>2 DEF Tick, TypeParts
<1>3. QED
  BY <1>1, <1>2

-----------------------------------------------------------------------------
(* The bound, the users and the requests.                                  *)

LEMMA UsersNext ==
  ASSUME TypeParts, RequestsAreSound, [Next]_vars
  PROVE  confirmed' \subseteq users' /\ users \subseteq users' /\ users' \subseteq Users
<1>1. ASSUME NEW r \in Requests, NEW u \in Users, Register(r, u)
      PROVE  confirmed' \subseteq users' /\ users \subseteq users' /\ users' \subseteq Users
  BY <1>1 DEF Register, TypeParts
<1>2. ASSUME NEW r \in Requests, Apply(r)
      PROVE  confirmed' \subseteq users' /\ users' = users
  BY <1>2 DEF Apply, TypeParts, RequestsAreSound, Idle
<1>3. CASE UNCHANGED <<users, confirmed>>
  BY <1>3 DEF TypeParts
<1>4. ASSUME NEW r \in Requests, Start(r), \A u \in Users : ~Register(r, u)
      PROVE  UNCHANGED <<users, confirmed>>
  BY <1>4 DEF Start, Ask, EnterPin, LookUp
<1>5. ASSUME NEW r \in Requests, Abort(r) \/ (Step(r) /\ ~Apply(r))
      PROVE  UNCHANGED <<users, confirmed>>
  BY <1>5 DEF Abort, Step, FindUser, Throttle, DeleteOld, Store, Mail, ComparePin, Drop
<1>6. QED
  BY <1>1, <1>2, <1>3, <1>4, <1>5 DEF Next, Tick, vars, TypeParts

LEMMA SoundStays ==
  ASSUME TypeParts, TokensStay, users \subseteq users', NEW x, Sound(x)
  PROVE  Sound(x)'
  BY DEF TypeParts, TokensStay, Sound

LEMMA RequestsNext ==
  ASSUME TypeParts, StoresFit, RequestsAreSound, [Next]_vars
  PROVE  /\ req' \in [Requests -> RequestState]
         /\ \A q \in Requests : Sound(req[q])'
<1>1. TokensStay /\ users \subseteq users' /\ \A q \in Requests : Sound(req[q])
  BY StepKeepsTokens, UsersNext, SoundUnfolded
<1>2. ASSUME NEW r \in Requests, Start(r) \/ Step(r) \/ Abort(r)
      PROVE  /\ req' \in [Requests -> RequestState]
             /\ \A q \in Requests : Sound(req[q])'
  <2>1. PICK x \in RequestState : Go(r, x) /\ Sound(x)'
    BY <1>2, HandlerStep
  <2>2. req' \in [Requests -> RequestState]
    BY <2>1 DEF Go, TypeParts
  <2>3. ASSUME NEW q \in Requests PROVE Sound(req[q])'
    <3>1. PICK y : y = req[q]
      OBVIOUS
    <3>2. Sound(y)'
      BY <1>1, <3>1, SoundStays
    <3>3. req'[q] = x \/ req'[q] = y
      BY <2>1, <3>1, OthersStay
    <3>4. QED
      BY <2>1, <3>2, <3>3 DEF Sound
  <2>4. QED
    BY <2>2, <2>3
<1>3. CASE Tick
  <2>1. req' \in [Requests -> RequestState]
    BY <1>3, AgedRequests DEF Tick
  <2>2. ASSUME NEW q \in Requests PROVE Sound(req[q])'
    <3>1. PICK y : y = req[q]
      OBVIOUS
    <3>2. Sound(y)'
      BY <1>1, <3>1, SoundStays
    <3>3. CASE req[q].op \in {"delete", "store"}
      <4>1. req'[q].op \in {"delete", "store"} /\ req'[q].user = req[q].user /\ req[q] # Idle
        BY <1>3, <3>3, AgedRequests DEF Idle
      <4>2. req'[q].user \in users'
        BY <1>1, <4>1 DEF Sound
      <4>3. QED
        BY <4>1, <4>2 DEF Sound
    <3>4. CASE req[q].op \notin {"delete", "store"}
      BY <1>3, <3>1, <3>2, <3>4, AgedRequests DEF Sound
    <3>5. QED
      BY <3>3, <3>4
  <2>3. QED
    BY <2>1, <2>2
<1>4. CASE UNCHANGED vars
  BY <1>1, <1>4 DEF vars, TypeParts, Sound
<1>5. QED
  BY <1>2, <1>3, <1>4 DEF Next

LEMMA TokenUsersNext ==
  ASSUME TypeParts, RequestsAreSound, [Next]_vars
  PROVE  \A t \in DOMAIN token' : token'[t].user \in users'
<1>1. users \subseteq users'
  BY UsersNext
<1>2. ASSUME NEW r \in Requests, Store(r)
      PROVE  \A t \in DOMAIN token' : token'[t].user \in users'
  <2>1. req[r].user \in users
    BY <1>2 DEF Store, RequestsAreSound, Idle
  <2>2. QED
    BY <1>1, <1>2, <2>1, NewToken, Appended DEF RequestsAreSound
<1>3. CASE Tick
  BY <1>1, <1>3, Aged DEF RequestsAreSound
<1>4. CASE token' = token
  BY <1>1, <1>4 DEF RequestsAreSound
<1>5. ASSUME NEW r \in Requests, Start(r) \/ Abort(r) \/ (Step(r) /\ ~Store(r))
      PROVE  token' = token
  BY <1>5 DEF Start, Abort, Step, Register, Ask, EnterPin, LookUp, FindUser, Throttle,
              DeleteOld, Mail, ComparePin, Apply, Drop
<1>6. QED
  BY <1>2, <1>3, <1>4, <1>5 DEF Next, vars

LEMMA SoundNext ==
  ASSUME TypeParts, StoresFit, RequestsAreSound, [Next]_vars
  PROVE  RequestsAreSound'
  BY RequestsNext, TokenUsersNext DEF RequestsAreSound, Sound

LEMMA StoresNext ==
  ASSUME TypeParts, StoresFit, [Next]_vars
  PROVE  StoresFit' /\ Len(token') <= MaxTokens
<1>0. /\ IsFiniteSet(Storing) /\ Cardinality(Storing) \in Nat /\ Len(token) \in Nat
      /\ MaxTokens \in Nat
  BY AccountsAssumption, TokenTable, FS_Subset, FS_CardinalityType DEF Storing
<1>a. PICK S : S = {q \in Requests : req'[q].op \in {"request", "throttle", "delete", "store"}}
  OBVIOUS
<1>b. S = Storing' /\ S \subseteq Requests
  BY <1>a DEF Storing
<1>c. IsFiniteSet(S) /\ Cardinality(S) \in Nat
  BY <1>b, AccountsAssumption, FS_Subset, FS_CardinalityType
<1>d. SUFFICES Len(token') + Cardinality(S) <= MaxTokens /\ Len(token') \in Nat
  BY <1>0, <1>b, <1>c DEF StoresFit
<1>1. ASSUME token' = token, S \subseteq Storing
      PROVE  Len(token') + Cardinality(S) <= MaxTokens /\ Len(token') \in Nat
  <2>1. Cardinality(S) <= Cardinality(Storing)
    BY <1>0, <1>1, FS_Subset
  <2>2. QED
    BY <1>0, <1>1, <1>c, <2>1 DEF StoresFit
<1>2. ASSUME NEW r \in Requests, NEW u \in Users, Register(r, u) \/ Ask(r, u)
      PROVE  Len(token') + Cardinality(S) <= MaxTokens /\ Len(token') \in Nat
  <2>1. token' = token /\ Len(token) + Cardinality(Storing) < MaxTokens
    BY <1>2 DEF Register, Ask, Room
  <2>2. \A q \in Requests \ {r} : req'[q] = req[q]
    BY <1>2, OthersStay DEF Register, Ask
  <2>3. S \subseteq Storing \cup {r}
    BY <1>a, <2>2 DEF Storing
  <2>4. /\ IsFiniteSet(Storing \cup {r})
        /\ Cardinality(Storing \cup {r}) =
             IF r \in Storing THEN Cardinality(Storing) ELSE Cardinality(Storing) + 1
    BY <1>0, FS_AddElement
  <2>5. Cardinality(S) <= Cardinality(Storing \cup {r})
    BY <2>3, <2>4, FS_Subset
  <2>6. QED
    BY <1>0, <1>c, <2>1, <2>4, <2>5
<1>3. ASSUME NEW r \in Requests, Store(r)
      PROVE  Len(token') + Cardinality(S) <= MaxTokens /\ Len(token') \in Nat
  <2>1. r \in Storing
    BY <1>3 DEF Store, Storing
  <2>2. req'[r].op = "mail" /\ \A q \in Requests \ {r} : req'[q] = req[q]
    BY <1>3, OthersStay DEF Store
  <2>3. S = Storing \ {r}
    BY <1>a, <2>2 DEF Storing
  <2>4. Cardinality(S) = Cardinality(Storing) - 1
    BY <1>0, <2>1, <2>3, FS_RemoveElement
  <2>5. Len(token') = Len(token) + 1
    BY <1>3, NewToken, Appended
  <2>6. QED
    BY <1>0, <2>4, <2>5 DEF StoresFit
<1>4. CASE Tick
  <2>1. S = Storing /\ Len(token') = Len(token)
    BY <1>4, <1>a, AgedRequests, Aged DEF Storing
  <2>2. QED
    BY <1>0, <2>1 DEF StoresFit
<1>5. ASSUME NEW r \in Requests, NEW x, Go(r, x), token' = token,
             r \in Storing \/ x.op \notin {"request", "throttle", "delete", "store"}
      PROVE  Len(token') + Cardinality(S) <= MaxTokens /\ Len(token') \in Nat
  <2>1. req'[r] = x /\ \A q \in Requests \ {r} : req'[q] = req[q]
    BY <1>5, OthersStay
  <2>2. S \subseteq Storing
    BY <1>5, <1>a, <2>1 DEF Storing
  <2>3. QED
    BY <1>1, <1>5, <2>2
<1>6. ASSUME NEW r \in Requests, FindUser(r) \/ Throttle(r) \/ DeleteOld(r)
      PROVE  Len(token') + Cardinality(S) <= MaxTokens /\ Len(token') \in Nat
  <2>1. r \in Storing
    BY <1>6 DEF FindUser, Throttle, DeleteOld, Storing
  <2>2. QED
    BY <1>5, <1>6, <2>1 DEF FindUser, Throttle, DeleteOld, End
<1>7. ASSUME NEW r \in Requests, Mail(r) \/ ComparePin(r) \/ Drop(r) \/ Abort(r)
      PROVE  Len(token') + Cardinality(S) <= MaxTokens /\ Len(token') \in Nat
  BY <1>5, <1>7 DEF Mail, ComparePin, Drop, Abort, End, Idle, Redeem
<1>8. ASSUME NEW r \in Requests, Apply(r)
      PROVE  Len(token') + Cardinality(S) <= MaxTokens /\ Len(token') \in Nat
  <2>1. req[r] \in Redeeming
    BY <1>8, RequestTypes DEF Apply, TypeParts
  <2>2. PICK x : x = [req[r] EXCEPT !.op = "drop"]
    OBVIOUS
  <2>3. x.op = "drop"
    BY <2>1, <2>2 DEF Redeeming
  <2>4. QED
    BY <1>5, <1>8, <2>2, <2>3 DEF Apply
<1>9. ASSUME NEW r \in Requests, NEW u \in Users, NEW pin \in Pins, EnterPin(r, u, pin)
      PROVE  Len(token') + Cardinality(S) <= MaxTokens /\ Len(token') \in Nat
  BY <1>5, <1>9 DEF EnterPin
<1>10. ASSUME NEW r \in Requests, NEW t \in DOMAIN token, LookUp(r, t)
       PROVE  Len(token') + Cardinality(S) <= MaxTokens /\ Len(token') \in Nat
  BY <1>5, <1>10 DEF LookUp, Redeem
<1>11. CASE UNCHANGED vars
  BY <1>1, <1>11, <1>a DEF vars, Storing
<1>12. QED
  BY <1>2, <1>3, <1>4, <1>6, <1>7, <1>8, <1>9, <1>10, <1>11 DEF Next, Start, Step

-----------------------------------------------------------------------------
(* The tables and the histories.                                           *)

LEMMA SetsNext ==
  ASSUME TypeParts, RequestsAreSound, [Next]_vars
  PROVE  /\ live' \subseteq DOMAIN token' /\ mailed' \subseteq DOMAIN token'
         /\ applied' \subseteq DOMAIN token' /\ leftover' \subseteq DOMAIN token'
         /\ raced' \subseteq DOMAIN token'
<1> DEFINE Goal == /\ live' \subseteq DOMAIN token' /\ mailed' \subseteq DOMAIN token'
                   /\ applied' \subseteq DOMAIN token' /\ leftover' \subseteq DOMAIN token'
                   /\ raced' \subseteq DOMAIN token'
<1>1. DOMAIN token \subseteq DOMAIN token'
  BY StepKeepsTokens DEF TokensStay
<1>2. ASSUME NEW r \in Requests, Store(r) PROVE Goal
  <2>1. Len(token) + 1 \in DOMAIN token'
    BY <1>2, NewToken, Appended
  <2>2. QED
    BY <1>1, <1>2, <2>1 DEF Store, TypeParts
<1>3. ASSUME NEW r \in Requests, Mail(r) \/ Apply(r) \/ Abort(r) PROVE Goal
  <2>1. req[r].op \in {"mail", "apply", "drop"} => req[r].token \in DOMAIN token
    BY DEF RequestsAreSound
  <2>2. QED
    BY <1>1, <1>3, <2>1 DEF Mail, Apply, Abort, TypeParts
<1>4. CASE Tick
  BY <1>1, <1>4 DEF Tick, TypeParts
<1>5. CASE UNCHANGED historyVars /\ live' \subseteq live
  BY <1>1, <1>5 DEF historyVars, TypeParts
<1>6. ASSUME NEW r \in Requests,
             Start(r) \/ (Step(r) /\ ~Store(r) /\ ~Mail(r) /\ ~Apply(r))
      PROVE  UNCHANGED historyVars /\ live' \subseteq live
  BY <1>6 DEF Start, Step, Register, Ask, EnterPin, LookUp, FindUser, Throttle, DeleteOld,
              ComparePin, Drop
<1>7. QED
  BY <1>2, <1>3, <1>4, <1>5, <1>6 DEF Next, vars, historyVars

\* One row per user in each table: the upsert takes the old one out.
LEMMA RowsNext ==
  ASSUME TypeParts, [Next]_vars
  PROVE  \A s, t \in live' :
           token'[s].user = token'[t].user /\ token'[s].kind = token'[t].kind => s = t
<1>1. TokensStay
  BY StepKeepsTokens
<1>2. CASE live' \subseteq live
  BY <1>1, <1>2 DEF TokensStay, TypeParts
<1>3. ASSUME NEW r \in Requests, Store(r), NEW s \in live', NEW t \in live',
             token'[s].user = token'[t].user, token'[s].kind = token'[t].kind
      PROVE  s = t
  <2> DEFINE new == Len(token) + 1
  <2>1. /\ token'[new].user = req[r].user /\ token'[new].kind = req[r].kind
        /\ new \notin DOMAIN token
    BY <1>3, NewToken, Appended
  <2>2. live' = (live \ RowOf(req[r].kind, req[r].user)) \cup {new}
    BY <1>3 DEF Store
  <2>3. \A q \in live' \ {new} : /\ q \in live
                                 /\ ~(/\ token'[q].user = req[r].user
                                      /\ token'[q].kind = req[r].kind)
    BY <1>1, <2>2 DEF RowOf, TokensStay, TypeParts
  <2>4. CASE s # new /\ t # new
    BY <1>1, <1>3, <2>3, <2>4 DEF TokensStay, TypeParts
  <2>5. CASE s = new \/ t = new
    BY <1>3, <2>1, <2>3, <2>5
  <2>6. QED
    BY <2>4, <2>5
<1>4. ASSUME NEW r \in Requests, Start(r) \/ Abort(r) \/ (Step(r) /\ ~Store(r))
      PROVE  live' \subseteq live
  BY <1>4 DEF Start, Abort, Step, Register, Ask, EnterPin, LookUp, FindUser, Throttle,
              DeleteOld, Mail, ComparePin, Apply, Drop
<1>5. QED
  BY <1>2, <1>3, <1>4 DEF Next, Tick, vars

-----------------------------------------------------------------------------
(* Fresh tokens.                                                           *)

\* A token that is fresh after a step was fresh before it, or has just been stored,
\* and the step was not the passing of time.
LEMMA FreshWasFresh ==
  ASSUME TypeParts, [Next]_vars, NEW t \in DOMAIN token', token'[t].age = 0
  PROVE  /\ ~Tick
         /\ t \in DOMAIN token => token[t].age = 0
<1>1. ~Tick
  BY Aged
<1>2. CASE \E r \in Requests : Store(r)
  BY <1>1, <1>2, NewToken, Appended
<1>3. CASE token' = token
  BY <1>1, <1>3
<1>4. ASSUME NEW r \in Requests, Start(r) \/ Abort(r) \/ (Step(r) /\ ~Store(r))
      PROVE  token' = token
  BY <1>4 DEF Start, Abort, Step, Register, Ask, EnterPin, LookUp, FindUser, Throttle,
              DeleteOld, Mail, ComparePin, Apply, Drop
<1>5. QED
  BY <1>1, <1>2, <1>3, <1>4 DEF Next, vars

LEMMA ExpiredIsOld ==
  ASSUME TypeParts, NEW t \in DOMAIN token
  PROVE  /\ Expired(t) => token[t].age # 0
         /\ token[t].age = 0 => Recent(t)
<1>1. token[t] \in Token
  BY TokenTable
<1>2. TTL[token[t].kind] \in Nat \ {0}
  BY <1>1, Times DEF Token
<1>3. QED
  BY <1>1, <1>2 DEF Expired, Recent, Token, Ages

LEMMA NobodyReplacesNext ==
  ASSUME TypeParts, NobodyReplacesAFreshToken, [Next]_vars
  PROVE  NobodyReplacesAFreshToken'
<1>1. SUFFICES ASSUME NEW t \in live', t \notin raced', t \in DOMAIN token',
                      token'[t].age = 0, NEW q \in Requests,
                      req'[q].op \in {"delete", "store"},
                      req'[q].user = token'[t].user, req'[q].kind = token'[t].kind
               PROVE  FALSE
  <2>1. live' \subseteq DOMAIN token'
    <3>1. CASE \E r \in Requests : Store(r)
      BY <3>1, NewToken, Appended DEF Store, TypeParts
    <3>2. CASE Tick
      BY <3>2, Aged DEF Tick, TypeParts
    <3>3. CASE token' = token /\ live' \subseteq live
      BY <3>3 DEF TypeParts
    <3>4. ASSUME NEW r \in Requests, Start(r) \/ Abort(r) \/ (Step(r) /\ ~Store(r))
          PROVE  token' = token /\ live' \subseteq live
      BY <3>4 DEF Start, Abort, Step, Register, Ask, EnterPin, LookUp, FindUser, Throttle,
                  DeleteOld, Mail, ComparePin, Apply, Drop
    <3>5. QED
      BY <3>1, <3>2, <3>3, <3>4 DEF Next, vars
  <2>2. QED
    BY <2>1 DEF NobodyReplacesAFreshToken, InStore
<1>2. ~Tick /\ (t \in DOMAIN token => token[t].age = 0) /\ TokensStay
  BY <1>1, FreshWasFresh, StepKeepsTokens
<1>3. ASSUME t \in live, t \notin raced, req[q].op \in {"delete", "store"},
             req[q].user = req'[q].user, req[q].kind = req'[q].kind
      PROVE  FALSE
  <2>1. q \in InStore(token[t].kind, token[t].user)
    BY <1>1, <1>2, <1>3 DEF InStore, TokensStay, TypeParts
  <2>2. QED
    BY <1>2, <1>3, <2>1 DEF NobodyReplacesAFreshToken, TypeParts
<1>4. ASSUME live' \subseteq live, raced \subseteq raced', NEW r \in Requests, NEW x, Go(r, x),
             x.op \notin {"delete", "store"}
      PROVE  FALSE
  <2>1. req'[q] = req[q]
    BY <1>1, <1>4, OthersStay
  <2>2. QED
    BY <1>1, <1>3, <1>4, <2>1
<1>5. ASSUME NEW r \in Requests, Store(r) PROVE FALSE
  <2>1. req'[r].op = "mail" /\ \A p \in Requests \ {r} : req'[p] = req[p]
    BY <1>5, OthersStay DEF Store
  <2>2. q # r /\ req'[q] = req[q]
    BY <1>1, <2>1
  <2>3. CASE t = Len(token) + 1
    <3>1. token'[t].user = req[r].user /\ token'[t].kind = req[r].kind
      BY <1>5, <2>3, NewToken, Appended
    <3>2. q \in InStore(req[r].kind, req[r].user)
      BY <1>1, <2>2, <3>1 DEF InStore
    <3>3. QED
      BY <1>1, <1>5, <2>2, <2>3, <3>2 DEF Store
  <2>4. CASE t # Len(token) + 1
    BY <1>1, <1>3, <1>5, <2>2, <2>4 DEF Store
  <2>5. QED
    BY <2>3, <2>4
<1>6. ASSUME NEW r \in Requests, FindUser(r) \/ Throttle(r) \/ DeleteOld(r) PROVE FALSE
  <2>1. req[r] \in Issuing
    BY <1>6, RequestTypes DEF FindUser, Throttle, DeleteOld, TypeParts
  <2>2. live' \subseteq live /\ raced' = raced /\ token' = token
    BY <1>6 DEF FindUser, Throttle, DeleteOld, historyVars
  <2>3. CASE End(r)
    BY <1>4, <2>2, <2>3 DEF End, Idle
  <2>4. PICK y \in {"throttle", "delete", "store"} :
          \/ End(r)
          \/ /\ Go(r, [req[r] EXCEPT !.op = y])
             /\ y = "throttle" \/ DeleteOld(r) \/ Throttle(r)
    BY <1>6 DEF FindUser, Throttle, DeleteOld
  <2>5. CASE ~End(r)
    <3>1. /\ req'[r] = [req[r] EXCEPT !.op = y]
          /\ \A p \in Requests \ {r} : req'[p] = req[p]
      BY <2>4, <2>5, OthersStay
    <3>2. /\ req'[r].op = y
          /\ req'[r].user = req[r].user /\ req'[r].kind = req[r].kind
      BY <2>1, <3>1 DEF Issuing
    <3>3. q = r
      BY <1>1, <1>3, <2>2, <3>1
    <3>4. CASE DeleteOld(r)
      BY <1>1, <1>3, <2>2, <3>2, <3>3, <3>4 DEF DeleteOld
    <3>5. CASE Throttle(r)
      <4>1. t \in RowOf(req[r].kind, req[r].user)
        BY <1>1, <2>2, <3>2, <3>3 DEF RowOf
      <4>2. Recent(t)
        BY <1>1, <2>2, ExpiredIsOld DEF TypeParts
      <4>3. QED
        BY <2>5, <3>5, <4>1, <4>2 DEF Throttle
    <3>6. QED
      BY <1>1, <1>6, <2>4, <2>5, <3>2, <3>3, <3>4, <3>5
  <2>6. QED
    BY <2>3, <2>5
<1>7. ASSUME NEW r \in Requests, Mail(r) \/ ComparePin(r) \/ Drop(r) \/ Abort(r) PROVE FALSE
  BY <1>4, <1>7 DEF Mail, ComparePin, Drop, Abort, End, Idle, Redeem, historyVars
<1>8. ASSUME NEW r \in Requests, Apply(r) PROVE FALSE
  <2>1. req[r] \in Redeeming
    BY <1>8, RequestTypes DEF Apply, TypeParts
  <2>2. PICK x : x = [req[r] EXCEPT !.op = "drop"]
    OBVIOUS
  <2>3. x.op = "drop"
    BY <2>1, <2>2 DEF Redeeming
  <2>4. QED
    BY <1>4, <1>8, <2>2, <2>3 DEF Apply
<1>9. ASSUME NEW r \in Requests, Start(r) PROVE FALSE
  BY <1>4, <1>9 DEF Start, Register, Ask, EnterPin, LookUp, Redeem, NewRequest, historyVars
<1>10. CASE UNCHANGED vars
  BY <1>1, <1>3, <1>10 DEF vars
<1>11. QED
  BY <1>2, <1>5, <1>6, <1>7, <1>8, <1>9, <1>10 DEF Next, Step

\* What a step of a request does to the tables, the histories and the requests that
\* delete, but for the three that the lemmas below look into.
Calm(r) ==
  /\ UNCHANGED <<token, live, raced, leftover, applied>>
  /\ mailed \subseteq mailed'
  /\ req[r].op # "drop"
  /\ \E x : Go(r, x) /\ (x.op = "drop" => token[x.token].age # 0)

LEMMA CalmSteps ==
  ASSUME TypeParts, NEW r \in Requests,
         Start(r) \/ FindUser(r) \/ Throttle(r) \/ Mail(r) \/ ComparePin(r)
  PROVE  Calm(r)
<1>1. ASSUME NEW u \in Users, Register(r, u) \/ Ask(r, u) PROVE Calm(r)
  <2>1. PICK k \in Kinds, resend \in BOOLEAN : Go(r, NewRequest(u, k, resend))
    BY <1>1 DEF Register, Ask, Kinds
  <2>2. PICK x : x = NewRequest(u, k, resend)
    OBVIOUS
  <2>3. x.op # "drop"
    BY <2>2 DEF NewRequest
  <2>4. \E y : Go(r, y) /\ (y.op = "drop" => token[y.token].age # 0)
    BY <2>1, <2>2, <2>3
  <2>5. /\ UNCHANGED <<token, live, raced, leftover, applied, mailed>>
        /\ req[r] = Idle
    BY <1>1 DEF Register, Ask, historyVars
  <2>6. QED
    BY <2>4, <2>5 DEF Calm, Idle
<1>2. ASSUME NEW u \in Users, NEW pin \in Pins, EnterPin(r, u, pin) PROVE Calm(r)
  BY <1>2 DEF EnterPin, Calm, historyVars, Idle
<1>3. ASSUME NEW t \in DOMAIN token, LookUp(r, t) PROVE Calm(r)
  BY <1>3, ExpiredIsOld DEF LookUp, Redeem, Calm, historyVars, Idle
<1>4. CASE FindUser(r) \/ Throttle(r)
  <2>1. req[r] \in Issuing
    BY <1>4, RequestTypes DEF FindUser, Throttle, TypeParts
  <2>2. PICK y \in {"throttle", "delete", "store"} : End(r) \/ Go(r, [req[r] EXCEPT !.op = y])
    BY <1>4 DEF FindUser, Throttle
  <2>3. PICK x : Go(r, x) /\ (x = Idle \/ x = [req[r] EXCEPT !.op = y])
    BY <2>2 DEF End
  <2>4. x.op # "drop"
    BY <2>1, <2>3 DEF Idle, Issuing
  <2>5. QED
    BY <1>4, <2>3, <2>4 DEF FindUser, Throttle, Calm, historyVars
<1>5. CASE Mail(r)
  BY <1>5 DEF Mail, End, Idle, Calm
<1>6. CASE ComparePin(r)
  <2>1. CASE End(r)
    BY <1>6, <2>1 DEF ComparePin, End, Idle, Calm, historyVars
  <2>2. CASE ~End(r)
    <3>1. PICK t \in RowOf("confirm", req[r].user) :
            Go(r, Redeem(r, t, IF Expired(t) THEN "drop" ELSE "apply", "pin"))
      BY <1>6, <2>2 DEF ComparePin
    <3>2. t \in DOMAIN token
      BY DEF RowOf, TypeParts
    <3>3. PICK x : x = Redeem(r, t, IF Expired(t) THEN "drop" ELSE "apply", "pin")
      OBVIOUS
    <3>4. x.op = "drop" => token[x.token].age # 0
      BY <3>2, <3>3, ExpiredIsOld DEF Redeem
    <3>5. QED
      BY <1>6, <3>1, <3>3, <3>4 DEF ComparePin, Calm, historyVars
  <2>3. QED
    BY <2>1, <2>2
<1>7. QED
  BY <1>1, <1>2, <1>3, <1>4, <1>5, <1>6 DEF Start

LEMMA Applying ==
  ASSUME TypeParts, NEW r \in Requests, Apply(r)
  PROVE  /\ req'[r].op = "drop" /\ req'[r].token = req[r].token
         /\ \A q \in Requests \ {r} : req'[q] = req[q]
<1>1. req[r] \in Redeeming
  BY RequestTypes DEF Apply, TypeParts
<1>2. PICK x : x = [req[r] EXCEPT !.op = "drop"]
  OBVIOUS
<1>3. x.op = "drop" /\ x.token = req[r].token
  BY <1>1, <1>2 DEF Redeeming
<1>4. QED
  BY <1>2, <1>3, OthersStay DEF Apply

LEMMA DropsNext ==
  ASSUME TypeParts, RequestsAreSound, DropsAreDue, [Next]_vars
  PROVE  DropsAreDue'
<1>1. SUFFICES ASSUME NEW q \in Requests, req'[q].op = "drop"
               PROVE  req'[q].token \in applied' \/ token'[req'[q].token].age # 0
  BY DEF DropsAreDue
<1>2. ASSUME req'[q] = req[q], applied \subseteq applied', [Next]_vars
      PROVE  req'[q].token \in applied' \/ token'[req'[q].token].age # 0
  <2>1. req[q].token \in DOMAIN token /\ req[q].token \in DOMAIN token'
    BY <1>1, <1>2, StepKeepsTokens DEF RequestsAreSound, TokensStay
  <2>2. QED
    BY <1>1, <1>2, <2>1, FreshWasFresh DEF DropsAreDue
<1>3. ASSUME NEW r \in Requests,
             Start(r) \/ FindUser(r) \/ Throttle(r) \/ Mail(r) \/ ComparePin(r)
      PROVE  req'[q].token \in applied' \/ token'[req'[q].token].age # 0
  <2>1. Calm(r)
    BY <1>3, CalmSteps
  <2>2. PICK x : Go(r, x) /\ (x.op = "drop" => token[x.token].age # 0)
    BY <2>1 DEF Calm
  <2>3. QED
    BY <1>1, <1>2, <2>1, <2>2, OthersStay DEF Calm
<1>4. ASSUME NEW r \in Requests, DeleteOld(r)
      PROVE  req'[q].token \in applied' \/ token'[req'[q].token].age # 0
  <2>1. req[r] \in Issuing
    BY <1>4, RequestTypes DEF DeleteOld, TypeParts
  <2>2. PICK x : x = [req[r] EXCEPT !.op = "store"]
    OBVIOUS
  <2>3. x.op = "store"
    BY <2>1, <2>2 DEF Issuing
  <2>4. req'[q] = req[q]
    BY <1>1, <1>4, <2>2, <2>3, OthersStay DEF DeleteOld
  <2>5. QED
    BY <1>2, <1>4, <2>4 DEF DeleteOld, historyVars
<1>5. ASSUME NEW r \in Requests, Store(r) \/ Drop(r) \/ Abort(r)
      PROVE  req'[q].token \in applied' \/ token'[req'[q].token].age # 0
  <2>1. req'[q] = req[q]
    BY <1>1, <1>5, OthersStay DEF Store, Drop, Abort, End, Idle
  <2>2. QED
    BY <1>2, <1>5, <2>1 DEF Store, Drop, Abort, historyVars
<1>6. ASSUME NEW r \in Requests, Apply(r)
      PROVE  req'[q].token \in applied' \/ token'[req'[q].token].age # 0
  BY <1>2, <1>6, Applying DEF Apply
<1>7. CASE Tick
  <2>1. req'[q] = req[q]
    BY <1>1, <1>7, AgedRequests
  <2>2. req[q].token \in DOMAIN token
    BY <1>1, <2>1 DEF RequestsAreSound
  <2>3. QED
    BY <1>7, <2>1, <2>2, Aged
<1>8. CASE UNCHANGED vars
  BY <1>2, <1>8 DEF vars
<1>9. QED
  BY <1>3, <1>4, <1>5, <1>6, <1>7, <1>8 DEF Next, Step

LEMMA FreshNext ==
  ASSUME TypeParts, RequestsAreSound, NobodyReplacesAFreshToken, DropsAreDue,
         FreshTokenWorks, [Next]_vars
  PROVE  FreshTokenWorks'
<1>1. SUFFICES ASSUME NEW t \in DOMAIN token', token'[t].age = 0
               PROVE  t \in live' \cup applied' \cup raced' \/ SharesPin(t)'
  BY DEF FreshTokenWorks
<1>2. ~Tick /\ (t \in DOMAIN token => token[t].age = 0) /\ TokensStay
  BY <1>1, FreshWasFresh, StepKeepsTokens
<1> DEFINE Goal == t \in live' \cup applied' \cup raced' \/ SharesPin(t)'
<1>3. t \in DOMAIN token => \/ t \in live \cup applied \cup raced
                            \/ SharesPin(t) /\ SharesPin(t)'
  BY <1>2, PinsStayShared DEF FreshTokenWorks
<1>4. ASSUME t \in DOMAIN token, applied \subseteq applied', raced \subseteq raced',
             t \in live => t \in live' \cup applied' \cup raced' \/ SharesPin(t)'
      PROVE  Goal
  BY <1>3, <1>4
<1>5. ASSUME NEW r \in Requests,
             Start(r) \/ FindUser(r) \/ Throttle(r) \/ Mail(r) \/ ComparePin(r)
      PROVE  Goal
  BY <1>1, <1>4, <1>5, CalmSteps DEF Calm
<1>6. ASSUME t \in live, t \in DOMAIN token, NEW r \in Requests,
             req[r].op \in {"delete", "store"},
             t \in RowOf(req[r].kind, req[r].user)
      PROVE  t \in raced
  BY <1>2, <1>6 DEF NobodyReplacesAFreshToken, InStore, RowOf
<1>7. ASSUME NEW r \in Requests, DeleteOld(r) PROVE Goal
  BY <1>1, <1>4, <1>6, <1>7 DEF DeleteOld, historyVars
<1>8. ASSUME NEW r \in Requests, Store(r) PROVE Goal
  <2>1. CASE t = Len(token) + 1
    BY <1>8, <2>1 DEF Store
  <2>2. CASE t # Len(token) + 1
    <3>1. t \in DOMAIN token
      BY <1>1, <1>8, <2>2, NewToken, Appended
    <3>2. QED
      BY <1>4, <1>6, <1>8, <3>1 DEF Store
  <2>3. QED
    BY <2>1, <2>2
<1>9. ASSUME NEW r \in Requests, Apply(r) \/ Abort(r) PROVE Goal
  BY <1>1, <1>4, <1>9 DEF Apply, Abort
<1>10. ASSUME NEW r \in Requests, Drop(r) PROVE Goal
  <2>1. token' = token /\ applied' = applied /\ raced' = raced /\ t \in DOMAIN token
    BY <1>1, <1>10 DEF Drop, historyVars
  <2>2. req[r].token \in DOMAIN token /\ (t = req[r].token => t \in applied)
    BY <1>2, <1>10, <2>1 DEF Drop, DropsAreDue, RequestsAreSound
  <2>3. ASSUME t \in live, t \notin live', t # req[r].token PROVE SharesPin(t)
    <3>1. req[r].by = "pin" /\ token[t].kind = "confirm"
          /\ token[t].pin = token[req[r].token].pin
      BY <1>10, <2>3 DEF Drop
    <3>2. token[req[r].token].kind = "confirm"
      BY <1>10, <3>1 DEF Drop, RequestsAreSound
    <3>3. QED
      BY <2>2, <2>3, <3>1, <3>2 DEF SharesPin
  <2>4. QED
    BY <1>2, <1>4, <2>1, <2>2, <2>3, PinsStayShared
<1>11. CASE UNCHANGED vars
  BY <1>1, <1>4, <1>11 DEF vars
<1>12. QED
  BY <1>2, <1>5, <1>7, <1>8, <1>9, <1>10, <1>11 DEF Next, Step

-----------------------------------------------------------------------------
(* Applied tokens.                                                         *)

LEMMA AppliedNext ==
  ASSUME TypeParts, RequestsAreSound, AppliedTokenIsOnItsWayOut, [Next]_vars
  PROVE  AppliedTokenIsOnItsWayOut'
<1>1. SUFFICES ASSUME NEW t \in applied', t \in live'
               PROVE  t \in leftover' \/ \E q \in Requests : req'[q].op = "drop" /\ req'[q].token = t
  BY DEF AppliedTokenIsOnItsWayOut
<1> DEFINE Goal ==
  t \in leftover' \/ \E q \in Requests : req'[q].op = "drop" /\ req'[q].token = t
<1>2. t \in applied /\ t \in live =>
        t \in leftover \/ \E q \in Requests : req[q].op = "drop" /\ req[q].token = t
  BY DEF AppliedTokenIsOnItsWayOut
<1>3. ASSUME NEW r \in Requests, t \in applied, t \in live, leftover \subseteq leftover',
             ~(req[r].op = "drop" /\ req[r].token = t),
             \A q \in Requests \ {r} : req'[q] = req[q]
      PROVE  Goal
  BY <1>2, <1>3
<1>4. ASSUME NEW r \in Requests,
             Start(r) \/ FindUser(r) \/ Throttle(r) \/ Mail(r) \/ ComparePin(r)
      PROVE  Goal
  <2>1. Calm(r)
    BY <1>4, CalmSteps
  <2>2. \A q \in Requests \ {r} : req'[q] = req[q]
    BY <2>1, OthersStay DEF Calm
  <2>3. QED
    BY <1>1, <1>3, <2>1, <2>2 DEF Calm
<1>5. ASSUME NEW r \in Requests, DeleteOld(r) \/ Store(r) PROVE Goal
  <2>1. \A q \in Requests \ {r} : req'[q] = req[q]
    BY <1>5, OthersStay DEF DeleteOld, Store
  <2>2. t \in applied /\ t \in live
    BY <1>1, <1>5, TokenTable DEF DeleteOld, Store, historyVars, TypeParts
  <2>3. QED
    BY <1>3, <1>5, <2>1, <2>2 DEF DeleteOld, Store, historyVars
<1>6. ASSUME NEW r \in Requests, Apply(r) PROVE Goal
  <2>1. CASE t = req[r].token
    BY <1>6, <2>1, Applying
  <2>2. CASE t # req[r].token
    BY <1>1, <1>3, <1>6, <2>2, Applying DEF Apply
  <2>3. QED
    BY <2>1, <2>2
<1>7. ASSUME NEW r \in Requests, Drop(r) PROVE Goal
  <2>1. /\ \A q \in Requests \ {r} : req'[q] = req[q]
        /\ t \in applied /\ t \in live
    BY <1>1, <1>7, OthersStay DEF Drop, End, historyVars
  <2>2. req[r].token # t
    BY <1>1, <1>7 DEF Drop, RequestsAreSound
  <2>3. QED
    BY <1>3, <1>7, <2>1, <2>2 DEF Drop, historyVars
<1>8. ASSUME NEW r \in Requests, Abort(r) PROVE Goal
  <2>1. /\ \A q \in Requests \ {r} : req'[q] = req[q]
        /\ t \in applied /\ t \in live
    BY <1>1, <1>8, OthersStay DEF Abort, End
  <2>2. CASE req[r].op = "drop" /\ req[r].token = t
    BY <1>8, <2>1, <2>2 DEF Abort
  <2>3. CASE ~(req[r].op = "drop" /\ req[r].token = t)
    BY <1>3, <1>8, <2>1, <2>3 DEF Abort
  <2>4. QED
    BY <2>2, <2>3
<1>9. CASE Tick
  <2>1. t \in applied /\ t \in live
    BY <1>1, <1>9 DEF Tick
  <2>2. CASE t \in leftover
    BY <1>9, <2>1, <2>2 DEF Tick
  <2>3. ASSUME NEW q \in Requests, req[q].op = "drop", req[q].token = t PROVE Goal
    BY <1>9, <2>3, AgedRequests
  <2>4. QED
    BY <1>2, <2>1, <2>2, <2>3
<1>10. CASE UNCHANGED vars
  BY <1>1, <1>2, <1>10 DEF vars
<1>11. QED
  BY <1>4, <1>5, <1>6, <1>7, <1>8, <1>9, <1>10 DEF Next, Step

-----------------------------------------------------------------------------
(* The theorems.                                                           *)

LEMMA Initially == Init => IInv
<1> SUFFICES ASSUME Init PROVE IInv
  OBVIOUS
<1>1. TypeParts
  BY AccountsAssumption DEF Init, TypeParts, RequestState
<1>2. Storing = {}
  BY DEF Init, Storing, Idle
<1>3. StoresFit
  BY <1>2, FS_EmptySet, AccountsAssumption DEF Init, StoresFit
<1>4. RequestsAreSound /\ DropsAreDue
  BY DEF Init, RequestsAreSound, DropsAreDue, Idle
<1>5. NobodyReplacesAFreshToken /\ FreshTokenWorks /\ AppliedTokenIsOnItsWayOut
  BY DEF Init, NobodyReplacesAFreshToken, FreshTokenWorks, AppliedTokenIsOnItsWayOut
<1>6. QED
  BY <1>1, <1>3, <1>4, <1>5, TypeUnfolded DEF IInv

LEMMA TypeNext ==
  ASSUME TypeParts, StoresFit, RequestsAreSound, [Next]_vars
  PROVE  TypeParts'
<1>1. token' \in Seq(Token)
  <2>1. CASE \E r \in Requests : Store(r)
    BY <2>1, NewToken, Appended
  <2>2. CASE Tick
    BY <2>2, Aged
  <2>3. CASE token' = token
    BY <2>3 DEF TypeParts
  <2>4. ASSUME NEW r \in Requests, Start(r) \/ Abort(r) \/ (Step(r) /\ ~Store(r))
        PROVE  token' = token
    BY <2>4 DEF Start, Abort, Step, Register, Ask, EnterPin, LookUp, FindUser, Throttle,
                DeleteOld, Mail, ComparePin, Apply, Drop
  <2>5. QED
    BY <2>1, <2>2, <2>3, <2>4 DEF Next, vars
<1>2. QED
  BY <1>1, UsersNext, StoresNext, SetsNext, RowsNext, RequestsNext DEF TypeParts

LEMMA Inductive == IInv /\ [Next]_vars => IInv'
<1>1. (TypeOK <=> TypeParts)'
  BY TypeUnfolded, PTL
<1> SUFFICES ASSUME IInv, [Next]_vars PROVE IInv'
  OBVIOUS
<1>2. TypeParts
  BY TypeUnfolded DEF IInv
<1>3. TypeOK'
  BY <1>1, <1>2, TypeNext DEF IInv
<1>4. QED
  BY <1>2, <1>3, StoresNext, SoundNext, NobodyReplacesNext, DropsNext, FreshNext, AppliedNext
  DEF IInv

LEMMA Invariance == Spec => []IInv
  BY Initially, Inductive, PTL DEF Spec

\* The variables keep their types, and each table has one row per user at most.
THEOREM TypeCorrect == Spec => []TypeOK
<1>1. IInv => TypeOK
  BY DEF IInv
<1>2. QED
  BY <1>1, Invariance, PTL

\* A mail of the last ten minutes holds a link or a PIN that works, whatever other
\* requests for it, redemptions and failures run beside.
THEOREM RecentMails == Spec => []RecentMailWorks
<1>1. IInv => RecentMailWorks
  <2> SUFFICES ASSUME IInv, NEW t \in mailed, token[t].age = 0
               PROVE  t \in live \cup applied \cup raced \/ SharesPin(t)
    BY DEF RecentMailWorks
  <2>1. t \in DOMAIN token
    BY TypeUnfolded DEF IInv, TypeParts
  <2>2. QED
    BY <2>1 DEF IInv, FreshTokenWorks
<1>2. QED
  BY <1>1, Invariance, PTL

\* A token that had its effect is being deleted, or its request died first.
THEOREM AppliedTokensLeave == Spec => []AppliedTokenIsOnItsWayOut
<1>1. IInv => AppliedTokenIsOnItsWayOut
  BY DEF IInv
<1>2. QED
  BY <1>1, Invariance, PTL

\* A token goes by a request of its user, or for the PIN it shares.
THEOREM TokensAreOwned == Spec => TokensAreTheUsersOwn
<1> DEFINE Own(t, r) == /\ req'[r] # req[r]
                        /\ \/ req[r].user = token[t].user
                           \/ req[r].op = "drop" /\ req[r].by = "pin" /\ SharesPin(t)
           A == \A t \in live \ live' : \E r \in Requests : Own(t, r)
<1>1. IInv /\ [Next]_vars => [A]_vars
  <2> SUFFICES ASSUME IInv, Next, NEW t \in live, t \notin live'
               PROVE  \E r \in Requests : Own(t, r)
    OBVIOUS
  <2>1. TypeParts /\ RequestsAreSound
    BY TypeUnfolded DEF IInv
  <2>2. ASSUME NEW r \in Requests, DeleteOld(r) PROVE Own(t, r)
    <3>1. req[r] \in Issuing
      BY <2>1, <2>2, RequestTypes DEF DeleteOld, TypeParts
    <3>2. PICK x : x = [req[r] EXCEPT !.op = "store"]
      OBVIOUS
    <3>3. x.op = "store"
      BY <3>1, <3>2 DEF Issuing
    <3>4. req'[r] # req[r]
      BY <2>1, <2>2, <3>2, <3>3, OthersStay DEF DeleteOld
    <3>5. QED
      BY <2>2, <3>4 DEF DeleteOld, RowOf
  <2>3. ASSUME NEW r \in Requests, Store(r) PROVE Own(t, r)
    <3>1. req'[r].op = "mail"
      BY <2>1, <2>3, OthersStay DEF Store
    <3>2. QED
      BY <2>3, <3>1 DEF Store, RowOf
  <2>4. ASSUME NEW r \in Requests, Drop(r) PROVE Own(t, r)
    <3>1. req'[r] # req[r]
      BY <2>1, <2>4, OthersStay DEF Drop, End, Idle
    <3>2. CASE t = req[r].token
      BY <2>1, <2>4, <3>1, <3>2 DEF Drop, RequestsAreSound
    <3>3. CASE t # req[r].token
      <4>1. /\ req[r].by = "pin" /\ token[t].kind = "confirm"
            /\ token[t].pin = token[req[r].token].pin
        BY <2>4, <3>3 DEF Drop
      <4>2. req[r].token \in DOMAIN token /\ token[req[r].token].kind = "confirm"
        BY <2>1, <2>4, <4>1 DEF Drop, RequestsAreSound
      <4>3. SharesPin(t)
        BY <3>3, <4>1, <4>2 DEF SharesPin
      <4>4. QED
        BY <2>4, <3>1, <4>1, <4>3 DEF Drop
    <3>4. QED
      BY <3>2, <3>3
  <2>5. ASSUME NEW r \in Requests,
               Start(r) \/ Abort(r) \/ (Step(r) /\ ~DeleteOld(r) /\ ~Store(r) /\ ~Drop(r))
        PROVE  live' = live
    BY <2>5 DEF Start, Abort, Step, Register, Ask, EnterPin, LookUp, FindUser, Throttle,
                Mail, ComparePin, Apply
  <2>6. QED
    BY <2>2, <2>3, <2>4, <2>5 DEF Next, Tick
<1>2. QED
  BY <1>1, Invariance, PTL DEF Spec, TokensAreTheUsersOwn
=============================================================================
