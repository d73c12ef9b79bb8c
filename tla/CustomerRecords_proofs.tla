----------------------- MODULE CustomerRecords_proofs -----------------------
(***************************************************************************)
(* The records of customers, for any number of them, of rows and of        *)
(* concurrent requests.  A step of the composition is a step of one        *)
(* service or leaves that service's variables alone.                       *)
(***************************************************************************)
EXTENDS CustomerRecords, TLAPS

LEMMA Projections ==
  ASSUME [Next]_vars
  PROVE  [A!Next]_(A!vars) /\ [W!Next]_(W!vars) /\ [P!Next]_(P!vars) /\ [G!Next]_(G!vars)
  BY DEF Next, AddressStep, WishlistStep, ProfileStep, RegistrationStep, vars, addressVars,
         wishlistVars, profileVars, registrationVars, A!vars, W!vars, P!vars, G!vars

-----------------------------------------------------------------------------
(* Registration.                                                           *)

LEMMA RegistrationInit == G!Init => G!IInv
<1> SUFFICES ASSUME G!Init PROVE G!IInv
  OBVIOUS
<1>1. DOMAIN phoneOf = {}
  BY DEF G!Init
<1>2. G!TypeOK
  BY DEF G!Init, G!TypeOK
<1>3. QED
  BY <1>1, <1>2 DEF G!IInv, G!RivalsAreMarked, G!SharedPhoneNeedsARace

\* A request begins its INSERT, or ends.
LEMMA RegistrationJobs ==
  ASSUME G!TypeOK, NEW r \in Requests
  PROVE  /\ joining[r] # G!Idle => joining[r].user \in Users /\ joining[r].phone \in Phones
         /\ \A u \in Users, phone \in Phones : G!RegisterCheck(r, u, phone) =>
              /\ joining' \in [Requests -> {G!Idle} \cup G!Joining]
              /\ joining'[r].phone = phone
              /\ \A q \in Requests \ {r} : joining'[q] = joining[q]
         /\ G!RegisterInsert(r) \/ G!RegisterFails(r) =>
              /\ joining' \in [Requests -> {G!Idle} \cup G!Joining]
              /\ joining'[r] = G!Idle
              /\ \A q \in Requests \ {r} : joining'[q] = joining[q]
<1>1. joining[r] # G!Idle => joining[r].user \in Users /\ joining[r].phone \in Phones
  BY DEF G!TypeOK, G!Joining
<1>2. ASSUME NEW u \in Users, NEW phone \in Phones, G!RegisterCheck(r, u, phone)
      PROVE  /\ joining' \in [Requests -> {G!Idle} \cup G!Joining]
             /\ joining'[r].phone = phone
             /\ \A q \in Requests \ {r} : joining'[q] = joining[q]
  <2>1. PICK x : x = [op |-> "insert", user |-> u, phone |-> phone]
    OBVIOUS
  <2>2. x \in G!Joining /\ x.phone = phone
    BY <2>1 DEF G!Joining
  <2>3. joining' = [joining EXCEPT ![r] = x]
    BY <1>2, <2>1 DEF G!RegisterCheck
  <2>4. QED
    BY <2>2, <2>3 DEF G!TypeOK
<1>3. ASSUME G!RegisterInsert(r) \/ G!RegisterFails(r)
      PROVE  /\ joining' \in [Requests -> {G!Idle} \cup G!Joining]
             /\ joining'[r] = G!Idle
             /\ \A q \in Requests \ {r} : joining'[q] = joining[q]
  BY <1>3 DEF G!RegisterInsert, G!RegisterFails, G!TypeOK
<1>4. QED
  BY <1>1, <1>2, <1>3

LEMMA RegistrationNext == G!IInv /\ [G!Next]_(G!vars) => G!IInv'
<1> SUFFICES ASSUME G!IInv, [G!Next]_(G!vars) PROVE G!IInv'
  OBVIOUS
<1> USE DEF G!IInv
<1>1. CASE UNCHANGED G!vars
  BY <1>1 DEF G!vars, G!TypeOK, G!RivalsAreMarked, G!SharedPhoneNeedsARace
<1>2. ASSUME NEW r \in Requests, NEW u \in Users, NEW phone \in Phones,
             G!RegisterCheck(r, u, phone)
      PROVE  G!IInv'
  <2>1. /\ joining'[r].phone = phone /\ \A q \in Requests \ {r} : joining'[q] = joining[q]
        /\ joining' \in [Requests -> {G!Idle} \cup G!Joining]
    BY <1>2, RegistrationJobs
  <2>2. phoneOf' = phoneOf /\ together' = together /\ \A v \in DOMAIN phoneOf : phoneOf[v] # phone
    BY <1>2 DEF G!RegisterCheck, G!CheckPhoneExists
  <2>3. G!TypeOK'
    BY <2>1, <2>2 DEF G!TypeOK
  <2>4. G!RivalsAreMarked'
    BY <2>1, <2>2 DEF G!RivalsAreMarked
  <2>5. QED
    BY <2>2, <2>3, <2>4 DEF G!SharedPhoneNeedsARace
<1>3. ASSUME NEW r \in Requests, G!RegisterInsert(r) PROVE G!IInv'
  <2> DEFINE new == joining[r].user
             phone == joining[r].phone
  <2>1. /\ joining'[r] = G!Idle /\ \A q \in Requests \ {r} : joining'[q] = joining[q]
        /\ joining' \in [Requests -> {G!Idle} \cup G!Joining]
    BY <1>3, RegistrationJobs
  <2>2. joining[r] # G!Idle /\ new \in Users /\ phone \in Phones /\ new \notin DOMAIN phoneOf
    BY <1>3, RegistrationJobs DEF G!RegisterInsert
  <2>3. /\ DOMAIN phoneOf' = DOMAIN phoneOf \cup {new}
        /\ phoneOf'[new] = phone
        /\ \A u \in DOMAIN phoneOf : phoneOf'[u] = phoneOf[u]
    BY <1>3, <2>2 DEF G!RegisterInsert
  <2>4. together' = IF G!Rivals(r) = {} THEN together ELSE together \cup {new}
    BY <1>3 DEF G!RegisterInsert
  <2>5. G!TypeOK'
    <3>1. PICK us \in SUBSET Users : phoneOf \in [us -> Phones]
      BY DEF G!TypeOK
    <3>2. us \cup {new} \in SUBSET Users /\ phoneOf' \in [us \cup {new} -> Phones]
      BY <1>3, <2>2, <3>1 DEF G!RegisterInsert
    <3>3. together' \subseteq DOMAIN phoneOf'
      BY <2>3, <2>4 DEF G!TypeOK
    <3>4. QED
      BY <2>1, <3>2, <3>3 DEF G!TypeOK
  <2>6. G!RivalsAreMarked'
    <3> SUFFICES ASSUME NEW q \in Requests, NEW u \in DOMAIN phoneOf', joining'[q] # G!Idle,
                        joining'[q].phone = phoneOf'[u]
                 PROVE  u \in together'
      BY DEF G!RivalsAreMarked
    <3>1. q # r /\ joining'[q] = joining[q]
      BY <2>1
    <3>2. CASE u = new
      BY <2>3, <2>4, <3>1, <3>2 DEF G!Rivals
    <3>3. CASE u # new
      BY <2>3, <2>4, <3>1, <3>3 DEF G!RivalsAreMarked
    <3>4. QED
      BY <3>2, <3>3
  <2>7. G!SharedPhoneNeedsARace'
    <3> SUFFICES ASSUME NEW u \in DOMAIN phoneOf', NEW v \in DOMAIN phoneOf', u # v,
                        phoneOf'[u] = phoneOf'[v]
                 PROVE  u \in together' \/ v \in together'
      BY DEF G!SharedPhoneNeedsARace
    <3>1. \A w \in DOMAIN phoneOf : phoneOf[w] = phone => w \in together
      BY <2>2 DEF G!RivalsAreMarked
    <3>2. QED
      BY <2>3, <2>4, <3>1 DEF G!SharedPhoneNeedsARace
  <2>8. QED
    BY <2>5, <2>6, <2>7
<1>4. ASSUME NEW r \in Requests, G!RegisterFails(r) PROVE G!IInv'
  <2>1. /\ joining'[r] = G!Idle /\ \A q \in Requests \ {r} : joining'[q] = joining[q]
        /\ joining' \in [Requests -> {G!Idle} \cup G!Joining]
    BY <1>4, RegistrationJobs
  <2>2. phoneOf' = phoneOf /\ together' = together
    BY <1>4 DEF G!RegisterFails
  <2>3. QED
    BY <2>1, <2>2 DEF G!TypeOK, G!RivalsAreMarked, G!SharedPhoneNeedsARace
<1>5. QED
  BY <1>1, <1>2, <1>3, <1>4 DEF G!Next

\* Two customers have one phone number only when the second had passed the check before
\* the first was inserted.
THEOREM SharedPhonesAreExplained == Spec => []SharedPhoneNeedsARace
<1>1. Init => G!IInv
  BY RegistrationInit DEF Init
<1>2. G!IInv /\ [Next]_vars => G!IInv'
  BY Projections, RegistrationNext
<1>3. G!IInv => SharedPhoneNeedsARace
  BY DEF G!IInv, SharedPhoneNeedsARace
<1>4. QED
  BY <1>1, <1>2, <1>3, PTL DEF Spec

-----------------------------------------------------------------------------
(* The wishlist.                                                           *)

LEMMA WishlistInit == W!Init => W!IInv
  BY DEF W!Init, W!IInv, W!TypeOK, W!Work, W!NoWork, W!LockedUntilAdded

LEMMA WorkTypes ==
  ASSUME W!TypeOK, NEW r \in Requests
  PROVE  /\ work[r] # W!NoWork => work[r].user \in Users /\ work[r].product \in Products
         /\ work[r].op # "none" => work[r] # W!NoWork
  BY DEF W!TypeOK, W!Work, W!NoWork

LEMMA WorkGoesOn ==
  ASSUME W!TypeOK, NEW r \in Requests, work[r].op # "none", NEW op, W!Then(r, op),
         op \in {"check", "insert", "added", "delete"}
  PROVE  /\ work' \in [Requests -> W!Work]
         /\ work'[r].op = op /\ W!Key(r)' = W!Key(r) /\ work'[r].user = work[r].user
         /\ \A q \in Requests \ {r} : work'[q] = work[q]
<1>1. PICK x : x = [work[r] EXCEPT !.op = op]
  OBVIOUS
<1>2. work[r] \in [op : {"check", "insert", "added", "delete"}, user : Users, product : Products]
  BY DEF W!TypeOK, W!Work, W!NoWork
<1>3. /\ x \in [op : {"check", "insert", "added", "delete"}, user : Users, product : Products]
      /\ x.op = op /\ x.user = work[r].user /\ x.product = work[r].product
  BY <1>1, <1>2
<1>4. work' = [work EXCEPT ![r] = x]
  BY <1>1 DEF W!Then
<1>5. work'[r] = x /\ \A q \in Requests \ {r} : work'[q] = work[q]
  BY <1>4 DEF W!TypeOK
<1>6. work' \in [Requests -> W!Work]
  BY <1>3, <1>4 DEF W!TypeOK, W!Work
<1>7. QED
  BY <1>3, <1>5, <1>6 DEF W!Key

LEMMA WorkEnds ==
  ASSUME W!TypeOK, NEW r \in Requests, W!Finish(r)
  PROVE  /\ work' \in [Requests -> W!Work]
         /\ work'[r] = W!NoWork /\ work'[r].op = "none"
         /\ \A q \in Requests \ {r} : work'[q] = work[q]
         /\ holder' \in [Users -> Requests \cup {NoOne}]
         /\ \A q \in Requests \ {r}, u \in Users : holder[u] = q => holder'[u] = q
  BY DEF W!TypeOK, W!Finish, W!Work, W!NoWork

LEMMA WorkBegins ==
  ASSUME W!TypeOK, NEW r \in Requests, NEW u \in Users, NEW product \in Products,
         NEW op \in {"check", "delete"},
         work' = [work EXCEPT ![r] = [op |-> op, user |-> u, product |-> product]]
  PROVE  /\ work' \in [Requests -> W!Work]
         /\ work'[r].op = op /\ work'[r].user = u
         /\ \A q \in Requests \ {r} : work'[q] = work[q]
<1>1. PICK x : x = [op |-> op, user |-> u, product |-> product]
  OBVIOUS
<1>2. x \in W!Work /\ x.op = op /\ x.user = u
  BY <1>1 DEF W!Work
<1>3. work' = [work EXCEPT ![r] = x]
  BY <1>1
<1>4. QED
  BY <1>2, <1>3 DEF W!TypeOK

\* Others keep what the invariant says of them while no item is added and their lock stays.
LEMMA OthersStayLocked ==
  ASSUME W!LockedUntilAdded, W!TypeOK, NEW r \in Requests, items' \subseteq items,
         \A q \in Requests \ {r} : work'[q] = work[q],
         \A q \in Requests \ {r}, u \in Users : holder[u] = q => holder'[u] = q,
         /\ work'[r].op \in {"check", "insert"} => holder'[work'[r].user] = r
         /\ work'[r].op = "insert" => W!Key(r)' \notin items'
  PROVE  W!LockedUntilAdded'
<1>1. ASSUME NEW q \in Requests \ {r}
      PROVE  /\ work'[q].op \in {"check", "insert"} => holder'[work'[q].user] = q
             /\ work'[q].op = "insert" => W!Key(q)' \notin items'
  <2>1. work'[q] = work[q] /\ W!Key(q)' = W!Key(q)
    BY DEF W!Key
  <2>2. work[q].op \in {"check", "insert"} => work[q].user \in Users
    BY WorkTypes
  <2>3. QED
    BY <2>1, <2>2 DEF W!LockedUntilAdded
<1>2. QED
  BY <1>1 DEF W!LockedUntilAdded

LEMMA WishlistNext == W!IInv /\ [W!Next]_(W!vars) => W!IInv'
<1> SUFFICES ASSUME W!TypeOK, W!LockedUntilAdded, [W!Next]_(W!vars)
             PROVE  W!TypeOK' /\ W!LockedUntilAdded'
  BY DEF W!IInv
<1>1. CASE UNCHANGED W!vars
  BY <1>1 DEF W!vars, W!TypeOK, W!LockedUntilAdded, W!Key
<1>2. ASSUME NEW r \in Requests, NEW u \in Users, NEW product \in Products,
             W!GetOrCreate(r, u, product)
      PROVE  W!TypeOK' /\ W!LockedUntilAdded'
  <2>1. /\ work' \in [Requests -> W!Work]
        /\ work'[r].op = "check" /\ work'[r].user = u
        /\ \A q \in Requests \ {r} : work'[q] = work[q]
    <3>1. work' = [work EXCEPT ![r] = [op |-> "check", user |-> u, product |-> product]]
      BY <1>2 DEF W!GetOrCreate
    <3>2. QED
      BY <3>1, WorkBegins
  <2>2. /\ holder' \in [Users -> Requests \cup {NoOne}] /\ holder'[u] = r
        /\ \A q \in Requests \ {r}, v \in Users : holder[v] = q => holder'[v] = q
        /\ UNCHANGED <<lists, items>>
    BY <1>2, CustomerRecordsAssumption DEF W!GetOrCreate, W!TypeOK
  <2>3. W!TypeOK'
    BY <2>1, <2>2 DEF W!TypeOK
  <2>4. QED
    BY <2>1, <2>2, <2>3, OthersStayLocked
<1>3. ASSUME NEW r \in Requests, NEW u \in Users, NEW product \in Products,
             W!DeleteRead(r, u, product)
      PROVE  W!TypeOK' /\ W!LockedUntilAdded'
  <2>1. /\ work' \in [Requests -> W!Work]
        /\ work'[r].op = "delete"
        /\ \A q \in Requests \ {r} : work'[q] = work[q]
    <3>1. work' = [work EXCEPT ![r] = [op |-> "delete", user |-> u, product |-> product]]
      BY <1>3 DEF W!DeleteRead
    <3>2. QED
      BY <3>1, WorkBegins
  <2>2. UNCHANGED <<lists, items, holder>>
    BY <1>3 DEF W!DeleteRead
  <2>3. QED
    BY <2>1, <2>2, OthersStayLocked DEF W!TypeOK
<1>4. ASSUME NEW r \in Requests, W!CheckItemExists(r) PROVE W!TypeOK' /\ W!LockedUntilAdded'
  <2>1. work[r].op = "check" /\ UNCHANGED <<lists, items>>
    BY <1>4 DEF W!CheckItemExists
  <2>2. CASE W!Key(r) \in items
    <3>1. W!Finish(r)
      BY <1>4, <2>2 DEF W!CheckItemExists
    <3>2. QED
      BY <2>1, <3>1, WorkEnds, OthersStayLocked DEF W!TypeOK
  <2>3. CASE W!Key(r) \notin items
    <3>1. W!Then(r, "insert") /\ holder' = holder
      BY <1>4, <2>3 DEF W!CheckItemExists
    <3>2. /\ work' \in [Requests -> W!Work]
          /\ work'[r].op = "insert" /\ W!Key(r)' = W!Key(r) /\ work'[r].user = work[r].user
          /\ \A q \in Requests \ {r} : work'[q] = work[q]
      BY <2>1, <3>1, WorkGoesOn
    <3>3. holder[work[r].user] = r
      BY <2>1 DEF W!LockedUntilAdded
    <3>4. QED
      BY <2>1, <2>3, <3>1, <3>2, <3>3, OthersStayLocked DEF W!TypeOK
  <2>4. QED
    BY <2>2, <2>3
<1>5. ASSUME NEW r \in Requests, W!AddItem(r) PROVE W!TypeOK' /\ W!LockedUntilAdded'
  <2>1. /\ work' \in [Requests -> W!Work] /\ work'[r].op = "added"
        /\ \A q \in Requests \ {r} : work'[q] = work[q]
    BY <1>5, WorkGoesOn DEF W!AddItem
  <2>2. work[r].user \in Users /\ work[r].product \in Products /\ work[r].op = "insert"
    BY <1>5, WorkTypes DEF W!AddItem
  <2>3. /\ holder' \in [Users -> Requests \cup {NoOne}]
        /\ \A q \in Requests \ {r}, u \in Users : holder[u] = q => holder'[u] = q
        /\ items' = items \cup {W!Key(r)} /\ lists' = lists \cup {work[r].user}
    BY <1>5 DEF W!AddItem, W!TypeOK
  <2>4. W!TypeOK'
    BY <2>1, <2>2, <2>3 DEF W!TypeOK, W!Key
  <2>5. ASSUME NEW q \in Requests \ {r}, work[q].op = "insert" PROVE W!Key(q) # W!Key(r)
    <3>1. holder[work[q].user] = q /\ holder[work[r].user] = r
      BY <2>2, <2>5 DEF W!LockedUntilAdded
    <3>2. QED
      BY <3>1 DEF W!Key
  <2>6. ASSUME NEW q \in Requests \ {r}
        PROVE  /\ work'[q].op \in {"check", "insert"} => holder'[work'[q].user] = q
               /\ work'[q].op = "insert" => W!Key(q)' \notin items'
    <3>1. work'[q] = work[q] /\ W!Key(q)' = W!Key(q)
      BY <2>1 DEF W!Key
    <3>2. work[q].op \in {"check", "insert"} => work[q].user \in Users
      BY WorkTypes
    <3>3. QED
      BY <2>3, <2>5, <3>1, <3>2 DEF W!LockedUntilAdded
  <2>7. QED
    BY <2>1, <2>4, <2>6 DEF W!LockedUntilAdded
<1>6. ASSUME NEW r \in Requests, W!Finish(r), lists' = lists, items' \subseteq items
      PROVE  W!TypeOK' /\ W!LockedUntilAdded'
  BY <1>6, WorkEnds, OthersStayLocked DEF W!TypeOK
<1>7. ASSUME NEW r \in Requests, W!Answer(r) \/ W!DeleteItem(r) \/ W!Abort(r)
      PROVE  W!TypeOK' /\ W!LockedUntilAdded'
  BY <1>6, <1>7 DEF W!Answer, W!DeleteItem, W!Abort
<1>8. QED
  BY <1>1, <1>2, <1>3, <1>4, <1>5, <1>7 DEF W!Next

\* Of two requests that add a product at once, one is told that it was added and the other
\* that it is there already.
THEOREM AdditionsAreInsertions == Spec => AddedWasInserted
<1>1. Init => W!IInv
  BY WishlistInit DEF Init
<1>2. W!IInv /\ [Next]_vars => W!IInv'
  BY Projections, WishlistNext
<1>3. ASSUME W!IInv, [Next]_vars
      PROVE  [\A r \in Requests : work'[r].op = "added" /\ work[r].op # "added" =>
                W!Key(r) \in items' \ items]_(W!vars)
  <2> SUFFICES ASSUME NEW r \in Requests, work'[r].op = "added", work[r].op # "added"
               PROVE  W!Key(r) \in items' \ items
    OBVIOUS
  <2>1. W!TypeOK /\ W!LockedUntilAdded /\ [W!Next]_(W!vars)
    BY <1>3, Projections DEF W!IInv
  <2>2. W!AddItem(r)
    <3>1. CASE UNCHANGED W!vars
      BY <3>1 DEF W!vars
    <3>2. ASSUME NEW q \in Requests, NEW u \in Users, NEW product \in Products,
                 W!GetOrCreate(q, u, product) \/ W!DeleteRead(q, u, product)
          PROVE  FALSE
      <4>1. PICK op \in {"check", "delete"} :
              work' = [work EXCEPT ![q] = [op |-> op, user |-> u, product |-> product]]
        BY <3>2 DEF W!GetOrCreate, W!DeleteRead
      <4>2. QED
        BY <2>1, <4>1, WorkBegins
    <3>3. ASSUME NEW q \in Requests, W!CheckItemExists(q) PROVE FALSE
      <4>1. W!Finish(q) \/ W!Then(q, "insert")
        BY <3>3 DEF W!CheckItemExists
      <4>2. QED
        BY <2>1, <3>3, <4>1, WorkEnds, WorkGoesOn DEF W!CheckItemExists
    <3>4. ASSUME NEW q \in Requests, W!AddItem(q) PROVE q = r
      BY <2>1, <3>4, WorkGoesOn DEF W!AddItem
    <3>5. ASSUME NEW q \in Requests, W!Answer(q) \/ W!DeleteItem(q) \/ W!Abort(q) PROVE FALSE
      BY <2>1, <3>5, WorkEnds DEF W!Answer, W!DeleteItem, W!Abort
    <3>6. QED
      BY <2>1, <3>1, <3>2, <3>3, <3>4, <3>5 DEF W!Next
  <2>3. QED
    BY <2>1, <2>2 DEF W!AddItem, W!LockedUntilAdded
<1>4. QED
  BY <1>1, <1>2, <1>3, PTL DEF Spec, AddedWasInserted, W!AddedWasInserted

-----------------------------------------------------------------------------
(* The profile.                                                            *)

ProfileUpdate ==
  [step : {"name", "compare", "password", "commit"}, seen : Passwords,
   name : Names \cup {Absent}, password : Passwords \cup {Absent}, current : Passwords]

LEMMA ProfileInit == P!Init => P!IInv
  BY DEF P!Init, P!IInv, P!TypeOK, P!Update, P!NoUpdate, P!ReadsAreCurrent

LEMMA UpdateTypes ==
  ASSUME P!TypeOK, NEW r \in Requests
  PROVE  /\ update[r] # P!NoUpdate => update[r] \in ProfileUpdate
         /\ update[r].step # "none" => update[r] # P!NoUpdate
  BY DEF P!TypeOK, P!Update, P!NoUpdate, ProfileUpdate

LEMMA UpdateGoesOn ==
  ASSUME P!TypeOK, NEW r \in Requests, update[r].step # "none", NEW step, P!Goto(r, step),
         step \in {"name", "compare", "password", "commit"}
  PROVE  /\ update' \in [Requests -> P!Update] /\ update'[r] # P!NoUpdate
         /\ update'[r].step = step /\ update'[r].seen = update[r].seen
         /\ update'[r].password = update[r].password /\ update'[r].current = update[r].current
         /\ \A q \in Requests \ {r} : update'[q] = update[q]
<1>1. PICK x : x = [update[r] EXCEPT !.step = step]
  OBVIOUS
<1>2. update[r] \in ProfileUpdate
  BY UpdateTypes
<1>3. /\ x \in ProfileUpdate /\ x.step = step /\ x.seen = update[r].seen
      /\ x.password = update[r].password /\ x.current = update[r].current
  BY <1>1, <1>2 DEF ProfileUpdate
<1>4. update' = [update EXCEPT ![r] = x]
  BY <1>1 DEF P!Goto
<1>5. update'[r] = x /\ \A q \in Requests \ {r} : update'[q] = update[q]
  BY <1>4 DEF P!TypeOK
<1>6. x \in P!Update /\ x # P!NoUpdate
  BY <1>3 DEF P!Update, ProfileUpdate, P!NoUpdate
<1>7. update' \in [Requests -> P!Update]
  BY <1>4, <1>6 DEF P!TypeOK
<1>8. QED
  BY <1>3, <1>5, <1>6, <1>7

LEMMA UpdateEnds ==
  ASSUME P!TypeOK, NEW r \in Requests, P!Finish(r)
  PROVE  /\ update' \in [Requests -> P!Update]
         /\ update'[r] = P!NoUpdate
         /\ \A q \in Requests \ {r} : update'[q] = update[q]
         /\ writer' \in Requests \cup {NoOne}
  BY DEF P!TypeOK, P!Finish, P!Update

LEMMA UpdateBeginsWith ==
  ASSUME P!TypeOK, NEW r \in Requests, NEW name \in Names \cup {Absent},
         NEW password \in Passwords \cup {Absent}, NEW current \in Passwords,
         P!UpdateRead(r, name, password, current)
  PROVE  /\ update' \in [Requests -> P!Update]
         /\ update'[r].step = "name" /\ update'[r].seen = user.password
         /\ \A q \in Requests \ {r} : update'[q] = update[q]
<1>1. PICK x : x = [step |-> "name", seen |-> user.password, name |-> name,
                    password |-> password, current |-> current]
  OBVIOUS
<1>2. x \in ProfileUpdate /\ x.step = "name" /\ x.seen = user.password
  BY <1>1 DEF ProfileUpdate, P!TypeOK
<1>3. update' = [update EXCEPT ![r] = x]
  BY <1>1 DEF P!UpdateRead
<1>4. x \in P!Update
  BY <1>2 DEF P!Update, ProfileUpdate
<1>5. QED
  BY <1>2, <1>3, <1>4 DEF P!TypeOK

\* What the invariant says of one request.
ReadIsCurrent(r) ==
  update[r] # P!NoUpdate =>
    /\ update[r].seen = user.password \/ r \in overtaken
    /\ update[r].step \in {"password", "commit"} /\ update[r].password # Absent =>
         update[r].current = update[r].seen

LEMMA CurrentReads ==
  /\ P!ReadsAreCurrent <=> \A r \in Requests : ReadIsCurrent(r)
  /\ P!ReadsAreCurrent' <=> \A r \in Requests : ReadIsCurrent(r)'
  BY DEF P!ReadsAreCurrent, P!WantsPassword, ReadIsCurrent

\* A request that goes on to another step, or ends, while the row stays.
LEMMA StepKeepsReads ==
  ASSUME P!ReadsAreCurrent, NEW r \in Requests, user' = user,
         \A q \in Requests \ {r} : update'[q] = update[q],
         \A q \in Requests \ {r} : q \in overtaken => q \in overtaken',
         ReadIsCurrent(r)'
  PROVE  P!ReadsAreCurrent'
<1>1. \A q \in Requests \ {r} : ReadIsCurrent(q)'
  BY CurrentReads DEF ReadIsCurrent
<1>2. QED
  BY <1>1, CurrentReads

LEMMA ProfileNext == P!IInv /\ [P!Next]_(P!vars) => P!IInv'
<1> SUFFICES ASSUME P!TypeOK, P!ReadsAreCurrent, [P!Next]_(P!vars)
             PROVE  P!TypeOK' /\ P!ReadsAreCurrent'
  BY DEF P!IInv
<1>1. CASE UNCHANGED P!vars
  BY <1>1 DEF P!vars, P!TypeOK, P!ReadsAreCurrent, P!WantsPassword
<1>2. ASSUME NEW r \in Requests, NEW name \in Names \cup {Absent},
             NEW password \in Passwords \cup {Absent}, NEW current \in Passwords,
             P!UpdateRead(r, name, password, current)
      PROVE  P!TypeOK' /\ P!ReadsAreCurrent'
  <2>1. /\ update' \in [Requests -> P!Update]
        /\ update'[r].step = "name" /\ update'[r].seen = user.password
        /\ \A q \in Requests \ {r} : update'[q] = update[q]
    BY <1>2, UpdateBeginsWith
  <2>2. UNCHANGED <<user, writer, overtaken>>
    BY <1>2 DEF P!UpdateRead
  <2>3. ReadIsCurrent(r)'
    BY <2>1, <2>2 DEF ReadIsCurrent
  <2>4. QED
    BY <2>1, <2>2, <2>3, StepKeepsReads DEF P!TypeOK
<1>3. ASSUME NEW r \in Requests, NEW step \in {"compare", "password", "commit"}, P!Goto(r, step),
             update[r].step # "none", UNCHANGED <<user, overtaken>>,
             writer' \in Requests \cup {NoOne},
             \/ step = "compare"
             \/ update[r].current = update[r].seen \/ update[r].password = Absent
      PROVE  P!TypeOK' /\ P!ReadsAreCurrent'
  <2>1. /\ update' \in [Requests -> P!Update] /\ update'[r] # P!NoUpdate
        /\ update'[r].step = step /\ update'[r].seen = update[r].seen
        /\ update'[r].password = update[r].password /\ update'[r].current = update[r].current
        /\ \A q \in Requests \ {r} : update'[q] = update[q]
    BY <1>3, UpdateGoesOn
  <2>2. ReadIsCurrent(r) /\ update[r] # P!NoUpdate
    BY <1>3, UpdateTypes, CurrentReads
  <2>3. ReadIsCurrent(r)'
    BY <1>3, <2>1, <2>2 DEF ReadIsCurrent
  <2>4. QED
    BY <1>3, <2>1, <2>3, StepKeepsReads DEF P!TypeOK
<1>4. ASSUME NEW r \in Requests, P!Finish(r), user' = user, overtaken' = overtaken \ {r}
      PROVE  P!TypeOK' /\ P!ReadsAreCurrent'
  <2>1. /\ update' \in [Requests -> P!Update] /\ update'[r] = P!NoUpdate
        /\ \A q \in Requests \ {r} : update'[q] = update[q]
        /\ writer' \in Requests \cup {NoOne}
    BY <1>4, UpdateEnds
  <2>2. ReadIsCurrent(r)'
    BY <2>1 DEF ReadIsCurrent
  <2>3. QED
    BY <1>4, <2>1, <2>2, StepKeepsReads DEF P!TypeOK
<1>5. ASSUME NEW r \in Requests, P!UpdateName(r) PROVE P!TypeOK' /\ P!ReadsAreCurrent'
  <2>1. writer' \in Requests \cup {NoOne}
    BY <1>5 DEF P!UpdateName, P!TypeOK
  <2>2. QED
    BY <1>3, <1>5, <2>1 DEF P!UpdateName
<1>6. ASSUME NEW r \in Requests, P!ComparePassword(r) PROVE P!TypeOK' /\ P!ReadsAreCurrent'
  BY <1>3, <1>4, <1>6 DEF P!ComparePassword, P!WantsPassword, P!TypeOK
<1>7. ASSUME NEW r \in Requests, P!UpdatePassword(r) PROVE P!TypeOK' /\ P!ReadsAreCurrent'
  <2>1. ReadIsCurrent(r) /\ update[r] # P!NoUpdate /\ update[r].step = "password"
    BY <1>7, UpdateTypes, CurrentReads DEF P!UpdatePassword
  <2>2. writer' \in Requests \cup {NoOne}
    BY <1>7 DEF P!UpdatePassword
  <2>3. QED
    BY <1>3, <1>7, <2>1, <2>2 DEF P!UpdatePassword, ReadIsCurrent
<1>8. ASSUME \A q \in Requests :
               \/ update'[q] = P!NoUpdate
               \/ /\ update'[q] = update[q]
                  /\ q \in P!Overtaken(user'.password) => q \in overtaken'
      PROVE  P!ReadsAreCurrent'
  <2>1. ASSUME NEW q \in Requests PROVE ReadIsCurrent(q)'
    BY <1>8, CurrentReads DEF ReadIsCurrent, P!Overtaken
  <2>2. QED
    BY <2>1, CurrentReads
<1>9. ASSUME NEW r \in Requests, P!Commit(r) PROVE P!TypeOK' /\ P!ReadsAreCurrent'
  <2>1. /\ update' \in [Requests -> P!Update] /\ update'[r] = P!NoUpdate
        /\ \A q \in Requests \ {r} : update'[q] = update[q]
        /\ writer' \in Requests \cup {NoOne}
    BY <1>9, UpdateEnds DEF P!Commit
  <2>2. update[r] \in ProfileUpdate
    BY <1>9, UpdateTypes DEF P!Commit
  <2>3. user' \in [name : Names, password : Passwords, active : BOOLEAN]
    <3>1. PICK name : name = IF update[r].name = Absent THEN user.name ELSE update[r].name
      OBVIOUS
    <3>2. PICK password : password = IF P!WantsPassword(r) THEN update[r].password
                                                           ELSE user.password
      OBVIOUS
    <3>3. name \in Names /\ password \in Passwords
      BY <2>2, <3>1, <3>2 DEF ProfileUpdate, P!WantsPassword, P!TypeOK
    <3>4. user' = [user EXCEPT !.name = name, !.password = password]
      BY <1>9, <3>1, <3>2 DEF P!Commit, P!TypeOK
    <3>5. QED
      BY <3>3, <3>4 DEF P!TypeOK
  <2>4. overtaken' = P!Overtaken(user'.password) \ {r}
    BY <1>9 DEF P!Commit
  <2>5. overtaken' \subseteq Requests
    BY <2>4 DEF P!Overtaken, P!TypeOK
  <2>6. P!ReadsAreCurrent'
    BY <1>8, <2>1, <2>4
  <2>7. QED
    BY <2>1, <2>3, <2>5, <2>6 DEF P!TypeOK
<1>10. ASSUME NEW r \in Requests, P!Abort(r) PROVE P!TypeOK' /\ P!ReadsAreCurrent'
  BY <1>4, <1>10 DEF P!Abort
<1>11. ASSUME NEW password \in Passwords, P!ResetPassword(password)
       PROVE  P!TypeOK' /\ P!ReadsAreCurrent'
  <2>1. user' = [user EXCEPT !.password = password] /\ UNCHANGED <<writer, update>>
    BY <1>11 DEF P!ResetPassword
  <2>2. user' \in [name : Names, password : Passwords, active : BOOLEAN]
        /\ user'.password = password
    BY <2>1 DEF P!TypeOK
  <2>3. overtaken' = P!Overtaken(user'.password)
    BY <1>11, <2>2 DEF P!ResetPassword
  <2>4. P!ReadsAreCurrent'
    BY <1>8, <2>1, <2>3
  <2>5. QED
    BY <2>1, <2>2, <2>3, <2>4 DEF P!TypeOK, P!Overtaken
<1>12. ASSUME NEW active \in BOOLEAN, P!ToggleCustomerStatus(active)
       PROVE  P!TypeOK' /\ P!ReadsAreCurrent'
  <2>1. user' = [user EXCEPT !.active = active] /\ UNCHANGED <<writer, update, overtaken>>
    BY <1>12 DEF P!ToggleCustomerStatus
  <2>2. user' \in [name : Names, password : Passwords, active : BOOLEAN]
        /\ user'.password = user.password
    BY <2>1 DEF P!TypeOK
  <2>3. QED
    BY <2>1, <2>2 DEF P!TypeOK, P!ReadsAreCurrent, P!WantsPassword
<1>13. QED
  BY <1>1, <1>2, <1>5, <1>6, <1>7, <1>9, <1>10, <1>11, <1>12 DEF P!Next

\* Who changes the password knows the one it replaces, or was on its way when that one
\* was set.
THEOREM PasswordsAreKnown == Spec => NewPasswordNeedsTheOld
<1>1. Init => P!IInv
  BY ProfileInit DEF Init
<1>2. P!IInv /\ [Next]_vars => P!IInv'
  BY Projections, ProfileNext
<1>3. ASSUME P!IInv, [Next]_vars
      PROVE  [\A r \in Requests :
                /\ update[r].step = "commit" /\ update'[r] = P!NoUpdate
                /\ user'.password # user.password
                => update[r].current = user.password \/ r \in overtaken]_(P!vars)
  <2> SUFFICES ASSUME NEW r \in Requests, update[r].step = "commit", update'[r] = P!NoUpdate,
                      user'.password # user.password
               PROVE  update[r].current = user.password \/ r \in overtaken
    OBVIOUS
  <2>1. P!TypeOK /\ P!ReadsAreCurrent /\ [P!Next]_(P!vars)
    BY <1>3, Projections DEF P!IInv
  <2>2. update[r] # P!NoUpdate /\ ReadIsCurrent(r)
    BY <2>1, UpdateTypes, CurrentReads
  <2>3. PICK q \in Requests : P!Commit(q)
    <3>1. user' # user /\ update' # update
      BY <2>2
    <3>2. QED
      BY <2>1, <3>1 DEF P!Next, P!vars, P!UpdateRead, P!UpdateName, P!ComparePassword,
         P!UpdatePassword, P!Abort, P!ResetPassword, P!ToggleCustomerStatus
  <2>4. q = r
    BY <2>1, <2>2, <2>3, UpdateEnds DEF P!Commit
  <2>5. update[r].password # Absent
    <3>1. CASE update[r].password = Absent
      <4>1. PICK name : name = IF update[r].name = Absent THEN user.name ELSE update[r].name
        OBVIOUS
      <4>2. user' = [user EXCEPT !.name = name, !.password = user.password]
        BY <2>1, <2>3, <2>4, <3>1, <4>1 DEF P!Commit, P!WantsPassword, P!TypeOK
      <4>3. QED
        BY <2>1, <4>2 DEF P!TypeOK
    <3>2. QED
      BY <3>1
  <2>6. QED
    BY <2>2, <2>5 DEF ReadIsCurrent
<1>4. QED
  BY <1>1, <1>2, <1>3, PTL DEF Spec, NewPasswordNeedsTheOld, P!NewPasswordNeedsTheOld

-----------------------------------------------------------------------------
(* The address book: transactions, locks and rows.                         *)

LEMMA AddressInit == A!Init => A!IInv
<1> SUFFICES ASSUME A!Init PROVE A!IInv
  OBVIOUS
<1>1. /\ \A a \in AddressIds : address[a] = NoAddress /\ lock[a] = NoOne
      /\ \A r \in Requests : tx[r].op = "none"
  BY DEF A!Init, A!NoTx
<1>2. A!TypeOK
  BY DEF A!Init, A!TypeOK, A!Tx
<1>3. A!FlagsAreOwn
  BY <1>1, CustomerRecordsAssumption DEF A!FlagsAreOwn
<1>4. A!UnracedAreAlone /\ A!PrimariesWillGo
  BY <1>1 DEF A!UnracedAreAlone, A!PrimariesWillGo, A!MakesPrimary
<1>5. A!TwoPrimariesHaveACause
  BY <1>1 DEF A!TwoPrimariesHaveACause, A!Primaries, A!Of, A!Live, A!Rows
<1>6. QED
  BY <1>2, <1>3, <1>4, <1>5 DEF A!IInv

LEMMA NoAddressIsNoRow == NoAddress \notin A!Address
  BY CustomerRecordsAssumption DEF A!Address

CreateTx == [op : {"create"}, user : Users, primary : BOOLEAN, unset : SUBSET AddressIds]
UpdateTx == [op : {"update"}, user : Users, primary : BOOLEAN, unset : SUBSET AddressIds,
             id : AddressIds]

LEMMA TxTypes ==
  ASSUME A!TypeOK, NEW r \in Requests
  PROVE  /\ tx[r].op = "none" <=> tx[r] = A!NoTx
         /\ tx[r].op \in {"none", "create", "update"}
         /\ tx[r].op = "create" => tx[r] \in CreateTx
         /\ tx[r].op = "update" => tx[r] \in UpdateTx
         /\ tx[r].op # "none" => /\ tx[r].user \in Users /\ tx[r].primary \in BOOLEAN
                                 /\ tx[r].unset \subseteq AddressIds
  BY DEF A!TypeOK, A!Tx, A!NoTx, CreateTx, UpdateTx

LEMMA TxBegins ==
  ASSUME A!TypeOK, NEW r \in Requests, NEW new \in CreateTx \cup UpdateTx, A!BeginTx(r, new)
  PROVE  /\ tx' \in [Requests -> A!Tx]
         /\ tx'[r] = new
         /\ \A q \in Requests \ {r} : tx'[q] = tx[q]
  BY DEF A!TypeOK, A!BeginTx, A!Tx, CreateTx, UpdateTx

LEMMA TxUnsets ==
  ASSUME A!TypeOK, NEW r \in Requests, NEW a \in AddressIds, A!UnsetRow(r, a)
  PROVE  /\ tx' \in [Requests -> A!Tx]
         /\ tx'[r].op = tx[r].op /\ tx'[r].user = tx[r].user /\ tx'[r].primary = tx[r].primary
         /\ tx'[r].unset = tx[r].unset \ {a}
         /\ \A q \in Requests \ {r} : tx'[q] = tx[q]
<1>1. PICK x : x = [tx[r] EXCEPT !.unset = tx[r].unset \ {a}]
  OBVIOUS
<1>2. tx' = [tx EXCEPT ![r] = x]
  BY <1>1 DEF A!UnsetRow
<1>3. tx[r] \in CreateTx \cup UpdateTx
  BY TxTypes DEF A!UnsetRow
<1>4. /\ x \in CreateTx \cup UpdateTx
      /\ x.op = tx[r].op /\ x.user = tx[r].user /\ x.primary = tx[r].primary
      /\ x.unset = tx[r].unset \ {a}
  <2>1. CASE tx[r] \in CreateTx
    BY <1>1, <2>1 DEF CreateTx
  <2>2. CASE tx[r] \in UpdateTx
    BY <1>1, <2>2 DEF UpdateTx
  <2>3. QED
    BY <1>3, <2>1, <2>2
<1>5. tx'[r] = x /\ \A q \in Requests \ {r} : tx'[q] = tx[q]
  BY <1>2 DEF A!TypeOK
<1>6. tx' \in [Requests -> A!Tx]
  <2>1. x \in A!Tx
    BY <1>4 DEF A!Tx, CreateTx, UpdateTx
  <2>2. QED
    BY <1>2, <2>1 DEF A!TypeOK
<1>7. QED
  BY <1>4, <1>5, <1>6

LEMMA TxEnds ==
  ASSUME A!TypeOK, NEW r \in Requests, A!Finish(r)
  PROVE  /\ tx' \in [Requests -> A!Tx] /\ tx'[r].op = "none" /\ tx'[r] = A!NoTx
         /\ \A q \in Requests \ {r} : tx'[q] = tx[q]
         /\ lock' \in [AddressIds -> Requests \cup {NoOne}]
         /\ \A a \in AddressIds : lock'[a] # r
         /\ \A q \in Requests \ {r}, a \in AddressIds : lock'[a] = q <=> lock[a] = q
  BY CustomerRecordsAssumption DEF A!TypeOK, A!Finish, A!Tx, A!NoTx

LEMMA PrimariesAre ==
  ASSUME NEW u, NEW a
  PROVE  a \in A!Primaries(u) <=>
           /\ a \in AddressIds /\ address[a] # NoAddress
           /\ address[a].live /\ address[a].user = u /\ address[a].primary
  BY DEF A!Primaries, A!Of, A!Live, A!Rows

LEMMA PrimariesAreNext ==
  ASSUME NEW u, NEW a
  PROVE  a \in A!Primaries(u)' <=>
           /\ a \in AddressIds /\ address'[a] # NoAddress
           /\ address'[a].live /\ address'[a].user = u /\ address'[a].primary
  BY DEF A!Primaries, A!Of, A!Live, A!Rows

\* A transaction has cleared the flags of the rows it held; row x apart, nothing else
\* has changed.
Cleared(r, x) ==
  \A a \in AddressIds \ {x} :
    IF lock[a] = r
    THEN /\ address'[a] \in A!Address
         /\ address'[a].user = address[a].user /\ address'[a].live = address[a].live
         /\ ~address'[a].primary
    ELSE address'[a] = address[a]

LEMMA UnsetRows ==
  ASSUME A!TypeOK, A!FlagsAreOwn, NEW r \in Requests, NEW y, y = A!Unset(r)
  PROVE  /\ y \in [AddressIds -> A!Address \cup {NoAddress}]
         /\ \A a \in AddressIds :
              /\ lock[a] = r =>
                   /\ address[a] \in A!Address /\ y[a] \in A!Address
                   /\ y[a].user = address[a].user /\ y[a].live = address[a].live
                   /\ ~y[a].primary
              /\ lock[a] # r => y[a] = address[a]
<1>1. ASSUME NEW a \in AddressIds, lock[a] = r
      PROVE  /\ address[a] \in A!Address /\ y[a] \in A!Address
             /\ y[a].user = address[a].user /\ y[a].live = address[a].live /\ ~y[a].primary
  <2>1. address[a] \in A!Address
    BY <1>1 DEF A!FlagsAreOwn, A!Rows, A!TypeOK
  <2>2. PICK x : x = [address[a] EXCEPT !.primary = FALSE]
    OBVIOUS
  <2>3. y[a] = x
    BY <1>1, <2>2 DEF A!Unset, A!Held
  <2>4. /\ x \in A!Address /\ x.user = address[a].user /\ x.live = address[a].live
        /\ ~x.primary
    BY <2>1, <2>2 DEF A!Address
  <2>5. QED
    BY <2>1, <2>3, <2>4
<1>2. ASSUME NEW a \in AddressIds, lock[a] # r PROVE y[a] = address[a]
  BY <1>2 DEF A!Unset, A!Held
<1>3. \A a \in AddressIds : y[a] \in A!Address \cup {NoAddress}
  BY <1>1, <1>2 DEF A!TypeOK
<1>4. y \in [AddressIds -> A!Address \cup {NoAddress}]
  <2>1. y = [a \in AddressIds |-> y[a]]
    BY DEF A!Unset
  <2>2. QED
    BY <1>3, <2>1
<1>5. QED
  BY <1>1, <1>2, <1>4

LEMMA CreateRows ==
  ASSUME A!TypeOK, A!FlagsAreOwn, NEW r \in Requests, A!CreateCommit(r)
  PROVE  /\ address' \in [AddressIds -> A!Address \cup {NoAddress}]
         /\ \E x \in AddressIds \ A!Rows :
              /\ Cleared(r, x)
              /\ address'[x] \in A!Address /\ address'[x].live
              /\ address'[x].user = tx[r].user /\ address'[x].primary = tx[r].primary
<1>1. PICK y : y = A!Unset(r)
  OBVIOUS
<1>2. PICK n : n = [user |-> tx[r].user, live |-> TRUE, primary |-> tx[r].primary]
  OBVIOUS
<1>3. /\ n \in A!Address /\ n.live /\ n.user = tx[r].user /\ n.primary = tx[r].primary
  <2>1. tx[r].user \in Users /\ tx[r].primary \in BOOLEAN
    BY TxTypes DEF A!CreateCommit
  <2>2. QED
    BY <1>2, <2>1 DEF A!Address
<1>4. PICK x \in AddressIds \ A!Rows : address' = [y EXCEPT ![x] = n]
  BY <1>1, <1>2 DEF A!CreateCommit
<1>5. address' \in [AddressIds -> A!Address \cup {NoAddress}] /\ address'[x] = n
  BY <1>1, <1>3, <1>4, UnsetRows
<1>6. Cleared(r, x)
  BY <1>1, <1>4, UnsetRows DEF Cleared
<1>7. QED
  BY <1>3, <1>5, <1>6

LEMMA UpdateRows ==
  ASSUME A!TypeOK, A!FlagsAreOwn, NEW r \in Requests, A!UpdateCommit(r)
  PROVE  /\ address' \in [AddressIds -> A!Address \cup {NoAddress}]
         /\ tx[r].id \in AddressIds /\ address[tx[r].id] \in A!Address
         /\ address[tx[r].id].live
         /\ Cleared(r, tx[r].id)
         /\ address'[tx[r].id] \in A!Address /\ address'[tx[r].id].live
         /\ address'[tx[r].id].user = address[tx[r].id].user
         /\ address'[tx[r].id].primary = tx[r].primary
<1>1. PICK y : y = A!Unset(r)
  OBVIOUS
<1>2. PICK x : x = tx[r].id
  OBVIOUS
<1>3. x \in AddressIds /\ address[x] \in A!Address /\ address[x].live
  BY <1>2 DEF A!UpdateCommit, A!Live, A!Rows, A!TypeOK
<1>4. y[x] \in A!Address /\ y[x].user = address[x].user /\ y[x].live = address[x].live
  <2>1. /\ lock[x] = r => /\ y[x] \in A!Address
                         /\ y[x].user = address[x].user /\ y[x].live = address[x].live
        /\ lock[x] # r => y[x] = address[x]
    <3>1. x \in AddressIds
      BY <1>3
    <3>2. QED
      BY <1>1, <3>1, UnsetRows
  <2>2. QED
    BY <1>3, <2>1
<1>5. PICK n : n = [y[x] EXCEPT !.primary = tx[r].primary]
  OBVIOUS
<1>6. tx[r].primary \in BOOLEAN
  BY TxTypes DEF A!UpdateCommit
<1>7. /\ n \in A!Address /\ n.user = address[x].user /\ n.live = address[x].live
      /\ n.primary = tx[r].primary
  BY <1>4, <1>5, <1>6 DEF A!Address
<1>8. address' = [y EXCEPT ![x] = n]
  BY <1>1, <1>2, <1>5 DEF A!UpdateCommit
<1>9. address' \in [AddressIds -> A!Address \cup {NoAddress}] /\ address'[x] = n
  BY <1>1, <1>3, <1>7, <1>8, UnsetRows
<1>10. Cleared(r, x)
  BY <1>1, <1>8, UnsetRows DEF Cleared
<1>11. QED
  BY <1>2, <1>3, <1>7, <1>9, <1>10

LEMMA DeleteRows ==
  ASSUME A!TypeOK, NEW u \in Users, NEW x \in AddressIds, A!Delete(u, x)
  PROVE  /\ address' \in [AddressIds -> A!Address \cup {NoAddress}]
         /\ address'[x] \in A!Address /\ ~address'[x].live
         /\ address[x] \in A!Address /\ address'[x].user = address[x].user
         /\ \A a \in AddressIds \ {x} : address'[a] = address[a]
<1>1. address[x] \in A!Address
  BY DEF A!Delete, A!Of, A!Live, A!Rows, A!TypeOK
<1>2. PICK n : n = [address[x] EXCEPT !.live = FALSE]
  OBVIOUS
<1>3. n \in A!Address /\ ~n.live /\ n.user = address[x].user
  BY <1>1, <1>2 DEF A!Address
<1>4. address' = [address EXCEPT ![x] = n]
  BY <1>2 DEF A!Delete
<1>5. QED
  BY <1>1, <1>3, <1>4 DEF A!TypeOK

\* Row x apart, the primary addresses after a COMMIT are those before it that were not
\* held; and only the transaction's own user loses any.
LEMMA PrimariesCleared ==
  ASSUME A!TypeOK, A!FlagsAreOwn, NEW r \in Requests, NEW x, Cleared(r, x), NEW v,
         NEW a \in AddressIds \ {x}
  PROVE  /\ a \in A!Primaries(v)' => a \in A!Primaries(v) /\ lock[a] # r
         /\ a \in A!Primaries(v) /\ (v # tx[r].user \/ ~tx[r].primary) => a \in A!Primaries(v)'
<1>1. CASE lock[a] = r
  BY <1>1, PrimariesAre, PrimariesAreNext DEF Cleared, A!FlagsAreOwn
<1>2. CASE lock[a] # r
  BY <1>2, PrimariesAre, PrimariesAreNext DEF Cleared
<1>3. QED
  BY <1>1, <1>2

-----------------------------------------------------------------------------
(* The address book: the invariant.                                        *)

\* Rows stay rows, of the same user.
RowsStay == \A a \in AddressIds : address[a] # NoAddress =>
              address'[a] # NoAddress /\ address'[a].user = address[a].user

LEMMA ClearedRowsStay ==
  ASSUME A!TypeOK, NEW r \in Requests, NEW x, Cleared(r, x),
         address[x] # NoAddress => address'[x] # NoAddress /\ address'[x].user = address[x].user
  PROVE  RowsStay
  BY NoAddressIsNoRow DEF RowsStay, Cleared

\* The other transactions keep theirs; the one that steps has what it needs, or ends.
LEMMA FlagsStay ==
  ASSUME A!FlagsAreOwn, RowsStay, NEW r \in Requests,
         \A q \in Requests \ {r} : tx'[q] = tx[q],
         \A q \in Requests \ {r}, a \in AddressIds : lock'[a] = q => lock[a] = q,
         \A a \in AddressIds : (tx'[r].op # "none" /\ a \in tx'[r].unset) \/ lock'[a] = r =>
           /\ tx'[r].op # "none" /\ tx'[r].primary
           /\ address[a] # NoAddress /\ address[a].user = tx'[r].user
  PROVE  A!FlagsAreOwn'
<1>1. ASSUME NEW q \in Requests, NEW a \in AddressIds,
             (tx'[q].op # "none" /\ a \in tx'[q].unset) \/ lock'[a] = q
      PROVE  /\ tx'[q].op # "none" /\ tx'[q].primary
             /\ address'[a] # NoAddress /\ address'[a].user = tx'[q].user
  <2>1. /\ tx'[q].op # "none" /\ tx'[q].primary
        /\ address[a] # NoAddress /\ address[a].user = tx'[q].user
    <3>1. CASE q = r
      BY <1>1, <3>1
    <3>2. CASE q # r
      BY <1>1, <3>2 DEF A!FlagsAreOwn, A!Rows
    <3>3. QED
      BY <3>1, <3>2
  <2>2. QED
    BY <2>1 DEF RowsStay
<1>2. QED
  BY <1>1 DEF A!FlagsAreOwn, A!Rows

LEMMA AloneStays ==
  ASSUME A!UnracedAreAlone, raced \subseteq raced',
         \A q \in Requests, v \in Users : A!MakesPrimary(q, v)' => A!MakesPrimary(q, v)
  PROVE  A!UnracedAreAlone'
  BY DEF A!UnracedAreAlone, A!MakesPrimary

\* A transaction ends: of an unraced user, the primary addresses are among those it did
\* not hold, and its own new one, if it makes one.
LEMMA EndKeeps ==
  ASSUME A!TypeOK, A!FlagsAreOwn, A!UnracedAreAlone, A!PrimariesWillGo, A!TwoPrimariesHaveACause,
         NEW r \in Requests, A!Finish(r), raced \subseteq raced', NEW x,
         \A v \in Users \ raced' :
           \/ A!Primaries(v)' \subseteq A!Primaries(v)
           \/ /\ A!MakesPrimary(r, v) /\ tx[r].unset = {}
              /\ \A a \in A!Primaries(v)' : a = x \/ (a \in A!Primaries(v) /\ lock[a] # r)
  PROVE  A!UnracedAreAlone' /\ A!PrimariesWillGo' /\ A!TwoPrimariesHaveACause'
<1>1. /\ tx'[r].op = "none"
      /\ \A q \in Requests \ {r} : tx'[q] = tx[q]
      /\ \A q \in Requests \ {r}, a \in AddressIds : lock'[a] = q <=> lock[a] = q
  BY TxEnds
<1>2. \A q \in Requests, v \in Users : A!MakesPrimary(q, v)' => q # r /\ A!MakesPrimary(q, v)
  BY <1>1 DEF A!MakesPrimary
<1>3. A!UnracedAreAlone'
  BY <1>2, AloneStays
<1>4. A!PrimariesWillGo'
  <2> SUFFICES ASSUME NEW v \in Users \ raced', NEW q \in Requests, A!MakesPrimary(q, v)',
                      NEW a \in A!Primaries(v)'
               PROVE  a \in tx'[q].unset \/ lock'[a] = q
    BY PrimariesAreNext DEF A!PrimariesWillGo, A!Held
  <2>1. q # r /\ A!MakesPrimary(q, v) /\ ~A!MakesPrimary(r, v)
    BY <1>2 DEF A!UnracedAreAlone
  <2>2. a \in A!Primaries(v) /\ a \in AddressIds
    BY <2>1, PrimariesAre
  <2>3. QED
    BY <1>1, <2>1, <2>2 DEF A!PrimariesWillGo, A!Held
<1>5. A!TwoPrimariesHaveACause'
  <2> SUFFICES ASSUME NEW v \in Users \ raced', NEW a \in A!Primaries(v)', NEW b \in A!Primaries(v)'
               PROVE  a = b
    BY DEF A!TwoPrimariesHaveACause
  <2>1. CASE A!Primaries(v)' \subseteq A!Primaries(v)
    BY <2>1 DEF A!TwoPrimariesHaveACause
  <2>2. CASE /\ A!MakesPrimary(r, v) /\ tx[r].unset = {}
             /\ \A c \in A!Primaries(v)' : c = x \/ (c \in A!Primaries(v) /\ lock[c] # r)
    BY <2>2 DEF A!PrimariesWillGo, A!Held
  <2>3. QED
    BY <2>1, <2>2
<1>6. QED
  BY <1>3, <1>4, <1>5

\* Without its rows a transaction that ends changes nothing else.
LEMMA RowsUntouched ==
  ASSUME address' = address
  PROVE  RowsStay /\ \A v : A!Primaries(v)' = A!Primaries(v)
  BY DEF RowsStay, A!Primaries, A!Of, A!Live, A!Rows

LEMMA AddressBegins ==
  ASSUME A!IInv, NEW r \in Requests, NEW new \in CreateTx \cup UpdateTx, A!BeginTx(r, new),
         new.unset = A!ToUnset(new.user, new.primary)
  PROVE  A!IInv'
<1> USE DEF A!IInv
<1>1. /\ tx' \in [Requests -> A!Tx] /\ tx'[r] = new
      /\ \A q \in Requests \ {r} : tx'[q] = tx[q]
  BY TxBegins
<1>2. /\ address' = address /\ lock' = lock /\ tx[r].op = "none"
      /\ new.op # "none" /\ new.user \in Users
  BY DEF A!BeginTx, A!NoTx, CreateTx, UpdateTx
<1>3. raced' = IF new.primary /\ \E q \in Requests : A!MakesPrimary(q, new.user)
               THEN raced \cup {new.user} ELSE raced
  BY DEF A!BeginTx
<1>4. A!TypeOK'
  BY <1>1, <1>2, <1>3 DEF A!TypeOK
<1>5. A!FlagsAreOwn'
  <2>1. \A a \in AddressIds : lock[a] # r
    BY <1>2 DEF A!FlagsAreOwn
  <2>2. \A a \in new.unset : /\ new.primary
                             /\ address[a] # NoAddress /\ address[a].user = new.user
    BY DEF A!ToUnset, A!Of, A!Live, A!Rows
  <2>3. QED
    BY <1>1, <1>2, <2>1, <2>2, RowsUntouched, FlagsStay
<1>6. \A q \in Requests, v \in Users :
        A!MakesPrimary(q, v)' =>
          \/ q # r /\ A!MakesPrimary(q, v)
          \/ q = r /\ v = new.user /\ new.primary
  BY <1>1 DEF A!MakesPrimary
<1>7. \A v \in Users \ raced' : /\ v \in Users \ raced
                                /\ v = new.user /\ new.primary =>
                                     \A q \in Requests : ~A!MakesPrimary(q, v)
  BY <1>3
<1>8. A!UnracedAreAlone'
  <2> SUFFICES ASSUME NEW v \in Users \ raced', NEW p \in Requests, NEW q \in Requests,
                      A!MakesPrimary(p, v)', A!MakesPrimary(q, v)'
               PROVE  p = q
    BY DEF A!UnracedAreAlone
  <2>1. QED
    BY <1>6, <1>7 DEF A!UnracedAreAlone
<1>9. \A v : A!Primaries(v)' = A!Primaries(v)
  BY <1>2, RowsUntouched
<1>10. A!PrimariesWillGo'
  <2> SUFFICES ASSUME NEW v \in Users \ raced', NEW q \in Requests, A!MakesPrimary(q, v)',
                      NEW a \in A!Primaries(v)
               PROVE  a \in tx'[q].unset \/ lock'[a] = q
    BY <1>9, PrimariesAre DEF A!PrimariesWillGo, A!Held
  <2>1. CASE q # r /\ A!MakesPrimary(q, v)
    BY <1>1, <1>2, <1>7, <2>1 DEF A!PrimariesWillGo, A!Held
  <2>2. CASE q = r /\ v = new.user /\ new.primary
    <3>1. a \in A!Of(v)
      BY DEF A!Primaries
    <3>2. QED
      BY <1>1, <2>2, <3>1 DEF A!ToUnset
  <2>3. QED
    BY <1>6, <2>1, <2>2
<1>11. A!TwoPrimariesHaveACause'
  BY <1>7, <1>9 DEF A!TwoPrimariesHaveACause
<1>12. QED
  BY <1>4, <1>5, <1>8, <1>10, <1>11

LEMMA AddressUnsets ==
  ASSUME A!IInv, NEW r \in Requests, NEW x \in AddressIds, A!UnsetRow(r, x)
  PROVE  A!IInv'
<1> USE DEF A!IInv
<1>1. /\ tx' \in [Requests -> A!Tx]
      /\ tx'[r].op = tx[r].op /\ tx'[r].user = tx[r].user /\ tx'[r].primary = tx[r].primary
      /\ tx'[r].unset = tx[r].unset \ {x}
      /\ \A q \in Requests \ {r} : tx'[q] = tx[q]
  BY TxUnsets
<1>2. /\ address' = address /\ raced' = raced
      /\ tx[r].op # "none" /\ x \in tx[r].unset /\ lock[x] = NoOne
  BY DEF A!UnsetRow
<1>3. /\ lock' \in [AddressIds -> Requests \cup {NoOne}]
      /\ \A a \in AddressIds \ {x} : lock'[a] = lock[a]
      /\ lock'[x] = IF x \in A!Live THEN r ELSE NoOne
  BY <1>2 DEF A!UnsetRow, A!TypeOK
<1>4. A!TypeOK'
  BY <1>1, <1>2, <1>3 DEF A!TypeOK
<1>5. A!FlagsAreOwn'
  <2>1. \A q \in Requests \ {r}, a \in AddressIds : lock'[a] = q => lock[a] = q
    BY <1>3, CustomerRecordsAssumption
  <2>2. \A a \in AddressIds : (tx'[r].op # "none" /\ a \in tx'[r].unset) \/ lock'[a] = r =>
          /\ tx'[r].op # "none" /\ tx'[r].primary
          /\ address[a] # NoAddress /\ address[a].user = tx'[r].user
    BY <1>1, <1>2, <1>3 DEF A!FlagsAreOwn, A!Rows
  <2>3. QED
    BY <1>1, <1>2, <2>1, <2>2, RowsUntouched, FlagsStay
<1>6. \A q \in Requests, v \in Users : A!MakesPrimary(q, v)' => A!MakesPrimary(q, v)
  BY <1>1 DEF A!MakesPrimary
<1>7. A!UnracedAreAlone'
  BY <1>2, <1>6, AloneStays
<1>8. \A v : A!Primaries(v)' = A!Primaries(v)
  BY <1>2, RowsUntouched
<1>9. A!PrimariesWillGo'
  <2> SUFFICES ASSUME NEW v \in Users \ raced, NEW q \in Requests, A!MakesPrimary(q, v)',
                      NEW a \in A!Primaries(v)
               PROVE  a \in tx'[q].unset \/ lock'[a] = q
    BY <1>2, <1>8, PrimariesAre DEF A!PrimariesWillGo, A!Held
  <2>1. a \in tx[q].unset \/ lock[a] = q
    BY <1>6 DEF A!PrimariesWillGo, A!Held
  <2>2. a \in AddressIds /\ a \in A!Live
    BY PrimariesAre DEF A!Primaries, A!Of
  <2>3. q = r \/ tx'[q] = tx[q]
    BY <1>1
  <2>4. CASE a = x
    <3>1. q = r
      <4>1. /\ tx[r].primary /\ x \in A!Rows /\ address[x].user = tx[r].user
        BY <1>2 DEF A!FlagsAreOwn
      <4>2. address[x].user = v
        BY <2>4, PrimariesAre
      <4>3. A!MakesPrimary(r, v)
        BY <1>2, <4>1, <4>2 DEF A!MakesPrimary
      <4>4. QED
        BY <1>6, <4>3 DEF A!UnracedAreAlone
    <3>2. QED
      BY <1>3, <2>2, <2>4, <3>1
  <2>5. CASE a # x
    BY <1>1, <1>3, <2>1, <2>2, <2>3, <2>5
  <2>6. QED
    BY <2>4, <2>5
<1>10. A!TwoPrimariesHaveACause'
  BY <1>2, <1>8 DEF A!TwoPrimariesHaveACause
<1>11. QED
  BY <1>4, <1>5, <1>7, <1>9, <1>10

\* The flags of the transactions that go on, when another one ends.
LEMMA FlagsAtEnd ==
  ASSUME A!TypeOK, A!FlagsAreOwn, NEW r \in Requests, A!Finish(r), RowsStay
  PROVE  A!FlagsAreOwn'
<1>1. /\ tx'[r].op = "none" /\ \A a \in AddressIds : lock'[a] # r
      /\ \A q \in Requests \ {r} : tx'[q] = tx[q]
      /\ \A q \in Requests \ {r}, a \in AddressIds : lock'[a] = q => lock[a] = q
  BY TxEnds
<1>2. QED
  BY <1>1, FlagsStay

LEMMA AddressEnds ==
  ASSUME A!IInv, NEW r \in Requests, A!Finish(r), address' = address, raced' = raced
  PROVE  A!IInv'
<1> USE DEF A!IInv
<1>1. A!TypeOK'
  BY TxEnds DEF A!TypeOK
<1>2. RowsStay /\ \A v : A!Primaries(v)' = A!Primaries(v)
  BY RowsUntouched
<1>3. A!FlagsAreOwn'
  BY <1>2, FlagsAtEnd
<1>4. A!UnracedAreAlone' /\ A!PrimariesWillGo' /\ A!TwoPrimariesHaveACause'
  BY <1>2, EndKeeps
<1>5. QED
  BY <1>1, <1>3, <1>4

LEMMA AddressCreates ==
  ASSUME A!IInv, NEW r \in Requests, A!CreateCommit(r)
  PROVE  A!IInv'
<1> USE DEF A!IInv
<1>1. PICK x \in AddressIds \ A!Rows :
        /\ address' \in [AddressIds -> A!Address \cup {NoAddress}]
        /\ Cleared(r, x)
        /\ address'[x].user = tx[r].user /\ address'[x].primary = tx[r].primary
  BY CreateRows
<1>2. A!Finish(r) /\ raced' = raced /\ tx[r].op # "none" /\ tx[r].unset = {}
  BY DEF A!CreateCommit
<1>3. A!TypeOK'
  BY <1>1, <1>2, TxEnds DEF A!TypeOK
<1>4. A!FlagsAreOwn'
  <2>1. RowsStay
    BY <1>1, ClearedRowsStay DEF A!Rows
  <2>2. QED
    BY <1>2, <2>1, FlagsAtEnd
<1>5. ASSUME NEW v \in Users \ raced'
      PROVE  \/ A!Primaries(v)' \subseteq A!Primaries(v)
             \/ /\ A!MakesPrimary(r, v) /\ tx[r].unset = {}
                /\ \A a \in A!Primaries(v)' : a = x \/ (a \in A!Primaries(v) /\ lock[a] # r)
  <2>1. \A a \in A!Primaries(v)' : a = x \/ (a \in A!Primaries(v) /\ lock[a] # r)
    BY <1>1, PrimariesAreNext, PrimariesCleared
  <2>2. x \in A!Primaries(v)' => A!MakesPrimary(r, v)
    BY <1>1, <1>2, PrimariesAreNext DEF A!MakesPrimary
  <2>3. QED
    BY <1>2, <2>1, <2>2
<1>6. A!UnracedAreAlone' /\ A!PrimariesWillGo' /\ A!TwoPrimariesHaveACause'
  BY <1>2, <1>5, EndKeeps
<1>7. QED
  BY <1>3, <1>4, <1>6

LEMMA AddressUpdates ==
  ASSUME A!IInv, NEW r \in Requests, A!UpdateCommit(r)
  PROVE  A!IInv'
<1> USE DEF A!IInv
<1>1. PICK x : x = tx[r].id
  OBVIOUS
<1>2. /\ address' \in [AddressIds -> A!Address \cup {NoAddress}]
      /\ Cleared(r, x)
      /\ address'[x] \in A!Address /\ address[x] \in A!Address
      /\ address'[x].user = address[x].user /\ address'[x].primary = tx[r].primary
  BY <1>1, UpdateRows
<1>3. /\ A!Finish(r) /\ tx[r].op # "none" /\ tx[r].unset = {}
      /\ raced' = IF address[x].user = tx[r].user THEN raced ELSE raced \cup {address[x].user}
  BY <1>1 DEF A!UpdateCommit
<1>4. A!TypeOK'
  <2>1. address[x].user \in Users
    BY <1>2 DEF A!Address
  <2>2. QED
    BY <1>2, <1>3, <2>1, TxEnds DEF A!TypeOK
<1>5. A!FlagsAreOwn'
  <2>1. RowsStay
    BY <1>2, NoAddressIsNoRow, ClearedRowsStay
  <2>2. QED
    BY <1>3, <2>1, FlagsAtEnd
<1>6. ASSUME NEW v \in Users \ raced'
      PROVE  \/ A!Primaries(v)' \subseteq A!Primaries(v)
             \/ /\ A!MakesPrimary(r, v) /\ tx[r].unset = {}
                /\ \A a \in A!Primaries(v)' : a = x \/ (a \in A!Primaries(v) /\ lock[a] # r)
  <2>1. \A a \in A!Primaries(v)' : a = x \/ (a \in A!Primaries(v) /\ lock[a] # r)
    BY <1>2, PrimariesAreNext, PrimariesCleared
  <2>2. x \in A!Primaries(v)' => A!MakesPrimary(r, v)
    BY <1>2, <1>3, PrimariesAreNext DEF A!MakesPrimary
  <2>3. QED
    BY <1>3, <2>1, <2>2
<1>7. A!UnracedAreAlone' /\ A!PrimariesWillGo' /\ A!TwoPrimariesHaveACause'
  <2>1. raced \subseteq raced'
    BY <1>3
  <2>2. QED
    BY <1>3, <1>6, <2>1, EndKeeps
<1>8. QED
  BY <1>4, <1>5, <1>7

LEMMA AddressDeletes ==
  ASSUME A!IInv, NEW u \in Users, NEW x \in AddressIds, A!Delete(u, x)
  PROVE  A!IInv'
<1> USE DEF A!IInv
<1>1. /\ address' \in [AddressIds -> A!Address \cup {NoAddress}]
      /\ address'[x] \in A!Address /\ ~address'[x].live
      /\ address'[x].user = address[x].user
      /\ \A a \in AddressIds \ {x} : address'[a] = address[a]
  BY DeleteRows
<1>2. UNCHANGED <<lock, tx, raced>>
  BY DEF A!Delete
<1>3. A!TypeOK'
  BY <1>1, <1>2 DEF A!TypeOK
<1>4. RowsStay
  BY <1>1, NoAddressIsNoRow DEF RowsStay
<1>5. A!FlagsAreOwn'
  BY <1>2, <1>4 DEF A!FlagsAreOwn, A!Rows, RowsStay
<1>6. A!UnracedAreAlone'
  BY <1>2 DEF A!UnracedAreAlone, A!MakesPrimary
<1>7. \A v : A!Primaries(v)' \subseteq A!Primaries(v)
  BY <1>1, PrimariesAre, PrimariesAreNext
<1>8. A!PrimariesWillGo'
  BY <1>2, <1>7 DEF A!PrimariesWillGo, A!MakesPrimary, A!Held
<1>9. A!TwoPrimariesHaveACause'
  BY <1>2, <1>7 DEF A!TwoPrimariesHaveACause
<1>10. QED
  BY <1>3, <1>5, <1>6, <1>8, <1>9

LEMMA AddressNext == A!IInv /\ [A!Next]_(A!vars) => A!IInv'
<1> SUFFICES ASSUME A!IInv, [A!Next]_(A!vars) PROVE A!IInv'
  OBVIOUS
<1>1. CASE UNCHANGED A!vars
  BY <1>1 DEF A!vars, A!IInv, A!TypeOK, A!FlagsAreOwn, A!UnracedAreAlone, A!PrimariesWillGo,
     A!TwoPrimariesHaveACause, A!Primaries, A!Of, A!Live, A!Rows, A!Held, A!MakesPrimary
<1>2. ASSUME NEW r \in Requests, NEW u \in Users, NEW primary \in BOOLEAN,
             A!CreateBegin(r, u, primary)
      PROVE  A!IInv'
  <2>1. PICK new : new = [op |-> "create", user |-> u, primary |-> primary,
                          unset |-> A!ToUnset(u, primary)]
    OBVIOUS
  <2>2. A!ToUnset(u, primary) \subseteq AddressIds
    BY DEF A!ToUnset, A!Of, A!Live, A!Rows
  <2>3. /\ new \in CreateTx /\ new.user = u /\ new.primary = primary
        /\ new.unset = A!ToUnset(u, primary)
    BY <2>1, <2>2 DEF CreateTx
  <2>4. A!BeginTx(r, new)
    BY <1>2, <2>1 DEF A!CreateBegin
  <2>5. QED
    BY <2>3, <2>4, AddressBegins
<1>3. ASSUME NEW r \in Requests, NEW u \in Users, NEW primary \in BOOLEAN, NEW id \in A!Rows,
             A!UpdateBegin(r, u, id, primary)
      PROVE  A!IInv'
  <2>1. PICK new : new = [op |-> "update", user |-> u, primary |-> primary,
                          unset |-> A!ToUnset(u, primary), id |-> id]
    OBVIOUS
  <2>2. A!ToUnset(u, primary) \subseteq AddressIds /\ id \in AddressIds
    BY DEF A!ToUnset, A!Of, A!Live, A!Rows
  <2>3. /\ new \in UpdateTx /\ new.user = u /\ new.primary = primary
        /\ new.unset = A!ToUnset(u, primary)
    BY <2>1, <2>2 DEF UpdateTx
  <2>4. A!BeginTx(r, new)
    BY <1>3, <2>1 DEF A!UpdateBegin
  <2>5. QED
    BY <2>3, <2>4, AddressBegins
<1>4. ASSUME NEW r \in Requests, A!UpdateMissing(r) \/ A!Abort(r) PROVE A!IInv'
  BY <1>4, AddressEnds DEF A!UpdateMissing, A!Abort
<1>5. ASSUME NEW r \in Requests, A!Step(r) PROVE A!IInv'
  BY <1>4, <1>5, AddressUnsets, AddressCreates, AddressUpdates DEF A!Step, A!DeadlockDetected
<1>6. ASSUME NEW r \in Requests, A!Begin(r) PROVE A!IInv'
  BY <1>2, <1>3, <1>6 DEF A!Begin
<1>7. QED
  BY <1>1, <1>4, <1>5, <1>6, AddressDeletes DEF A!Next

LEMMA AddressInvariance == Spec => []A!IInv
<1>1. Init => A!IInv
  BY AddressInit DEF Init
<1>2. A!IInv /\ [Next]_vars => A!IInv'
  BY Projections, AddressNext
<1>3. QED
  BY <1>1, <1>2, PTL DEF Spec

\* A user has two primary addresses only when two transactions that each made one primary
\* ran at once, or another user's request updated one of them.
THEOREM TwoPrimariesAreExplained == Spec => []TwoPrimariesHaveACause
<1>1. A!IInv => TwoPrimariesHaveACause
  BY DEF A!IInv, TwoPrimariesHaveACause
<1>2. QED
  BY <1>1, AddressInvariance, PTL

\* What a step may do to the primary addresses of a user.
LEMMA PrimaryKept ==
  ASSUME A!IInv, [A!Next]_(A!vars), NEW v \in Users,
         A!Primaries(v) # {}, A!Primaries(v)' = {}
  PROVE  \E a \in A!Primaries(v) : ~address'[a].live \/ A!Demoted(a)
<1> USE DEF A!IInv
<1>1. address' # address
  BY RowsUntouched
<1>2. ASSUME NEW u \in Users, NEW x \in AddressIds, A!Delete(u, x)
      PROVE  \E a \in A!Primaries(v) : ~address'[a].live
  <2>1. PICK a : a \in A!Primaries(v)
    OBVIOUS
  <2>2. /\ ~address'[x].live
        /\ \A b \in AddressIds \ {x} : address'[b] = address[b]
    BY <1>2, DeleteRows
  <2>3. a = x
    BY <2>1, <2>2, PrimariesAre, PrimariesAreNext
  <2>4. QED
    BY <2>1, <2>2, <2>3
<1>3. ASSUME NEW r \in Requests, A!CreateCommit(r) PROVE FALSE
  <2>1. PICK x \in AddressIds \ A!Rows :
          /\ Cleared(r, x)
          /\ address'[x] \in A!Address /\ address'[x].live
          /\ address'[x].user = tx[r].user /\ address'[x].primary = tx[r].primary
    BY <1>3, CreateRows
  <2>2. PICK a : a \in A!Primaries(v)
    OBVIOUS
  <2>3. a \in AddressIds \ {x}
    BY <2>1, <2>2, PrimariesAre DEF A!Rows
  <2>4. CASE v # tx[r].user \/ ~tx[r].primary
    BY <2>1, <2>2, <2>3, <2>4, PrimariesCleared
  <2>5. CASE v = tx[r].user /\ tx[r].primary
    BY <2>1, <2>5, NoAddressIsNoRow, PrimariesAreNext
  <2>6. QED
    BY <2>4, <2>5
<1>4. ASSUME NEW r \in Requests, A!UpdateCommit(r) PROVE \E a \in A!Primaries(v) : A!Demoted(a)
  <2>1. PICK x : x = tx[r].id
    OBVIOUS
  <2>2. /\ x \in AddressIds /\ Cleared(r, x)
        /\ address'[x] \in A!Address /\ address'[x].live
        /\ address'[x].user = address[x].user /\ address'[x].primary = tx[r].primary
    BY <1>4, <2>1, UpdateRows
  <2>3. tx[r].op = "update" /\ tx'[r] = A!NoTx
    BY <1>4, TxEnds DEF A!UpdateCommit
  <2>4. PICK a : a \in A!Primaries(v)
    OBVIOUS
  <2>5. CASE a = x
    BY <2>1, <2>3, <2>4, <2>5 DEF A!Demoted
  <2>6. CASE a # x
    <3>1. v = tx[r].user /\ tx[r].primary
      BY <2>2, <2>4, <2>6, PrimariesAre, PrimariesCleared
    <3>2. address[x].user # v
      BY <2>2, <3>1, NoAddressIsNoRow, PrimariesAreNext
    <3>3. x \notin A!Of(tx[r].user)
      BY <3>1, <3>2 DEF A!Of
    <3>4. QED
      BY <2>1, <2>3, <2>4, <3>1, <3>3, PrimariesAre DEF A!Demoted
  <2>7. QED
    BY <2>5, <2>6
<1>5. ASSUME NEW r \in Requests, A!Step(r) PROVE A!CreateCommit(r) \/ A!UpdateCommit(r)
  BY <1>1, <1>5 DEF A!Step, A!UnsetRow, A!UpdateMissing, A!DeadlockDetected, A!Abort
<1>6. ASSUME NEW r \in Requests, A!Begin(r) \/ A!Abort(r) PROVE FALSE
  BY <1>1, <1>6 DEF A!Begin, A!CreateBegin, A!UpdateBegin, A!BeginTx, A!Abort
<1>7. \/ \E r \in Requests : A!CreateCommit(r) \/ A!UpdateCommit(r)
      \/ \E u \in Users, x \in AddressIds : A!Delete(u, x)
  BY <1>1, <1>5, <1>6 DEF A!Next, A!vars
<1>8. QED
  BY <1>2, <1>3, <1>4, <1>7

\* Whoever had a primary address still has one unless the last one is deleted, or demoted
\* by an update of its row, or its owner makes primary an address of somebody else: a
\* request that clears the flags and then fails takes nothing away.
THEOREM PrimariesAreKept == Spec => PrimaryIsKept
<1>1. A!IInv /\ [Next]_vars => [A!NobodyLosesIt]_(A!vars)
  BY Projections, PrimaryKept DEF A!NobodyLosesIt
<1>2. QED
  BY <1>1, AddressInvariance, PTL DEF Spec, PrimaryIsKept, A!PrimaryIsKept
=============================================================================
