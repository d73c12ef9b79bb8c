------------------------------ MODULE Accounts ------------------------------
(***************************************************************************)
(* Registration, e-mail confirmation and password reset: the users table,  *)
(* the two token tables with at most one row per user, and the requests    *)
(* that issue, send and redeem tokens.  No operation is a transaction:     *)
(* every statement is a step of its own, and so is the sending of a mail.  *)
(*                                                                         *)
(* Time runs in units of ten minutes, the throttle of the mails.  Phone    *)
(* numbers, logins and the passwords themselves are left out.              *)
(***************************************************************************)
EXTENDS Naturals, Sequences, FiniteSets

CONSTANTS
  Users,      \* e-mail addresses
  Requests,   \* concurrent request handlers
  Pins,
  TTL,        \* the life of a token of each kind, in units of time
  MaxTokens   \* bound: tokens issued, counting those still to be stored

Kinds == {"reset", "confirm"}

ASSUME AccountsAssumption ==
  /\ IsFiniteSet(Requests)
  /\ TTL \in [Kinds -> Nat \ {0}]
  /\ MaxTokens \in Nat

VARIABLES
  users,      \* addresses with a row in users
  confirmed,  \* users.email_confirmed
  token,      \* all tokens ever stored: whose, which kind, pin, age
  live,       \* those in the tables now, as indices of token
  req,        \* what each request is about to do
  mailed,     \* history: tokens that reached their user
  applied,    \* history: tokens whose effect has been had
  leftover,   \* history: applied tokens whose delete never came
  raced       \* history: tokens stored of late while another request was storing one

vars == <<users, confirmed, token, live, req, mailed, applied, leftover, raced>>

Ages == 0 .. (TTL["reset"] + TTL["confirm"])

Token == [user : Users, kind : Kinds, pin : Pins, age : Ages]

Idle == [op |-> "idle"]
Issuing   == [op : {"request", "throttle", "delete", "store"}, user : Users,
              kind : Kinds, resend : BOOLEAN, age : Ages]
Sending   == [op : {"mail"}, user : Users, token : 1 .. MaxTokens]
Typing    == [op : {"pin"}, user : Users, pin : Pins]
Redeeming == [op : {"apply", "drop"}, user : Users, token : 1 .. MaxTokens,
              by : {"token", "pin"}]

TypeOK ==
  /\ confirmed \subseteq users
  /\ users \subseteq Users
  /\ token \in Seq(Token)
  /\ Len(token) <= MaxTokens
  /\ {live, mailed, applied, leftover, raced} \subseteq SUBSET (DOMAIN token)
  /\ \A s, t \in live :
       token[s].user = token[t].user /\ token[s].kind = token[t].kind => s = t
  /\ req \in [Requests -> {Idle} \cup Issuing \cup Sending \cup Typing \cup Redeeming]

Init ==
  /\ users = {}
  /\ confirmed = {}
  /\ token = <<>>
  /\ live = {}
  /\ req = [r \in Requests |-> Idle]
  /\ mailed = {}
  /\ applied = {}
  /\ leftover = {}
  /\ raced = {}

-----------------------------------------------------------------------------
(* Helpers.                                                                *)

historyVars == <<mailed, applied, leftover, raced>>

Go(r, state) == req' = [req EXCEPT ![r] = state]

End(r) == Go(r, Idle)

\* The row of a user in the table of a kind: at most one.
RowOf(kind, u) == {t \in live : token[t].kind = kind /\ token[t].user = u}

Expired(t) == token[t].age >= TTL[token[t].kind]

Recent(t) == token[t].age = 0 /\ ~Expired(t)

\* Requests past the throttle that have not stored their token yet.
InStore(kind, u) ==
  {r \in Requests : req[r].op \in {"delete", "store"}
                    /\ req[r].user = u /\ req[r].kind = kind}

\* Requests that may still store a token: the bound is met when they start.
Storing == {r \in Requests : req[r].op \in {"request", "throttle", "delete", "store"}}

Room == Len(token) + Cardinality(Storing) < MaxTokens

-----------------------------------------------------------------------------
(* Registering, and asking for a mail.                                     *)

NewRequest(u, kind, resend) ==
  [op |-> "request", user |-> u, kind |-> kind, resend |-> resend, age |-> 0]

\* The handler goes on with a request for the confirmation mail.
Register(r, u) ==
  /\ req[r] = Idle
  /\ Room
  /\ u \notin users
  /\ users' = users \cup {u}
  /\ Go(r, NewRequest(u, "confirm", FALSE))
  /\ UNCHANGED <<confirmed, token, live, historyVars>>

Ask(r, u) ==
  /\ req[r] = Idle
  /\ Room
  /\ u \in users
  /\ \/ Go(r, NewRequest(u, "reset", FALSE))
     \/ \E resend \in BOOLEAN : Go(r, NewRequest(u, "confirm", resend))
  /\ UNCHANGED <<users, confirmed, token, live, historyVars>>

\* The user is read; a confirmed address needs no confirmation.
FindUser(r) ==
  /\ req[r].op = "request"
  /\ IF req[r].kind = "confirm" /\ req[r].user \in confirmed
       THEN End(r)
       ELSE Go(r, [req[r] EXCEPT !.op = "throttle"])
  /\ UNCHANGED <<users, confirmed, token, live, historyVars>>

\* Mutant: the throttle looks at expired tokens only.
ThrottleLax(r) ==
  /\ req[r].op = "throttle"
  /\ Go(r, [req[r] EXCEPT !.op = IF req[r].resend THEN "delete" ELSE "store"])
  /\ UNCHANGED <<users, confirmed, token, live, historyVars>>

\* The last token is read: a recent one ends the request without a mail.
Throttle(r) ==
  /\ req[r].op = "throttle"
  /\ IF \E t \in RowOf(req[r].kind, req[r].user) : Recent(t)
       THEN End(r)
       ELSE Go(r, [req[r] EXCEPT !.op = IF req[r].resend THEN "delete" ELSE "store"])
  /\ UNCHANGED <<users, confirmed, token, live, historyVars>>

\* Mutant: every user's confirmation token goes.
DeleteOldAll(r) ==
  /\ req[r].op = "delete"
  /\ Go(r, [req[r] EXCEPT !.op = "store"])
  /\ live' = {t \in live : token[t].kind # req[r].kind}
  /\ UNCHANGED <<users, confirmed, token, historyVars>>

\* Resending deletes first.
DeleteOld(r) ==
  /\ req[r].op = "delete"
  /\ Go(r, [req[r] EXCEPT !.op = "store"])
  /\ live' = live \ RowOf(req[r].kind, req[r].user)
  /\ UNCHANGED <<users, confirmed, token, historyVars>>

\* Mutant: a plain insert, without ON CONFLICT.
StoreAnother(r) ==
  LET new == Len(token) + 1
  IN  /\ req[r].op = "store"
      /\ \E pin \in Pins :
           token' = Append(token, [user |-> req[r].user, kind |-> req[r].kind,
                                   pin |-> pin, age |-> req[r].age])
      /\ live' = live \cup {new}
      /\ Go(r, [op |-> "mail", user |-> req[r].user, token |-> new])
      /\ UNCHANGED <<users, confirmed, historyVars>>

\* The upsert replaces the user's row, whatever was put there meanwhile.
\* created_at is the time at which the request started.
Store(r) ==
  LET new == Len(token) + 1
  IN  /\ req[r].op = "store"
      /\ \E pin \in Pins :
           token' = Append(token, [user |-> req[r].user, kind |-> req[r].kind,
                                   pin |-> pin, age |-> req[r].age])
      /\ live' = (live \ RowOf(req[r].kind, req[r].user)) \cup {new}
      /\ raced' = IF InStore(req[r].kind, req[r].user) = {r}
                    THEN raced ELSE raced \cup {new}
      /\ Go(r, [op |-> "mail", user |-> req[r].user, token |-> new])
      /\ UNCHANGED <<users, confirmed, mailed, applied, leftover>>

\* The mail has the link or the PIN, after the kind of client: both are taken to be
\* known.
Mail(r) ==
  /\ req[r].op = "mail"
  /\ End(r)
  /\ mailed' = mailed \cup {req[r].token}
  /\ UNCHANGED <<users, confirmed, token, live, applied, leftover, raced>>

-----------------------------------------------------------------------------
(* Redeeming.                                                              *)

Redeem(r, t, step, by) ==
  [op |-> step, user |-> token[t].user, token |-> t, by |-> by]

\* ResetPassword and ConfirmEmailByToken: the row with the token, if it is there.
\* An expired one is only deleted.
LookUp(r, t) ==
  /\ req[r] = Idle
  /\ t \in live \cap mailed
  /\ Go(r, Redeem(r, t, IF Expired(t) THEN "drop" ELSE "apply", "token"))
  /\ UNCHANGED <<users, confirmed, token, live, historyVars>>

\* ConfirmEmailByPin: the user first, then the row and its PIN.
EnterPin(r, u, pin) ==
  /\ req[r] = Idle
  /\ u \in users \ confirmed
  /\ Go(r, [op |-> "pin", user |-> u, pin |-> pin])
  /\ UNCHANGED <<users, confirmed, token, live, historyVars>>

ComparePin(r) ==
  /\ req[r].op = "pin"
  /\ LET row == {t \in RowOf("confirm", req[r].user) : token[t].pin = req[r].pin}
     IN  \/ row = {} /\ End(r)
         \/ \E t \in row :
              Go(r, Redeem(r, t, IF Expired(t) THEN "drop" ELSE "apply", "pin"))
  /\ UNCHANGED <<users, confirmed, token, live, historyVars>>

\* Mutant: the token is not deleted.
ApplyOnly(r) ==
  LET t == req[r].token
  IN  /\ req[r].op = "apply"
      /\ End(r)
      /\ confirmed' = IF token[t].kind = "confirm" THEN confirmed \cup {req[r].user}
                                                   ELSE confirmed
      /\ applied' = applied \cup {t}
      /\ UNCHANGED <<users, token, live, mailed, leftover, raced>>

\* The password is set, or the address confirmed.
Apply(r) ==
  LET t == req[r].token
  IN  /\ req[r].op = "apply"
      /\ Go(r, [req[r] EXCEPT !.op = "drop"])
      /\ confirmed' = IF token[t].kind = "confirm" THEN confirmed \cup {req[r].user}
                                                   ELSE confirmed
      /\ applied' = applied \cup {t}
      /\ UNCHANGED <<users, token, live, mailed, leftover, raced>>

\* Mutant: the user's row is deleted, whichever token it holds by now.
DropOfUser(r) ==
  LET t == req[r].token
  IN  /\ req[r].op = "drop"
      /\ End(r)
      /\ live' = live \ RowOf(token[t].kind, req[r].user)
      /\ UNCHANGED <<users, confirmed, token, historyVars>>

\* The delete is by token, or by PIN, whoever else has the same one.
Drop(r) ==
  LET t == req[r].token
      samePin == {s \in live : token[s].kind = "confirm" /\ token[s].pin = token[t].pin}
  IN  /\ req[r].op = "drop"
      /\ End(r)
      /\ live' = live \ IF req[r].by = "pin" THEN samePin ELSE {t}
      /\ UNCHANGED <<users, confirmed, token, historyVars>>

-----------------------------------------------------------------------------
(* Failures and time.                                                      *)

\* The database, the mail service or the process fails, or the client leaves:
\* what has been done stays.
Abort(r) ==
  /\ req[r] # Idle
  /\ End(r)
  /\ leftover' = IF req[r].op = "drop" /\ req[r].token \in applied
                   THEN leftover \cup {req[r].token} ELSE leftover
  /\ UNCHANGED <<users, confirmed, token, live, mailed, applied, raced>>

\* Ten minutes pass; nothing changes any more once a token has expired.
\* The histories are kept as long as a property asks for them.
Older(kind, age) == IF age < TTL[kind] THEN age + 1 ELSE age

Tick ==
  /\ token' = [t \in DOMAIN token |->
                 [token[t] EXCEPT !.age = Older(token[t].kind, @)]]
  /\ req' = [r \in Requests |->
               IF req[r].op \in {"delete", "store"}
                 THEN [req[r] EXCEPT !.age = Older(req[r].kind, @)] ELSE req[r]]
  /\ mailed' = mailed \cap live
  /\ applied' = applied \cap live
  /\ leftover' = leftover \cap live
  /\ raced' = {}
  /\ UNCHANGED <<users, confirmed, live>>

-----------------------------------------------------------------------------

Step(r) ==
  \/ FindUser(r)
  \/ Throttle(r)
  \/ DeleteOld(r)
  \/ Store(r)
  \/ Mail(r)
  \/ ComparePin(r)
  \/ Apply(r)
  \/ Drop(r)

Start(r) ==
  \/ \E u \in Users :
       \/ Register(r, u)
       \/ Ask(r, u)
       \/ \E pin \in Pins : EnterPin(r, u, pin)
  \/ \E t \in DOMAIN token : LookUp(r, t)

Next ==
  \/ \E r \in Requests : Start(r) \/ Step(r) \/ Abort(r)
  \/ Tick

Spec == Init /\ [][Next]_vars

-----------------------------------------------------------------------------
(* Safety.                                                                 *)

\* Another token, of whichever user, has the same PIN.
SharesPin(t) ==
  \E s \in DOMAIN token :
    /\ s # t
    /\ token[s].pin = token[t].pin
    /\ "confirm" = token[s].kind /\ "confirm" = token[t].kind

\* A mail that arrived in the last ten minutes holds a link, or a PIN, that works,
\* unless it has been used, or two requests for it overlapped, or another token was
\* given the same PIN: no other mail is sent in its place, and the redemption of
\* an older token does not take it away.
RecentMailWorks ==
  \A t \in mailed : token[t].age = 0 =>
    t \in live \cup applied \cup raced \/ SharesPin(t)

\* A token that has had its effect is about to be deleted by a request that used
\* it, unless that one died: it can be used twice only by requests that overlap.
AppliedTokenIsOnItsWayOut ==
  \A t \in applied \cap live :
    t \in leftover \/ \E r \in Requests : req[r].op = "drop" /\ req[r].token = t

(* Why they hold: the inductive invariant.                                 *)

StoresFit == Len(token) + Cardinality(Storing) <= MaxTokens

\* Tokens and requests are of registered users, and a request works on a token of its
\* user that has been stored; a PIN redeems confirmation tokens only.
RequestsAreSound ==
  /\ \A t \in DOMAIN token : token[t].user \in users
  /\ \A r \in Requests :
       /\ req[r] # Idle => req[r].user \in users
       /\ req[r].op \in {"mail", "apply", "drop"} =>
            /\ req[r].token \in DOMAIN token
            /\ token[req[r].token].user = req[r].user
       /\ req[r].op \in {"apply", "drop"} /\ req[r].by = "pin" =>
            token[req[r].token].kind = "confirm"

\* While a token is fresh, the throttle lets nobody through to replace it.
NobodyReplacesAFreshToken ==
  \A t \in live \ raced :
    token[t].age = 0 => InStore(token[t].kind, token[t].user) = {}

\* A token is deleted for having been applied, or for its age.
DropsAreDue ==
  \A r \in Requests : req[r].op = "drop" =>
    req[r].token \in applied \/ token[req[r].token].age # 0

\* RecentMailWorks, of all tokens: those on their way to the mail included.
FreshTokenWorks ==
  \A t \in DOMAIN token : token[t].age = 0 =>
    t \in live \cup applied \cup raced \/ SharesPin(t)

IInv ==
  /\ TypeOK
  /\ StoresFit
  /\ RequestsAreSound
  /\ NobodyReplacesAFreshToken
  /\ DropsAreDue
  /\ FreshTokenWorks
  /\ AppliedTokenIsOnItsWayOut

(* What a step may never do.                                               *)

\* Nobody but the user makes a token go, but for a PIN that two tokens share.
TokensAreTheUsersOwn ==
  [][\A t \in live \ live' : \E r \in Requests :
       /\ req'[r] # req[r]
       /\ \/ req[r].user = token[t].user
          \/ req[r].op = "drop" /\ req[r].by = "pin" /\ SharesPin(t)]_vars
=============================================================================
