------------------------------ MODULE Profile ------------------------------
(***************************************************************************)
(* The row of one customer: UpdateProfile changes the name and, given the  *)
(* current password, the password, in one transaction; the user is read    *)
(* before it begins.  A password reset and an administrator's change of the *)
(* customer's status write the same row, each in one statement.            *)
(*                                                                         *)
(* A hash stands for the password it was made of.                          *)
(***************************************************************************)
EXTENDS Naturals

CONSTANTS
  Names, Passwords,
  Absent,    \* a field the request leaves out, or an empty password
  Requests, NoOne

VARIABLES
  user,     \* the row in users, as committed
  writer,   \* the transaction that holds its lock
  update,   \* each UpdateProfile request, and what it has read
  overtaken \* history: requests since whose read the password was changed

vars == <<user, writer, update, overtaken>>

NoUpdate == [step |-> "none"]

Update == {NoUpdate} \cup
  [step : {"name", "compare", "password", "commit"}, seen : Passwords,
   name : Names \cup {Absent}, password : Passwords \cup {Absent},
   current : Passwords]

TypeOK ==
  /\ user \in [name : Names, password : Passwords, active : BOOLEAN]
  /\ writer \in Requests \cup {NoOne}
  /\ update \in [Requests -> Update]
  /\ overtaken \subseteq Requests

Init ==
  /\ user \in [name : Names, password : Passwords, active : {TRUE}]
  /\ writer = NoOne
  /\ update = [r \in Requests |-> NoUpdate]
  /\ overtaken = {}

Goto(r, step) == update' = [update EXCEPT ![r].step = step]

Finish(r) ==
  /\ update' = [update EXCEPT ![r] = NoUpdate]
  /\ writer' = IF writer = r THEN NoOne ELSE writer

\* Those that have read the password when it is changed.
Overtaken(password) ==
  IF password = user.password THEN overtaken
  ELSE {q \in Requests : update[q] # NoUpdate}

Free(r) == writer \in {r, NoOne}

\* GetByID, before the transaction.  A current password that is left out is a
\* wrong one.
UpdateRead(r, name, password, current) ==
  /\ update[r] = NoUpdate
  /\ update' = [update EXCEPT ![r] =
                  [step |-> "name", seen |-> user.password, name |-> name,
                   password |-> password, current |-> current]]
  /\ UNCHANGED <<user, writer, overtaken>>

\* The name is written, if there is one, and the row stays locked.
UpdateName(r) ==
  /\ update[r].step = "name"
  /\ IF update[r].name = Absent THEN writer' = writer
                                ELSE Free(r) /\ writer' = r
  /\ Goto(r, "compare")
  /\ UNCHANGED <<user, overtaken>>

WantsPassword(r) == update[r].password # Absent

\* Mutant: the current password is not compared.
ComparePasswordAny(r) ==
  /\ update[r].step = "compare"
  /\ Goto(r, IF WantsPassword(r) THEN "password" ELSE "commit")
  /\ UNCHANGED <<user, writer, overtaken>>

\* The hash that was read decides; without a match the transaction rolls back.
ComparePassword(r) ==
  /\ update[r].step = "compare"
  /\ IF WantsPassword(r)
     THEN IF update[r].current = update[r].seen
          THEN Goto(r, "password") /\ UNCHANGED <<writer, overtaken>>
          ELSE Finish(r) /\ overtaken' = overtaken \ {r}
     ELSE Goto(r, "commit") /\ UNCHANGED <<writer, overtaken>>
  /\ UNCHANGED user

UpdatePassword(r) ==
  /\ update[r].step = "password"
  /\ Free(r) /\ writer' = r
  /\ Goto(r, "commit")
  /\ UNCHANGED <<user, overtaken>>

Commit(r) ==
  /\ update[r].step = "commit"
  /\ user' = [user EXCEPT
                !.name = IF update[r].name = Absent THEN @ ELSE update[r].name,
                !.password = IF WantsPassword(r) THEN update[r].password ELSE @]
  /\ overtaken' = Overtaken(user'.password) \ {r}
  /\ Finish(r)

Abort(r) ==
  /\ update[r] # NoUpdate
  /\ Finish(r)
  /\ overtaken' = overtaken \ {r}
  /\ UNCHANGED user

\* ResetPassword of the auth service.
ResetPassword(password) ==
  /\ writer = NoOne
  /\ user' = [user EXCEPT !.password = password]
  /\ overtaken' = Overtaken(password)
  /\ UNCHANGED <<writer, update>>

\* The same value may be written again.
ToggleCustomerStatus(active) ==
  /\ writer = NoOne
  /\ user' = [user EXCEPT !.active = active]
  /\ UNCHANGED <<writer, update, overtaken>>

Next ==
  \/ \E r \in Requests :
       \/ \E name \in Names \cup {Absent},
             password \in Passwords \cup {Absent}, current \in Passwords :
            UpdateRead(r, name, password, current)
       \/ UpdateName(r)
       \/ ComparePassword(r)
       \/ UpdatePassword(r)
       \/ Commit(r)
       \/ Abort(r)
  \/ \E password \in Passwords : ResetPassword(password)
  \/ \E active \in BOOLEAN : ToggleCustomerStatus(active)

-----------------------------------------------------------------------------

\* Who changes the password knows the one it replaces, unless that one was set
\* after the request had read the old one: a reset in between is written over
\* only by a request that was on its way when it came.
NewPasswordNeedsTheOld ==
  [][\A r \in Requests :
       /\ update[r].step = "commit" /\ update'[r] = NoUpdate
       /\ user'.password # user.password
       => update[r].current = user.password \/ r \in overtaken]_vars

(* Why it holds: the inductive invariant.                                  *)

\* What a request has read is the password still, or it has been overtaken; it is past
\* the comparison only with the password it read.
ReadsAreCurrent ==
  \A r \in Requests : update[r] # NoUpdate =>
    /\ update[r].seen = user.password \/ r \in overtaken
    /\ update[r].step \in {"password", "commit"} /\ WantsPassword(r) =>
         update[r].current = update[r].seen

IInv == TypeOK /\ ReadsAreCurrent
=============================================================================
