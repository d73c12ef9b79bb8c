---------------------------- MODULE Registration ----------------------------
(***************************************************************************)
(* What Register promises of the users table: an e-mail address has one    *)
(* row, by a unique constraint, and a phone number has one, by a SELECT    *)
(* some time before the INSERT and nothing else.  Accounts has the mails   *)
(* and the tokens that follow a registration; the two share no column.     *)
(***************************************************************************)
EXTENDS Naturals

CONSTANTS
  Users,    \* e-mail addresses
  Phones,   \* the request must give one
  Requests

VARIABLES
  phoneOf,   \* the users table: address -> phone number
  joining,   \* the requests that have passed the check
  together   \* history: users inserted while another request with their phone
             \* number was past the check

vars == <<phoneOf, joining, together>>

Idle == [op |-> "idle"]
Joining == [op : {"insert"}, user : Users, phone : Phones]

TypeOK ==
  /\ \E us \in SUBSET Users : phoneOf \in [us -> Phones]
  /\ joining \in [Requests -> {Idle} \cup Joining]
  /\ together \subseteq DOMAIN phoneOf

Init ==
  /\ phoneOf \in [{} -> Phones]
  /\ joining = [r \in Requests |-> Idle]
  /\ together = {}

\* Mutant: the check finds nobody.
CheckPhoneNever(phone) == FALSE

CheckPhoneExists(phone) == \E u \in DOMAIN phoneOf : phoneOf[u] = phone

RegisterCheck(r, u, phone) ==
  /\ joining[r] = Idle
  /\ ~CheckPhoneExists(phone)
  /\ joining' = [joining EXCEPT ![r] = [op |-> "insert", user |-> u, phone |-> phone]]
  /\ UNCHANGED <<phoneOf, together>>

\* Another request, past its check, with the same phone number.
Rivals(r) ==
  {q \in Requests \ {r} : joining[q] # Idle /\ joining[q].phone = joining[r].phone}

RegisterInsert(r) ==
  /\ joining[r] # Idle
  /\ joining[r].user \notin DOMAIN phoneOf
  /\ phoneOf' = [u \in DOMAIN phoneOf \cup {joining[r].user} |->
                   IF u = joining[r].user THEN joining[r].phone ELSE phoneOf[u]]
  /\ together' = IF Rivals(r) = {} THEN together ELSE together \cup {joining[r].user}
  /\ joining' = [joining EXCEPT ![r] = Idle]

\* The address is registered already, the database fails, or the client leaves.
RegisterFails(r) ==
  /\ joining[r] # Idle
  /\ joining' = [joining EXCEPT ![r] = Idle]
  /\ UNCHANGED <<phoneOf, together>>

Next ==
  \E r \in Requests :
    \/ \E u \in Users, phone \in Phones : RegisterCheck(r, u, phone)
    \/ RegisterInsert(r)
    \/ RegisterFails(r)

-----------------------------------------------------------------------------

\* Two customers have one phone number only when the second had passed the check
\* before the first was inserted.
SharedPhoneNeedsARace ==
  \A u, v \in DOMAIN phoneOf :
    u # v /\ phoneOf[u] = phoneOf[v] => u \in together \/ v \in together

(* Why it holds: the inductive invariant.                                  *)

\* Whose number a request past its check is about to insert again is marked already.
RivalsAreMarked ==
  \A r \in Requests, u \in DOMAIN phoneOf :
    joining[r] # Idle /\ joining[r].phone = phoneOf[u] => u \in together

IInv == TypeOK /\ RivalsAreMarked /\ SharedPhoneNeedsARace
=============================================================================
