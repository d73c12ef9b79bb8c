-------------------------- MODULE CustomerRecords --------------------------
(* The records a customer keeps: the registration, addresses, wishlist and   *)
(* profile.  They share no column, so a behaviour exercises one of them,     *)
(* chosen at the start; to interleave them would add states and no case.     *)
EXTENDS Naturals

CONSTANTS
  Users, AddressIds, NoAddress, Products, Names, Passwords, Absent,
  Phones,
  Requests, NoOne

ASSUME CustomerRecordsAssumption ==
  /\ NoOne \notin Requests
  /\ Absent \notin Names \cup Passwords
  /\ NoAddress \notin [user : Users, primary : BOOLEAN, live : BOOLEAN]

VARIABLES
  service,
  address, lock, tx, raced,
  lists, items, holder, work,
  user, writer, update, overtaken,
  phoneOf, joining, together

A == INSTANCE AddressBook
W == INSTANCE Wishlist
P == INSTANCE Profile
G == INSTANCE Registration

addressVars == <<address, lock, tx, raced>>
wishlistVars == <<lists, items, holder, work>>
profileVars == <<user, writer, update, overtaken>>
registrationVars == <<phoneOf, joining, together>>
vars == <<service, addressVars, wishlistVars, profileVars, registrationVars>>

Init ==
  /\ service \in {"addresses", "wishlist", "profile", "registration"}
  /\ A!Init /\ W!Init /\ P!Init /\ G!Init

AddressStep == /\ service = "addresses" /\ A!Next
               /\ UNCHANGED <<service, wishlistVars, profileVars, registrationVars>>

WishlistStep == /\ service = "wishlist" /\ W!Next
                /\ UNCHANGED <<service, addressVars, profileVars, registrationVars>>

ProfileStep == /\ service = "profile" /\ P!Next
               /\ UNCHANGED <<service, addressVars, wishlistVars, registrationVars>>

RegistrationStep == /\ service = "registration" /\ G!Next
                    /\ UNCHANGED <<service, addressVars, wishlistVars, profileVars>>

Next == AddressStep \/ WishlistStep \/ ProfileStep \/ RegistrationStep

\* PostgreSQL queues the waiters of a row lock and breaks deadlocks, and the Go
\* scheduler runs every handler on.
Fairness == A!Fairness

Spec == Init /\ [][Next]_vars /\ Fairness

\* AddressBook!TwoPrimariesHaveACause.
TwoPrimariesHaveACause == A!TwoPrimariesHaveACause

\* AddressBook!PrimaryIsKept.
PrimaryIsKept == A!PrimaryIsKept

\* AddressBook!AddressRequestsEnd.
AddressRequestsEnd == A!AddressRequestsEnd

\* Wishlist!AddedWasInserted.
AddedWasInserted == W!AddedWasInserted

\* Profile!NewPasswordNeedsTheOld.
NewPasswordNeedsTheOld == P!NewPasswordNeedsTheOld

\* Registration!SharedPhoneNeedsARace.
SharedPhoneNeedsARace == G!SharedPhoneNeedsARace
=============================================================================
