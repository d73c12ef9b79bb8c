\* Two requests on two addresses, on two wishlists, on one profile or of two
\* registrations.
CONSTANTS
  Users = {u1, u2}
  AddressIds = {a1, a2}
  NoAddress = NoAddress
  Products = {p1, p2}
  Names = {n1, n2}
  Passwords = {w1, w2}
  Absent = Absent
  Phones = {t1, t2}
  Requests = {r1, r2}
  NoOne = NoOne
SPECIFICATION Spec
INVARIANTS
  TwoPrimariesHaveACause
  SharedPhoneNeedsARace
PROPERTIES
  PrimaryIsKept
  AddressRequestsEnd
  AddedWasInserted
  NewPasswordNeedsTheOld
CHECK_DEADLOCK FALSE
