\* One order, three concurrent requests, every interleaving of them.
CONSTANTS
  Orders = {o1}
  c1 = c1
  c2 = c2
  Customers = {c1, c2}
  Owner <- MCOwner
  Requests = {r1, r2, r3}
  NoOne = NoOne
  Snaps = {s1, s2}
  MidtransActive = TRUE
  MaxEvents = 6
SPECIFICATION Spec
SYMMETRY Symmetry
INVARIANTS
  TypeOK
  PaymentSnapshotIsCurrent
  StatusMatchesPayment
  TimestampsMatch
  NoFulfilmentWithoutPayment
PROPERTIES
  PaymentMovesByTheTable
  NoWayBackToCheckout
  TracesAreKept
  ImplementsPaymentLedger
CHECK_DEADLOCK FALSE
