\* Three concurrent operations on one cart and the cart after it, and failures.
CONSTANTS
  Products = {a}
  Requests = {r1, r2, r3}
  MaxQty = 3
  MaxCarts = 2
  Failures = TRUE
SPECIFICATION Spec
INVARIANTS
  TypeOK
  EmptyLineIsOnItsWayOut
PROPERTIES
  StaleCartIsNotWritten
