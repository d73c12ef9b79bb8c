\* The limits of the code, 10, 20, 50 and 100, scaled down in their order.
CONSTANTS
  DefaultLimit = 1
  AdminLimit = 2
  ReviewMax = 2
  HandlerMax = 3
  Limits <- SomeLimits
  MaxRows = 4
SPECIFICATION Spec
INVARIANTS
  TypeOK
  StableRowsAreSeen
  SeenTwiceNeedsAnArrival
CHECK_DEADLOCK FALSE
