\* Refuted without any failure: a cache lookup just before the first answer.
CONSTANTS
  Requests = {r1, r2}
  key = key
  Keys = {key}
  KeyOf <- MCKeyOf
  LockTTL = 3
  Failures = FALSE
  Leavers = {}
SPECIFICATION Spec
INVARIANT AtMostOneOrder
CHECK_DEADLOCK FALSE
