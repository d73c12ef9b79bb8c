\* Three requests with one key, every kind of failure, fair handlers and time.
CONSTANTS
  Requests = {r1, r2, r3}
  key = key
  Keys = {key}
  KeyOf <- MCKeyOf
  LockTTL = 2
  Failures = TRUE
  Leavers = {r1}
SPECIFICATION FairSpec
INVARIANTS
  TypeOK
  OneAtATime
  DuplicateHasACause
PROPERTY LockGoes
CHECK_DEADLOCK FALSE
