\* Two workers on one outbox, every kind of failure.
CONSTANTS
  MaxEvent = 2
  Workers = {w1, w2}
  Partitions = {p1, p2}
  Nobody = Nobody
  BatchSize = 1
  MaxFaults = 1
  PublishErrors = TRUE
  BrokerDrops = TRUE
  HandlerErrors = TRUE
SPECIFICATION Spec
SYMMETRY Symmetry
INVARIANTS
  TypeOK
  NoEventIsLostSilently
  CommitsFollowAttempts
CHECK_DEADLOCK FALSE
