\* Refuted: a message whose handler failed is passed by the next commit.
CONSTANTS
  MaxEvent = 2
  Workers = {w1}
  Partitions = {p1}
  Nobody = Nobody
  BatchSize = 2
  MaxFaults = 0
  PublishErrors = FALSE
  BrokerDrops = FALSE
  HandlerErrors = TRUE
SPECIFICATION Spec
INVARIANT CommittedWasHandled
CHECK_DEADLOCK FALSE
