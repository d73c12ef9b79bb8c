\* Fair loops, every kind of error, two crashes, failed marks or lost commits.
CONSTANTS
  MaxEvent = 2
  Workers = {w1}
  Partitions = {p1, p2}
  Nobody = Nobody
  BatchSize = 2
  MaxFaults = 2
  PublishErrors = TRUE
  BrokerDrops = TRUE
  HandlerErrors = TRUE
SPECIFICATION FairSpec
PROPERTY ImplementsAtLeastOnce
CHECK_DEADLOCK FALSE
