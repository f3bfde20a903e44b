SPECIFICATION Spec
CONSTANTS
  None = None
  Orders = {o1}
  Payloads = {p1}
  Partitions = {q1}
  HomePartition = q1
  PartitionOf <- MCPartitionOf
  MaxTries = 2
  MaxRetries = 1
  Faults = {"crash", "postgres", "redis", "mongo", "kafka", "sqs", "lambda", "retention", "overtake"}
  MaxVersion = 2
  MaxLog = 4
  MaxQueue = 2
INVARIANTS
  TypeOK
  NothingLost
  DeadOnlyAfterRetries
CHECK_DEADLOCK FALSE
