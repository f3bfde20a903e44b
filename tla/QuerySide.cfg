SPECIFICATION QSpec
CONSTANTS
  None = None
  Orders = {o1}
  Payloads = {p1}
  Partitions = {q1}
  HomePartition = q1
  PartitionOf <- MCPartitionOf
  MaxTries = 1
  MaxRetries = 1
  Faults = {"crash", "postgres", "redis", "kafka"}
  MaxVersion = 3
  MaxLog = 4
  MaxQueue = 1
  Readers = {r1}
INVARIANTS
  CacheFollowsRows
  FollowsTheLog
CHECK_DEADLOCK FALSE
