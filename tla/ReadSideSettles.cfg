SPECIFICATION QFairSpec
CONSTANTS
  None = None
  Orders = {o1}
  Payloads = {p1}
  Partitions = {q1}
  HomePartition = q1
  PartitionOf <- MCPartitionOf
  MaxTries = 1
  MaxRetries = 2
  Faults = {"postgres", "mongo"}
  MaxVersion = 2
  MaxLog = 6
  MaxQueue = 4
  Readers = {r1}
PROPERTIES
  EventuallySettled
  EventuallyConsistent
CHECK_DEADLOCK FALSE
