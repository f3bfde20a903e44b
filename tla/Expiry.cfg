SPECIFICATION Spec
CONSTANTS
  None = None
  Orders = {o1}
  Payloads = {p1}
  Partitions = {q1}
  HomePartition = q1
  PartitionOf <- MCPartitionOf
  MaxTries = 3
  MaxRetries = 3
  Faults = {"crash"}
  MaxVersion = 3
  MaxLog = 4
  MaxQueue = 3
INVARIANT TerminalOrdersExpire
CHECK_DEADLOCK FALSE
