SPECIFICATION Spec
CONSTANTS
  None = None
  Partitions = {q1, q2}
  BatchSize = 2
  MaxOffset = 2
  MaxSecond = 1
SYMMETRY PartitionSymmetry
INVARIANTS
  TypeOK
  CommittedIsArchived
CHECK_DEADLOCK FALSE
