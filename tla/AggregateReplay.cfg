SPECIFICATION Spec
CONSTANTS
  None = None
  AnOrder = o1
  Orders = {o1}
  Payloads = {p1}
  MaxEvents = 4
  Histories <- MCHistories
INVARIANTS
  TypeOK
  LoopInvariant
  ReplayComputesRebuild
CHECK_DEADLOCK FALSE
