SPECIFICATION OverlapSpec
CONSTANTS
  None = None
  Orders = {o1}
  Payloads = {i1, p1, p2}
  Products = {i1}
  PaymentIds = {p1}
  TrackingIds = {p1}
  DeclinedPayments = {}
  Handlers = {h1, h2}
  Keys = {k1}
  MaxAttempts = 3
  MaxVersion = 5
INVARIANT ChargeCanBeRecorded
CHECK_DEADLOCK FALSE
