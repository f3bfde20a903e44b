SPECIFICATION Spec
CONSTANTS
  None = None
  Orders = {o1, o2}
  Payloads = {i1, p1, p2}
  Products = {i1}
  PaymentIds = {p1}
  TrackingIds = {p1}
  DeclinedPayments = {}
  Handlers = {h1, h2}
  Keys = {k1}
  MaxAttempts = 3
  MaxVersion = 1
INVARIANT SameKeySameOrder
CHECK_DEADLOCK FALSE
