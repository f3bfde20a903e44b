SPECIFICATION Spec
CONSTANTS
  None = None
  Orders = {o1}
  Payloads = {i1, p1, p2}
  Products = {i1}
  PaymentIds = {p1, p2}
  TrackingIds = {p1}
  DeclinedPayments = {p2}
  Handlers = {h1, h2}
  Keys = {k1}
  MaxAttempts = 1
  MaxVersion = 5
SYMMETRY HandlerSymmetry
INVARIANTS
  VersionsAreContiguous
  LegalHistory
  PaidOnlyIfCharged
  RequestsOK
PROPERTY ImplementsLifecycle
CHECK_DEADLOCK FALSE
