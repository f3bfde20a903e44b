SPECIFICATION PSpec
CONSTANTS
  None = None
  Orders = {o1}
  Payloads = {i1}
  Products = {i1}
  PaymentIds = {}
  TrackingIds = {}
  DeclinedPayments = {}
  Handlers = {h1, h2}
  Keys = {k1}
  MaxAttempts = 1
  MaxVersion = 3
SYMMETRY HandlerSymmetry
INVARIANTS
  StateSurvivesPruning
  HistorySurvivesPruning
CHECK_DEADLOCK FALSE
