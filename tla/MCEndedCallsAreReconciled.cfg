\* One call that does not stream.
SPECIFICATION ProxySpec
CONSTANTS
  closed = closed
  open = open
  q1 = q1
  q2 = q2
  k1 = k1
  NoKey = NoKey
  Keys = {k1}
  Sessions = {closed}
  FailOpen = {}
  Reports <- FullReports
  RequestIds = {q1, q2}
  Kinds <- PlainKinds
  NumReservations = 1
  Cap <- MCCap
  Estimates = {1}
  InputTokens = {0}
  OutputTokens = {0, 2}
  InputPrice = 1
  OutputPrice = 1
  UniqueRequests = TRUE
INVARIANT
  EndedCallsAreReconciled
