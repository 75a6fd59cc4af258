\* Two calls of two sessions: the policy of one fails closed, of the other open.
SPECIFICATION ProxySpec
CONSTANTS
  closed = closed
  open = open
  q1 = q1
  q2 = q2
  k1 = k1
  NoKey = NoKey
  Keys = {k1}
  Sessions = {closed, open}
  FailOpen = {open}
  Reports <- MCReports
  RequestIds = {q1, q2}
  Kinds <- MCKinds
  NumReservations = 2
  Cap <- MCCap
  Estimates = {1}
  InputTokens = {1}
  OutputTokens = {1}
  InputPrice = 1
  OutputPrice = 1
  UniqueRequests = TRUE
INVARIANTS
  ProxyTypeOK
  ForwardedIsCovered
  ResentReachesUpstreamOnce
  AnsweredIsSettled
  ReplaysAreSettled
  AnsweredKeysReplay
  BlockIsHonoured
