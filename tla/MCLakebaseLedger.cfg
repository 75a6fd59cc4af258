\* Two proxies, one session, two reservation ids.
SPECIFICATION LakebaseSpec
CONSTANTS
  NoWorker = NoWorker
  Workers = {w1, w2}
  Sessions = {s1}
  RequestIds = {q1, q2}
  NumReservations = 2
  Cap <- MCCap
  Estimates <- MCEstimates
  InputTokens = {0, 2}
  OutputTokens = {0}
  InputPrice = 1
  OutputPrice = 2
  UniqueRequests = TRUE
INVARIANTS
  LakebaseTypeOK
PROPERTIES
  RefinesLedger
  EveryCallReturns
