\* The ledger the SQLite store keeps: request ids are not unique.
SPECIFICATION LedgerSpec
CONSTANTS
  s1 = s1
  Sessions = {s1, s2}
  RequestIds = {q1}
  NumReservations = 3
  Cap <- MCCap
  Estimates <- MCEstimates
  InputTokens = {0, 1}
  OutputTokens = {0, 2}
  InputPrice = 1
  OutputPrice = 2
  UniqueRequests = FALSE
INVARIANTS
  TypeOK
  ReservedMatchesOpenRows
  SpentMatchesFinalRows
  CapRespected
PROPERTIES
  ClosedSessionsAdmitNothing
