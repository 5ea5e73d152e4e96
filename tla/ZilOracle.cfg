SPECIFICATION FairSpec

CONSTANTS
  Clients = {c1}
  Dates = {d1, d2}
  MaxUint32 = 2
  MaxLogs = 2
  Attempts = 2
  NoDate = NoDate
  NoRequest = NoRequest
  NoId = NoId
  Elsewhere = Elsewhere
  OtherIds = {0}
  MaxOthers = 1
  MaxRuns = 2

INVARIANTS
  FailedRunsWriteNothing

PROPERTIES
  ImplementsLedger
  RequestsEnd

CHECK_DEADLOCK FALSE
