SPECIFICATION Spec

CONSTANTS
  Jobs = {j1, j2}
  Endpoints = {e1}
  Conns = {a1, a2}
  Handlers = {h1}
  NoJob = NoJob
  NoEndpoint = NoEndpoint
  NoConn = NoConn
  MaxStarts = 2
  MaxPending = 1

INVARIANTS
  TriggersReachTheirJob

CHECK_DEADLOCK FALSE
