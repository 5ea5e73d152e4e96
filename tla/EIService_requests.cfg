SPECIFICATION Spec

CONSTANTS
  Jobs = {j1}
  Endpoints = {e1, e2}
  Conns = {a1, a2}
  Handlers = {h1, h2, h3}
  NoJob = NoJob
  NoEndpoint = NoEndpoint
  NoConn = NoConn
  MaxStarts = 2
  MaxPending = 1

SYMMETRY Symmetry

INVARIANTS
  ActiveEndpointIsLive
  RowBehindEverySubscription
  OneSubscriptionPerSource
  NoDeadEntries

CHECK_DEADLOCK FALSE
