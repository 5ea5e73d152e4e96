SPECIFICATION FairSpec

CONSTANTS
  MaxHeight = 3
  MaxLogs = 2

INVARIANTS
  OnceInOrder
  NoneSkipped

PROPERTIES
  EveryLogDelivered
  UnsubscribeEnds

CHECK_DEADLOCK FALSE
