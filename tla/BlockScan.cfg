SPECIFICATION FairSpec

CONSTANTS
  Range = 3
  Modulus = 8
  MaxHeight = 4
  MaxLogs = 2
  MaxSenders = 2

INVARIANTS
  OnceEach
  NoneLeftOut

PROPERTIES
  EachDelivered
  UnsubscribeStops

CHECK_DEADLOCK FALSE
