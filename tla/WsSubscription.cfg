SPECIFICATION FairSpec

CONSTANTS
  Gos = {main, g1, g2, g3}
  Main = main
  MaxEvents = 4

INVARIANTS
  SingleReader
  OnlyConfirmationsIgnored

PROPERTIES
  DeliveredInOrder
  ReadsAgain
  CalmUnsubscribeStops

CHECK_DEADLOCK FALSE
