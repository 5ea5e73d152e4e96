SPECIFICATION FairSpec

CONSTANTS
  Accounts = {alice, bob}
  Nonces = {8, 10}
  MaxRequests = 2

INVARIANTS
  OnceInOrder
  NoneSkipped

PROPERTIES
  EachDelivered

CHECK_DEADLOCK FALSE
