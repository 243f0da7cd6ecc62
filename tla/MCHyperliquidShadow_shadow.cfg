SPECIFICATION FairSpec
CONSTANTS
  c1 = c1
  Clients = {c1}
  MaxReconnects = 2
  TransportCapacity = 2
  GatewayCapacity = 2
  PublicCapacity = 1
  ReplayCapacity = 1
  MaxSequence = 3
CHECK_DEADLOCK FALSE
INVARIANTS
  DeliveredInOrder
  GapOnlyFromLag
  StreamIsTheLog
PROPERTIES
  ClientsLearnOfFailure
