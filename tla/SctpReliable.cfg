SPECIFICATION Spec
CONSTANTS
  Messages <- OneChannel
  Stream = {"a"}
  Mtu = 1
  Rwnd = 100
  TsnModulo = 16
  SsnModulo = 8
  InitialTsn = 3
INVARIANTS NeverStalled DeliveredInTurn
PROPERTIES ImplementsService EverythingDelivered
CHECK_DEADLOCK FALSE
