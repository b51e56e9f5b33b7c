SPECIFICATION Spec
CONSTANTS
  Messages <- TwoChannels
  Stream = {"a", "b"}
  Mtu = 1
  Rwnd = 100
  TsnModulo = 16
  SsnModulo = 8
  InitialTsn = 3
INVARIANTS DeliveredInTurn
CHECK_DEADLOCK FALSE
