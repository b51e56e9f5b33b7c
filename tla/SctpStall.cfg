SPECIFICATION Spec
CONSTANTS
  Messages <- SmallChunks
  Stream = {"a"}
  Mtu = 3
  Rwnd = 100
  TsnModulo = 16
  SsnModulo = 8
  InitialTsn = 3
INVARIANTS NeverStalled
CHECK_DEADLOCK FALSE
