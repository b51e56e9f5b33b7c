SPECIFICATION Spec
CONSTANTS
  Messages <- MixedChannels
  Stream = {"a", "b", "c"}
  Mtu = 1
  Rwnd = 2
  TsnModulo = 16
  SsnModulo = 8
  InitialTsn = 3
INVARIANTS ForgottenOnlyIfReceived
PROPERTIES ImplementsService
CHECK_DEADLOCK FALSE
