SPECIFICATION Spec
CONSTANTS
  Alice = "alice"
  Bob = "bob"
  Senior = "bob"
  Openings = {{"alice", "bob"}}
  LiteAgents = {"bob"}
  Paths <- BothPaths
  NoPath = "no path"
  Rank <- Ranks
  Foundation <- OneFoundation
  Reaches <- OneWay
  Hidden <- HiddenFromBob
  Skewed = {}
  Closers = {"bob"}
  MaxRequests = 2
  MaxMisses = 2
  MaxTroubles = 1
  TurnPeers = {"p", "q"}
  Calls <- TwoCalls
  MaxTries = 1
  MaxBusy = 2
  MaxNonces = 2
  Client = "client"
  Server = "server"
  MaxInitRetrans = 1
  MaxAssocRetrans = 1
  MaxShutdowns = 1
  Odd = "odd"
  Even = "even"
  Channels = {"a", "b"}
  Owner <- FirstIsOdd
  Negotiated = {}
  AgreedId <- NoAgreement
  MaxId = 2
  Hasty = {"a"}
  MaxKinds = 1
INVARIANTS NominatedByOne OneChannelPerPeer FailsOnlyIfNonceMoved DeletedForGood
           ClientIsNotAlone ClientNotRevived StoppedIsSilent
           TableIsTrue StreamMeansOneChannel AssertionsHold
PROPERTIES IceConnects IceNoticesLoss TurnOperationsEnd AssocWaitsEnd
           ClosedIsFinal ChannelClosesComplete
CHECK_DEADLOCK FALSE
