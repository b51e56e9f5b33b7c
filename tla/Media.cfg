SPECIFICATION Spec
CONSTANTS
  Media <- VideoAndData
  Data = "data"
  Directions <- BothWays
  Bundles = {TRUE}
  MaxDescriptions = 3
  Receivers = {"screen", "camera", "microphone"}
  Senders = {"sender"}
  Nobody = "nobody"
  Ssrcs = {1, 2, 3}
  PayloadTypes = {"h264", "opus"}
  Declared <- SsrcsOf
  Accepted <- TypesOf
  OwnSsrc <- SenderSsrc
  Wrap = 16
  FrameOf <- UnevenFrames
  Capacity = 4
  Prefetch = 0
  MaxMisorder = 3
  HistorySize = 4
  MaxFlight = 2
  MaxDelay = 3
  MaxLosses = 1
  PacketMax = 10
  MaxAggregated = 2
  Sources <- PlayedPackets
INVARIANTS StatesAreTrue  RoutesAreTrue FramesHaveNoHole FindsEveryUnit PayloadsRestoreUnits
PROPERTIES NoSilentGap PeerCloseReturns PeerLossIsTold PictureNeverFreezes
CHECK_DEADLOCK FALSE
