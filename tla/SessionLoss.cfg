SPECIFICATION Spec
CONSTANTS
  Publisher = {p1}
  Rtsp = {r1}
  QueueSize = 2
  MaxRequest = 1
  MaxWorker = 1
  MaxPost = 3
  Reports = {"webrtc up", "error 458"}
  p1 = p1
  r1 = r1
PROPERTIES SessionLossHandled
CHECK_DEADLOCK FALSE
