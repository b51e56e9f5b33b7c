SPECIFICATION Spec
CONSTANTS
  Publisher = {p1}
  Rtsp = {r1}
  QueueSize = 3
  MaxRequest = 2
  MaxWorker = 2
  MaxPost = 1
  Reports = {"webrtc up", "error 458"}
  p1 = p1
  r1 = r1
PROPERTIES NeverOverwritten
CHECK_DEADLOCK FALSE
