SPECIFICATION Spec
CONSTANTS
  Publisher = {p1}
  Rtsp = {p1, r1}
  QueueSize = 1
  MaxRequest = 2
  MaxWorker = 1
  MaxPost = 2
  Reports = {"webrtc up", "error 458"}
  p1 = p1
  r1 = r1
PROPERTIES WorkerResumes 
CHECK_DEADLOCK FALSE
