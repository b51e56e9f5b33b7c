SPECIFICATION Spec
CONSTANTS
  Publisher = {p1, p2}
  Rtsp = {p1, p2, r1}
  QueueSize = 1
  MaxRequest = 2
  MaxWorker = 3
  MaxPost = 2
  Reports = {"error 458"}
  p1 = p1
  r1 = r1
  p2 = p2
INVARIANTS TypeOK NoStrayWorker
PROPERTIES PublisherIsolation
SYMMETRY Symmetry
CHECK_DEADLOCK FALSE
