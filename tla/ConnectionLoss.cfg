SPECIFICATION Spec
CONSTANTS
  MaxWorker = 1
  MaxPost = 1
INVARIANTS LossReportedAsFailed
CHECK_DEADLOCK FALSE
