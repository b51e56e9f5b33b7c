SPECIFICATION Spec
CONSTANTS
  MaxWorker = 2
  MaxPost = 2
INVARIANTS NothingPlaysAfterLoss
PROPERTIES ImplementsWorker EndedWorkerExits
CHECK_DEADLOCK FALSE
