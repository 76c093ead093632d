SPECIFICATION FairSpec
CONSTANTS
  Commands <- OneCommand
  Length = 3
  NonFatal <- First
  Silent <- Second
  ResultWorkers <- OneWorker
  MaxAttempts = 2
  MaxOps = 2
  MaxFailures = 2
  MaxFaults = 1
INVARIANTS NotAgain Deserved
PROPERTIES InOrder Waits Ends
CHECK_DEADLOCK FALSE
