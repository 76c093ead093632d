SPECIFICATION FairSpec
CONSTANTS
  c1 = c1
  c2 = c2
  Circuits <- Objects
  Workflow <- Push
  Nothing = {}
  NonFatal = {}
  HasHost = TRUE
  RowsInOrder = TRUE
  PoolKeepsUp = TRUE
  LateResults = TRUE
  LateAnswers = FALSE
  MaxAttempts = 2
  MaxOps = 0
  MaxFaults = 1
INVARIANTS DoneComplete FailedDeserved
PROPERTIES InOrder Progress
CHECK_DEADLOCK FALSE
