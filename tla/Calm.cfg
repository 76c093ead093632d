SPECIFICATION FairSpec
CONSTANTS
  c1 = c1
  c2 = c2
  Circuits <- Objects
  Workflow <- Full
  Nothing = {"delete"}
  NonFatal = {}
  HasHost = TRUE
  RowsInOrder = TRUE
  PoolKeepsUp = TRUE
  LateResults = FALSE
  LateAnswers = FALSE
  MaxAttempts = 2
  MaxOps = 0
  MaxFaults = 0
PROPERTIES Implements
CHECK_DEADLOCK FALSE
