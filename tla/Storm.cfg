SPECIFICATION StopSpec
CONSTANTS
  c1 = c1
  c2 = c2
  Circuits <- Objects
  Workflow <- Exec
  Nothing = {}
  NonFatal = {"execute"}
  HasHost = TRUE
  RowsInOrder = TRUE
  PoolKeepsUp = TRUE
  LateResults = TRUE
  LateAnswers = TRUE
  MaxAttempts = 2
  MaxOps = 2
  MaxFaults = 1
SYMMETRY Symmetry
INVARIANTS StopBound OnceInContainer Charges
CHECK_DEADLOCK FALSE
