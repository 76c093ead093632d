SPECIFICATION Spec
CONSTANTS
  c1 = c1
  c2 = c2
  Circuits <- Objects
  Workflow <- Wake
  Nothing = {}
  NonFatal = {}
  HasHost = TRUE
  RowsInOrder = TRUE
  PoolKeepsUp = TRUE
  LateResults = FALSE
  LateAnswers = FALSE
  MaxAttempts = 2
  MaxOps = 1
  MaxFaults = 0
SYMMETRY Symmetry
INVARIANTS OneLeader Watched
PROPERTIES DoneKept NotRepeated
CHECK_DEADLOCK FALSE
