SPECIFICATION FairSpec
CONSTANTS
  m = m
  n = n
  NoCommand = NoCommand
  Commands <- TwoCommands
  Threads = TRUE
  MaxOps = 2
  MaxFaults = 1
INVARIANTS NeverRaises OneTimer
PROPERTIES Settles
CHECK_DEADLOCK FALSE
