SPECIFICATION FairSpec

CONSTANTS
  a = a
  b = b
  c = c
  d = d
  net1 = net1
  net2 = net2
  CoHs <- Four
  Groups <- Nets
  GroupOf <- Net
  TargetOf <- Target
  Hours <- Timed
  Short <- Quick
  MaxSlots = 2
  MaxAttempts = 2
  MaxOps = 1

INVARIANTS
  Slots
  QueueServed
PROPERTIES
  NotAgain
  Starts

CHECK_DEADLOCK FALSE
