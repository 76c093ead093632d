SPECIFICATION FairSpec
CONSTANTS
  r1 = r1
  r2 = r2
  r3 = r3
  Uids <- Requests
  MaxFaults = 1
INVARIANTS Kept Unstuck
PROPERTIES AnsweredOnce Served
