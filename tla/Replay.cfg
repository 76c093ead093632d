SPECIFICATION FairSpec
CONSTANTS
  Batch = 2
  MaxCalls = 3
  MaxRefreshes = 1
  MaxFailures = 1
  MaxCrashes = 1
  MaxOld = 1
INVARIANTS Kept Overlap
PROPERTIES InTurn AnsweredOnce Replayed
