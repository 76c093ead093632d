SPECIFICATION Spec
CONSTANTS
  Batch = 2
  MaxCalls = 3
  MaxRefreshes = 1
  MaxFailures = 1
  MaxCrashes = 1
  MaxOld = 1
INVARIANTS OneRun
