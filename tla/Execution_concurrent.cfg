SPECIFICATION FairSpec
CONSTANTS
  r1 = r1
  r2 = r2
  r3 = r3
  NTasks = 3
  Flow <- LoopFlow
  Faulty <- One
  Exports <- Both
  Guarded <- Zero
  NestedEnds <- None
  Timed <- None
  RunTimeout = FALSE
  PipesMayFail = FALSE
  Runner <- Two
  First = r1
  Registered <- Two
  Exclusive = FALSE
  MaxSteps = 1
  MaxFailures = 1
  MaxCrashes = 1
INVARIANTS
  CheckpointOnPath
  CheckpointContext
PROPERTIES
  CancelReturns
