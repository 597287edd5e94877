SPECIFICATION Spec
CONSTANTS
  r1 = r1
  r2 = r2
  r3 = r3
  NTasks = 2
  Flow <- LineFlow
  Faulty <- None
  Exports <- None
  Guarded <- None
  NestedEnds <- Zero
  Timed <- None
  RunTimeout = FALSE
  PipesMayFail = FALSE
  Runner <- Two
  First = r1
  Registered <- Two
  Exclusive = TRUE
  MaxSteps = 2
  MaxFailures = 0
  MaxCrashes = 1
INVARIANTS
  EndCompletes
