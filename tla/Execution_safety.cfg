SPECIFICATION ResumeSpec
CONSTANTS
  r1 = r1
  r2 = r2
  r3 = r3
  NTasks = 3
  Flow <- LoopFlow
  Faulty <- One
  Exports <- Both
  Guarded <- Zero
  NestedEnds <- One
  Timed <- All
  RunTimeout = TRUE
  PipesMayFail = TRUE
  Runner <- Three
  First = r1
  Registered <- Three
  Exclusive = TRUE
  MaxSteps = 2
  MaxFailures = 1
  MaxCrashes = 2
INVARIANTS
  BoundedRework
  EndHonoured
  TerminalEvents
  OkIsStored
PROPERTIES
  NoWorkBehindCheckpoint
  RefinesDurable
  WalksTheScope
  ReachesTerminal
