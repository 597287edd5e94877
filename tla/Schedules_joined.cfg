SPECIFICATION FairSpec
CONSTANTS
  every = every
  after = after
  cron = cron
  bad = bad
  on = on
  hit = hit
  miss = miss
  Loop <- EventLoops
  Every <- EverySet
  After <- None
  Cron <- None
  OnEvents <- OnSet
  Unstartable <- None
  Event <- Events
  Filter <- Matches
  Endless <- None
  MaxEvents = 2
  MaxLate = 2
PROPERTIES
  JoinReturns
CHECK_DEADLOCK FALSE
