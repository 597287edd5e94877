SPECIFICATION FairSpec
CONSTANTS
  every = every
  after = after
  cron = cron
  bad = bad
  on = on
  hit = hit
  miss = miss
  Loop <- AllLoops
  Every <- EverySet
  After <- AfterSet
  Cron <- BadCron
  OnEvents <- OnSet
  Unstartable <- Bad
  Event <- Events
  Filter <- Matches
  Endless <- AfterSet
  MaxEvents = 2
  MaxLate = 2
INVARIANTS
  AtMostOneLate
PROPERTIES
  TimersStop
CHECK_DEADLOCK FALSE
