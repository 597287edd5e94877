SPECIFICATION FairSpec
CONSTANTS
  a = a
  b = b
  c = c
  Null = Null
  Branch <- ABC
  Exporting <- AB
  Guarded <- C
  Fallible <- AB
  Finite <- Ending
INVARIANTS
  ExportsOfDone
  FirstErrorWins
PROPERTIES
  ForkEnds
  QuietAfterReturn
CHECK_DEADLOCK FALSE
