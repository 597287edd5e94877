SPECIFICATION Spec
CONSTANTS
  a = a
  b = b
  c = c
  Null = Null
  Branch <- ABC
  Exporting <- AB
  Guarded <- C
  Fallible <- AB
  Finite <- Ending
PROPERTIES
  OnlyExportsChange
CHECK_DEADLOCK FALSE
