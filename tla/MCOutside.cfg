SPECIFICATION Spec
CHECK_DEADLOCK FALSE
CONSTANTS
  Endpoints = {e1, e2}
  Components = {c1}
  Own = own
  Calls <- SomeCalls
  Answers <- SomeAnswers
  Attempts = 2
  MaxEvents = 3
  Pipe = 2
  Amounts = {0, 1, 3, 5}
  Allowed = {"script"}
  Known = {"sh"}
  Backends = {"sqlite", "postgres", "redis"}
  Writers = {w1, w2}
  None = nobody
  MaxWrites = 3
INVARIANTS
  EverythingImported
  AnswerBehindResult
  OutputWhole
  WritesKept
PROPERTIES
  OutsideEnds
