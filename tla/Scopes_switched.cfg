SPECIFICATION FairSpec
CONSTANTS
  Scope <- Scopes
  Task <- Tasks
  Extension <- Extensions
  Name = {"item", "index", "n", "i", "error"}
  Main = "main"
  In <- Programs
  Then <- Flows
  Do <- Dos
  For <- Fors
  Try <- Tries
  Body <- Bodies
  Handler <- Handlers
  NoHandler = "none"
  Caught <- Catchers
  Limit <- Limits
  Items <- Lengths
  Sets <- Setters
  Extends <- Targets
  Before <- Pres
  After <- Posts
  Conditional = {"check"}
  Guarded <- Tasks
  Fallible <- Tasks
  Finite = {"step", "turn", "fix", "tick", "audit", "last"}
  Interruptible <- Tasks
  Timed = {"call", "loop"}
INVARIANTS
  ExtensionsApply
CHECK_DEADLOCK FALSE
