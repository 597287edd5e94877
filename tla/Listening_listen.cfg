SPECIFICATION FairSpec
CONSTANTS
  order = order
  payment = payment
  id = id
  x = x
  y = y
  Unset = Unset
  Definition <- Tasks
  Event <- Events
  Key <- Keys
  Value <- Values
  MaxPublished = 4
  MayClose = TRUE
INVARIANTS
  OneGroup
  NothingInVain
  FirstMatch
PROPERTIES
  AgreementKept
  FinishesWhenFulfilled
CHECK_DEADLOCK FALSE
