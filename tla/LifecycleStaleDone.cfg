CONSTANTS
  c1 = c1
  c2 = c2
  here = here
  there = there
  dev = dev
  review = review
  Free = Free
  NoRow = NoRow
  NoReceipt = NoReceipt
  NoView = NoView
  Process = {c1, c2}
  Host = {here, there}
  HostOf <- Hosts
  Branch = {dev}
  Delivery = {dev}
  SaveErrors = FALSE
  MaxGens = 2
  MaxClaims = 1
  MaxKills = 1
SPECIFICATION Spec
INVARIANT ClosedByItsOwn
CHECK_DEADLOCK FALSE
