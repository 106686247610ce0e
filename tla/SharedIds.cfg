CONSTANTS
  p1 = p1
  p2 = p2
  main = main
  side = side
  Process = {p1, p2}
  Worktree = {main, side}
  Registered = {{main}, {main, side}}
  LastId = 2
  Unasked = Unasked
  Wanted = {Unasked, 2}
  Common = Common
  Free = Free
  Left = Left
  NoCommand = NoCommand
  NoPart = NoPart
  MaxFaults = 2
  MaxEdits = 1
SPECIFICATION FairSpec
INVARIANT IdsConsistent
PROPERTY IssuedOnce
PROPERTY ActivationEnds
CHECK_DEADLOCK FALSE
