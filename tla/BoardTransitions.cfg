CONSTANTS
  a = a
  b = b
  alice = alice
  bob = bob
  ta = ta
  tb = tb
  ta2 = ta2
  r1 = r1
  r2 = r2
  r3 = r3
  p1 = p1
  p2 = p2
  Process = {p1, p2}
  Task = {a, b}
  Deps <- Depends
  Owner = {alice, bob}
  Token = {ta, tb, ta2}
  RequestId = {r1, r2}
  ClaimRequest <- Claims
  TransitionRequest <- Moves
  NoFile = NoFile
  NoRecord = NoRecord
  NoCommand = NoCommand
  MaxFaults = 2
  MaxEdits = 1
  Placement <- Placements
SYMMETRY Symmetry
SPECIFICATION Spec
INVARIANT BoardConsistent
PROPERTY NoBytesDiscarded
PROPERTY ImplementsBoard
CHECK_DEADLOCK FALSE
