CONSTANTS
  repair = repair
  relocate = relocate
  archive = archive
  drifted = drifted
  plain = plain
  filed = filed
  todo = todo
  plan = plan
  old = old
  worker = worker
  Board = {b1, b2}
  r1 = r1
  r2 = r2
  BundleRequest = {r1, r2}
  Explicit <- Named
  Automatic <- Counted
  MaxId = 3
  MaxCreated = 1
  Plain = Plain
  Foreign = Foreign
  NoMarker = NoMarker
  Request = {repair, relocate, archive}
  Operation <- Operations
  Place = {todo, plan, old}
  Gone = Gone
  Content = {drifted, plain, filed}
  Edited = Edited
  Draft = drifted
  First = todo
  Owner = {worker}
  NoClaim = NoClaim
  NoRequest = NoRequest
  NoSession = NoSession
  Missing = Missing
  MaxStops = 1
  MaxEdits = 1
SPECIFICATION Behaviour
INVARIANTS OthersSeeWhole
PROPERTIES EditsKept ImplementsIssue Finished
CHECK_DEADLOCK FALSE
