CONSTANTS
  repair = repair
  relocate = relocate
  archive = archive
  drifted = drifted
  plain = plain
  filed = filed
  todo = todo
  plan = plan
  old = old
  worker = worker
  Board = {b1, b2}
  Request = {archive}
  Operation <- Archives
  Place = {todo, plan, old}
  Gone = Gone
  Content = {drifted, plain, filed}
  Edited = Edited
  Draft = drifted
  First = todo
  Owner = {worker}
  NoClaim = NoClaim
  NoRequest = NoRequest
  NoSession = NoSession
  Missing = Missing
  MaxStops = 0
  MaxEdits = 0
SPECIFICATION Spec
PROPERTIES ProtocolPermanent
CHECK_DEADLOCK FALSE
