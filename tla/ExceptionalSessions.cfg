CONSTANTS
  flat = flat
  modular = modular
  Boards = 2
  Policy = {flat, modular}
  Modular = {modular}
  Calm = Calm
  Held = Held
  Other = Other
  MaxAuthority = 2
  PolicyStops = 1
  PolicyActs = 1
  MaxBusy = 1
  t1 = t1
  t2 = t2
  Target = {t1, t2}
  Source = Source
  Third = Third
  Rejoins = 2
  MaxId = 3
  RejoinFaults = 1
  MaxWrites = 1
  None = None
  NoSession = NoSession
SPECIFICATION Behaviour
INVARIANTS ActiveIsComplete NotReissued
PROPERTIES ChainKept LetInWhole Resumed
CHECK_DEADLOCK FALSE
