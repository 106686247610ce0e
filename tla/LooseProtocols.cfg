CONSTANTS
  ce = ce
  manager = manager
  Process = {y1, y2}
  Engine = {ce, manager}
  Request <- Requests
  None = None
  First <- Legacy
  MaxActs = 1
  MaxStops = 1
  MaxRuns = 2
  CaptureData = {"x", "y"}
  CaptureActs = 2
  Torn = Torn
  q1 = q1
  q2 = q2
  ManualRequest = {q1, q2}
  ManualCalls = 2
  ManualStops = 2
  MaxEdits = 1
  GateFile = {1, 2}
  Text <- Texts
  Binding = {"test", "curl"}
  Refused = {"curl"}
  CommitTree = {1}
  Change = {"x"}
  Log = {1}
  MaxCommits = 3
  MaxTime = 1
  MaxMoves = 2
  MaxCalls = 1
SPECIFICATION SmallBehaviour
INVARIANTS CaptureIsOneMoment ManualKept AuthorityHolds GateHolds EvidenceHolds
PROPERTIES SwitchesQuietly
SYMMETRY Symmetric
CHECK_DEADLOCK FALSE
