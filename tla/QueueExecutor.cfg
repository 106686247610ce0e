CONSTANTS
  a = a
  b = b
  c = c
  k1 = k1
  k2 = k2
  res = res
  alice = alice
  bob = bob
  w1 = w1
  w2 = w2
  w3 = w3
  NoWorker = NoWorker
  NoOutcome = NoOutcome
  Id = {a, b, c}
  Key = {k1, k2}
  Resource = {res}
  OwnerId = {alice, bob}
  Worker = {w1, w2, w3}
  Submission <- Submissions
  WorkerOwner <- Owners
  UnknownExit <- AnyExits
SPECIFICATION Spec
INVARIANT QueueConsistent
INVARIANT OneIntegrationPerResource
INVARIANT OutcomeTruthful
PROPERTY NeverRerun
CHECK_DEADLOCK FALSE
