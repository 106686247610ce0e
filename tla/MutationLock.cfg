CONSTANTS
  p1 = p1
  p2 = p2
  p3 = p3
  hostA = hostA
  hostB = hostB
  NoInvocation = NoInvocation
  UnknownHost = UnknownHost
  Invocation = {p1, p2, p3}
  HostName = {hostA, hostB}
  HostChoices <- Placements
SPECIFICATION FairLockSpec
INVARIANT MutualExclusion
INVARIANT MutationBlocksReaders
PROPERTY LiveLockKept
PROPERTY DeadLockReclaimed
CHECK_DEADLOCK FALSE
