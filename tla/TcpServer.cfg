SPECIFICATION FairSpec
CONSTANTS
  MaxThreads = 2
  ThreadNums = {0, 1, 2}
  MaxClients = 3
  FreeFds = 2
  MaxTaken = 1
  DestroyBusy = FALSE
CHECK_DEADLOCK FALSE
INVARIANTS
  ServerConsistent
  RoundRobin
  DescriptorsKept
PROPERTIES
  ConnectionsImplementLifecycle
  BacklogServed
  ClosedConnectionsFreed
  StartAndDestructorReturn
