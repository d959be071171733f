CONSTANTS
  Channels = {c1, c2}
  Fds = {d1, d2}
  kInitEventListSize = 1
  Events = {"in", "out"}
SPECIFICATION FairSpec
CHECK_DEADLOCK FALSE
INVARIANTS
  NoDanglingChannel
  PollerConsistent
PROPERTIES
  ReadyChannelsHandled
