CONSTANTS
  Workers = {w1, w2}
  Producers = {p1, p2}
  Tasks = {f1, f2, f3}
  NoTask = NoTask
  MaxSizes = {0, 1, 2}
  NestedSizes = {0}
  Waiters = {q1, q2}
SPECIFICATION FairSpec
CHECK_DEADLOCK FALSE
INVARIANTS
  NotifiesSuffice
PROPERTIES
  ImplementsTaskQueue
  OnlyStopLeavesTasks
  StopReturns
  LatchOpens
