SPECIFICATION FairSpec
CONSTANTS
  Callers = {c1, c2}
  Functors = {f1, f2, f3}
INVARIANTS
  NoLostWakeup
  CallbackFunctorsRunBeforeNextPoll
PROPERTIES
  QuitEndsLoop
  QueuedFunctorsRun
  ImplementsFunctorQueue
