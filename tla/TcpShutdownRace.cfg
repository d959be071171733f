CONSTANTS
  Callers = {c1}
  LoopOps = {}
  CallerOps = {"shutdown"}
  OwnerDestroys = FALSE
  MaxMsgs = 1
  MaxPending = 2
  MaxCloses = 2
  MaxDelayed = 0
  HighWaterMark = 3
SPECIFICATION Spec
CHECK_DEADLOCK FALSE
INVARIANT DestroyedDisconnected
