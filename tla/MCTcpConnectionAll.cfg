CONSTANTS
  Callers = {c1}
  LoopOps = {"send", "shutdown", "forceClose", "startRead", "stopRead"}
  CallerOps = {"send", "shutdown", "forceClose", "startRead", "stopRead"}
  OwnerDestroys = TRUE
  MaxMsgs = 2
  MaxPending = 1
  MaxCloses = 2
  MaxDelayed = 0
  HighWaterMark = 3
SPECIFICATION Spec
CHECK_DEADLOCK FALSE
INVARIANTS
  TypeOK
  BytesInOrder
