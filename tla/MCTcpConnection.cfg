CONSTANTS
  Callers = {c1}
  LoopOps = {"send", "shutdown", "forceClose", "forceCloseWithDelay"}
  CallerOps = {"send"}
  OwnerDestroys = FALSE
  MaxMsgs = 2
  MaxPending = 3
  MaxCloses = 2
  MaxDelayed = 2
  HighWaterMark = 3
SPECIFICATION FairSpec
INVARIANTS
  BytesInOrder
  WriteInterest
  NoAssertFails
PROPERTIES
  ImplementsLifecycle
  ShutdownSendsFin
  ClosedIsDestroyed
