CONSTANTS
  LoopOps = {"connect", "stop", "disconnect", "forceClose", "destroy"}
  CallerOps = {"connect", "disconnect", "forceClose"}
  retry_ = TRUE
  DestroyBusy = FALSE
  kInitRetryDelayMs = 1
  kMaxRetryDelayMs = 3
  MaxConnects = 1
  MaxCalls = 3
  MaxConns = 2
SPECIFICATION FairSpec
INVARIANTS
  NoAssertFails
  AttemptsConsistent
PROPERTIES
  StopHolds
  StopQuiesces
