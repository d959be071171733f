SPECIFICATION Spec
CONSTANTS
  Addr = {a1, a2}
  NoAddr = NoAddr
  Callers = {c1}
  Limit = 2
  MaxTimers = 2
  MaxClockSteps = 1
INVARIANTS
  TimersConsistent
PROPERTIES
  CancelExact
