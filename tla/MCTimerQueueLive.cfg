SPECIFICATION FairSpec
CONSTANTS
  Addr = {a1, a2}
  NoAddr = NoAddr
  Callers = {}
  Limit = 3
  MaxTimers = 2
  MaxClockSteps = 1
INVARIANTS
  TimerfdArmed
PROPERTIES
  TimersExpire
