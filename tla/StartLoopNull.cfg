CONSTANTS
  MaxThreads = 2
  ThreadNums = {0, 1, 2}
SPECIFICATION PoolSpec
CHECK_DEADLOCK FALSE
INVARIANT StartLoopUsesNoNull
