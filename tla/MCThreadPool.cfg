CONSTANTS
  Workers = {w1, w2}
  Callers = {c1, c2}
  Loopers = {c1}
  Sizes <- Loops
  NoTask = NoTask
  MaxCalls = 1
SPECIFICATION FairSpec
CHECK_DEADLOCK FALSE
INVARIANTS
  LoopCovers
  NoSleepOverWork
PROPERTIES
  ImplementsContract
  LoopReturns
  WaitReturns
  WaitIdleMeansDone
