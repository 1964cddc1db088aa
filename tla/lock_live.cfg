SPECIFICATION FairSpec
CONSTANTS
  Runs = {r1, r2}
  Resumed = {r2}
  Settlers = {}
  Sweepers = {w1}
  SelfHosted = TRUE
PROPERTY EveryWaitEnds DeadLockCleared
CHECK_DEADLOCK FALSE
