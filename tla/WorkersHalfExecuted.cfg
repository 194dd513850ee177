\* One process that is never killed and one that may be, one task.
CONSTANTS
  w1 = w1  p1 = p1  p2 = p2
  Workers = {w1}
  DemoWorker = w1
  Overrides = {none}
  EmptyOverride = none
  NULL = NULL
  Leases = {0}
  MaxGroup = 0
  MaxTask = 1
  MaxStep = 1
  MaxToken = 3
  MaxClock = 3
  MaxLockWait = 0
  MaxDuplicate = 1
  Process = {p1, p2}
  WorkerIdOf <- MCWorkerIdOf
  Reliable = {p1}
  MaxKill = 1
SPECIFICATION FairSpec
PROPERTIES
  HalfExecutedTasksAreReclaimed
