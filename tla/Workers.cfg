\* Two processes under one worker_id, one task of two steps, three claims.
CONSTANTS
  w1 = w1  p1 = p1  p2 = p2
  Workers = {w1}
  DemoWorker = w1
  Overrides = {none}
  EmptyOverride = none
  NULL = NULL
  Leases = {0, 1}
  MaxGroup = 0
  MaxTask = 1
  MaxStep = 2
  MaxToken = 3
  MaxClock = 2
  MaxLockWait = 0
  MaxDuplicate = 1
  Process = {p1, p2}
  WorkerIdOf <- MCWorkerIdOf
  Reliable = {}
  MaxKill = 1
SPECIFICATION WorkersSpec
SYMMETRY Symmetry
INVARIANTS
  EffectsAreCounted OneExecutor ReportsFollowEffects
  PunctualWorkersKeepTheirClaim OnlyResetAborts
