\* One action at a time, two equal reports, two tasks; an answer or a page lost, a reset, or a set-back of the clock.
CONSTANTS
  me = me  demo = demo  r1 = r1  r2 = r2  r3 = r3
  Workers = {me, demo}
  DemoWorker = demo
  Overrides = {none}
  EmptyOverride = none
  NULL = NULL
  Leases = {0}
  MaxGroup = 1
  MaxTask = 2
  MaxStep = 1
  MaxToken = 2
  MaxClock = 1
  MaxLockWait = 0
  MaxDuplicate = 1
  Request = {r1, r2}
  Me = me
  Others = {me}
  Reports = 2
  MaxTrouble = 1
SPECIFICATION SessionSpec
SYMMETRY Symmetry
INVARIANTS
  PassCertifies AlarmsHaveACause DemoTaskIsNotSnatched StartedTasksAreReachable
