\* One worker, one task of up to three steps goes through three claims while its group
\* is edited, leases of two lengths run out and reports are repeated.
CONSTANTS
  w1 = w1  w2 = w2  none = none  old = old  new = new
  Workers = {w1}
  DemoWorker = w1
  Overrides = {none, old, new}
  EmptyOverride = none
  NULL = NULL
  Leases = {0, 1}
  MaxGroup = 1
  MaxTask = 1
  MaxStep = 3
  MaxToken = 3
  MaxClock = 2
  MaxLockWait = 1
  MaxDuplicate = 2
SPECIFICATION Spec
INVARIANTS
  TypeOK StepsFollowTask LedgerAgrees FrozenFromFirstStart AuditBalances
PROPERTIES
  SnapshotFrozen FirstWriteWins TerminalIsFinal
