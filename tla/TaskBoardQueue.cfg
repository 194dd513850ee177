\* Two tasks of up to two steps compete for two claims of two workers.
CONSTANTS
  w1 = w1  w2 = w2  none = none  old = old  new = new
  Workers = {w1, w2}
  DemoWorker = w1
  Overrides = {none}
  EmptyOverride = none
  NULL = NULL
  Leases = {0}
  MaxGroup = 1
  MaxTask = 2
  MaxStep = 2
  MaxToken = 2
  MaxClock = 1
  MaxLockWait = 0
  MaxDuplicate = 0
SPECIFICATION Spec
INVARIANTS
  TokensUnique ClaimColumnsAgree ClaimedIsStartable
PROPERTIES
  HoldersKeepTheirTask CredentialsNeverReturn ImplementsLifecycle
