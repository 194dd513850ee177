\* Rows overrun an answer and the panel; a failure, resets and a click on retry.
CONSTANTS
  a = a  b = b  c = c
  Slot = {a, b}
  NULL = NULL
  FirstLimit = 1
  Limit = 1
  MaxRows = 2
  MaxId = 3
  MaxFail = 1
  MaxRetry = 1
SPECIFICATION FairSpec
INVARIANTS
  LogbookInOrder NoSilentGap
PROPERTIES
  ActionsShowTheirEffect BoardNeverGoesBack RowsReachTheTab
