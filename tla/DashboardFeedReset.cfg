\* An answer that was under way during the tab's reset.
CONSTANTS
  a = a  b = b  c = c
  Slot = {a, b}
  NULL = NULL
  FirstLimit = 2
  Limit = 2
  MaxRows = 3
  MaxId = 5
  MaxFail = 1
  MaxRetry = 0
SPECIFICATION Spec
SYMMETRY Symmetry
INVARIANTS
  ClearedMeansCleared
