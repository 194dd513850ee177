\* Two children, one round, and nothing that fails in the model of the run.
CONSTANTS
  c1 = c1  c2 = c2  c3 = c3
  Child = {c1, c2}
  NULL = NULL
  MaxRound = 1
  MaxFault = 1
SPECIFICATION Spec
INVARIANTS
  SoundServicePasses
CHECK_DEADLOCK FALSE
