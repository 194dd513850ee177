\* Two children, two rounds, a sound or an unsound service, two faults.
CONSTANTS
  c1 = c1  c2 = c2  c3 = c3
  Child = {c1, c2}
  NULL = NULL
  MaxRound = 2
  MaxFault = 2
SPECIFICATION FairSpec
INVARIANTS
  PassMeansOneWinner FailuresHaveACause
PROPERTIES
  ProofEnds
CHECK_DEADLOCK FALSE
