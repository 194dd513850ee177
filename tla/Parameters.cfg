\* One to three steps, two keys, two starts with edits of the group between.
CONSTANTS
  k1 = k1  k2 = k2
  b = b  g = g  o = o  p = p  Blank = Blank
  Keys = {k1, k2}
  Values = {b, g, o, p, Blank}
  Absent = Absent
  NULL = NULL
  Bases <- MCBases
  Groups <- MCGroups
  Overrides <- MCOverrides
  MaxSteps = 3
  MaxStart = 2
SPECIFICATION Spec
INVARIANTS
  ResolvedAsDocumented
PROPERTIES
  ResolvingIsIdempotent
