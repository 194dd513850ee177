----------------------------- MODULE MCParameters -----------------------------
(* Parameters for TLC: every layer has a value of its own, so that it can  *)
(* be told which one a result comes from, and the step overrides two.      *)
EXTENDS Parameters

CONSTANTS k1, k2, b, g, o, p

MCObject(S1, S2) ==
  {x \in Object : x[k1] \in S1 \cup {Absent} /\ x[k2] \in S2 \cup {Absent}}

MCBases     == MCObject({b}, {b})
MCGroups    == MCObject({g, Blank}, {g})
MCOverrides == MCObject({o, p, Blank}, {o})
=============================================================================
