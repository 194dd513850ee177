-------------------------- MODULE MCDashboardSession --------------------------
(* DashboardSession for TLC: a tab that other workers share an id with.    *)
EXTENDS DashboardSession, TLC

CONSTANTS me, demo, r1, r2, r3

Symmetry == Permutations(Request)
=============================================================================
