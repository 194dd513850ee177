--------------------------- MODULE MCDashboardFeed ---------------------------
(* DashboardFeed for TLC: room for two or three loads at a time.           *)
EXTENDS DashboardFeed, TLC

CONSTANTS a, b, c

Symmetry == Permutations(Slot)
=============================================================================
