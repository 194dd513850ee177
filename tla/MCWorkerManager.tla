--------------------------- MODULE MCWorkerManager ---------------------------
(* WorkerManager for TLC: two threads serve the requests.                  *)
EXTENDS WorkerManager, TLC

CONSTANTS r1, r2

Symmetry == Permutations({r1, r2})
=============================================================================
