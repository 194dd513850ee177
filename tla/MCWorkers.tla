------------------------------ MODULE MCWorkers ------------------------------
(* Workers for TLC: two processes that run under the same worker_id, as    *)
(* after a restart of the script or in two terminals, so that nothing but  *)
(* the token tells them apart.                                             *)
EXTENDS Workers, TLC

CONSTANTS w1, p1, p2

MCWorkerIdOf == [p \in {p1, p2} |-> w1]

Symmetry == Permutations({p1, p2})
=============================================================================
