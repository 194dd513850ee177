--------------------------- MODULE MCProofHarness ---------------------------
(* ProofHarness for TLC.                                                   *)
EXTENDS ProofHarness

CONSTANTS c1, c2, c3
=============================================================================
