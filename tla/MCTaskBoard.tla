----------------------------- MODULE MCTaskBoard -----------------------------
(* TaskBoard for TLC: worker names and override dictionaries are model     *)
(* values; nothing in the specification tells two dictionaries other than  *)
(* {} apart.  w1 is the worker id that seed_demo uses.                     *)
EXTENDS TaskBoard

CONSTANTS w1, w2, none, old, new
=============================================================================
