--------------------------- MODULE MCInteractiveRuns ---------------------------
(* Instances of InteractiveRuns for TLC. *)
EXTENDS InteractiveRuns

CONSTANTS k1, k2
MCKeys == {k1, k2}
=============================================================================
