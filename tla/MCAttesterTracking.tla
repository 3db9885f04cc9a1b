-------------------------- MODULE MCAttesterTracking --------------------------
(* Instances of AttesterTracking for TLC.                                      *)
EXTENDS AttesterTracking

CONSTANT a1

WithAndWithout == {{}, {a1}}
==============================================================================
