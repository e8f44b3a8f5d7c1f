--------------------------- MODULE MCGateDecision ---------------------------
(* Small instances of GateDecision for TLC. *)
EXTENDS GateDecision
=============================================================================
