------------------------------ MODULE MCTickLock ------------------------------
(* Small instances of TickLock for TLC. *)
EXTENDS TickLock

CONSTANTS p1, p2
==============================================================================
