------------------------------ MODULE MCGitSync ------------------------------
(* Small instances of GitSync for TLC. *)
EXTENDS GitSync

CONSTANTS out, decision, archive, doctrine, skill

MCArchiveOf == [d \in Decisions |-> archive]
=============================================================================
