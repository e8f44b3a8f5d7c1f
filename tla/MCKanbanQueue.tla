---------------------------- MODULE MCKanbanQueue ----------------------------
EXTENDS KanbanQueue

CONSTANTS leak, stale, e1, e2, e3, timer, hand

(* Two calls report the same finding. *)
MCCardOf == [e \in Emits |-> IF e = e3 THEN stale ELSE leak]
=============================================================================
