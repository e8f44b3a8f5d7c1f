---------------------------- MODULE MCDirectives ----------------------------
(* Instances of Directives: two directives of one manager to one repository. *)
EXTENDS Directives

CONSTANTS order, memo, rnd, tonio, floor1, floor2

MCAudience == [d \in Directives |-> IF d = memo /\ tonio \in Readers THEN tonio ELSE rnd]
MCRank == [d \in Directives |-> IF d = order THEN 1 ELSE 2]
=============================================================================
