------------------------------ MODULE MCDayCycle ------------------------------
(* Instances of DayCycle. *)
EXTENDS DayCycle

CONSTANTS brief, watch, study, trade, debrief, review

MCLayerOf == [m \in Missions |->
    CASE m \in {brief, watch} -> 1 [] m = study -> 2 [] m = trade -> 3
      [] OTHER -> 4]
MCCadence == [m \in Missions |->
    CASE m = watch -> "hourly" [] m = review -> "weekly" [] OTHER -> "daily"]
MCSlotOf == [m \in Missions |->
    CASE m = study -> 2 [] m \in {debrief, review} -> 3 [] OTHER -> 1]
MCOpenOn == [m \in Missions |-> IF m = review THEN {MaxDay} ELSE Days]
MCReads == [m \in Missions |->
    CASE m = study -> "research" [] m = trade -> "decisions" [] OTHER -> "none"]
=============================================================================
