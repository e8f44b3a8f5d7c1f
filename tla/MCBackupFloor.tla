---------------------------- MODULE MCBackupFloor ----------------------------
(* Instances of BackupFloor: layer 1 has two missions, layer 4 has one. *)
EXTENDS BackupFloor

CONSTANTS brief, risk, debrief, floor1, floor4

MCLayerOf == [m \in Missions |-> IF m = debrief THEN 4 ELSE 1]
MCLayerFloor == [f \in Floors |-> IF f = floor4 THEN 4 ELSE 1]
=============================================================================
