---------------------------- MODULE DayContract ----------------------------
(* What the books of a dispatch day promise, whoever keeps them: which      *)
(* missions of a day are closed, how many rounds each layer has to its      *)
(* credit, and against which rounds layer 1 measures the next cycle.        *)
EXTENDS Naturals

CONSTANTS Days, Items,          \* the missions, and whatever else is closed
          LayerFor,             \* the layer an item counts for
          Reopens,              \* items that may be closed again later in a day
          Replays               \* items whose replay is not recognised

Layers == 1..4
Nobody == 0                     \* no round is owed

VARIABLES closed,               \* [Days -> [Items -> Nat]], 0 while open
          owed,                 \* the item whose round is not counted yet
          rounds, base          \* [Days -> [Layers -> Nat]]

vars == <<closed, owed, rounds, base>>

NoOne == [day |-> Nobody, layer |-> Nobody, snap |-> FALSE]

Init == /\ closed = [d \in Days |-> [i \in Items |-> 0]]
        /\ owed = NoOne
        /\ rounds = [d \in Days |-> [l \in Layers |-> 0]]
        /\ base = [d \in Days |-> [l \in Layers |-> 0]]

(* An item is closed once; only an item that reopens is closed again, and
   never by a dispatch that is older than the one on record. *)
Close(d, i, h) ==
    /\ owed = NoOne
    /\ h > 0
    /\ \/ closed[d][i] = 0
       \/ i \in Reopens /\ h >= closed[d][i]
       \/ i \in Replays
    /\ closed' = [closed EXCEPT ![d][i] = h]
    /\ owed' \in {NoOne, [day |-> d, layer |-> LayerFor[i], snap |-> FALSE]}
    /\ UNCHANGED <<rounds, base>>

(* What is owed is counted once, for the day and layer of what was closed. *)
Pay ==
    /\ owed # NoOne
    /\ ~owed.snap
    /\ rounds' = [rounds EXCEPT ![owed.day][owed.layer] = @ + 1]
    /\ owed' = IF owed.layer # 1 THEN NoOne
               ELSE [day |-> owed.day, layer |-> 1, snap |-> TRUE]
    /\ UNCHANGED <<closed, base>>

(* Layer 1 starts its next cycle from the rounds as they are. *)
Snapshot ==
    /\ owed # NoOne
    /\ owed.snap
    /\ base' = [base EXCEPT ![owed.day] = rounds[owed.day]]
    /\ owed' = NoOne
    /\ UNCHANGED <<closed, rounds>>

(* A death between the two writes: the round is never counted. *)
Forget ==
    /\ owed # NoOne
    /\ owed' = NoOne
    /\ UNCHANGED <<closed, rounds, base>>

Next == \/ \E d \in Days, i \in Items, h \in 1..4 : Close(d, i, h)
        \/ Pay
        \/ Snapshot
        \/ Forget

Spec == Init /\ [][Next]_vars

(* No layer starts a cycle with rounds it has not had, and nothing that was closed
   or counted is open or uncounted again. *)
Promise == \A d \in Days, l \in Layers : base[d][l] <= rounds[d][l]
OnlyForward ==
    [][\A d \in Days :
         /\ \A i \in Items : closed[d][i] # 0 => closed'[d][i] # 0
         /\ \A l \in Layers : rounds[d][l] <= rounds'[d][l]]_vars
=============================================================================
