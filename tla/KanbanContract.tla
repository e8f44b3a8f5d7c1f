--------------------------- MODULE KanbanContract ---------------------------
(* What the emitter and the drain promise together: a card is on the board    *)
(* only because somebody asked for it, and a finding that was queued stays    *)
(* owed to the board until there has been a card of it.                       *)
CONSTANTS Cards, Emits, CardOf

VARIABLES asked,     \* the calls of the emitter so far
          owed,      \* the calls whose finding waits in the queue
          carded     \* the findings that have had a card

vars == <<asked, owed, carded>>

Init ==
    /\ asked = {}
    /\ owed = {}
    /\ carded = {}

Ask(e) ==
    /\ asked' = asked \cup {e}
    /\ UNCHANGED <<owed, carded>>

Card(e) ==
    /\ e \in asked
    /\ carded' = carded \cup {CardOf[e]}
    /\ UNCHANGED <<asked, owed>>

Owe(e) ==
    /\ e \in asked
    /\ owed' = owed \cup {e}
    /\ UNCHANGED <<asked, carded>>

Settle(e) ==
    /\ CardOf[e] \in carded
    /\ owed' = owed \ {e}
    /\ UNCHANGED <<asked, carded>>

Next == \E e \in Emits : Ask(e) \/ Card(e) \/ Owe(e) \/ Settle(e)

Spec == Init /\ [][Next]_vars

(* No card and no queued line that nobody asked for. *)
Promise ==
    /\ carded \subseteq {CardOf[e] : e \in asked}
    /\ owed \subseteq asked
=============================================================================
