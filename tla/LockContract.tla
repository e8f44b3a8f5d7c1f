---------------------------- MODULE LockContract ----------------------------
(* What the tick lock promises to the ticks: it goes from one owner to another *)
(* only by way of nobody, and a live tick that relies on a holder is never     *)
(* left relying on one that has lost the lock.                                 *)
CONSTANTS Holders,     \* the owners that a live tick can rely on
          Units,       \* the owners that are headless ticks
          Nobody

VARIABLES owner,       \* who has the lock
          relied       \* the holder that the live tick relies on

vars == <<owner, relied>>

Init ==
    /\ owner = Nobody
    /\ relied = Nobody

\* A live tick may count on the lock from the moment its holder takes it.
Take(o) ==
    /\ owner = Nobody
    /\ owner' = o
    /\ relied' \in {Nobody} \cup ({o} \cap Holders)

Rely ==
    /\ owner \in Holders
    /\ relied' = owner
    /\ UNCHANGED owner

\* The tick is over, or older than any hold.
Leave ==
    /\ relied' = Nobody
    /\ UNCHANGED owner

Drop ==
    /\ owner' = Nobody
    /\ relied' = Nobody

Next ==
    \/ \E o \in Holders \cup Units : Take(o)
    \/ Rely
    \/ Leave
    \/ Drop

Spec == Init /\ [][Next]_vars

\* A tick that relies on a holder is alone.
Promise == relied # Nobody => owner = relied
=============================================================================
