-------------------------- MODULE DirectiveContract --------------------------
(* What the relay of directives promises to the operator and to a target: only *)
(* approved text is delivered, what is delivered does not change, a directive *)
(* is marked as dispatched only for the text that is in the target's inbox,   *)
(* and what the target has consumed stays consumed.                           *)
EXTENDS Naturals

CONSTANTS Directives, MaxV

VARIABLES approved,     \* the pairs <<directive, version>> the operator approved
          inbox,        \* [Directives -> version delivered, or 0]
          dispatched,   \* the pairs marked as dispatched at the manager
          ledger        \* the directives the target has consumed

vars == <<approved, inbox, dispatched, ledger>>

Init ==
    /\ approved = {}
    /\ inbox = [d \in Directives |-> 0]
    /\ dispatched = {}
    /\ ledger = {}

Approve(d, v) ==
    /\ approved' = approved \cup {<<d, v>>}
    /\ UNCHANGED <<inbox, dispatched, ledger>>

(* One push can carry several directives. *)
Deliver ==
    /\ inbox' \in [Directives -> 0..MaxV]
    /\ \A d \in Directives :
         \/ inbox'[d] = inbox[d]
         \/ inbox[d] = 0 /\ <<d, inbox'[d]>> \in approved
    /\ UNCHANGED <<approved, dispatched, ledger>>

Mark ==
    /\ \E S \in SUBSET Directives :
         /\ \A d \in S : inbox[d] # 0
         /\ dispatched' = dispatched \cup {<<d, inbox[d]>> : d \in S}
    /\ UNCHANGED <<approved, inbox, ledger>>

(* The manager writes the directive anew. *)
Reissue(d) ==
    /\ dispatched' = {p \in dispatched : p[1] # d}
    /\ UNCHANGED <<approved, inbox, ledger>>

Consume(d) ==
    /\ inbox[d] # 0
    /\ ledger' = ledger \cup {d}
    /\ UNCHANGED <<approved, inbox, dispatched>>

Next ==
    \/ Deliver
    \/ Mark
    \/ \E d \in Directives :
         Reissue(d) \/ Consume(d) \/ \E v \in 1..MaxV : Approve(d, v)

Spec == Init /\ [][Next]_vars

(* A target never has, and never acts on, a text that nobody approved, and what is
   marked as dispatched is what it has; nothing that it has is replaced. *)
Promise ==
    /\ \A d \in Directives : inbox[d] # 0 => <<d, inbox[d]>> \in approved
    /\ \A p \in dispatched : inbox[p[1]] = p[2]
    /\ \A d \in ledger : d \in Directives /\ inbox[d] # 0
=============================================================================
