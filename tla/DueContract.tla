----------------------------- MODULE DueContract -----------------------------
(***************************************************************************)
(* What the due dispatcher promises about each mission, without runners,   *)
(* clocks, markers or files: a register of the last period done that never *)
(* goes back, at most one lease, never for the period that is done, and no *)
(* period done that was not delivered to the session first.                *)
(***************************************************************************)
EXTENDS Integers

CONSTANTS
  Missions,
  NoPeriod     \* stands before every period

VARIABLES
  done,        \* the last period done of each mission
  lease,       \* the period each mission is leased for
  delivered    \* mission-periods handed to the session so far

contractVars == <<done, lease, delivered>>

MaybePeriod == Nat \cup {NoPeriod}

ContractInit ==
  /\ done = [m \in Missions |-> NoPeriod]
  /\ lease = [m \in Missions |-> NoPeriod]
  /\ delivered = {}

\* Leases are granted, replaced and withdrawn, several at a time.
Relet ==
  /\ lease' \in [Missions -> MaybePeriod]
  /\ \A m \in Missions :
       lease'[m] # lease[m] /\ lease'[m] # NoPeriod => lease'[m] # done[m]
  /\ UNCHANGED <<done, delivered>>

\* A wake reaches the session; it carries whatever was planned.
Deliver ==
  /\ delivered \subseteq delivered'
  /\ delivered' \subseteq Missions \X Nat
  /\ UNCHANGED <<done, lease>>

\* A delivered mission-period succeeded.
Succeed(m, p) ==
  /\ <<m, p>> \in delivered
  /\ done' = [done EXCEPT ![m] = IF @ <= p THEN p ELSE @]
  /\ lease' = [lease EXCEPT ![m] = IF @ = p THEN NoPeriod ELSE @]
  /\ UNCHANGED delivered

ContractNext ==
  \/ Relet
  \/ Deliver
  \/ \E j \in delivered : Succeed(j[1], j[2])

ContractSpec == ContractInit /\ [][ContractNext]_contractVars

-----------------------------------------------------------------------------
ContractTypeOK ==
  /\ done \in [Missions -> MaybePeriod]
  /\ lease \in [Missions -> MaybePeriod]
  /\ delivered \subseteq Missions \X Nat

\* What is done was delivered, and what is done is not leased.
ContractInv ==
  \A m \in Missions : done[m] # NoPeriod =>
    /\ <<m, done[m]>> \in delivered
    /\ lease[m] # done[m]

\* Nothing that was done is undone.
ContractMonotone == [][\A m \in Missions : done[m] <= done'[m]]_contractVars
=============================================================================
