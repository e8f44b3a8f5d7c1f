---------------------------- MODULE DueWatermark ----------------------------
(***************************************************************************)
(* The due watermark: one JSON file per department, read and rewritten     *)
(* whole under a sibling flock by scripts/lib/loop_backup.py.  For each    *)
(* mission the file holds the last period that succeeded and the pending   *)
(* lease, if there is one.  This module has the pure part: which missions  *)
(* a file makes due, and the file each critical section writes back.       *)
(*                                                                         *)
(* A period token (a date, an ISO week, a month) is a natural number here, *)
(* because the code compares tokens of one cadence with = and <= only.     *)
(* Period(m, t) is the token of mission m at time t.                       *)
(***************************************************************************)
EXTENDS Integers

CONSTANTS
  Missions,       \* the ids listed in loop.due_dispatch.mission_ids
  Continuous,     \* those whose cadence is "continuous"
  Agents,         \* the LaunchAgents that run local-loop-backup-runner.sh
  NoAgent,        \* the owner of no lease
  LeaseTime,      \* pending_lease_seconds, in units of the clock
  MaxTime,        \* bound on the clock
  Period(_, _)    \* due_period: the token of a mission at a time

ASSUME MissionAssumption ==
  /\ Continuous \subseteq Missions
  /\ NoAgent \notin Agents
  /\ LeaseTime \in Nat \ {0}
  /\ MaxTime \in Nat \ {0}

Times == 0 .. MaxTime

\* Tokens are lexically ordered within one cadence and time only adds to them.
ASSUME PeriodAssumption ==
  \A m \in Missions : \A t \in Times :
    /\ Period(m, t) \in Nat
    /\ \A u \in Times : t <= u => Period(m, t) <= Period(m, u)

Periodic == Missions \ Continuous

\* last_success_period is absent.
NoPeriod == -1

(* A claim id is a fresh uuid4.  A LaunchAgent starts one runner at a time, so
   who claimed and when is as good a name for it. *)
Claims  == Agents \X Times
NoClaim == <<NoAgent, 0>>

Leases  == [claim : Claims, period : Nat, expires : Nat]
NoLease == [claim |-> NoClaim, period |-> 0, expires |-> 0]

Entry == [last : Nat \cup {NoPeriod}, pending : Leases \cup {NoLease}]
NoEntry == [last |-> NoPeriod, pending |-> NoLease]

Files == [Missions -> Entry]

\* Mutants of Due: the success on file is not looked at; a lease never expires.
Due_IgnoresSuccess(entry, m, now) ==
  m \in Continuous \/ entry.pending.period # Period(m, now) \/ entry.pending.expires <= now
Due_NoExpiry(entry, m, now) ==
  \/ m \in Continuous
  \/ /\ entry.last # Period(m, now)
     /\ entry.pending = NoLease \/ entry.pending.period # Period(m, now)

(* A periodic mission is not due in a period it completed, nor while a lease
   for that very period is unexpired at the planner's own "now". *)
Due(entry, m, now) ==
  \/ m \in Continuous
  \/ /\ entry.last # Period(m, now)
     /\ ~ /\ entry.pending # NoLease
          /\ entry.pending.period = Period(m, now)
          /\ entry.pending.expires > now

\* due_mission_plan: only live missions are planned.
Plan(file, live, now) == {m \in live : Due(file[m], m, now)}

NewLease(claim, m, now) ==
  [claim |-> claim, period |-> Period(m, now), expires |-> now + LeaseTime]

(* claim_due_missions: every due periodic mission gets a new lease, over the
   one it may have had, and a mission that is not live loses its own. *)
Claimed(file, live, claim, now) ==
  [m \in Missions |->
     [file[m] EXCEPT !.pending =
        IF m \in Plan(file, live, now) \ Continuous THEN NewLease(claim, m, now)
        ELSE IF m \in live THEN @ ELSE NoLease]]

\* release_due_claims: only a lease with this wake's own claim id goes.
Released(file, missions, claim) ==
  [m \in Missions |->
     [file[m] EXCEPT !.pending =
        IF m \in missions /\ @.claim = claim THEN NoLease ELSE @]]

\* Mutant of Advances: the last acknowledgement wins.
Advances_Always(entry, p) == TRUE

\* The acknowledgement of p is not older than the success on file.
Advances(entry, p) == entry.last <= p

\* Mutant of Acked: the lease is kept.
Acked_KeepsLease(file, m, p) ==
  [file EXCEPT ![m].last = IF Advances(file[m], p) THEN p ELSE @]

(* write_due_success: last_success_period never goes back, and only a lease for
   the acknowledged period is cleared. *)
Acked(file, m, p) ==
  [file EXCEPT ![m] =
     [last    |-> IF Advances(@, p) THEN p ELSE @.last,
      pending |-> IF @.pending.period = p THEN NoLease ELSE @.pending]]
=============================================================================
