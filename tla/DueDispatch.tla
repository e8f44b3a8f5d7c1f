----------------------------- MODULE DueDispatch -----------------------------
(***************************************************************************)
(* The due dispatcher of a department on a Mac.  Two LaunchAgents (the     *)
(* backup floor and the five-minute wake-catch) run the same runner,       *)
(* deploy/local/local-loop-backup-runner.sh: read the clock, claim what is *)
(* due, append one wake to the inbox of the live session, give the claims  *)
(* back when no wake was appended.  The session executes what a wake lists *)
(* and acknowledges each success with `due_missions.py complete`.          *)
(*                                                                         *)
(* Nothing but files joins these processes: the watermark (DueWatermark),  *)
(* the inbox, the last-inject marker and the success ledger.  A step here  *)
(* is one critical section, or one write, of one process.                  *)
(***************************************************************************)
EXTENDS DueWatermark

CONSTANTS
  Cooldown,    \* --cooldown-sec
  MaxLag,      \* how far the clock may run past the "now" of a runner at work
  Flippable,   \* missions whose status in dept.yaml may be edited
  IOFaults,    \* whether a write after the inbox append may fail
  MayStall,    \* whether the heartbeat may be stale even in calm times
  CalmFrom     \* from this time on nothing crashes, fails or is edited

ASSUME DispatchAssumption ==
  /\ Cooldown \in Nat
  /\ MaxLag \in Nat
  /\ Flippable \subseteq Missions
  /\ IOFaults \in BOOLEAN
  /\ MayStall \in BOOLEAN
  /\ CalmFrom \in Nat

VARIABLES
  clock,      \* the wall clock
  live,       \* missions whose status is "live" in dept.yaml
  wm,         \* the watermark file
  woke,       \* agents that launchd has started in this unit of time
  pc,         \* where each agent's runner is
  now,        \* NOW_EPOCH of that runner, read once when it starts
  plan,       \* the missions its wake lists
  appended,   \* its wake is in the inbox
  marker,     \* time in the last-inject marker, 0 without one
  inbox,      \* mission-periods delivered to the session and not yet executed
  sent,       \* history: the wakes ever appended
  acking,     \* acknowledgements between their write and their read-back
  ledger      \* mission-periods in due-dispatch.json

runner == <<woke, pc, now, plan, appended>>
vars == <<clock, live, wm, woke, pc, now, plan, appended, marker, inbox, sent,
          acking, ledger>>

Jobs   == Missions \X Nat
Wakes  == [at : Times, jobs : SUBSET Jobs]
Acks   == [mission : Missions, period : Nat, landed : BOOLEAN]
Phases == {"idle", "started", "claimed", "marking", "injected", "exit"}

TypeOK ==
  /\ clock \in Times
  /\ live \subseteq Missions
  /\ wm \in Files
  /\ woke \subseteq Agents
  /\ pc \in [Agents -> Phases]
  /\ now \in [Agents -> Times]
  /\ plan \in [Agents -> SUBSET Missions]
  /\ appended \in [Agents -> BOOLEAN]
  /\ marker \in Times
  /\ inbox \subseteq Jobs
  /\ sent \subseteq Wakes
  /\ acking \subseteq Acks
  /\ ledger \subseteq Jobs

Init ==
  /\ clock = 1
  /\ live \in {Missions, Missions \ Flippable}
  /\ wm = [m \in Missions |-> NoEntry]
  /\ woke = {}
  /\ pc = [r \in Agents |-> "idle"]
  /\ now = [r \in Agents |-> 0]
  /\ plan = [r \in Agents |-> {}]
  /\ appended = [r \in Agents |-> FALSE]
  /\ marker = 0
  /\ inbox = {}
  /\ sent = {}
  /\ acking = {}
  /\ ledger = {}

-----------------------------------------------------------------------------
Working(r) == pc[r] # "idle"
Calm       == clock >= CalmFrom

ClaimId(r) == <<r, now[r]>>
ClaimedBy(r) == plan[r] \ Continuous
Wake(r)    == [at |-> now[r], jobs |-> {<<m, Period(m, now[r])>> : m \in plan[r]}]

Goto(r, phase) == pc' = [pc EXCEPT ![r] = phase]

\* The runner is over: the shell variables are gone with it.
Exit(r) ==
  /\ Goto(r, "idle")
  /\ now' = [now EXCEPT ![r] = 0]
  /\ plan' = [plan EXCEPT ![r] = {}]
  /\ appended' = [appended EXCEPT ![r] = FALSE]

(* Time passes, with the Mac awake or asleep; a runner may be suspended for up
   to MaxLag.  In calm times launchd starts every agent once per unit. *)
Tick ==
  /\ clock < MaxTime
  /\ \A r \in Agents : Working(r) => clock - now[r] < MaxLag
  /\ Calm => woke = Agents
  /\ clock' = clock + 1
  /\ woke' = {}
  /\ UNCHANGED <<live, wm, pc, now, plan, appended, marker, inbox, sent, acking,
                 ledger>>

\* A mission of dept.yaml is put live or taken back to planned.
SetStatus(m) ==
  /\ ~Calm
  /\ m \in Flippable
  /\ live' = IF m \in live THEN live \ {m} ELSE live \cup {m}
  /\ UNCHANGED <<clock, wm, runner, marker, inbox, sent, acking, ledger>>

\* launchd starts the runner, which reads the clock once.
Start(r) ==
  /\ ~Working(r)
  /\ r \notin woke
  /\ woke' = woke \cup {r}
  /\ now' = [now EXCEPT ![r] = clock]
  /\ Goto(r, "started")
  /\ UNCHANGED <<clock, live, wm, plan, appended, marker, inbox, sent, acking,
                 ledger>>

\* `due_missions.py claim --now-epoch NOW_EPOCH`, under the watermark's lock.
Claim(r) ==
  /\ pc[r] = "started"
  /\ plan' = [plan EXCEPT ![r] = Plan(wm, live, now[r])]
  /\ wm' = Claimed(wm, live, ClaimId(r), now[r])
  /\ Goto(r, "claimed")
  /\ UNCHANGED <<clock, live, woke, now, appended, marker, inbox, sent, acking,
                 ledger>>

(* A wake is needed for a periodic mission, or because the heartbeat is stale,
   which the session rules out in calm times unless it MayStall. *)
WakeNeeded(r) == ClaimedBy(r) # {} \/ ~Calm \/ MayStall

\* The heartbeat is fresh and no periodic mission is due: nothing to wake for.
Healthy(r) ==
  /\ pc[r] = "claimed"
  /\ ClaimedBy(r) = {}
  /\ Exit(r)
  /\ UNCHANGED <<clock, live, wm, woke, marker, inbox, sent, acking, ledger>>

\* No tmux session, no trusted harness selector, or a refused inbox directory.
Refused(r) ==
  /\ ~Calm
  /\ pc[r] = "claimed"
  /\ Goto(r, "exit")
  /\ UNCHANGED <<clock, live, wm, woke, now, plan, appended, marker, inbox, sent,
                 acking, ledger>>

InCooldown(r) ==
  marker # 0 /\ now[r] >= marker /\ now[r] - marker < Cooldown

\* Mutant of FloorLockFree: the marker is read outside the lock.
FloorLockFree_Never == TRUE

(* .backup-floor.lock is held from the marker's read to its replacement; a runner
   that finds the cooldown running, or dies, drops it at once. *)
FloorLockFree == \A r \in Agents : pc[r] # "marking"

\* Mutant of CoolDown: the exit for a cooldown bypasses the EXIT trap.
CoolDown_NoTrap(r) ==
  /\ pc[r] = "claimed"
  /\ WakeNeeded(r)
  /\ FloorLockFree
  /\ InCooldown(r)
  /\ Exit(r)
  /\ UNCHANGED <<clock, live, wm, woke, marker, inbox, sent, acking, ledger>>

\* inject_loop_wake finds that a recent wake is pending ...
CoolDown(r) ==
  /\ pc[r] = "claimed"
  /\ WakeNeeded(r)
  /\ FloorLockFree
  /\ InCooldown(r)
  /\ Goto(r, "exit")
  /\ UNCHANGED <<clock, live, wm, woke, now, plan, appended, marker, inbox, sent,
                 acking, ledger>>

\* ... or appends the wake to the inbox file, which the session may read at once.
Append(r) ==
  /\ pc[r] = "claimed"
  /\ WakeNeeded(r)
  /\ FloorLockFree
  /\ ~InCooldown(r)
  /\ inbox' = inbox \cup Wake(r).jobs
  /\ sent' = sent \cup {Wake(r)}
  /\ appended' = [appended EXCEPT ![r] = TRUE]
  /\ Goto(r, "marking")
  /\ UNCHANGED <<clock, live, wm, woke, now, plan, marker, acking, ledger>>

\* The marker is replaced and the lock dropped.
Mark(r) ==
  /\ pc[r] = "marking"
  /\ marker' = now[r]
  /\ Goto(r, "injected")
  /\ UNCHANGED <<clock, live, wm, woke, now, plan, appended, inbox, sent, acking,
                 ledger>>

\* The marker could not be written: the same exit status as no wake at all.
MarkFails(r) ==
  /\ IOFaults /\ ~Calm
  /\ pc[r] = "marking"
  /\ Goto(r, "exit")
  /\ UNCHANGED <<clock, live, wm, woke, now, plan, appended, marker, inbox, sent,
                 acking, ledger>>

\* Mutant of Accepted: CLAIMS_TOKEN is not emptied.
Accepted_KeepsToken(r) ==
  /\ pc[r] = "injected"
  /\ Goto(r, "exit")
  /\ UNCHANGED <<clock, live, wm, woke, now, plan, appended, marker, inbox, sent,
                 acking, ledger>>

\* "injected": CLAIMS_TOKEN is emptied, so that the EXIT trap keeps the leases.
Accepted(r) ==
  /\ pc[r] = "injected"
  /\ Exit(r)
  /\ UNCHANGED <<clock, live, wm, woke, marker, inbox, sent, acking, ledger>>

\* The EXIT trap: release_pending_claims, under the watermark's lock.
Release(r) ==
  /\ pc[r] = "exit"
  /\ wm' = Released(wm, ClaimedBy(r), ClaimId(r))
  /\ Exit(r)
  /\ UNCHANGED <<clock, live, woke, marker, inbox, sent, acking, ledger>>

(* The runner is killed, the Mac loses power, the planner fails after its write
   or the release fails: no trap gives the claims back. *)
Crash(r) ==
  /\ ~Calm
  /\ Working(r)
  /\ Exit(r)
  /\ UNCHANGED <<clock, live, wm, woke, marker, inbox, sent, acking, ledger>>

-----------------------------------------------------------------------------
(* The session executed mission m for period p and runs the COMPLETE command of
   the wake, which is refused unless m is live: first write_due_success ... *)
Complete(m, p) ==
  /\ <<m, p>> \in inbox
  /\ m \in live
  /\ wm' = Acked(wm, m, p)
  /\ inbox' = inbox \ {<<m, p>>}
  /\ acking' = acking \cup
       {[mission |-> m, period |-> p, landed |-> Advances(wm[m], p)]}
  /\ UNCHANGED <<clock, live, runner, marker, sent, ledger>>

ReadsBack(a) == wm[a.mission].last = a.period

\* append_success, under the ledger's own lock; the same record is kept once.
Recorded(a) == ledger \cup {<<a.mission, a.period>>}

\* ... then, with no lock, the read-back that lets it report a success ...
ReportSuccess(a) ==
  /\ a \in acking
  /\ ReadsBack(a)
  /\ acking' = acking \ {a}
  /\ \/ ledger' = Recorded(a)
     \/ /\ ~Calm           \* append_success is best effort
        /\ ledger' = ledger
  /\ UNCHANGED <<clock, live, wm, runner, marker, inbox, sent>>

\* ... or makes it report that the completion did not persist.
ReportFailure(a) ==
  /\ a \in acking
  /\ ~ReadsBack(a)
  /\ acking' = acking \ {a}
  /\ UNCHANGED <<clock, live, wm, runner, marker, inbox, sent, ledger>>

\* The command dies between its write and its report.
AckCrash(a) ==
  /\ ~Calm
  /\ a \in acking
  /\ acking' = acking \ {a}
  /\ UNCHANGED <<clock, live, wm, runner, marker, inbox, sent, ledger>>

\* The mission failed, its COMPLETE was refused, or the session lost the turn.
Drop(m, p) ==
  /\ \/ ~Calm
     \/ m \notin live
  /\ <<m, p>> \in inbox
  /\ inbox' = inbox \ {<<m, p>>}
  /\ UNCHANGED <<clock, live, wm, runner, marker, sent, acking, ledger>>

\* The bound of the clock is reached and everybody has finished.
AtHorizon ==
  /\ clock = MaxTime
  /\ UNCHANGED vars

Run(r) ==
  \/ Start(r) \/ Claim(r) \/ Healthy(r) \/ Refused(r)
  \/ CoolDown(r) \/ Append(r) \/ Mark(r) \/ MarkFails(r) \/ Accepted(r)
  \/ Release(r) \/ Crash(r)

Session ==
  \/ \E j \in inbox : Complete(j[1], j[2]) \/ Drop(j[1], j[2])
  \/ \E a \in acking : ReportSuccess(a) \/ ReportFailure(a) \/ AckCrash(a)

Next ==
  \/ Tick
  \/ \E m \in Missions : SetStatus(m)
  \/ \E r \in Agents : Run(r)
  \/ Session
  \/ AtHorizon

Spec == Init /\ [][Next]_vars

-----------------------------------------------------------------------------
(* The Mac stays up, launchd starts its agents, a runner goes on to its end and
   the session works through its inbox.  A crash, a refusal or a lost turn is a
   step too, so before the calm nothing more is assumed of any of them. *)
Fairness ==
  /\ WF_vars(Tick)
  /\ \A r \in Agents : WF_vars(Run(r))
  /\ WF_vars(Session)

FairSpec == Spec /\ Fairness

-----------------------------------------------------------------------------
(* Safety. *)

\* No lease is ever held for the period that is recorded as done: a success
\* and a claim that cross (write_due_success, claim_due_missions) leave the file
\* consistent whichever goes first.
NoLeaseForDone ==
  \A m \in Missions :
    wm[m].pending # NoLease => wm[m].pending.period # wm[m].last

\* The watermark only records periods that a wake carried to the session:
\* neither claiming, releasing nor crashing makes a mission look done.
DoneWasDelivered ==
  \A m \in Missions : wm[m].last # NoPeriod =>
    \E w \in sent : <<m, wm[m].last>> \in w.jobs

\* due-dispatch.json never lists a success that the watermark is behind of.
LedgerBehindWatermark ==
  \A j \in ledger : j[2] <= wm[j[1]].last

\* A delayed acknowledgement of an old period never regresses a newer success,
\* whatever the order of the acknowledgements, claims and releases.
WatermarkMonotone ==
  [][\A m \in Missions : wm[m].last <= wm'[m].last]_vars

\* Recording a success takes no lease but that of the period it acknowledges:
\* the next period may already have been claimed at a calendar boundary.
AckSparesOtherLease ==
  [][\A m \in Missions :
       /\ wm[m].last # wm'[m].last
       /\ wm[m].pending.period # wm'[m].last
       => wm'[m].pending = wm[m].pending]_vars

\* In calm times a runner that ends leaves a lease behind only for a wake that
\* is in the inbox: every other way out (cooldown, error) gives it back.
LeaseMeansWake ==
  [][\A r \in Agents : Calm /\ Working(r) /\ pc'[r] = "idle" =>
       \A m \in Missions :
         wm'[m].pending.claim = ClaimId(r) => Wake(r) \in sent]_vars

\* In calm times the agents never append two wakes closer than the cooldown,
\* whichever of them read the marker and whatever they found due.
WakesSpaced ==
  [][\A r \in Agents : appended'[r] /\ ~appended[r] =>
       \A w \in sent : CalmFrom <= w.at =>
         ~(w.at <= now[r] /\ now[r] < w.at + Cooldown)]_vars

\* The pending lease prevents the agents from appending duplicate work: a wake
\* repeats a mission-period only when the lease of the earlier wake is over.
NoEarlyRepeat ==
  [][\A r \in Agents : appended'[r] /\ ~appended[r] =>
       \A w \in sent : \A m \in ClaimedBy(r) :
         <<m, Period(m, now[r])>> \in w.jobs => w.at + LeaseTime <= now[r]]_vars

\* A lease is for a later period than the last success.
LeaseAhead ==
  \A m \in Missions : wm[m].pending # NoLease => wm[m].last < wm[m].pending.period

\* Only the claims of a wake that was not accepted are released.
ReleasedMeansNotAccepted ==
  [][\A r \in Agents : pc[r] = "exit" /\ pc'[r] = "idle" /\ appended[r] =>
       wm' = wm]_vars

\* A completion is reported as one that did not persist only when a later period
\* of its mission is recorded by then: no completion is lost, in whatever order
\* they are written and read back (command_complete).
FailedMeansOvertaken ==
  \A a \in acking : ReadsBack(a) \/ a.period < wm[a.mission].last

\* A completion that did land in the watermark is never reported as one that
\* did not persist.
LandedIsNotReportedFailed ==
  [][\A a \in acking : a \notin acking' /\ a.landed /\ Calm => ReadsBack(a)]_vars

(* The contract. *)

Contract == INSTANCE DueContract WITH
  done <- [m \in Missions |-> wm[m].last],
  lease <- [m \in Missions |-> IF wm[m].pending = NoLease THEN NoPeriod
                               ELSE wm[m].pending.period],
  delivered <- UNION {w.jobs : w \in sent}

\* Runners, crashes, suspended clocks, edits of dept.yaml and late
\* acknowledgements together never show the session or the watermark's readers
\* anything but the contract's steps.
ImplementsContract == Contract!ContractSpec

(* Liveness. *)

\* Whatever crashed, failed or was suspended before the calm, every live
\* periodic mission ends up done for its last period: an orphaned lease
\* expires, a cooldown passes, and the runner claims the mission again.
EventuallyDone ==
  <>[](\A m \in live \ Continuous : wm[m].last = Period(m, clock))
=============================================================================
