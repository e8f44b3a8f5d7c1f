----------------------------- MODULE BackupFloor -----------------------------
(* The safety net of a department on the VPS (scripts/loop-backup.sh): timer *)
(* units that find the heartbeat stale, wake the live session, else run a    *)
(* headless tick in its place, write what came of it into the department's  *)
(* heartbeat, and restart a department that could not be revived.           *)
(*                                                                         *)
(* The units are processes: they share the tick lock, the heartbeat, the    *)
(* inject file and the restart history with each other and with the session. *)
EXTENDS Naturals, FiniteSets

CONSTANTS Missions,
          LayerOf,        \* [Missions -> 1..4]
          Floors,         \* the timer units
          LayerFloor,     \* [Floors -> 0..4], --layer N; 0 is the generic unit
          Selectors,      \* what /etc/bubble-harness/<slug> may say
          PrimaryOnly,    \* BUBBLE_BACKUP_PRIMARY_WAKE_ONLY
          Restarts,       \* decide_restart does not refuse this department
          StaleAfter,     \* STALE_AFTER_SEC, in units of time
          MaxPerHour      \* AUTORESTART_MAX_PER_HOUR

ASSUME FloorAssumption ==
    /\ LayerOf \in [Missions -> 1..4]
    /\ LayerFloor \in [Floors -> 0..4]
    /\ Selectors \subseteq {"claude", "hermes", "unsafe"}
    /\ PrimaryOnly \in BOOLEAN
    /\ Restarts \in BOOLEAN
    /\ StaleAfter \in Nat
    /\ MaxPerHour \in Nat
    /\ IsFiniteSet(Floors) /\ Floors # {}
    /\ "free" \notin Floors /\ "live" \notin Floors

VARIABLES
    selector,    \* the harness selector of the department
    session,     \* the live session: up, wedged (a process that never ticks), down
    live,        \* its tick: busy, whether it has the tick lock, what it will do
    inject,      \* the session has an unread wake
    lock,        \* ops-loop-<slug>.tick.lock: "free", "live" or a unit
    done,        \* the missions completed in the ledger of the day
    beat,        \* age of the newest heartbeat line that counts as life
    served,      \* age of the last tick that really was carried out
    hollow,      \* the newest such line is one of a degraded tick that failed
    recent,      \* restarts of the last hour in auto-restart.jsonl
    asked,       \* a person was told that the restarts do not help
    floor,       \* [Floors -> what the run of a unit knows]
    calm         \* nothing fails from here on

net == <<beat, served, hollow>>
guard == <<recent, asked>>
vars == <<selector, session, live, inject, lock, done, net, guard, floor, calm>>

Ages == 0..StaleAfter + 1

Off == [pc |-> "off", todo |-> {}, cur |-> {}, degraded |-> FALSE,
        touched |-> FALSE]
NoTick == [busy |-> FALSE, guarded |-> FALSE, todo |-> {}]

UnitStates ==
    [pc : {"off", "wake", "wait", "next", "tick", "decide", "restart", "record"},
     todo : SUBSET SUBSET Missions, cur : SUBSET Missions,
     degraded : BOOLEAN, touched : BOOLEAN]

TypeOK ==
    /\ selector \in Selectors
    /\ session \in {"up", "wedged", "down"}
    /\ live \in [busy : BOOLEAN, guarded : BOOLEAN, todo : SUBSET Missions]
    /\ inject \in BOOLEAN
    /\ lock \in {"free", "live"} \cup Floors
    /\ done \subseteq Missions
    /\ beat \in Ages /\ served \in Ages /\ hollow \in BOOLEAN
    /\ recent \in Nat
    /\ asked \in BOOLEAN
    /\ floor \in [Floors -> UnitStates]
    /\ calm \in BOOLEAN

Init ==
    /\ selector \in Selectors
    /\ session \in {"up", "down"}
    /\ live = NoTick
    /\ inject = FALSE
    /\ lock = "free"
    /\ done = {}
    /\ beat = StaleAfter + 1
    /\ served = StaleAfter + 1
    /\ hollow = FALSE
    /\ recent = 0
    /\ asked = FALSE
    /\ floor = [f \in Floors |-> Off]
    /\ calm = FALSE

----------------------------------------------------------------------------
(* The heartbeat *)

Stale == beat > StaleAfter

(* latest_heartbeat_epoch skips the lines that a unit wrote about a failure. *)
NotLiveness_CrashCounts(outcome) == outcome \in {"limit", "deferred"}
NotLiveness(outcome) == outcome \in {"crash", "limit", "deferred"}

(* Whoever appends, the file gets a new mtime: that is all a waiting unit sees. *)
Touched(fl) == [f \in Floors |-> [fl[f] EXCEPT !.touched = @ \/ fl[f].pc = "wait"]]

(* A line about a tick: was it carried out, and what does the line say? A
   degraded tick leaves the same line whatever became of it. *)
Line(fl, outcome, degraded) ==
    /\ floor' = Touched(fl)
    /\ served' = IF outcome = "ran" THEN 0 ELSE served
    /\ IF degraded \/ ~NotLiveness(outcome)
       THEN /\ beat' = 0
            /\ hollow' = (degraded /\ outcome # "ran")
       ELSE UNCHANGED <<beat, hollow>>

----------------------------------------------------------------------------
(* The live session *)

(* A tick starts, by the session's own pace or by the wake it reads; it runs
   without the lock when it does not get it. *)
LiveStart ==
    /\ session = "up"
    /\ ~live.busy
    /\ live' = [busy |-> TRUE, guarded |-> lock = "free",
                todo |-> Missions \ done]
    /\ lock' = IF lock = "free" THEN "live" ELSE lock
    /\ inject' = FALSE
    /\ UNCHANGED <<selector, session, done, net, guard, floor, calm>>

LiveWork(m) ==
    /\ session = "up"
    /\ m \in live.todo
    /\ live' = [live EXCEPT !.todo = @ \ {m}]
    /\ done' = done \cup {m}
    /\ UNCHANGED <<selector, session, inject, lock, net, guard, floor, calm>>

Freed(l) == IF l = "live" THEN "free" ELSE l

(* The last steps of a tick: the heartbeat, then the release. *)
LiveEnd ==
    /\ session = "up"
    /\ live.busy
    /\ live.todo = {}
    /\ Line(floor, "ran", FALSE)
    /\ live' = NoTick
    /\ lock' = Freed(lock)
    /\ UNCHANGED <<selector, session, inject, done, guard, calm>>

(* The session wedges, or dies and takes the holder of its lock with it. *)
SessionFails ==
    /\ ~calm
    /\ \/ /\ session = "up"
          /\ session' = "wedged"
          /\ UNCHANGED <<live, lock>>
       \/ /\ session # "down"
          /\ session' = "down"
          /\ live' = NoTick
          /\ lock' = Freed(lock)
    /\ UNCHANGED <<selector, inject, done, net, guard, floor, calm>>

(* The holder of the lock ends by itself after MAX_HOLD_SECS. *)
HoldExpires_NotWedged ==
    /\ session = "up" /\ lock = "live"
    /\ lock' = "free"
    /\ live' = [live EXCEPT !.guarded = FALSE]
    /\ UNCHANGED <<selector, session, inject, done, net, guard, floor, calm>>
HoldExpires ==
    /\ lock = "live"
    /\ lock' = "free"
    /\ live' = [live EXCEPT !.guarded = FALSE]
    /\ UNCHANGED <<selector, session, inject, done, net, guard, floor, calm>>

----------------------------------------------------------------------------
(* A unit *)

Set(f, pc) == [floor EXCEPT ![f].pc = pc]

Due(l) == {m \in Missions \ done : LayerOf[m] = l}

LayerFired(l) == \E m \in done : LayerOf[m] = l

(* A forced layer 4 without the layers below it writes a degraded debrief. *)
Degrades(f) == LayerFloor[f] = 4 /\ \E l \in 1..3 : ~LayerFired(l)

(* One tick for each mission of a forced layer; one for whatever is due. *)
Jobs(f) == IF LayerFloor[f] = 0 \/ Degrades(f) THEN {{}}
           ELSE {{m} : m \in Due(LayerFloor[f])}

(* The timer fires: freshness gate, prerequisites, missions still due. The
   timers are hours apart; after a boot they all fire at once. *)
FireWhenFresh(f) ==
    /\ floor[f].pc = "off"
    /\ Jobs(f) # {}
    /\ floor' = [floor EXCEPT ![f] = [Off EXCEPT !.pc = "wake",
                                                 !.todo = Jobs(f),
                                                 !.degraded = Degrades(f)]]
    /\ UNCHANGED <<selector, session, live, inject, lock, done, net, guard, calm>>
Fire(f) == /\ Stale
           /\ calm => \A g \in Floors : floor[g].pc = "off"
           /\ FireWhenFresh(f)

(* defer_dept: nothing ran, and the heartbeat says so. *)
Defer(f) ==
    /\ Line([floor EXCEPT ![f] = Off], "deferred", FALSE)
    /\ UNCHANGED <<selector, session, live, inject, lock, done, guard, calm>>

(* A wake that can not be delivered or must not be. *)
NoWake(f) == session = "down" \/ floor[f].degraded

(* resolve_floor_harness, then inject_live_loop or wake_hermes_loop. *)
Refuse(f) ==
    /\ floor[f].pc = "wake"
    /\ selector = "unsafe"
    /\ Defer(f)

Wake(f) ==
    /\ floor[f].pc = "wake"
    /\ selector # "unsafe"
    /\ ~NoWake(f)
    /\ inject' = TRUE
    /\ floor' = [floor EXCEPT ![f].pc = "wait", ![f].touched = FALSE]
    /\ UNCHANGED <<selector, session, live, lock, done, net, guard, calm>>

(* The heartbeat moved: the unit takes it for a tick of the session. *)
Woken(f) ==
    /\ floor[f].pc = "wait"
    /\ floor[f].touched
    /\ floor' = [floor EXCEPT ![f] = Off]
    /\ UNCHANGED <<selector, session, live, inject, lock, done, net, guard, calm>>

(* No wake, or none that was answered within the window. *)
Unanswered(f) ==
    \/ floor[f].pc = "wake" /\ selector # "unsafe" /\ NoWake(f)
    \/ floor[f].pc = "wait" /\ ~floor[f].touched

WakeOnly == PrimaryOnly \/ selector = "hermes"

GiveUp(f) ==
    /\ Unanswered(f)
    /\ WakeOnly
    /\ Defer(f)

GoHeadless(f) ==
    /\ Unanswered(f)
    /\ ~WakeOnly
    /\ floor' = Set(f, "next")
    /\ UNCHANGED <<selector, session, live, inject, lock, done, net, guard, calm>>

(* The list of the unit is the one of its start, however long ago. *)
Locked_Never == FALSE
Locked == lock # "free"

Skip(f, j) ==
    /\ floor[f].pc = "next"
    /\ j \in floor[f].todo
    /\ Locked
    /\ floor' = [floor EXCEPT ![f].todo = @ \ {j}]
    /\ UNCHANGED <<selector, session, live, inject, lock, done, net, guard, calm>>

Headless(f, j) ==
    /\ floor[f].pc = "next"
    /\ j \in floor[f].todo
    /\ ~Locked
    /\ lock' = f
    /\ floor' = [floor EXCEPT ![f].pc = "tick", ![f].cur = j,
                              ![f].todo = @ \ {j}]
    /\ UNCHANGED <<selector, session, live, inject, done, net, guard, calm>>

(* What the tick of a unit does: its mission, what is due when it runs, or
   only the degraded debrief. *)
Work(f) == IF floor[f].degraded THEN {}
           ELSE IF floor[f].cur # {} THEN floor[f].cur ELSE Missions \ done

HeadlessRan(f) ==
    /\ floor[f].pc = "tick"
    /\ done' = done \cup Work(f)
    /\ lock' = "free"
    /\ Line(Set(f, "next"), "ran", floor[f].degraded)
    /\ UNCHANGED <<selector, session, live, inject, guard, calm>>

(* Over its budget, not logged in or out of time: the department is not down. *)
HeadlessLimit(f) ==
    /\ ~calm
    /\ floor[f].pc = "tick"
    /\ done' \in {done, done \cup Work(f)}
    /\ lock' = "free"
    /\ Line(Set(f, "next"), "limit", floor[f].degraded)
    /\ UNCHANGED <<selector, session, live, inject, guard, calm>>

HeadlessCrash(f) ==
    /\ ~calm
    /\ floor[f].pc = "tick"
    /\ done' \in {done, done \cup Work(f)}
    /\ lock' = "free"
    /\ Line(Set(f, "decide"), "crash", floor[f].degraded)
    /\ UNCHANGED <<selector, session, live, inject, guard, calm>>

Finish(f) ==
    /\ floor[f].pc = "next"
    /\ floor[f].todo = {}
    /\ floor' = [floor EXCEPT ![f] = Off]
    /\ UNCHANGED <<selector, session, live, inject, lock, done, net, guard, calm>>

(* The unit is stopped, or ends with TimeoutStartSec; its lock is dropped. *)
FloorDies(f) ==
    /\ ~calm
    /\ floor[f].pc # "off"
    /\ lock' = IF lock = f THEN "free" ELSE lock
    /\ floor' = [floor EXCEPT ![f] = Off]
    /\ done' \in {done} \cup (IF floor[f].pc = "tick" THEN {done \cup Work(f)} ELSE {})
    /\ UNCHANGED <<selector, session, live, inject, net, guard, calm>>

----------------------------------------------------------------------------
(* maybe_auto_restart: read the history, restart, and only then record *)

Guardrail_OffByOne == recent > MaxPerHour
Guardrail == recent >= MaxPerHour

Decide(f) ==
    /\ floor[f].pc = "decide"
    /\ floor' = Set(f, IF Restarts /\ ~Guardrail THEN "restart" ELSE "next")
    /\ asked' = (asked \/ (Restarts /\ Guardrail))
    /\ UNCHANGED <<selector, session, live, inject, lock, done, net, recent, calm>>

Restart(f) ==
    /\ floor[f].pc = "restart"
    /\ session' = "up"
    /\ live' = NoTick
    /\ lock' = Freed(lock)
    /\ floor' = Set(f, "record")
    /\ UNCHANGED <<selector, inject, done, net, guard, calm>>

(* systemctl fails: that counts for no restart, and a person is told. *)
RestartFails(f) ==
    /\ ~calm
    /\ floor[f].pc = "restart"
    /\ floor' = Set(f, "next")
    /\ asked' = TRUE
    /\ UNCHANGED <<selector, session, live, inject, lock, done, net, recent, calm>>

Record(f) ==
    /\ floor[f].pc = "record"
    /\ recent' = recent + 1
    /\ floor' = Set(f, "next")
    /\ UNCHANGED <<selector, session, live, inject, lock, done, net, asked, calm>>

----------------------------------------------------------------------------
(* Time passes, and restarts leave the rolling hour. *)
Older(a) == IF a > StaleAfter THEN a ELSE a + 1
Tick ==
    /\ beat' = Older(beat)
    /\ served' = Older(served)
    /\ recent' \in 0..recent
    /\ UNCHANGED <<selector, session, live, inject, lock, done, hollow, asked,
                   floor, calm>>

Calm == /\ ~calm
        /\ calm' = TRUE
        /\ UNCHANGED <<selector, session, live, inject, lock, done, net, guard,
                       floor>>

Live == LiveStart \/ LiveEnd \/ \E m \in Missions : LiveWork(m)

Unit(f) ==
    \/ Refuse(f) \/ Wake(f) \/ Woken(f) \/ GiveUp(f) \/ GoHeadless(f)
    \/ \E j \in SUBSET Missions : Skip(f, j) \/ Headless(f, j)
    \/ HeadlessRan(f) \/ HeadlessLimit(f) \/ HeadlessCrash(f)
    \/ Decide(f) \/ Restart(f) \/ RestartFails(f) \/ Record(f)
    \/ Finish(f)

Next ==
    \/ Tick
    \/ Calm
    \/ Live
    \/ SessionFails
    \/ HoldExpires
    \/ \E f \in Floors : Fire(f) \/ Unit(f) \/ FloorDies(f)

(* A session that has a wake or a tick goes on, a unit too, the timers fire,
   and time passes. *)
Fairness ==
    /\ WF_vars(Tick) /\ WF_vars(Calm) /\ WF_vars(HoldExpires)
    /\ WF_vars((inject \/ live.busy) /\ Live)
    /\ \A f \in Floors : WF_vars(Unit(f)) /\ SF_vars(Fire(f))

Spec == Init /\ [][Next]_vars
FairSpec == Spec /\ Fairness

----------------------------------------------------------------------------
(* Properties *)

(* A headless tick and a live tick run at once only when the live one started
   second, without the lock: a live tick that has it is never joined by a
   headless one, nor a headless one by another (loop-backup.sh:1175). *)
GuardedTicksAlone ==
    \A f \in Floors : floor[f].pc = "tick" =>
        /\ ~live.guarded
        /\ \A g \in Floors : floor[g].pc = "tick" => g = f

(* A heartbeat that reads as fresh is of a tick that was carried out, by the
   session or in its place (loop_backup.py:735), but for a degraded tick that
   failed: do_one_tick writes its line whatever its exit. *)
FreshMeansServed == beat <= StaleAfter => served <= beat \/ hollow

(* The guardrail of three restarts an hour (auto_restart.py:14), with units
   that read the history at once: each of the others can add one. *)
RestartBudget ==
    recent + Cardinality({f \in Floors : floor[f].pc = "record"})
        <= MaxPerHour + Cardinality(Floors) - 1

(* The lock of the units and of the live session is the one that the shells of
   tick-lock.sh make: both implement the same contract. *)
Contract == INSTANCE LockContract WITH
    Holders <- {"live"},
    Units <- Floors,
    Nobody <- "free",
    owner <- lock,
    relied <- IF live.guarded THEN "live" ELSE "free"

ImplementsContract == Contract!Spec

HasFloor(m) == \E f \in Floors : LayerFloor[f] \in {0, LayerOf[m]}

(* Each layer below 4 fires in the end although the session is down or wedged
   and units fail for a while (loop-backup.sh:846). *)
FloorsCatchUp ==
    <>(selector # "claude" \/ PrimaryOnly
       \/ \A m \in Missions : HasFloor(m) /\ LayerOf[m] # 4 => m \in done)
=============================================================================
