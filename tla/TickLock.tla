------------------------------ MODULE TickLock ------------------------------
(***************************************************************************)
(* scripts/tick-lock.sh: the lock between the live ticks of a department's *)
(* session and the backup ticks of the floor (scripts/loop-backup.sh).     *)
(*                                                                         *)
(* The floor takes the flock itself, without blocking, for the time of one *)
(* headless tick.  A live tick is many short shells, so `acquire` starts a *)
(* detached holder process that takes the flock, writes its pid in a side  *)
(* file and sleeps; `release` kills the process the side file names.  The  *)
(* headless tick follows the same protocol inside the backup tick and so   *)
(* calls acquire and release too.                                          *)
(***************************************************************************)
EXTENDS Integers, FiniteSets

CONSTANTS
  Pids,       \* bounds the holder processes alive at once
  NoPid,      \* the side file does not exist
  Blank,      \* the side file exists and is empty
  Free,       \* nobody holds the flock
  Floor,      \* run_backup_tick holds the flock
  MaxHold     \* MAX_HOLD_SECS, in units of time

ASSUME LockAssumption ==
  /\ NoPid \notin Pids /\ Blank \notin Pids /\ NoPid # Blank
  /\ Free \notin Pids /\ Floor \notin Pids /\ Free # Floor
  /\ MaxHold \in Nat \ {0}

VARIABLES
  flock,     \* who holds the flock of ops-loop-<slug>.tick.lock
  pidfile,   \* the side file
  holder,    \* where each holder process is
  unit,      \* whose systemd unit it was started in
  left,      \* time left to the sleep of each holder
  pc,        \* where the tick of each actor is
  pid,       \* the holder its acquire started, or its release kills
  sure,      \* its acquire saw a pid in the side file
  age,       \* time since the acquire of the live tick, up to MaxHold
  gaveUp,    \* history: an acquire ended while its holder was starting
  killed     \* history: a holder was killed by the system during the tick

vars == <<flock, pidfile, holder, unit, left, pc, pid, sure, age, gaveUp, killed>>
tick == <<pc, pid, sure, age>>

Actors == {"live", "headless"}
HolderStates == {"dead", "starting", "locked", "writing", "holding", "leaving"}
TickStates ==
  {"idle", "acquire", "spawned", "ticking", "killing", "removing", "done"}

TypeOK ==
  /\ flock \in Pids \cup {Free, Floor}
  /\ pidfile \in Pids \cup {NoPid, Blank}
  /\ holder \in [Pids -> HolderStates]
  /\ unit \in [Pids -> Actors]
  /\ left \in [Pids -> 0 .. MaxHold]
  /\ pc \in [Actors -> TickStates]
  /\ pid \in [Actors -> Pids \cup {NoPid}]
  /\ sure \in [Actors -> BOOLEAN]
  /\ age \in 0 .. MaxHold
  /\ gaveUp \in BOOLEAN
  /\ killed \in BOOLEAN

Init ==
  /\ flock = Free
  /\ pidfile = NoPid
  /\ holder = [p \in Pids |-> "dead"]
  /\ unit = [p \in Pids |-> "live"]
  /\ left = [p \in Pids |-> 0]
  /\ pc = [a \in Actors |-> "idle"]
  /\ pid = [a \in Actors |-> NoPid]
  /\ sure = [a \in Actors |-> FALSE]
  /\ age = 0
  /\ gaveUp = FALSE
  /\ killed = FALSE

Alive(p) == p \in Pids /\ holder[p] # "dead"
Goto(a, s) == pc' = [pc EXCEPT ![a] = s]
Become(p, s) == holder' = [holder EXCEPT ![p] = s]
Dropped(S) == IF flock \in S THEN Free ELSE flock

-----------------------------------------------------------------------------
(* acquire *)

\* A tick begins; the headless one only inside a backup tick.
TickStart(a) ==
  /\ pc[a] = "idle"
  /\ a = "headless" => flock = Floor
  /\ Cardinality({p \in Pids : ~Alive(p)}) > Cardinality({b \in Actors : pc[b] = "acquire"})
  /\ Goto(a, "acquire")
  /\ killed' = IF a = "live" THEN FALSE ELSE killed
  /\ UNCHANGED <<flock, pidfile, holder, unit, left, pid, sure, age, gaveUp>>

Begin(a, known, p) ==
  /\ Goto(a, "ticking")
  /\ sure' = [sure EXCEPT ![a] = known]
  /\ pid' = [pid EXCEPT ![a] = p]
  /\ age' = IF a = "live" THEN 0 ELSE age

\* "already held": the side file names a live process.
AcquireHeld(a) ==
  /\ pc[a] = "acquire"
  /\ Alive(pidfile)
  /\ Begin(a, TRUE, NoPid)
  /\ UNCHANGED <<flock, pidfile, holder, unit, left, gaveUp, killed>>

\* Mutant of AcquireSpawn: the stale side file is left where it is.
AcquireSpawn_KeepsStale(a) ==
  /\ pc[a] = "acquire"
  /\ ~Alive(pidfile)
  /\ \E p \in Pids :
       /\ ~Alive(p)
       /\ Become(p, "starting")
       /\ unit' = [unit EXCEPT ![p] = a]
       /\ pid' = [pid EXCEPT ![a] = p]
  /\ Goto(a, "spawned")
  /\ UNCHANGED <<flock, pidfile, left, sure, age, gaveUp, killed>>

\* A stale side file is removed and a holder started in the background.
AcquireSpawn(a) ==
  /\ pc[a] = "acquire"
  /\ ~Alive(pidfile)
  /\ pidfile' = NoPid
  /\ \E p \in Pids :
       /\ ~Alive(p)
       /\ Become(p, "starting")
       /\ unit' = [unit EXCEPT ![p] = a]
       /\ pid' = [pid EXCEPT ![a] = p]
  /\ Goto(a, "spawned")
  /\ UNCHANGED <<flock, left, sure, age, gaveUp, killed>>

\* The side file is non-empty within the three seconds.
AcquireConfirm(a) ==
  /\ pc[a] = "spawned"
  /\ pidfile \in Pids
  /\ Begin(a, TRUE, IF pidfile = pid[a] THEN pid[a] ELSE NoPid)
  /\ UNCHANGED <<flock, pidfile, holder, unit, left, gaveUp, killed>>

\* Mutant of AcquireGivesUp: the wait for the side file has no end.
AcquireGivesUp_Never(a) ==
  /\ pc[a] = "spawned"
  /\ pidfile \in Pids
  /\ Begin(a, FALSE, pid[a])
  /\ gaveUp' = (gaveUp \/ Alive(pid[a]))
  /\ UNCHANGED <<flock, pidfile, holder, unit, left, killed>>

\* It is not: acquire warns and the tick goes on all the same.
AcquireGivesUp(a) ==
  /\ pc[a] = "spawned"
  /\ pidfile \notin Pids
  /\ Begin(a, FALSE, pid[a])
  /\ gaveUp' = (gaveUp \/ Alive(pid[a]))
  /\ UNCHANGED <<flock, pidfile, holder, unit, left, killed>>

-----------------------------------------------------------------------------
(* The holder process. *)

TakeLock(p) ==
  /\ holder[p] = "starting"
  /\ flock = Free
  /\ flock' = p
  /\ Become(p, "locked")
  /\ UNCHANGED <<pidfile, unit, left, tick, gaveUp, killed>>

\* Somebody else holds it: exit, with no side file.
FailLock(p) ==
  /\ holder[p] = "starting"
  /\ flock # Free
  /\ Become(p, "dead")
  /\ UNCHANGED <<flock, pidfile, unit, left, tick, gaveUp, killed>>

\* open(pidfile, "w") makes the file, or empties the one there is ...
CreatePidfile(p) ==
  /\ holder[p] = "locked"
  /\ pidfile' = Blank
  /\ Become(p, "writing")
  /\ UNCHANGED <<flock, unit, left, tick, gaveUp, killed>>

\* ... and closing it writes the pid, in vain when the file was removed since.
WritePid(p) ==
  /\ holder[p] = "writing"
  /\ pidfile' = IF pidfile = Blank THEN p ELSE pidfile
  /\ left' = [left EXCEPT ![p] = MaxHold]
  /\ Become(p, "holding")
  /\ UNCHANGED <<flock, unit, tick, gaveUp, killed>>

\* Mutant of Cleanup: the holder sleeps until somebody releases it.
Cleanup_OnTermOnly(p) ==
  /\ holder[p] \notin {"dead", "leaving"}
  /\ \E a \in Actors : pc[a] = "killing" /\ pid[a] = p
  /\ pidfile' = NoPid
  /\ Become(p, "leaving")
  /\ UNCHANGED <<flock, unit, left, tick, gaveUp, killed>>

\* _cleanup, at the end of the sleep or on SIGTERM: remove the side file ...
Cleanup(p) ==
  /\ \/ holder[p] = "holding" /\ left[p] = 0
     \/ /\ holder[p] \notin {"dead", "leaving"}
        /\ \E a \in Actors : pc[a] = "killing" /\ pid[a] = p
  /\ pidfile' = NoPid
  /\ Become(p, "leaving")
  /\ UNCHANGED <<flock, unit, left, tick, gaveUp, killed>>

\* ... and exit, which drops the flock.
HolderExit(p) ==
  /\ holder[p] = "leaving"
  /\ flock' = Dropped({p})
  /\ Become(p, "dead")
  /\ UNCHANGED <<pidfile, unit, left, tick, gaveUp, killed>>

\* The holder alone is killed: out of memory, or SIGKILL by hand.
HolderKilled(p) ==
  /\ Alive(p)
  /\ flock' = Dropped({p})
  /\ Become(p, "dead")
  /\ killed' = TRUE
  /\ UNCHANGED <<pidfile, unit, left, tick, gaveUp>>

-----------------------------------------------------------------------------
(* release *)

Finish(a) ==
  /\ Goto(a, IF a = "headless" THEN "done" ELSE "idle")
  /\ pid' = [pid EXCEPT ![a] = NoPid]
  /\ sure' = [sure EXCEPT ![a] = FALSE]
  /\ age' = IF a = "live" THEN 0 ELSE age

\* No side file, or one that names no live process: it is removed.
ReleaseStale(a) ==
  /\ pc[a] = "ticking"
  /\ ~Alive(pidfile)
  /\ pidfile' = NoPid
  /\ Finish(a)
  /\ UNCHANGED <<flock, holder, unit, left, gaveUp, killed>>

\* SIGTERM to the process the side file names.
ReleaseTerm(a) ==
  /\ pc[a] = "ticking"
  /\ Alive(pidfile)
  /\ pid' = [pid EXCEPT ![a] = pidfile]
  /\ Goto(a, "killing")
  /\ UNCHANGED <<flock, pidfile, holder, unit, left, sure, age, gaveUp, killed>>

\* Mutant of ReleaseKill: release does not wait for the process to go.
ReleaseKill_NoWait(a) ==
  /\ pc[a] = "killing"
  /\ Goto(a, "removing")
  /\ UNCHANGED <<flock, pidfile, holder, unit, left, pid, sure, age, gaveUp, killed>>

\* It is gone, or three seconds have passed and it gets SIGKILL.
ReleaseKill(a) ==
  /\ pc[a] = "killing"
  /\ Become(pid[a], "dead")
  /\ flock' = Dropped({pid[a]})
  /\ Goto(a, "removing")
  /\ UNCHANGED <<pidfile, unit, left, pid, sure, age, gaveUp, killed>>

\* rm -f of the side file.
ReleaseRemove(a) ==
  /\ pc[a] = "removing"
  /\ pidfile' = NoPid
  /\ Finish(a)
  /\ UNCHANGED <<flock, holder, unit, left, gaveUp, killed>>

\* The agent forgets the last step of its protocol.
NoRelease(a) ==
  /\ pc[a] = "ticking"
  /\ Finish(a)
  /\ UNCHANGED <<flock, pidfile, holder, unit, left, gaveUp, killed>>

-----------------------------------------------------------------------------
(* The rest of the system. *)

OwnHolders(a) == {p \in Pids : Alive(p) /\ unit[p] = a}

\* The unit stops, restarts or times out: systemd kills all that runs in it.
Crash(a) ==
  /\ pc[a] # "idle" \/ OwnHolders(a) # {}
  /\ holder' = [p \in Pids |-> IF p \in OwnHolders(a) THEN "dead" ELSE holder[p]]
  /\ flock' = Dropped(OwnHolders(a) \cup (IF a = "headless" THEN {Floor} ELSE {}))
  /\ Goto(a, "idle")
  /\ pid' = [pid EXCEPT ![a] = NoPid]
  /\ sure' = [sure EXCEPT ![a] = FALSE]
  /\ age' = IF a = "live" THEN 0 ELSE age
  /\ killed' = (killed \/ OwnHolders(a) # {})
  /\ UNCHANGED <<pidfile, unit, left, gaveUp>>

\* Mutant of BackupStart: the floor does not wait for the lock to be free.
BackupStart_IgnoresLock ==
  /\ pc["headless"] = "idle"
  /\ flock' = Floor
  /\ UNCHANGED <<pidfile, holder, unit, left, tick, gaveUp, killed>>

\* run_backup_tick: flock -n, skip when it is held.
BackupStart ==
  /\ flock = Free
  /\ pc["headless"] = "idle"
  /\ flock' = Floor
  /\ UNCHANGED <<pidfile, holder, unit, left, tick, gaveUp, killed>>

\* The headless run is over, whatever it had done, and the flock is dropped.
BackupEnd ==
  /\ flock = Floor
  /\ flock' = Free
  /\ pc' = [pc EXCEPT !["headless"] = "idle"]
  /\ pid' = [pid EXCEPT !["headless"] = NoPid]
  /\ sure' = [sure EXCEPT !["headless"] = FALSE]
  /\ gaveUp' = (gaveUp \/ (pc["headless"] = "spawned" /\ Alive(pid["headless"])))
  /\ UNCHANGED <<pidfile, holder, unit, left, age, killed>>

(* A unit of time, long before the three seconds of acquire and release: the
   sleeps run down and the ticks get older. *)
Elapse ==
  /\ \A a \in Actors : pc[a] \notin {"acquire", "spawned", "killing", "removing"}
  /\ \A p \in Pids : holder[p] = "holding" => left[p] > 0
  /\ left' = [p \in Pids |-> IF holder[p] = "holding" THEN left[p] - 1 ELSE left[p]]
  /\ age' = IF pc["live"] = "ticking" /\ age < MaxHold THEN age + 1 ELSE age
  /\ UNCHANGED <<flock, pidfile, holder, unit, pc, pid, sure, gaveUp, killed>>

Acquire(a) == AcquireHeld(a) \/ AcquireSpawn(a) \/ AcquireConfirm(a) \/ AcquireGivesUp(a)
Release(a) == ReleaseStale(a) \/ ReleaseTerm(a) \/ ReleaseKill(a) \/ ReleaseRemove(a)
Holder(p) == TakeLock(p) \/ FailLock(p) \/ CreatePidfile(p) \/ WritePid(p)
             \/ Cleanup(p) \/ HolderExit(p)

Next ==
  \/ \E a \in Actors : TickStart(a) \/ Acquire(a) \/ Release(a) \/ NoRelease(a) \/ Crash(a)
  \/ \E p \in Pids : Holder(p) \/ HolderKilled(p)
  \/ BackupStart
  \/ BackupEnd
  \/ Elapse

Spec == Init /\ [][Next]_vars

(* The processes run and time passes.  No tick need ever release, begin or end. *)
Fairness ==
  /\ \A a \in Actors : WF_vars(Acquire(a)) /\ WF_vars(ReleaseKill(a) \/ ReleaseRemove(a))
  /\ \A p \in Pids : WF_vars(Holder(p))
  /\ SF_vars(Elapse)

FairSpec == Spec /\ Fairness

-----------------------------------------------------------------------------
(* Safety. *)

\* `status` never lies: a live process named by the side file holds the flock,
\* so a release kills nothing but the holder of the lock.
PidfileTruth == Alive(pidfile) => flock = pidfile

\* A live tick that started its own holder and saw its pid is guarded until the
\* holder's sleep is over: no release, backup tick or other holder takes the
\* lock away from it.
OwnGuardLasts ==
  /\ pc["live"] = "ticking"
  /\ sure["live"]
  /\ pid["live"] \in Pids
  /\ age < MaxHold
  /\ ~killed
  => flock = pid["live"]

\* Back-to-back ticks "renew/share the hold": a live tick that found the lock
\* held is guarded for as long as one that took it.
SharedGuardLasts ==
  pc["live"] = "ticking" /\ sure["live"] /\ age < MaxHold /\ ~killed =>
    flock \in Pids

\* A holder asleep on the lock can be found and released, unless an acquire
\* once ended before its own holder had started.
HolderVisible ==
  \A p \in Pids : holder[p] = "holding" /\ pidfile # p => gaveUp

\* acquire says that the lock is held only when it is: whatever holder the live
\* tick read about, its own or another's, has the flock at that moment, for no
\* side file outlives its holder unseen.
AcquireTellsTruth ==
  [][pc["live"] # "ticking" /\ pc'["live"] = "ticking" /\ sure'["live"] /\ ~killed =>
       flock \in Pids]_vars

\* A headless run that follows STEP G as a live tick does has nothing to release:
\* it never kills the holder of a live tick.
HeadlessKillsNobody == pc["headless"] \notin {"killing", "removing"}

(* The contract.  A live tick relies on the holder that it started and saw. *)

Relies ==
  /\ pc["live"] = "ticking"
  /\ sure["live"]
  /\ pid["live"] \in Pids
  /\ age < MaxHold
  /\ ~killed

Contract == INSTANCE LockContract WITH
  Holders <- Pids,
  Units <- {Floor},
  Nobody <- Free,
  owner <- flock,
  relied <- IF Relies THEN pid["live"] ELSE Free

\* Holders that start, sleep and are killed, side files and backup ticks show the
\* ticks nothing but the contract's lock.
ImplementsContract == Contract!Spec

(* Liveness. *)

\* The lock never wedges: a holder lets it go though nobody ever releases.
NeverWedged == \A p \in Pids : flock = p ~> flock # p

\* acquire never blocks the tick, whoever holds the lock.
AcquireReturns == \A a \in Actors : pc[a] = "acquire" ~> pc[a] \in {"ticking", "idle"}
=============================================================================
