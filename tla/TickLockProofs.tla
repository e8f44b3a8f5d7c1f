--------------------------- MODULE TickLockProofs ---------------------------
(* Theorems about TickLock, for any number of holder processes and any MaxHold. *)
EXTENDS TickLock, TLAPS

(* What ties the flock to the processes.  A holder has the flock from its
   flock() call to its exit; the side file never names a live process but one that
   is asleep on the lock; and whatever the headless tick does, it does inside a
   backup tick, which has the flock itself. *)

HoldersLock ==
  \A p \in Pids :
    /\ holder[p] \in {"locked", "writing", "holding"} => flock = p
    /\ flock = p => holder[p] \in {"locked", "writing", "holding", "leaving"}

FileNamesHolder == Alive(pidfile) => holder[pidfile] = "holding"

InsideFloor == pc["headless"] # "idle" => flock = Floor

KnowsPid == \A a \in Actors : pc[a] \in {"spawned", "killing"} => pid[a] \in Pids

LockInv == TypeOK /\ HoldersLock /\ FileNamesHolder /\ InsideFloor /\ KnowsPid

LEMMA InitLock == Init => LockInv
<1>1. Init => TypeOK
  <2>1. 0 \in 0 .. MaxHold
    BY LockAssumption
  <2>2. [p \in Pids |-> "live"] \in [Pids -> Actors]
    BY DEF Actors
  <2>. QED
    BY <2>1, <2>2 DEF Init, TypeOK, HolderStates, TickStates
<1>2. Init => HoldersLock /\ FileNamesHolder /\ InsideFloor /\ KnowsPid
  BY LockAssumption DEF Init, HoldersLock, FileNamesHolder, InsideFloor, KnowsPid, Alive,
    Actors
<1>. QED
  BY <1>1, <1>2 DEF LockInv

LEMMA NextType == TypeOK /\ KnowsPid /\ [Next]_vars => TypeOK'
<1>. SUFFICES ASSUME TypeOK, KnowsPid, [Next]_vars PROVE TypeOK'
  OBVIOUS
<1>. USE LockAssumption DEF TypeOK, Actors, HolderStates, TickStates, Alive
<1>1. ASSUME NEW a \in Actors, TickStart(a)
     PROVE  TypeOK'
  BY <1>1 DEF TickStart, Goto
<1>2. ASSUME NEW a \in Actors, AcquireHeld(a)
     PROVE  TypeOK'
  BY <1>2 DEF AcquireHeld, Begin, Goto
<1>3. ASSUME NEW a \in Actors, AcquireSpawn(a)
     PROVE  TypeOK'
  BY <1>3 DEF AcquireSpawn, Become, Goto
<1>4. ASSUME NEW a \in Actors, AcquireConfirm(a)
     PROVE  TypeOK'
  BY <1>4 DEF AcquireConfirm, Begin, Goto
<1>5. ASSUME NEW a \in Actors, AcquireGivesUp(a)
     PROVE  TypeOK'
  BY <1>5 DEF AcquireGivesUp, Begin, Goto
<1>6. ASSUME NEW p \in Pids, TakeLock(p)
     PROVE  TypeOK'
  BY <1>6 DEF TakeLock, Become, tick
<1>7. ASSUME NEW p \in Pids, FailLock(p)
     PROVE  TypeOK'
  BY <1>7 DEF FailLock, Become, tick
<1>8. ASSUME NEW p \in Pids, CreatePidfile(p)
     PROVE  TypeOK'
  BY <1>8 DEF CreatePidfile, Become, tick
<1>9. ASSUME NEW p \in Pids, WritePid(p)
     PROVE  TypeOK'
  BY <1>9 DEF WritePid, Become, tick
<1>10. ASSUME NEW p \in Pids, Cleanup(p)
     PROVE  TypeOK'
  BY <1>10 DEF Cleanup, Become, tick
<1>11. ASSUME NEW p \in Pids, HolderExit(p)
     PROVE  TypeOK'
  BY <1>11 DEF HolderExit, Become, Dropped, tick
<1>12. ASSUME NEW p \in Pids, HolderKilled(p)
     PROVE  TypeOK'
  BY <1>12 DEF HolderKilled, Become, Dropped, tick
<1>13. ASSUME NEW a \in Actors, ReleaseStale(a)
     PROVE  TypeOK'
  BY <1>13 DEF ReleaseStale, Finish, Goto
<1>14. ASSUME NEW a \in Actors, ReleaseTerm(a)
     PROVE  TypeOK'
  BY <1>14 DEF ReleaseTerm, Goto
<1>15. ASSUME NEW a \in Actors, ReleaseKill(a)
     PROVE  TypeOK'
  BY <1>15 DEF ReleaseKill, Become, Dropped, Goto, KnowsPid
<1>16. ASSUME NEW a \in Actors, ReleaseRemove(a)
     PROVE  TypeOK'
  BY <1>16 DEF ReleaseRemove, Finish, Goto
<1>17. ASSUME NEW a \in Actors, NoRelease(a)
     PROVE  TypeOK'
  BY <1>17 DEF NoRelease, Finish, Goto
<1>18. ASSUME NEW a \in Actors, Crash(a)
     PROVE  TypeOK'
  BY <1>18 DEF Crash, Dropped, OwnHolders, Goto
<1>19. CASE BackupStart
  BY <1>19 DEF BackupStart, tick
<1>20. CASE BackupEnd
  BY <1>20 DEF BackupEnd
<1>21. CASE Elapse
  BY <1>21 DEF Elapse
<1>22. CASE UNCHANGED vars
  BY <1>22 DEF vars
<1>. QED
  BY <1>1, <1>2, <1>3, <1>4, <1>5, <1>6, <1>7, <1>8, <1>9, <1>10, <1>11, <1>12,
    <1>13, <1>14, <1>15, <1>16, <1>17, <1>18, <1>19, <1>20, <1>21, <1>22 DEF Next,
    Acquire, Release, Holder

LEMMA NextLock == LockInv /\ [Next]_vars => LockInv'
<1>. SUFFICES ASSUME LockInv, [Next]_vars
              PROVE  HoldersLock' /\ FileNamesHolder' /\ InsideFloor' /\ KnowsPid'
  BY NextType DEF LockInv
<1>. USE LockAssumption
     DEF LockInv, TypeOK, Actors, HoldersLock, FileNamesHolder, InsideFloor, KnowsPid,
         Alive
<1>1. ASSUME NEW a \in Actors, TickStart(a)
     PROVE  HoldersLock' /\ FileNamesHolder' /\ InsideFloor' /\ KnowsPid'
  BY <1>1 DEF TickStart, Goto
<1>2. ASSUME NEW a \in Actors, AcquireHeld(a)
     PROVE  HoldersLock' /\ FileNamesHolder' /\ InsideFloor' /\ KnowsPid'
  BY <1>2 DEF AcquireHeld, Begin, Goto
<1>3. ASSUME NEW a \in Actors, AcquireSpawn(a)
     PROVE  HoldersLock' /\ FileNamesHolder' /\ InsideFloor' /\ KnowsPid'
  BY <1>3 DEF AcquireSpawn, Become, Goto
<1>4. ASSUME NEW a \in Actors, AcquireConfirm(a)
     PROVE  HoldersLock' /\ FileNamesHolder' /\ InsideFloor' /\ KnowsPid'
  BY <1>4 DEF AcquireConfirm, Begin, Goto
<1>5. ASSUME NEW a \in Actors, AcquireGivesUp(a)
     PROVE  HoldersLock' /\ FileNamesHolder' /\ InsideFloor' /\ KnowsPid'
  BY <1>5 DEF AcquireGivesUp, Begin, Goto
<1>6. ASSUME NEW p \in Pids, TakeLock(p)
     PROVE  HoldersLock' /\ FileNamesHolder' /\ InsideFloor' /\ KnowsPid'
  BY <1>6 DEF TakeLock, Become, tick
<1>7. ASSUME NEW p \in Pids, FailLock(p)
     PROVE  HoldersLock' /\ FileNamesHolder' /\ InsideFloor' /\ KnowsPid'
  BY <1>7 DEF FailLock, Become, tick
<1>8. ASSUME NEW p \in Pids, CreatePidfile(p)
     PROVE  HoldersLock' /\ FileNamesHolder' /\ InsideFloor' /\ KnowsPid'
  BY <1>8 DEF CreatePidfile, Become, tick
<1>9. ASSUME NEW p \in Pids, WritePid(p)
     PROVE  HoldersLock' /\ FileNamesHolder' /\ InsideFloor' /\ KnowsPid'
  BY <1>9 DEF WritePid, Become, tick
<1>10. ASSUME NEW p \in Pids, Cleanup(p)
     PROVE  HoldersLock' /\ FileNamesHolder' /\ InsideFloor' /\ KnowsPid'
  BY <1>10 DEF Cleanup, Become, tick
<1>11. ASSUME NEW p \in Pids, HolderExit(p)
     PROVE  HoldersLock' /\ FileNamesHolder' /\ InsideFloor' /\ KnowsPid'
  BY <1>11 DEF HolderExit, Become, Dropped, tick
<1>12. ASSUME NEW p \in Pids, HolderKilled(p)
     PROVE  HoldersLock' /\ FileNamesHolder' /\ InsideFloor' /\ KnowsPid'
  BY <1>12 DEF HolderKilled, Become, Dropped, tick
<1>13. ASSUME NEW a \in Actors, ReleaseStale(a)
     PROVE  HoldersLock' /\ FileNamesHolder' /\ InsideFloor' /\ KnowsPid'
  BY <1>13 DEF ReleaseStale, Finish, Goto
<1>14. ASSUME NEW a \in Actors, ReleaseTerm(a)
     PROVE  HoldersLock' /\ FileNamesHolder' /\ InsideFloor' /\ KnowsPid'
  BY <1>14 DEF ReleaseTerm, Goto
<1>15. ASSUME NEW a \in Actors, ReleaseKill(a)
     PROVE  HoldersLock' /\ FileNamesHolder' /\ InsideFloor' /\ KnowsPid'
  BY <1>15 DEF ReleaseKill, Become, Dropped, Goto
<1>16. ASSUME NEW a \in Actors, ReleaseRemove(a)
     PROVE  HoldersLock' /\ FileNamesHolder' /\ InsideFloor' /\ KnowsPid'
  BY <1>16 DEF ReleaseRemove, Finish, Goto
<1>17. ASSUME NEW a \in Actors, NoRelease(a)
     PROVE  HoldersLock' /\ FileNamesHolder' /\ InsideFloor' /\ KnowsPid'
  BY <1>17 DEF NoRelease, Finish, Goto
<1>18. ASSUME NEW a \in Actors, Crash(a)
     PROVE  HoldersLock' /\ FileNamesHolder' /\ InsideFloor' /\ KnowsPid'
  BY <1>18 DEF Crash, Dropped, OwnHolders, Goto
<1>19. CASE BackupStart
  BY <1>19 DEF BackupStart, tick
<1>20. CASE BackupEnd
  BY <1>20 DEF BackupEnd
<1>21. CASE Elapse
  BY <1>21 DEF Elapse
<1>22. CASE UNCHANGED vars
  BY <1>22 DEF vars
<1>. QED
  BY <1>1, <1>2, <1>3, <1>4, <1>5, <1>6, <1>7, <1>8, <1>9, <1>10, <1>11, <1>12,
    <1>13, <1>14, <1>15, <1>16, <1>17, <1>18, <1>19, <1>20, <1>21, <1>22 DEF Next,
    Acquire, Release, Holder

LEMMA LockInvariant == Spec => []LockInv
BY InitLock, NextLock, PTL DEF Spec

\* The lock, the side file, the holders and the ticks have their types in every
\* reachable state.
THEOREM Typing == Spec => []TypeOK
BY LockInvariant, PTL DEF LockInv

\* `status` never lies: a live process that the side file names has the flock, so a
\* release kills nothing but the holder of the lock.
THEOREM Truth == Spec => []PidfileTruth
<1>1. LockInv => PidfileTruth
  BY DEF LockInv, HoldersLock, FileNamesHolder, PidfileTruth, Alive
<1>. QED
  BY <1>1, LockInvariant, PTL

-----------------------------------------------------------------------------
(* A tick keeps the lock it took. *)

(* The holder that a live tick started sleeps at least as long as the tick can be
   young: no time passes between the holder's WritePid and the tick's confirmation,
   and later both run down together. *)
SleepsLongEnough ==
  /\ pc["live"] = "spawned" /\ ~killed =>
       /\ holder[pid["live"]] = "holding" => left[pid["live"]] = MaxHold
       /\ pidfile = pid["live"] => holder[pidfile] = "holding"
  /\ (/\ pc["live"] = "ticking" /\ sure["live"] /\ pid["live"] \in Pids
      /\ ~killed /\ age < MaxHold)
     => holder[pid["live"]] = "holding" /\ age + left[pid["live"]] >= MaxHold

LEMMA NextSleeps == LockInv /\ SleepsLongEnough /\ [Next]_vars => SleepsLongEnough'
<1>. SUFFICES ASSUME LockInv, SleepsLongEnough, [Next]_vars PROVE SleepsLongEnough'
  OBVIOUS
<1>. USE LockAssumption
     DEF LockInv, TypeOK, Actors, HoldersLock, InsideFloor, KnowsPid, SleepsLongEnough,
         Alive
<1>1. ASSUME NEW a \in Actors, TickStart(a)
     PROVE  SleepsLongEnough'
  BY <1>1 DEF TickStart, Goto
<1>2. ASSUME NEW a \in Actors, AcquireHeld(a)
     PROVE  SleepsLongEnough'
  BY <1>2 DEF AcquireHeld, Begin, Goto
<1>3. ASSUME NEW a \in Actors, AcquireSpawn(a)
     PROVE  SleepsLongEnough'
  BY <1>3 DEF AcquireSpawn, Become, Goto
<1>4. ASSUME NEW a \in Actors, AcquireConfirm(a)
     PROVE  SleepsLongEnough'
  BY <1>4 DEF AcquireConfirm, Begin, Goto
<1>5. ASSUME NEW a \in Actors, AcquireGivesUp(a)
     PROVE  SleepsLongEnough'
  BY <1>5 DEF AcquireGivesUp, Begin, Goto
<1>6. ASSUME NEW p \in Pids, TakeLock(p)
     PROVE  SleepsLongEnough'
  BY <1>6 DEF TakeLock, Become, tick
<1>7. ASSUME NEW p \in Pids, FailLock(p)
     PROVE  SleepsLongEnough'
  BY <1>7 DEF FailLock, Become, tick
<1>8. ASSUME NEW p \in Pids, CreatePidfile(p)
     PROVE  SleepsLongEnough'
  BY <1>8 DEF CreatePidfile, Become, tick
<1>9. ASSUME NEW p \in Pids, WritePid(p)
     PROVE  SleepsLongEnough'
  BY <1>9 DEF WritePid, Become, tick
<1>10. ASSUME NEW p \in Pids, Cleanup(p)
     PROVE  SleepsLongEnough'
  BY <1>10 DEF Cleanup, Become, tick
<1>11. ASSUME NEW p \in Pids, HolderExit(p)
     PROVE  SleepsLongEnough'
  BY <1>11 DEF HolderExit, Become, Dropped, tick
<1>12. ASSUME NEW p \in Pids, HolderKilled(p)
     PROVE  SleepsLongEnough'
  BY <1>12 DEF HolderKilled, Become, Dropped, tick
<1>13. ASSUME NEW a \in Actors, ReleaseStale(a)
     PROVE  SleepsLongEnough'
  BY <1>13 DEF ReleaseStale, Finish, Goto
<1>14. ASSUME NEW a \in Actors, ReleaseTerm(a)
     PROVE  SleepsLongEnough'
  BY <1>14 DEF ReleaseTerm, Goto
<1>15. ASSUME NEW a \in Actors, ReleaseKill(a)
     PROVE  SleepsLongEnough'
  BY <1>15 DEF ReleaseKill, Become, Dropped, Goto
<1>16. ASSUME NEW a \in Actors, ReleaseRemove(a)
     PROVE  SleepsLongEnough'
  BY <1>16 DEF ReleaseRemove, Finish, Goto
<1>17. ASSUME NEW a \in Actors, NoRelease(a)
     PROVE  SleepsLongEnough'
  BY <1>17 DEF NoRelease, Finish, Goto
<1>18. ASSUME NEW a \in Actors, Crash(a)
     PROVE  SleepsLongEnough'
  BY <1>18 DEF Crash, Dropped, OwnHolders, Goto
<1>19. CASE BackupStart
  BY <1>19 DEF BackupStart, tick
<1>20. CASE BackupEnd
  BY <1>20 DEF BackupEnd
<1>21. CASE Elapse
  BY <1>21 DEF Elapse
<1>22. CASE UNCHANGED vars
  BY <1>22 DEF vars
<1>. QED
  BY <1>1, <1>2, <1>3, <1>4, <1>5, <1>6, <1>7, <1>8, <1>9, <1>10, <1>11, <1>12,
    <1>13, <1>14, <1>15, <1>16, <1>17, <1>18, <1>19, <1>20, <1>21, <1>22 DEF Next,
    Acquire, Release, Holder

\* A live tick that started its own holder and saw its pid has the lock until the
\* holder's sleep is over: no release, backup tick or other holder takes it away.
THEOREM GuardLasts == Spec => []OwnGuardLasts
<1>1. Init => SleepsLongEnough
  BY DEF Init, SleepsLongEnough, Actors
<1>2. LockInv /\ SleepsLongEnough => OwnGuardLasts
  BY DEF LockInv, HoldersLock, SleepsLongEnough, OwnGuardLasts
<1>. QED
  BY <1>1, <1>2, NextSleeps, LockInvariant, PTL DEF Spec

-----------------------------------------------------------------------------
(* A holder asleep on the lock can be found. *)

Fresh(p) == holder[p] \in {"starting", "locked", "writing"}

(* As long as no acquire has ended too early, a holder on its way to the lock has
   the tick that started it waiting for it, in its own unit; and nothing but that holder
   touches the side file. *)
StarterWaits ==
  \A p \in Pids : Fresh(p) =>
    \E a \in Actors : pc[a] = "spawned" /\ pid[a] = p /\ unit[p] = a

FileIsOurs == \A a \in Actors : pc[a] = "spawned" => pidfile \in {NoPid, Blank, pid[a]}

FileFollows ==
  \A p \in Pids :
    /\ holder[p] = "writing" => pidfile = Blank
    /\ holder[p] = "holding" => pidfile = p

KillsTheHolder ==
  /\ pc["live"] = "killing" => flock \notin Pids \ {pid["live"]}
  /\ pc["live"] = "removing" => flock \notin Pids

VisibleInv == ~gaveUp => StarterWaits /\ FileIsOurs /\ FileFollows /\ KillsTheHolder

LEMMA NextStarter == LockInv /\ VisibleInv /\ [Next]_vars => (~gaveUp' => StarterWaits')
<1>. SUFFICES ASSUME LockInv, VisibleInv, [Next]_vars, ~gaveUp' PROVE StarterWaits'
  OBVIOUS
<1>. USE LockAssumption
     DEF LockInv, TypeOK, Actors, HoldersLock, InsideFloor, FileNamesHolder, VisibleInv,
         StarterWaits, FileIsOurs, Fresh, Alive
<1>1. ASSUME NEW a \in Actors, TickStart(a)
     PROVE  StarterWaits'
  BY <1>1 DEF TickStart, Goto
<1>2. ASSUME NEW a \in Actors, AcquireHeld(a)
     PROVE  StarterWaits'
  BY <1>2 DEF AcquireHeld, Begin, Goto
<1>3. ASSUME NEW a \in Actors, AcquireSpawn(a)
     PROVE  StarterWaits'
  BY <1>3 DEF AcquireSpawn, Become, Goto
<1>4. ASSUME NEW a \in Actors, AcquireConfirm(a)
     PROVE  StarterWaits'
  BY <1>4 DEF AcquireConfirm, Begin, Goto
<1>5. ASSUME NEW a \in Actors, AcquireGivesUp(a)
     PROVE  StarterWaits'
  <2>1. ~gaveUp /\ ~Alive(pid[a])
    BY <1>5 DEF AcquireGivesUp
  <2>2. SUFFICES ASSUME NEW q \in Pids, Fresh(q)'
                 PROVE  \E b \in Actors : pc'[b] = "spawned" /\ pid'[b] = q /\ unit'[q] = b
    BY DEF StarterWaits
  <2>3. Fresh(q) /\ UNCHANGED <<holder, unit>>
    BY <1>5, <2>2 DEF AcquireGivesUp
  <2>4. PICK b \in Actors : pc[b] = "spawned" /\ pid[b] = q /\ unit[q] = b
    BY <2>1, <2>3
  <2>5. b # a
    BY <2>1, <2>3, <2>4
  <2>6. pc'[b] = pc[b] /\ pid'[b] = pid[b]
    BY <1>5, <2>5 DEF AcquireGivesUp, Begin, Goto
  <2>. QED
    BY <2>3, <2>4, <2>6
<1>6. ASSUME NEW p \in Pids, TakeLock(p)
     PROVE  StarterWaits'
  BY <1>6 DEF TakeLock, Become, tick
<1>7. ASSUME NEW p \in Pids, FailLock(p)
     PROVE  StarterWaits'
  BY <1>7 DEF FailLock, Become, tick
<1>8. ASSUME NEW p \in Pids, CreatePidfile(p)
     PROVE  StarterWaits'
  BY <1>8 DEF CreatePidfile, Become, tick
<1>9. ASSUME NEW p \in Pids, WritePid(p)
     PROVE  StarterWaits'
  BY <1>9 DEF WritePid, Become, tick
<1>10. ASSUME NEW p \in Pids, Cleanup(p)
     PROVE  StarterWaits'
  BY <1>10 DEF Cleanup, Become, tick
<1>11. ASSUME NEW p \in Pids, HolderExit(p)
     PROVE  StarterWaits'
  BY <1>11 DEF HolderExit, Become, Dropped, tick
<1>12. ASSUME NEW p \in Pids, HolderKilled(p)
     PROVE  StarterWaits'
  BY <1>12 DEF HolderKilled, Become, Dropped, tick
<1>13. ASSUME NEW a \in Actors, ReleaseStale(a)
     PROVE  StarterWaits'
  BY <1>13 DEF ReleaseStale, Finish, Goto
<1>14. ASSUME NEW a \in Actors, ReleaseTerm(a)
     PROVE  StarterWaits'
  BY <1>14 DEF ReleaseTerm, Goto
<1>15. ASSUME NEW a \in Actors, ReleaseKill(a)
     PROVE  StarterWaits'
  BY <1>15 DEF ReleaseKill, Become, Dropped, Goto
<1>16. ASSUME NEW a \in Actors, ReleaseRemove(a)
     PROVE  StarterWaits'
  BY <1>16 DEF ReleaseRemove, Finish, Goto
<1>17. ASSUME NEW a \in Actors, NoRelease(a)
     PROVE  StarterWaits'
  BY <1>17 DEF NoRelease, Finish, Goto
<1>18. ASSUME NEW a \in Actors, Crash(a)
     PROVE  StarterWaits'
  BY <1>18 DEF Crash, Dropped, OwnHolders, Goto
<1>19. CASE BackupStart
  BY <1>19 DEF BackupStart, tick
<1>20. CASE BackupEnd
  <2>1. ~gaveUp /\ ~(pc["headless"] = "spawned" /\ Alive(pid["headless"]))
    BY <1>20 DEF BackupEnd
  <2>2. SUFFICES ASSUME NEW q \in Pids, Fresh(q)'
                 PROVE  \E b \in Actors : pc'[b] = "spawned" /\ pid'[b] = q /\ unit'[q] = b
    BY DEF StarterWaits
  <2>3. Fresh(q) /\ UNCHANGED <<holder, unit>>
    BY <1>20, <2>2 DEF BackupEnd
  <2>4. PICK b \in Actors : pc[b] = "spawned" /\ pid[b] = q /\ unit[q] = b
    BY <2>1, <2>3
  <2>5. b # "headless"
    BY <2>1, <2>3, <2>4
  <2>6. pc'[b] = pc[b] /\ pid'[b] = pid[b]
    BY <1>20, <2>5 DEF BackupEnd
  <2>. QED
    BY <2>3, <2>4, <2>6
<1>21. CASE Elapse
  BY <1>21 DEF Elapse
<1>22. CASE UNCHANGED vars
  BY <1>22 DEF vars
<1>. QED
  BY <1>1, <1>2, <1>3, <1>4, <1>5, <1>6, <1>7, <1>8, <1>9, <1>10, <1>11, <1>12,
    <1>13, <1>14, <1>15, <1>16, <1>17, <1>18, <1>19, <1>20, <1>21, <1>22 DEF Next,
    Acquire, Release, Holder

LEMMA NextFile ==
  LockInv /\ VisibleInv /\ [Next]_vars => (~gaveUp' => FileIsOurs' /\ FileFollows')
<1>. SUFFICES ASSUME LockInv, VisibleInv, [Next]_vars, ~gaveUp'
              PROVE  FileIsOurs' /\ FileFollows'
  OBVIOUS
<1>. USE LockAssumption
     DEF LockInv, TypeOK, Actors, HoldersLock, InsideFloor, VisibleInv, StarterWaits,
         FileIsOurs, FileFollows, KillsTheHolder, Fresh, Alive
<1>1. ASSUME NEW a \in Actors, TickStart(a)
     PROVE  FileIsOurs' /\ FileFollows'
  BY <1>1 DEF TickStart, Goto
<1>2. ASSUME NEW a \in Actors, AcquireHeld(a)
     PROVE  FileIsOurs' /\ FileFollows'
  BY <1>2 DEF AcquireHeld, Begin, Goto
<1>3. ASSUME NEW a \in Actors, AcquireSpawn(a)
     PROVE  FileIsOurs' /\ FileFollows'
  BY <1>3 DEF AcquireSpawn, Become, Goto
<1>4. ASSUME NEW a \in Actors, AcquireConfirm(a)
     PROVE  FileIsOurs' /\ FileFollows'
  BY <1>4 DEF AcquireConfirm, Begin, Goto
<1>5. ASSUME NEW a \in Actors, AcquireGivesUp(a)
     PROVE  FileIsOurs' /\ FileFollows'
  BY <1>5 DEF AcquireGivesUp, Begin, Goto
<1>6. ASSUME NEW p \in Pids, TakeLock(p)
     PROVE  FileIsOurs' /\ FileFollows'
  BY <1>6 DEF TakeLock, Become, tick
<1>7. ASSUME NEW p \in Pids, FailLock(p)
     PROVE  FileIsOurs' /\ FileFollows'
  BY <1>7 DEF FailLock, Become, tick
<1>8. ASSUME NEW p \in Pids, CreatePidfile(p)
     PROVE  FileIsOurs' /\ FileFollows'
  BY <1>8 DEF CreatePidfile, Become, tick
<1>9. ASSUME NEW p \in Pids, WritePid(p)
     PROVE  FileIsOurs' /\ FileFollows'
  BY <1>9 DEF WritePid, Become, tick
<1>10. ASSUME NEW p \in Pids, Cleanup(p)
     PROVE  FileIsOurs' /\ FileFollows'
  BY <1>10 DEF Cleanup, Become, tick
<1>11. ASSUME NEW p \in Pids, HolderExit(p)
     PROVE  FileIsOurs' /\ FileFollows'
  BY <1>11 DEF HolderExit, Become, Dropped, tick
<1>12. ASSUME NEW p \in Pids, HolderKilled(p)
     PROVE  FileIsOurs' /\ FileFollows'
  BY <1>12 DEF HolderKilled, Become, Dropped, tick
<1>13. ASSUME NEW a \in Actors, ReleaseStale(a)
     PROVE  FileIsOurs' /\ FileFollows'
  BY <1>13 DEF ReleaseStale, Finish, Goto
<1>14. ASSUME NEW a \in Actors, ReleaseTerm(a)
     PROVE  FileIsOurs' /\ FileFollows'
  BY <1>14 DEF ReleaseTerm, Goto
<1>15. ASSUME NEW a \in Actors, ReleaseKill(a)
     PROVE  FileIsOurs' /\ FileFollows'
  BY <1>15 DEF ReleaseKill, Become, Dropped, Goto
<1>16. ASSUME NEW a \in Actors, ReleaseRemove(a)
     PROVE  FileIsOurs' /\ FileFollows'
  BY <1>16 DEF ReleaseRemove, Finish, Goto
<1>17. ASSUME NEW a \in Actors, NoRelease(a)
     PROVE  FileIsOurs' /\ FileFollows'
  BY <1>17 DEF NoRelease, Finish, Goto
<1>18. ASSUME NEW a \in Actors, Crash(a)
     PROVE  FileIsOurs' /\ FileFollows'
  BY <1>18 DEF Crash, Dropped, OwnHolders, Goto
<1>19. CASE BackupStart
  BY <1>19 DEF BackupStart, tick
<1>20. CASE BackupEnd
  BY <1>20 DEF BackupEnd
<1>21. CASE Elapse
  BY <1>21 DEF Elapse
<1>22. CASE UNCHANGED vars
  BY <1>22 DEF vars
<1>. QED
  BY <1>1, <1>2, <1>3, <1>4, <1>5, <1>6, <1>7, <1>8, <1>9, <1>10, <1>11, <1>12,
    <1>13, <1>14, <1>15, <1>16, <1>17, <1>18, <1>19, <1>20, <1>21, <1>22 DEF Next,
    Acquire, Release, Holder

LEMMA NextKills == LockInv /\ VisibleInv /\ [Next]_vars => (~gaveUp' => KillsTheHolder')
<1>. SUFFICES ASSUME LockInv, VisibleInv, [Next]_vars, ~gaveUp' PROVE KillsTheHolder'
  OBVIOUS
<1>. USE LockAssumption
     DEF LockInv, TypeOK, Actors, HoldersLock, InsideFloor, FileNamesHolder, VisibleInv,
         StarterWaits, FileFollows, KillsTheHolder, Fresh, Alive
<1>1. ASSUME NEW a \in Actors, TickStart(a)
     PROVE  KillsTheHolder'
  BY <1>1 DEF TickStart, Goto
<1>2. ASSUME NEW a \in Actors, AcquireHeld(a)
     PROVE  KillsTheHolder'
  BY <1>2 DEF AcquireHeld, Begin, Goto
<1>3. ASSUME NEW a \in Actors, AcquireSpawn(a)
     PROVE  KillsTheHolder'
  BY <1>3 DEF AcquireSpawn, Become, Goto
<1>4. ASSUME NEW a \in Actors, AcquireConfirm(a)
     PROVE  KillsTheHolder'
  BY <1>4 DEF AcquireConfirm, Begin, Goto
<1>5. ASSUME NEW a \in Actors, AcquireGivesUp(a)
     PROVE  KillsTheHolder'
  BY <1>5 DEF AcquireGivesUp, Begin, Goto
<1>6. ASSUME NEW p \in Pids, TakeLock(p)
     PROVE  KillsTheHolder'
  BY <1>6 DEF TakeLock, Become, tick
<1>7. ASSUME NEW p \in Pids, FailLock(p)
     PROVE  KillsTheHolder'
  BY <1>7 DEF FailLock, Become, tick
<1>8. ASSUME NEW p \in Pids, CreatePidfile(p)
     PROVE  KillsTheHolder'
  BY <1>8 DEF CreatePidfile, Become, tick
<1>9. ASSUME NEW p \in Pids, WritePid(p)
     PROVE  KillsTheHolder'
  BY <1>9 DEF WritePid, Become, tick
<1>10. ASSUME NEW p \in Pids, Cleanup(p)
     PROVE  KillsTheHolder'
  BY <1>10 DEF Cleanup, Become, tick
<1>11. ASSUME NEW p \in Pids, HolderExit(p)
     PROVE  KillsTheHolder'
  BY <1>11 DEF HolderExit, Become, Dropped, tick
<1>12. ASSUME NEW p \in Pids, HolderKilled(p)
     PROVE  KillsTheHolder'
  BY <1>12 DEF HolderKilled, Become, Dropped, tick
<1>13. ASSUME NEW a \in Actors, ReleaseStale(a)
     PROVE  KillsTheHolder'
  BY <1>13 DEF ReleaseStale, Finish, Goto
<1>14. ASSUME NEW a \in Actors, ReleaseTerm(a)
     PROVE  KillsTheHolder'
  BY <1>14 DEF ReleaseTerm, Goto
<1>15. ASSUME NEW a \in Actors, ReleaseKill(a)
     PROVE  KillsTheHolder'
  BY <1>15 DEF ReleaseKill, Become, Dropped, Goto
<1>16. ASSUME NEW a \in Actors, ReleaseRemove(a)
     PROVE  KillsTheHolder'
  BY <1>16 DEF ReleaseRemove, Finish, Goto
<1>17. ASSUME NEW a \in Actors, NoRelease(a)
     PROVE  KillsTheHolder'
  BY <1>17 DEF NoRelease, Finish, Goto
<1>18. ASSUME NEW a \in Actors, Crash(a)
     PROVE  KillsTheHolder'
  BY <1>18 DEF Crash, Dropped, OwnHolders, Goto
<1>19. CASE BackupStart
  BY <1>19 DEF BackupStart, tick
<1>20. CASE BackupEnd
  BY <1>20 DEF BackupEnd
<1>21. CASE Elapse
  BY <1>21 DEF Elapse
<1>22. CASE UNCHANGED vars
  BY <1>22 DEF vars
<1>. QED
  BY <1>1, <1>2, <1>3, <1>4, <1>5, <1>6, <1>7, <1>8, <1>9, <1>10, <1>11, <1>12,
    <1>13, <1>14, <1>15, <1>16, <1>17, <1>18, <1>19, <1>20, <1>21, <1>22 DEF Next,
    Acquire, Release, Holder

\* A holder that is asleep on the lock is named by the side file, so that status and
\* release find it, unless an acquire once ended before its own holder had started.
THEOREM Visible == Spec => []HolderVisible
<1>1. Init => VisibleInv
  BY DEF Init, VisibleInv, StarterWaits, FileIsOurs, FileFollows, KillsTheHolder, Fresh,
    Actors
<1>2. LockInv /\ VisibleInv /\ [Next]_vars => VisibleInv'
  BY NextStarter, NextFile, NextKills DEF VisibleInv
<1>3. LockInv /\ VisibleInv => HolderVisible
  BY DEF LockInv, TypeOK, VisibleInv, FileFollows, HolderVisible
<1>. QED
  BY <1>1, <1>2, <1>3, LockInvariant, PTL DEF Spec

-----------------------------------------------------------------------------
(* What acquire and release may trust. *)

(* A headless run is inside a backup tick, which has the flock; so the side file
   names nobody alive, and its release finds nothing to kill. *)
LEMMA NextSpares == LockInv /\ HeadlessKillsNobody /\ [Next]_vars => HeadlessKillsNobody'
<1>. SUFFICES ASSUME LockInv, HeadlessKillsNobody, [Next]_vars
              PROVE  HeadlessKillsNobody'
  OBVIOUS
<1>. USE DEF LockInv, TypeOK, Actors, HeadlessKillsNobody
<1>1. ASSUME NEW a \in Actors, ReleaseTerm(a)
      PROVE  HeadlessKillsNobody'
  <2>1. flock \in Pids /\ pc[a] = "ticking"
    BY <1>1 DEF ReleaseTerm, Alive, HoldersLock, FileNamesHolder
  <2>2. a # "headless"
    BY <2>1, LockAssumption DEF InsideFloor
  <2>. QED
    BY <1>1, <2>2 DEF ReleaseTerm, Goto
<1>2. ASSUME NEW a \in Actors, TickStart(a) \/ Acquire(a) \/ Crash(a) \/ NoRelease(a)
      PROVE  HeadlessKillsNobody'
  BY <1>2 DEF TickStart, Acquire, AcquireHeld, AcquireSpawn, AcquireConfirm,
    AcquireGivesUp, Begin, Crash, NoRelease, Finish, Goto
<1>3. ASSUME NEW a \in Actors, ReleaseStale(a) \/ ReleaseKill(a) \/ ReleaseRemove(a)
      PROVE  HeadlessKillsNobody'
  BY <1>3 DEF ReleaseStale, ReleaseKill, ReleaseRemove, Finish, Goto
<1>4. ASSUME NEW p \in Pids, Holder(p) \/ HolderKilled(p)
      PROVE  HeadlessKillsNobody'
  BY <1>4 DEF Holder, TakeLock, FailLock, CreatePidfile, WritePid, Cleanup, HolderExit,
    HolderKilled, tick
<1>5. CASE BackupStart \/ BackupEnd \/ Elapse \/ UNCHANGED vars
  BY <1>5 DEF BackupStart, BackupEnd, Elapse, tick, vars
<1>. QED
  BY <1>1, <1>2, <1>3, <1>4, <1>5 DEF Next, Release

\* A headless run that follows the protocol of a live tick to its last step never
\* kills the holder of a live tick.
THEOREM HeadlessSpares == Spec => []HeadlessKillsNobody
<1>1. Init => HeadlessKillsNobody
  BY DEF Init, HeadlessKillsNobody, Actors
<1>. QED
  BY <1>1, NextSpares, LockInvariant, PTL DEF Spec

(* While a live tick waits for its holder, a pid in the side file is that of a
   process asleep on the lock, unless the system has killed one. *)
PidIsHolder ==
  pc["live"] = "spawned" /\ ~killed /\ pidfile \in Pids => holder[pidfile] = "holding"

LEMMA NextPid ==
  LockInv /\ HeadlessKillsNobody /\ PidIsHolder /\ [Next]_vars => PidIsHolder'
<1>. SUFFICES ASSUME LockInv, HeadlessKillsNobody, PidIsHolder, [Next]_vars
              PROVE  PidIsHolder'
  OBVIOUS
<1>. USE LockAssumption DEF LockInv, TypeOK, Actors, PidIsHolder, Alive
<1>1. ASSUME NEW a \in Actors, TickStart(a) \/ AcquireHeld(a) \/ AcquireConfirm(a)
                                \/ AcquireGivesUp(a) \/ ReleaseTerm(a) \/ NoRelease(a)
      PROVE  PidIsHolder'
  BY <1>1 DEF TickStart, AcquireHeld, AcquireConfirm, AcquireGivesUp, ReleaseTerm,
    NoRelease, Begin, Finish, Goto
<1>2. ASSUME NEW a \in Actors, AcquireSpawn(a) \/ ReleaseStale(a) \/ ReleaseRemove(a)
      PROVE  PidIsHolder'
  BY <1>2 DEF AcquireSpawn, ReleaseStale, ReleaseRemove
<1>3. ASSUME NEW a \in Actors, ReleaseKill(a)
      PROVE  PidIsHolder'
  BY <1>3 DEF ReleaseKill, Goto, HeadlessKillsNobody
<1>4. ASSUME NEW a \in Actors, Crash(a)
      PROVE  PidIsHolder'
  BY <1>4 DEF Crash, OwnHolders, Goto
<1>5. ASSUME NEW p \in Pids, TakeLock(p) \/ FailLock(p) \/ CreatePidfile(p) \/ WritePid(p)
      PROVE  PidIsHolder'
  BY <1>5 DEF TakeLock, FailLock, CreatePidfile, WritePid, Become, tick
<1>6. ASSUME NEW p \in Pids, Cleanup(p) \/ HolderKilled(p)
      PROVE  PidIsHolder'
  BY <1>6 DEF Cleanup, HolderKilled
<1>7. ASSUME NEW p \in Pids, HolderExit(p)
      PROVE  PidIsHolder'
  BY <1>7 DEF HolderExit, Become, tick
<1>8. CASE BackupStart \/ BackupEnd \/ Elapse \/ UNCHANGED vars
  BY <1>8 DEF BackupStart, BackupEnd, Elapse, tick, vars
<1>. QED
  BY <1>1, <1>2, <1>3, <1>4, <1>5, <1>6, <1>7, <1>8 DEF Next, Acquire, Release, Holder

\* acquire says that the lock is held only when it is: no side file outlives its
\* holder unseen, so whatever pid the live tick reads is of a process with the flock.
THEOREM AcquireTells == Spec => AcquireTellsTruth
<1>1. Init => PidIsHolder
  BY DEF Init, PidIsHolder, Actors
<1>2. ASSUME LockInv, PidIsHolder, [Next]_vars
      PROVE  [pc["live"] # "ticking" /\ pc'["live"] = "ticking" /\ sure'["live"] /\ ~killed
                => flock \in Pids]_vars
  <2>. SUFFICES ASSUME pc["live"] # "ticking", pc'["live"] = "ticking", sure'["live"],
                       ~killed
                PROVE  flock \in Pids
    OBVIOUS
  <2>. USE DEF LockInv, TypeOK, Actors
  <2>1. AcquireHeld("live") \/ AcquireConfirm("live")
    <3>1. ASSUME NEW a \in Actors, TickStart(a) \/ Release(a) \/ NoRelease(a) \/ Crash(a)
          PROVE  FALSE
      BY <1>2, <3>1 DEF TickStart, Release, ReleaseStale, ReleaseTerm, ReleaseKill,
        ReleaseRemove, NoRelease, Crash, Finish, Goto
    <3>2. ASSUME NEW a \in Actors, AcquireSpawn(a) \/ AcquireGivesUp(a)
          PROVE  FALSE
      BY <1>2, <3>2 DEF AcquireSpawn, AcquireGivesUp, Begin, Goto
    <3>3. ASSUME NEW a \in Actors, AcquireHeld(a) \/ AcquireConfirm(a)
          PROVE  a = "live"
      BY <1>2, <3>3 DEF AcquireHeld, AcquireConfirm, Begin, Goto
    <3>4. ASSUME NEW p \in Pids, Holder(p) \/ HolderKilled(p)
          PROVE  FALSE
      BY <3>4 DEF Holder, TakeLock, FailLock, CreatePidfile, WritePid, Cleanup,
        HolderExit, HolderKilled, tick
    <3>5. ~(BackupStart \/ BackupEnd \/ Elapse \/ UNCHANGED vars)
      BY <1>2 DEF BackupStart, BackupEnd, Elapse, tick, vars
    <3>. QED
      BY <1>2, <3>1, <3>2, <3>3, <3>4, <3>5 DEF Next, Acquire
  <2>2. pidfile \in Pids /\ holder[pidfile] = "holding"
    BY <1>2, <2>1 DEF AcquireHeld, AcquireConfirm, Alive, FileNamesHolder, PidIsHolder
  <2>. QED
    BY <1>2, <2>2 DEF HoldersLock
<1>. QED
  BY <1>1, <1>2, NextPid, LockInvariant, HeadlessSpares, PTL DEF Spec, AcquireTellsTruth

-----------------------------------------------------------------------------
(* The contract of the lock. *)

\* The flock goes from one process to another only by way of nobody.
LEMMA Passes ==
  ASSUME TypeOK, [Next]_vars
  PROVE  flock' = flock \/ flock = Free \/ flock' = Free
<1>. USE DEF TypeOK
<1>1. ASSUME NEW a \in Actors, TickStart(a) \/ Acquire(a)
      PROVE  flock' = flock
  BY <1>1 DEF TickStart, Acquire, AcquireHeld, AcquireSpawn, AcquireConfirm,
    AcquireGivesUp
<1>2. ASSUME NEW a \in Actors, Release(a) \/ NoRelease(a) \/ Crash(a)
      PROVE  flock' = flock \/ flock' = Free
  BY <1>2 DEF Release, ReleaseStale, ReleaseTerm, ReleaseKill, ReleaseRemove, NoRelease,
    Crash, Dropped
<1>3. ASSUME NEW p \in Pids, Holder(p) \/ HolderKilled(p)
      PROVE  flock' = flock \/ flock = Free \/ flock' = Free
  BY <1>3 DEF Holder, TakeLock, FailLock, CreatePidfile, WritePid, Cleanup, HolderExit,
    HolderKilled, Dropped
<1>4. CASE BackupStart \/ BackupEnd \/ Elapse \/ UNCHANGED vars
  BY <1>4 DEF BackupStart, BackupEnd, Elapse, vars
<1>. QED
  BY <1>1, <1>2, <1>3, <1>4 DEF Next

\* The shells of tick-lock.sh implement the contract of the lock: that a live tick
\* relies on its holder is OwnGuardLasts, before and after each step.
THEOREM Implements == Spec => ImplementsContract
<1>. DEFINE Relied == IF Relies THEN pid["live"] ELSE Free
<1>1. OwnGuardLasts => Relied = Free \/ (Relied = flock /\ flock \in Pids)
  BY DEF OwnGuardLasts, Relies
<1>2. Init => Contract!Init
  BY DEF Init, Relies, Actors, Contract!Init
<1>3. ASSUME TypeOK, TypeOK', OwnGuardLasts, OwnGuardLasts', [Next]_vars
      PROVE  [Contract!Next]_(Contract!vars)
  <2>1. Relied = Free \/ (Relied = flock /\ flock \in Pids)
    BY <1>1, <1>3
  <2>2. Relied' = Free \/ (Relied' = flock' /\ flock' \in Pids)
    BY <1>3 DEF OwnGuardLasts, Relies
  <2>3. flock \in Pids \cup {Free, Floor} /\ flock' \in Pids \cup {Free, Floor}
    BY <1>3 DEF TypeOK
  <2>4. flock' = flock \/ flock = Free \/ flock' = Free
    BY <1>3, Passes
  <2>. HIDE DEF Relied
  <2>5. CASE flock' = flock
    <3>1. CASE Relied' = Free
      BY <2>5, <3>1 DEF Contract!Next, Contract!Leave, Relied
    <3>2. CASE Relied' = flock /\ flock \in Pids
      BY <2>5, <3>2 DEF Contract!Next, Contract!Rely, Relied
    <3>. QED
      BY <2>2, <2>5, <3>1, <3>2
  <2>6. CASE flock' # flock /\ flock = Free
    <3>1. flock' \in Pids \cup {Floor} /\ Relied' \in {Free} \cup ({flock'} \cap Pids)
      BY <2>2, <2>3, <2>6
    <3>2. Contract!Take(flock')
      BY <2>6, <3>1 DEF Contract!Take, Relied
    <3>. QED
      BY <3>1, <3>2 DEF Contract!Next
  <2>7. CASE flock' = Free
    <3>1. Relied' = Free
      BY <2>2, <2>7, LockAssumption
    <3>. QED
      BY <2>7, <3>1 DEF Contract!Next, Contract!Drop, Relied
  <2>. QED
    BY <2>4, <2>5, <2>6, <2>7
<1>. QED
  BY <1>2, <1>3, Typing, GuardLasts, PTL
  DEF Spec, ImplementsContract, Contract!Spec

\* A live tick that relies on its holder is alone: no headless tick has the lock.
THEOREM ReliedIsOwner == Spec => []Contract!Promise
<1>1. Contract!Init => Contract!Promise
  BY DEF Contract!Init, Contract!Promise
<1>2. Contract!Promise /\ [Contract!Next]_(Contract!vars) => Contract!Promise'
  BY DEF Contract!Promise, Contract!Next, Contract!Take, Contract!Rely, Contract!Leave,
    Contract!Drop, Contract!vars
<1>. QED
  BY <1>1, <1>2, Implements, PTL DEF ImplementsContract, Contract!Spec
=============================================================================
