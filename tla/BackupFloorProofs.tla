-------------------------- MODULE BackupFloorProofs --------------------------
(* Proofs about BackupFloor, for every set of missions, of timer units and of *)
(* harness selectors, whatever the staleness and the guardrail.               *)
EXTENDS BackupFloor, FiniteSetTheorems, TLAPS

(* A line in the heartbeat leaves every unit where it was. *)
LEMMA LineTyped ==
    ASSUME NEW fl \in [Floors -> UnitStates], NEW outcome, NEW degraded,
           TypeOK, Line(fl, outcome, degraded)
    PROVE  /\ floor' \in [Floors -> UnitStates]
           /\ \A f \in Floors : floor'[f].pc = fl[f].pc
           /\ beat' \in Ages /\ served' \in Ages /\ hollow' \in BOOLEAN
  <1>1. /\ floor' \in [Floors -> UnitStates]
        /\ \A f \in Floors : floor'[f].pc = fl[f].pc
    <2>1. floor' = [f \in Floors |-> [fl[f] EXCEPT !.touched = @ \/ fl[f].pc = "wait"]]
      BY DEF Line, Touched
    <2>2. \A f \in Floors : fl[f] \in UnitStates
      OBVIOUS
    <2>3. \A f \in Floors : (fl[f].touched \/ fl[f].pc = "wait") \in BOOLEAN
      BY <2>2 DEF UnitStates
    <2>4. \A u \in UnitStates : \A b \in BOOLEAN :
             /\ [u EXCEPT !.touched = b] \in UnitStates
             /\ [u EXCEPT !.touched = b].pc = u.pc
      BY DEF UnitStates
    <2>5. \A f \in Floors :
             /\ [fl[f] EXCEPT !.touched = @ \/ fl[f].pc = "wait"] \in UnitStates
             /\ [fl[f] EXCEPT !.touched = @ \/ fl[f].pc = "wait"].pc = fl[f].pc
      BY <2>2, <2>3, <2>4
    <2> QED BY <2>1, <2>5
  <1>2. beat' \in Ages /\ served' \in Ages
    <2>1. 0 \in Ages BY FloorAssumption DEF Ages
    <2> QED BY <2>1 DEF Line, TypeOK
  <1>3. hollow' \in BOOLEAN
    <2>1. CASE degraded \/ ~NotLiveness(outcome)
      BY <2>1 DEF Line
    <2>2. CASE ~(degraded \/ ~NotLiveness(outcome))
      BY <2>2 DEF Line, TypeOK
    <2> QED BY <2>1, <2>2
  <1> QED BY <1>1, <1>2, <1>3

(* What a unit can be made into. *)
LEMMA UnitTyped ==
    ASSUME TypeOK, NEW f \in Floors
    PROVE  /\ \A pc \in {"off", "wake", "wait", "next", "tick", "decide", "restart",
                         "record"} :
                [floor EXCEPT ![f].pc = pc] \in [Floors -> UnitStates]
           /\ [floor EXCEPT ![f] = Off] \in [Floors -> UnitStates]
           /\ [floor EXCEPT ![f].pc = "wait", ![f].touched = FALSE]
                \in [Floors -> UnitStates]
           /\ \A j \in SUBSET Missions :
                /\ [floor EXCEPT ![f].todo = @ \ {j}] \in [Floors -> UnitStates]
                /\ [floor EXCEPT ![f].pc = "tick", ![f].cur = j, ![f].todo = @ \ {j}]
                     \in [Floors -> UnitStates]
  <1>1. floor \in [Floors -> UnitStates]
    BY DEF TypeOK
  <1>2. \A u \in UnitStates : [floor EXCEPT ![f] = u] \in [Floors -> UnitStates]
    BY <1>1
  <1> DEFINE u == floor[f]
  <1>3. u \in UnitStates
    BY <1>1
  <1>4. ASSUME NEW pc \in {"off", "wake", "wait", "next", "tick", "decide", "restart",
                         "record"}
        PROVE  [floor EXCEPT ![f].pc = pc] \in [Floors -> UnitStates]
    <2>1. [u EXCEPT !.pc = pc] \in UnitStates
      BY <1>3 DEF UnitStates
    <2> QED BY <2>1, <1>2
  <1>5. [floor EXCEPT ![f] = Off] \in [Floors -> UnitStates]
    <2>1. Off \in UnitStates
      BY DEF Off, UnitStates
    <2> QED BY <2>1, <1>2
  <1>6. [floor EXCEPT ![f].pc = "wait", ![f].touched = FALSE] \in [Floors -> UnitStates]
    <2>1. [[u EXCEPT !.pc = "wait"] EXCEPT !.touched = FALSE] \in UnitStates
      BY <1>3 DEF UnitStates
    <2> QED BY <2>1, <1>1, <1>2
  <1>7. ASSUME NEW j \in SUBSET Missions
        PROVE  /\ [floor EXCEPT ![f].todo = @ \ {j}] \in [Floors -> UnitStates]
               /\ [floor EXCEPT ![f].pc = "tick", ![f].cur = j, ![f].todo = @ \ {j}]
                    \in [Floors -> UnitStates]
    <2>1. u.todo \ {j} \in SUBSET SUBSET Missions
      BY <1>3 DEF UnitStates
    <2>2. [u EXCEPT !.todo = u.todo \ {j}] \in UnitStates
      BY <1>3, <2>1 DEF UnitStates
    <2>3. [[[u EXCEPT !.pc = "tick"] EXCEPT !.cur = j] EXCEPT !.todo = u.todo \ {j}]
            \in UnitStates
      BY <1>3, <2>1 DEF UnitStates
    <2>4. [floor EXCEPT ![f].todo = @ \ {j}]
            = [floor EXCEPT ![f] = [u EXCEPT !.todo = u.todo \ {j}]]
      BY <1>1
    <2>5. [floor EXCEPT ![f].pc = "tick", ![f].cur = j, ![f].todo = @ \ {j}]
            = [floor EXCEPT ![f] = [[[u EXCEPT !.pc = "tick"] EXCEPT !.cur = j]
                                       EXCEPT !.todo = u.todo \ {j}]]
      BY <1>1, <1>3 DEF UnitStates
    <2> QED BY <2>2, <2>3, <2>4, <2>5, <1>2
  <1> QED BY <1>4, <1>5, <1>6, <1>7

(* Every variable keeps its type: what a tick, a unit and a restart leave in
   the shared state is a state the others can read. *)
THEOREM Typing == Spec => []TypeOK
  <1>1. Init => TypeOK
    <2>1. 0 \in Ages /\ StaleAfter + 1 \in Ages
      BY FloorAssumption DEF Ages
    <2>2. Off \in UnitStates
      BY DEF Off, UnitStates
    <2>3. Init => floor \in [Floors -> UnitStates]
      BY <2>2 DEF Init
    <2>4. Init => live \in [busy : BOOLEAN, guarded : BOOLEAN, todo : SUBSET Missions]
      BY DEF Init, NoTick
    <2>5. Init => session \in {"up", "wedged", "down"} /\ lock \in {"free", "live"} \cup Floors
      BY DEF Init
    <2>6. Init => recent \in Nat /\ done \subseteq Missions
      BY DEF Init
    <2>7. Init => selector \in Selectors /\ beat \in Ages /\ served \in Ages
      BY <2>1 DEF Init
    <2>8. Init => /\ inject \in BOOLEAN /\ hollow \in BOOLEAN
                  /\ asked \in BOOLEAN /\ calm \in BOOLEAN
      BY DEF Init
    <2> QED BY <2>3, <2>4, <2>5, <2>6, <2>7, <2>8 DEF TypeOK
  <1>2. TypeOK /\ [Next]_vars => TypeOK'
    <2> SUFFICES ASSUME TypeOK, [Next]_vars PROVE TypeOK'
      OBVIOUS
    <2> Freed(lock) \in {"free", "live"} \cup Floors
      BY DEF TypeOK, Freed
    <2>1. CASE Tick
      <3>1. \A a \in Ages : Older(a) \in Ages
        BY FloorAssumption DEF Ages, Older
      <3>2. recent' \in Nat
        BY <2>1 DEF Tick, TypeOK
      <3> QED BY <2>1, <3>1, <3>2 DEF Tick, TypeOK
    <2>2. CASE Calm
      BY <2>2 DEF Calm, TypeOK, net, guard
    <2>3. CASE LiveStart
      BY <2>3 DEF LiveStart, TypeOK, net, guard
    <2>4. CASE LiveEnd
      <3>1. floor \in [Floors -> UnitStates] BY DEF TypeOK
      <3> QED BY <2>4, <3>1, LineTyped DEF LiveEnd, TypeOK, NoTick, guard
    <2>5. ASSUME NEW m \in Missions, LiveWork(m) PROVE TypeOK'
      BY <2>5 DEF LiveWork, TypeOK, net, guard
    <2>6. CASE SessionFails
      <3>1. live' \in [busy : BOOLEAN, guarded : BOOLEAN, todo : SUBSET Missions]
            /\ lock' \in {"free", "live"} \cup Floors
        <4>1. CASE UNCHANGED <<live, lock>>
          BY <4>1 DEF TypeOK
        <4>2. CASE live' = NoTick /\ lock' = Freed(lock)
          BY <4>2 DEF NoTick
        <4> QED BY <2>6, <4>1, <4>2 DEF SessionFails
      <3>2. session' \in {"up", "wedged", "down"}
        BY <2>6 DEF SessionFails
      <3> QED BY <2>6, <3>1, <3>2 DEF SessionFails, TypeOK, net, guard
    <2>7. CASE HoldExpires
      BY <2>7 DEF HoldExpires, TypeOK, net, guard
    <2>8. ASSUME NEW f \in Floors, Fire(f) PROVE TypeOK'
      <3>1. Jobs(f) \in SUBSET SUBSET Missions
        BY DEF Jobs, Due
      <3>2. Degrades(f) \in BOOLEAN
        BY DEF Degrades
      <3>3. [Off EXCEPT !.pc = "wake", !.todo = Jobs(f), !.degraded = Degrades(f)]
              \in UnitStates
        BY <3>1, <3>2 DEF Off, UnitStates
      <3> QED BY <2>8, <3>3 DEF Fire, FireWhenFresh, TypeOK, net, guard
    <2>9. ASSUME NEW f \in Floors, Refuse(f) \/ GiveUp(f) PROVE TypeOK'
      <3>1. Defer(f)
        BY <2>9 DEF Refuse, GiveUp
      <3> QED BY <3>1, UnitTyped, LineTyped DEF Defer, TypeOK, guard
    <2>10. ASSUME NEW f \in Floors,
                  Wake(f) \/ Woken(f) \/ GoHeadless(f) \/ Finish(f) PROVE TypeOK'
      <3>1. Set(f, "next") \in [Floors -> UnitStates]
        BY UnitTyped DEF Set
      <3>2. CASE Wake(f)
        BY <3>2, UnitTyped DEF Wake, TypeOK, net, guard
      <3>3. CASE Woken(f)
        BY <3>3, UnitTyped DEF Woken, TypeOK, net, guard
      <3>4. CASE GoHeadless(f)
        BY <3>4, <3>1 DEF GoHeadless, TypeOK, net, guard
      <3>5. CASE Finish(f)
        BY <3>5, UnitTyped DEF Finish, TypeOK, net, guard
      <3> QED BY <2>10, <3>2, <3>3, <3>4, <3>5
    <2>11. ASSUME NEW f \in Floors, NEW j \in SUBSET Missions,
                  Skip(f, j) \/ Headless(f, j) PROVE TypeOK'
      <3>1. CASE Skip(f, j)
        BY <3>1, UnitTyped DEF Skip, TypeOK, net, guard
      <3>2. CASE Headless(f, j)
        BY <3>2, UnitTyped DEF Headless, TypeOK, net, guard
      <3> QED BY <2>11, <3>1, <3>2
    <2>12. ASSUME NEW f \in Floors,
                  HeadlessRan(f) \/ HeadlessLimit(f) \/ HeadlessCrash(f) PROVE TypeOK'
      <3>1. Work(f) \in SUBSET Missions
        BY DEF Work, TypeOK, UnitStates
      <3>2. Set(f, "next") \in [Floors -> UnitStates]
            /\ Set(f, "decide") \in [Floors -> UnitStates]
        BY UnitTyped DEF Set
      <3>3. CASE HeadlessRan(f)
        BY <3>3, <3>1, <3>2, LineTyped DEF HeadlessRan, TypeOK, guard
      <3>4. CASE HeadlessLimit(f)
        BY <3>4, <3>1, <3>2, LineTyped DEF HeadlessLimit, TypeOK, guard
      <3>5. CASE HeadlessCrash(f)
        BY <3>5, <3>1, <3>2, LineTyped DEF HeadlessCrash, TypeOK, guard
      <3> QED BY <2>12, <3>3, <3>4, <3>5
    <2>13. ASSUME NEW f \in Floors, Decide(f) PROVE TypeOK'
      <3>1. asked' \in BOOLEAN
        BY <2>13 DEF Decide
      <3>2. floor' \in [Floors -> UnitStates]
        BY <2>13, UnitTyped DEF Decide, Set
      <3> QED BY <2>13, <3>1, <3>2 DEF Decide, TypeOK, net
    <2>14. ASSUME NEW f \in Floors, Restart(f) \/ RestartFails(f) \/ Record(f)
           PROVE TypeOK'
      <3>1. Set(f, "next") \in [Floors -> UnitStates]
            /\ Set(f, "record") \in [Floors -> UnitStates]
        BY UnitTyped DEF Set
      <3>2. CASE Restart(f)
        BY <3>2, <3>1 DEF Restart, TypeOK, net, guard, NoTick
      <3>3. CASE RestartFails(f)
        BY <3>3, <3>1 DEF RestartFails, TypeOK, net
      <3>4. CASE Record(f)
        BY <3>4, <3>1 DEF Record, TypeOK, net
      <3> QED BY <2>14, <3>2, <3>3, <3>4
    <2>15. ASSUME NEW f \in Floors, FloorDies(f) PROVE TypeOK'
      <3>1. Work(f) \in SUBSET Missions
        BY DEF Work, TypeOK, UnitStates
      <3>2. done' \subseteq Missions
        BY <2>15, <3>1 DEF FloorDies, TypeOK
      <3> QED BY <2>15, <3>2, UnitTyped DEF FloorDies, TypeOK, net, guard
    <2>16. CASE UNCHANGED vars
      BY <2>16 DEF vars, net, guard, TypeOK
    <2> QED
      BY <2>1, <2>2, <2>3, <2>4, <2>5, <2>6, <2>7, <2>8, <2>9, <2>10, <2>11, <2>12,
         <2>13, <2>14, <2>15, <2>16 DEF Next, Live, Unit
  <1> QED BY <1>1, <1>2, PTL DEF Spec

(* Whoever runs a tick under the lock is the one the lock names. *)
HoldersInv ==
    /\ live.guarded => lock = "live"
    /\ \A f \in Floors : floor[f].pc = "tick" => lock = f

LEMMA HoldersInvariant == Spec => []HoldersInv
  <1>1. Init => HoldersInv
    BY DEF Init, HoldersInv, NoTick, Off
  <1>2. TypeOK /\ HoldersInv /\ [Next]_vars => HoldersInv'
    <2> SUFFICES ASSUME TypeOK, HoldersInv, [Next]_vars PROVE HoldersInv'
      OBVIOUS
    <2> /\ floor \in [Floors -> UnitStates]
        /\ \A f \in Floors : f # "free" /\ f # "live"
      BY FloorAssumption DEF TypeOK
    <2>1. CASE Tick \/ Calm \/ UNCHANGED vars
      BY <2>1 DEF Tick, Calm, vars, HoldersInv
    <2>2. CASE LiveStart
      BY <2>2 DEF LiveStart, HoldersInv
    <2>3. CASE LiveEnd
      <3>1. \A f \in Floors : floor'[f].pc = floor[f].pc
        BY <2>3, LineTyped DEF LiveEnd
      <3> QED BY <2>3, <3>1 DEF LiveEnd, HoldersInv, NoTick, Freed
    <2>4. ASSUME NEW m \in Missions, LiveWork(m) PROVE HoldersInv'
      BY <2>4 DEF LiveWork, HoldersInv, TypeOK
    <2>5. CASE SessionFails
      BY <2>5 DEF SessionFails, HoldersInv, NoTick, Freed
    <2>6. CASE HoldExpires
      BY <2>6 DEF HoldExpires, HoldersInv, TypeOK
    <2>7. ASSUME NEW f \in Floors, Fire(f) PROVE HoldersInv'
      BY <2>7 DEF Fire, FireWhenFresh, HoldersInv, Off
    <2>8. ASSUME NEW f \in Floors, Refuse(f) \/ GiveUp(f) PROVE HoldersInv'
      <3>1. Defer(f) /\ floor[f].pc # "tick"
        BY <2>8 DEF Refuse, GiveUp, Unanswered
      <3>2. \A g \in Floors : floor'[g].pc = IF g = f THEN "off" ELSE floor[g].pc
        <4>1. \A g \in Floors : floor'[g].pc = [floor EXCEPT ![f] = Off][g].pc
          BY <3>1, UnitTyped, LineTyped DEF Defer
        <4> QED BY <4>1 DEF Off
      <3> QED BY <3>1, <3>2 DEF Defer, HoldersInv
    <2>9. ASSUME NEW f \in Floors,
                 Wake(f) \/ Woken(f) \/ GoHeadless(f) \/ Finish(f) PROVE HoldersInv'
      <3>1. UNCHANGED <<live, lock>> /\ \A g \in Floors : g # f => floor'[g] = floor[g]
        BY <2>9 DEF Wake, Woken, GoHeadless, Finish, Set
      <3>2. floor'[f].pc \in {"wait", "off", "next"}
        BY <2>9 DEF Wake, Woken, GoHeadless, Finish, Set, Off, UnitStates
      <3> QED BY <3>1, <3>2 DEF HoldersInv
    <2>10. ASSUME NEW f \in Floors, NEW j \in SUBSET Missions, Skip(f, j)
           PROVE HoldersInv'
      BY <2>10 DEF Skip, HoldersInv, UnitStates
    <2>11. ASSUME NEW f \in Floors, NEW j \in SUBSET Missions, Headless(f, j)
           PROVE HoldersInv'
      <3>1. \A g \in Floors : floor[g].pc # "tick"
        BY <2>11 DEF Headless, Locked, HoldersInv
      <3>2. \A g \in Floors : g # f => floor'[g] = floor[g]
        BY <2>11 DEF Headless
      <3> QED BY <2>11, <3>1, <3>2 DEF Headless, Locked, HoldersInv
    <2>12. ASSUME NEW f \in Floors,
                  HeadlessRan(f) \/ HeadlessLimit(f) \/ HeadlessCrash(f)
           PROVE HoldersInv'
      <3>1. floor[f].pc = "tick" /\ lock = f /\ lock' = "free" /\ UNCHANGED live
        BY <2>12 DEF HeadlessRan, HeadlessLimit, HeadlessCrash, HoldersInv
      <3>2. PICK pc \in {"next", "decide"}, outcome \in {"ran", "limit", "crash"} :
              Line(Set(f, pc), outcome, floor[f].degraded)
        BY <2>12 DEF HeadlessRan, HeadlessLimit, HeadlessCrash
      <3>3. \A g \in Floors : floor'[g].pc = IF g = f THEN pc ELSE floor[g].pc
        <4>1. \A g \in Floors : floor'[g].pc = [floor EXCEPT ![f].pc = pc][g].pc
          BY <3>2, UnitTyped, LineTyped DEF Set
        <4> QED BY <4>1 DEF UnitStates
      <3> QED BY <3>1, <3>3 DEF HoldersInv
    <2>13. ASSUME NEW f \in Floors, Decide(f) PROVE HoldersInv'
      BY <2>13 DEF Decide, Set, HoldersInv, UnitStates
    <2>14. ASSUME NEW f \in Floors, Restart(f) PROVE HoldersInv'
      BY <2>14 DEF Restart, Set, HoldersInv, UnitStates, NoTick, Freed
    <2>15. ASSUME NEW f \in Floors, RestartFails(f) \/ Record(f) PROVE HoldersInv'
      BY <2>15 DEF RestartFails, Record, Set, HoldersInv, UnitStates
    <2>16. ASSUME NEW f \in Floors, FloorDies(f) PROVE HoldersInv'
      BY <2>16 DEF FloorDies, HoldersInv, Off
    <2> QED
      BY <2>1, <2>2, <2>3, <2>4, <2>5, <2>6, <2>7, <2>8, <2>9, <2>10, <2>11, <2>12,
         <2>13, <2>14, <2>15, <2>16 DEF Next, Live, Unit
  <1> QED BY <1>1, <1>2, Typing, PTL DEF Spec

(* No headless tick runs beside a live tick that has the lock, nor beside
   another headless one. *)
THEOREM TicksAlone == Spec => []GuardedTicksAlone
  <1>1. HoldersInv => GuardedTicksAlone
    BY FloorAssumption DEF HoldersInv, GuardedTicksAlone
  <1> QED BY <1>1, HoldersInvariant, PTL

(* The lock goes from one tick to another only by way of nobody. *)
LEMMA Passes ==
    ASSUME TypeOK, HoldersInv, [Next]_vars
    PROVE  lock' = lock \/ lock = "free" \/ lock' = "free"
  <1>1. CASE Tick \/ Calm \/ UNCHANGED vars
    BY <1>1 DEF Tick, Calm, vars
  <1>2. CASE Live
    BY <1>2 DEF Live, LiveStart, LiveWork, LiveEnd, Freed
  <1>3. CASE SessionFails \/ HoldExpires
    BY <1>3 DEF SessionFails, HoldExpires, Freed
  <1>4. ASSUME NEW f \in Floors, Fire(f) \/ FloorDies(f)
        PROVE  lock' = lock \/ lock' = "free"
    BY <1>4 DEF Fire, FireWhenFresh, FloorDies
  <1>5. ASSUME NEW f \in Floors,
               \/ Refuse(f) \/ Wake(f) \/ Woken(f) \/ GiveUp(f) \/ GoHeadless(f)
               \/ Decide(f) \/ RestartFails(f) \/ Record(f) \/ Finish(f)
               \/ \E j \in SUBSET Missions : Skip(f, j)
        PROVE  lock' = lock
    BY <1>5 DEF Refuse, Wake, Woken, GiveUp, GoHeadless, Defer, Decide, RestartFails,
                Record, Finish, Skip
  <1>6. ASSUME NEW f \in Floors, NEW j \in SUBSET Missions, Headless(f, j)
        PROVE  lock = "free"
    BY <1>6 DEF Headless, Locked
  <1>7. ASSUME NEW f \in Floors,
               HeadlessRan(f) \/ HeadlessLimit(f) \/ HeadlessCrash(f) \/ Restart(f)
        PROVE  lock' = lock \/ lock' = "free"
    BY <1>7 DEF HeadlessRan, HeadlessLimit, HeadlessCrash, Restart, Freed
  <1> QED BY <1>1, <1>2, <1>3, <1>4, <1>5, <1>6, <1>7 DEF Next, Unit

(* The floor and the session use the lock that TickLock makes: every step of
   theirs is one of the contract that the shells of tick-lock.sh implement. *)
THEOREM Implements == Spec => ImplementsContract
  <1>1. Init => Contract!Init
    BY DEF Init, NoTick, Contract!Init
  <1>2. ASSUME TypeOK, TypeOK', HoldersInv, HoldersInv', [Next]_vars
        PROVE  [Contract!Next]_(Contract!vars)
    <2> DEFINE Relied == IF live.guarded THEN "live" ELSE "free"
    <2>1. Relied' = "free" \/ (Relied' = "live" /\ lock' = "live")
      BY <1>2 DEF HoldersInv
    <2>2. lock' \in {"free", "live"} \cup Floors
      BY <1>2 DEF TypeOK
    <2>3. lock' = lock \/ lock = "free" \/ lock' = "free"
      BY <1>2, Passes
    <2> HIDE DEF Relied
    <2>4. CASE lock' = lock
      <3>1. CASE Relied' = "free"
        BY <2>4, <3>1 DEF Contract!Next, Contract!Leave, Relied
      <3>2. CASE Relied' = "live" /\ lock' = "live"
        BY <2>4, <3>2 DEF Contract!Next, Contract!Rely, Relied
      <3> QED BY <2>1, <3>1, <3>2
    <2>5. CASE lock' # "free" /\ lock = "free"
      <3>1. lock' \in {"live"} \cup Floors
            /\ Relied' \in {"free"} \cup ({lock'} \cap {"live"})
        BY <2>1, <2>2, <2>5
      <3>2. Contract!Take(lock')
        BY <2>5, <3>1 DEF Contract!Take, Relied
      <3> QED BY <3>1, <3>2 DEF Contract!Next
    <2>6. CASE lock' = "free"
      <3>1. Relied' = "free"
        BY <2>1, <2>6
      <3> QED BY <2>6, <3>1 DEF Contract!Next, Contract!Drop, Relied
    <2> QED BY <2>3, <2>4, <2>5, <2>6
  <1> QED BY <1>1, <1>2, Typing, HoldersInvariant, PTL
          DEF Spec, ImplementsContract, Contract!Spec

(* A heartbeat that reads as fresh is of a tick that was carried out, the
   degraded ticks that failed apart. *)
THEOREM FreshIsServed == Spec => []FreshMeansServed
  <1>1. Init => FreshMeansServed
    BY FloorAssumption DEF Init, FreshMeansServed
  <1>2. TypeOK /\ FreshMeansServed /\ [Next]_vars => FreshMeansServed'
    <2> SUFFICES ASSUME TypeOK, FreshMeansServed, [Next]_vars PROVE FreshMeansServed'
      OBVIOUS
    <2>1. ASSUME UNCHANGED net PROVE FreshMeansServed'
      BY <2>1 DEF net, FreshMeansServed
    <2>2. ASSUME NEW fl, NEW outcome \in {"ran", "limit", "crash", "deferred"},
                 NEW degraded, Line(fl, outcome, degraded)
          PROVE  FreshMeansServed'
      <3>1. CASE outcome = "ran"
        BY <2>2, <3>1 DEF Line, NotLiveness, FreshMeansServed, TypeOK, Ages
      <3>2. CASE outcome # "ran" /\ degraded
        BY <2>2, <3>2 DEF Line, FreshMeansServed
      <3>3. CASE outcome # "ran" /\ ~degraded
        BY <2>2, <3>3 DEF Line, NotLiveness, FreshMeansServed
      <3> QED BY <3>1, <3>2, <3>3
    <2>3. CASE Tick
      BY <2>3, FloorAssumption DEF Tick, Older, FreshMeansServed, TypeOK, Ages
    <2>4. CASE Live
      BY <2>4, <2>1, <2>2 DEF Live, LiveStart, LiveWork, LiveEnd
    <2>5. CASE Calm \/ SessionFails \/ HoldExpires \/ UNCHANGED vars
      BY <2>5, <2>1 DEF Calm, SessionFails, HoldExpires, vars
    <2>6. ASSUME NEW f \in Floors, Fire(f) \/ FloorDies(f) PROVE FreshMeansServed'
      BY <2>6, <2>1 DEF Fire, FireWhenFresh, FloorDies
    <2>7. ASSUME NEW f \in Floors,
                 \/ Wake(f) \/ Woken(f) \/ GoHeadless(f) \/ Finish(f) \/ Decide(f)
                 \/ Restart(f) \/ RestartFails(f) \/ Record(f)
                 \/ \E j \in SUBSET Missions : Skip(f, j) \/ Headless(f, j)
          PROVE  FreshMeansServed'
      BY <2>7, <2>1 DEF Wake, Woken, GoHeadless, Finish, Decide, Restart, RestartFails,
                        Record, Skip, Headless
    <2>8. ASSUME NEW f \in Floors, Refuse(f) \/ GiveUp(f) PROVE FreshMeansServed'
      BY <2>8, <2>2 DEF Refuse, GiveUp, Defer
    <2>9. ASSUME NEW f \in Floors,
                 HeadlessRan(f) \/ HeadlessLimit(f) \/ HeadlessCrash(f)
          PROVE  FreshMeansServed'
      BY <2>9, <2>2 DEF HeadlessRan, HeadlessLimit, HeadlessCrash
    <2> QED BY <2>3, <2>4, <2>5, <2>6, <2>7, <2>8, <2>9 DEF Next, Unit
  <1> QED BY <1>1, <1>2, Typing, PTL DEF Spec

(* The units that have decided to restart and have not recorded it yet. *)
Pending == {f \in Floors : floor[f].pc \in {"restart", "record"}}

BudgetInv == recent + Cardinality(Pending) <= MaxPerHour + Cardinality(Floors) - 1

LEMMA Counts ==
    \A S \in SUBSET Floors :
        /\ IsFiniteSet(S) /\ Cardinality(S) \in Nat
        /\ Cardinality(S) <= Cardinality(Floors)
        /\ \A T \in SUBSET S : Cardinality(T) <= Cardinality(S)
        /\ \A f \in S : Cardinality(S \ {f}) = Cardinality(S) - 1
  BY FloorAssumption, FS_Subset, FS_CardinalityType, FS_RemoveElement

(* Whoever does not decide and does not record adds no restart. *)
LEMMA NoNewRestart ==
    ASSUME TypeOK, TypeOK', BudgetInv, recent' <= recent,
           \A f \in Floors : floor'[f].pc \in {"restart", "record"} =>
                                floor[f].pc \in {"restart", "record"}
    PROVE  BudgetInv'
  <1>1. Pending' \in SUBSET Pending /\ Pending \in SUBSET Floors
    BY DEF Pending
  <1>2. Cardinality(Pending') <= Cardinality(Pending)
        /\ Cardinality(Pending') \in Nat /\ Cardinality(Pending) \in Nat
    BY <1>1, Counts
  <1>3. Cardinality(Floors) \in Nat
    BY Counts
  <1> QED BY <1>2, <1>3, FloorAssumption DEF BudgetInv, TypeOK

(* The restarts of an hour are at most the guardrail plus one for each other
   unit that read the history at the same time. *)
THEOREM RestartsBounded == Spec => []RestartBudget
  <1> USE FloorAssumption
  <1>1. Init => BudgetInv
    <2> SUFFICES ASSUME Init PROVE BudgetInv
      OBVIOUS
    <2>1. Pending = {}
      BY DEF Init, Pending, Off
    <2>2. Cardinality(Floors) \in Nat /\ Cardinality(Floors) # 0
      BY FS_EmptySet, FS_CardinalityType
    <2> QED BY <2>1, <2>2, FS_EmptySet DEF BudgetInv, Init
  <1>2. TypeOK /\ TypeOK' /\ BudgetInv /\ [Next]_vars => BudgetInv'
    <2> SUFFICES ASSUME TypeOK, TypeOK', BudgetInv, [Next]_vars PROVE BudgetInv'
      OBVIOUS
    <2> /\ floor \in [Floors -> UnitStates]
        /\ recent \in Nat
      BY DEF TypeOK
    <2>1. ASSUME recent' = recent, \A f \in Floors : floor'[f].pc = floor[f].pc
          PROVE  BudgetInv'
      BY <2>1, NoNewRestart
    <2>2. CASE Tick
      BY <2>2, NoNewRestart DEF Tick
    <2>3. CASE Calm \/ SessionFails \/ HoldExpires \/ UNCHANGED vars
      BY <2>3, <2>1 DEF Calm, SessionFails, HoldExpires, vars, guard
    <2>4. CASE Live
      <3>1. CASE LiveEnd
        <4>1. \A f \in Floors : floor'[f].pc = floor[f].pc
          BY <3>1, LineTyped DEF LiveEnd
        <4> QED BY <3>1, <4>1, <2>1 DEF LiveEnd, guard
      <3>2. CASE LiveStart \/ \E m \in Missions : LiveWork(m)
        BY <3>2, <2>1 DEF LiveStart, LiveWork, guard
      <3> QED BY <2>4, <3>1, <3>2 DEF Live
    <2>5. ASSUME NEW f \in Floors, recent' = recent,
                 \A g \in Floors \ {f} : floor'[g].pc = floor[g].pc,
                 floor'[f].pc \notin {"restart", "record"} \/
                   floor[f].pc \in {"restart", "record"}
          PROVE  BudgetInv'
      BY <2>5, NoNewRestart
    <2>6. ASSUME NEW f \in Floors, Fire(f) \/ FloorDies(f) \/ Woken(f) \/ Finish(f)
          PROVE  BudgetInv'
      <3>1. \A g \in Floors \ {f} : floor'[g] = floor[g]
        BY <2>6 DEF Fire, FireWhenFresh, FloorDies, Woken, Finish
      <3>2. floor'[f].pc \in {"wake", "off"}
        <4>1. CASE Fire(f)
          BY <4>1 DEF Fire, FireWhenFresh, Off
        <4>2. CASE FloorDies(f) \/ Woken(f) \/ Finish(f)
          BY <4>2 DEF FloorDies, Woken, Finish, Off
        <4> QED BY <2>6, <4>1, <4>2
      <3>3. recent' = recent
        BY <2>6 DEF Fire, FireWhenFresh, FloorDies, Woken, Finish, guard
      <3> QED BY <3>1, <3>2, <3>3, <2>5
    <2>7. ASSUME NEW f \in Floors, Wake(f) \/ GoHeadless(f) PROVE BudgetInv'
      <3>1. \A g \in Floors \ {f} : floor'[g] = floor[g]
        BY <2>7 DEF Wake, GoHeadless, Set
      <3>2. floor'[f].pc \in {"wait", "next"} /\ recent' = recent
        BY <2>7 DEF Wake, GoHeadless, Set, UnitStates, guard
      <3> QED BY <3>1, <3>2, <2>5
    <2>8. ASSUME NEW f \in Floors, NEW j \in SUBSET Missions,
                 Skip(f, j) \/ Headless(f, j)
          PROVE  BudgetInv'
      <3>1. \A g \in Floors \ {f} : floor'[g] = floor[g]
        BY <2>8 DEF Skip, Headless
      <3>2. floor'[f].pc \in {"next", "tick"}
        BY <2>8 DEF Skip, Headless, UnitStates
      <3>3. recent' = recent
        BY <2>8 DEF Skip, Headless, guard
      <3> QED BY <3>1, <3>2, <3>3, <2>5
    <2>9. ASSUME NEW f \in Floors, Refuse(f) \/ GiveUp(f) PROVE BudgetInv'
      <3>1. Defer(f)
        BY <2>9 DEF Refuse, GiveUp
      <3>2. \A g \in Floors : floor'[g].pc = [floor EXCEPT ![f] = Off][g].pc
        BY <3>1, UnitTyped, LineTyped DEF Defer
      <3> QED BY <3>1, <3>2, <2>5 DEF Defer, Off, guard
    <2>10. ASSUME NEW f \in Floors,
                  HeadlessRan(f) \/ HeadlessLimit(f) \/ HeadlessCrash(f)
           PROVE  BudgetInv'
      <3>1. PICK pc \in {"next", "decide"}, outcome \in {"ran", "limit", "crash"} :
              Line(Set(f, pc), outcome, floor[f].degraded)
        BY <2>10 DEF HeadlessRan, HeadlessLimit, HeadlessCrash
      <3>2. \A g \in Floors : floor'[g].pc = [floor EXCEPT ![f].pc = pc][g].pc
        BY <3>1, UnitTyped, LineTyped DEF Set
      <3>3. floor'[f].pc = pc /\ \A g \in Floors \ {f} : floor'[g].pc = floor[g].pc
        BY <3>2 DEF UnitStates
      <3>4. recent' = recent
        BY <2>10 DEF HeadlessRan, HeadlessLimit, HeadlessCrash, guard
      <3> QED BY <3>3, <3>4, <2>5
    <2>11. ASSUME NEW f \in Floors, Restart(f) \/ RestartFails(f) PROVE BudgetInv'
      <3>1. \A g \in Floors \ {f} : floor'[g] = floor[g]
        BY <2>11 DEF Restart, RestartFails, Set
      <3>2. floor[f].pc = "restart" /\ recent' = recent
        BY <2>11 DEF Restart, RestartFails, guard
      <3> QED BY <3>1, <3>2, <2>5
    <2>12. ASSUME NEW f \in Floors, Decide(f) PROVE BudgetInv'
      <3>1. CASE ~(Restarts /\ ~Guardrail)
        <4>1. floor' = [floor EXCEPT ![f].pc = "next"] /\ recent' = recent
          BY <2>12, <3>1 DEF Decide, Set
        <4>2. floor'[f].pc = "next" /\ \A g \in Floors \ {f} : floor'[g] = floor[g]
          BY <4>1 DEF UnitStates
        <4> QED BY <4>1, <4>2, <2>5
      <3>2. CASE Restarts /\ ~Guardrail
        <4>1. /\ recent' = recent /\ recent < MaxPerHour
              /\ Cardinality(Pending') <= Cardinality(Floors)
              /\ Cardinality(Pending') \in Nat /\ Cardinality(Floors) \in Nat
          <5>1. Pending' \in SUBSET Floors
            BY DEF Pending
          <5> QED BY <2>12, <3>2, <5>1, Counts DEF Decide, Guardrail
        <4> QED BY <4>1 DEF BudgetInv
      <3> QED BY <3>1, <3>2
    <2>13. ASSUME NEW f \in Floors, Record(f) PROVE BudgetInv'
      <3>1. /\ floor[f].pc = "record" /\ recent' = recent + 1
            /\ floor'[f].pc = "next"
            /\ \A g \in Floors \ {f} : floor'[g] = floor[g]
        BY <2>13 DEF Record, Set, UnitStates
      <3>2. Pending' = Pending \ {f} /\ f \in Pending /\ Pending \in SUBSET Floors
        BY <3>1 DEF Pending
      <3>3. /\ Cardinality(Pending') = Cardinality(Pending) - 1
            /\ Cardinality(Pending) \in Nat /\ Cardinality(Floors) \in Nat
        BY <3>2, Counts
      <3> QED BY <3>1, <3>3 DEF BudgetInv
    <2> QED
      BY <2>2, <2>3, <2>4, <2>6, <2>7, <2>8, <2>9, <2>10, <2>11, <2>12, <2>13
      DEF Next, Unit
  <1>3. TypeOK /\ BudgetInv => RestartBudget
    <2> SUFFICES ASSUME TypeOK, BudgetInv PROVE RestartBudget
      OBVIOUS
    <2> DEFINE R == {f \in Floors : floor[f].pc = "record"}
    <2>1. R \in SUBSET Pending /\ Pending \in SUBSET Floors
      BY DEF Pending
    <2>2. /\ Cardinality(R) <= Cardinality(Pending) /\ Cardinality(R) \in Nat
          /\ Cardinality(Pending) \in Nat /\ Cardinality(Floors) \in Nat
      BY <2>1, Counts
    <2>3. recent \in Nat
      BY DEF TypeOK
    <2> QED BY <2>2, <2>3 DEF BudgetInv, RestartBudget
  <1> QED BY <1>1, <1>2, <1>3, Typing, PTL DEF Spec

=============================================================================
