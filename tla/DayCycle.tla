------------------------------ MODULE DayCycle ------------------------------
(* The dispatch day of a department (scripts/lib/dispatch_helpers.py, with   *)
(* the tick protocol of scripts/lib/scaffold.py): a tick reads the queues    *)
(* and the books of the day, decides which missions are due, has workers     *)
(* carry them out, and commits each of them after its worker returned.      *)
(*                                                                         *)
(* Ticks are processes because the tick lock gives a long tick up: the      *)
(* floor's headless tick may then run beside it. Nothing orders them but    *)
(* the lock of the dispatch ledger.                                         *)
EXTENDS Naturals

CONSTANTS Missions,      \* dept.yaml::recurring_missions
          LayerOf,       \* [Missions -> Layers]
          Cadence,       \* [Missions -> {"daily", "weekly", "hourly"}]
          SlotOf,        \* [Missions -> Hours], the time: of a mission
          OpenOn,        \* [Missions -> SUBSET Days], the weekdays of a mission
          Dedicated,     \* the missions that have a PROMPT.md of their own
          Reads,         \* [Missions -> {"none", "research", "decisions"}]
          Feeds,         \* the missions whose output_queue is queues/research
          AdHoc,         \* the id __ad_hoc_l3_human_defer__
          Ticks,         \* the sessions that tick
          MaxDay,
          FireAfter,     \* fire_after_rounds
          MaxInputs,     \* bound: decisions and notes that arrive
          MaxFaults      \* bound: workers that fail and ticks that die

Layers == 1..4
Days == 1..MaxDay
Items == Missions \cup {AdHoc}

ASSUME MissionsAssumption ==
    /\ AdHoc \notin Missions
    /\ LayerOf \in [Missions -> Layers]
    /\ Dedicated \subseteq Missions
    /\ Feeds \subseteq Missions
    /\ MaxDay \in Nat \ {0}
    /\ FireAfter \in Nat

(* Times of a Paris day that the layers' floors tell apart: before 7:00, and
   from 7:00, 12:00 and 19:00 on. Layer 3 has the floor of layer 1. *)
Hours == 0..3
Floor == [l \in Layers |-> CASE l \in {1, 3} -> 1 [] l = 2 -> 2 [] l = 4 -> 3]
LayersWithEvidence == {1, 4}

VARIABLES
    day, hour,     \* the Paris clock
    ledger,        \* outputs/<d>/dispatch.json: when dispatched, when completed
    rounds,        \* outputs/<d>/round_counter.json
    base,          \* outputs/<d>/.l1-baseline.json
    shared,        \* [Days -> SUBSET Layers]: outputs/<d>/<N>/ holds real output
    own,           \* [Days -> SUBSET Missions]: outputs/<d>/missions/<id>/ does
    cards,         \* who put the cards in queues/research
    decided,       \* an approved decision stands in inbox/decisions
    notes,         \* a management note is newer than .last-mgmt-scan
    tick,          \* [Ticks -> what the session holds in memory]
    inputs, faults \* how many inputs and faults there were

books == <<ledger, rounds, base>>
files == <<shared, own, cards, decided, notes>>
vars == <<day, hour, books, files, tick, inputs, faults>>

(* disp is 0 when there is no entry. Only an hourly mission looks at the times
   of its entry: for it, disp is 1 + the hour of the dispatch and done the
   absolute hour of the completion. *)
NoEntry == [disp |-> 0, done |-> 0]
Closed == [disp |-> 1, done |-> 0]
Now == 4 * day + hour
Hourly == {m \in Missions : Cadence[m] = "hourly"}

Idle == [pc |-> "idle", day |-> 1, hour |-> 0, todo |-> {}, ret |-> {},
         cur |-> AdHoc]

(* A tick with nothing left to do is over. *)
Rest(t) == IF t.todo = {} /\ t.ret = {} THEN Idle
           ELSE [t EXCEPT !.pc = "run", !.cur = AdHoc]

Entry == [disp : 0..4, done : Nat]
Session == [pc : {"idle", "defer", "run", "count", "base"}, day : Days,
            hour : Hours, todo : SUBSET Missions, ret : SUBSET Missions,
            cur : Items]

TypeOK ==
    /\ day \in Days
    /\ hour \in Hours
    /\ ledger \in [Days -> [Items -> Entry]]
    /\ rounds \in [Days -> [Layers -> Nat]]
    /\ base \in [Days -> [Layers -> Nat]]
    /\ shared \in [Days -> SUBSET Layers]
    /\ own \in [Days -> SUBSET Missions]
    /\ cards \subseteq Missions
    /\ decided \in BOOLEAN
    /\ notes \in BOOLEAN
    /\ tick \in [Ticks -> Session]
    /\ inputs \in Nat
    /\ faults \in Nat

Init ==
    /\ day = 1
    /\ hour = 0
    /\ ledger = [d \in Days |-> [i \in Items |-> NoEntry]]
    /\ rounds = [d \in Days |-> [l \in Layers |-> 0]]
    /\ base = [d \in Days |-> [l \in Layers |-> 0]]
    /\ shared = [d \in Days |-> {}]
    /\ own = [d \in Days |-> {}]
    /\ cards = {}
    /\ decided = FALSE
    /\ notes = FALSE
    /\ tick = [p \in Ticks |-> Idle]
    /\ inputs = 0
    /\ faults = 0

----------------------------------------------------------------------------
(* What a tick reads *)

Completed(d, i) == ledger[d][i].disp > 0

(* A completion of layer 1 or 4 counts only with output that somebody can
   see, in the directory of the layer or in that of the mission. *)
EvidenceOk(m) == \/ LayerOf[m] \notin LayersWithEvidence
                 \/ LayerOf[m] \in shared[day]
                 \/ m \in own[day]

FiredMission(m) == Completed(day, m) /\ EvidenceOk(m)

(* The marker of a layer is not written by this runtime any more: what says
   that a layer fired is the round counter or a mission of the layer. *)
LayerFired_NoCounter(l) ==
    \E m \in Missions : LayerOf[m] = l /\ FiredMission(m)
LayerFired(l) ==
    \/ rounds[day][l] > 0
    \/ \E m \in Missions : LayerOf[m] = l /\ FiredMission(m)

HasResearch == cards # {}

CycleComplete == \A l \in 2..4 : rounds[day][l] >= base[day][l] + FireAfter

Eligible(l) ==
    /\ hour >= Floor[l]
    /\ CASE l = 4 -> /\ LayerFired(2) \/ ~HasResearch
                     /\ LayerFired(3) \/ ~decided
         [] l = 3 -> decided
         [] l = 2 -> HasResearch
         [] l = 1 -> notes \/ ~LayerFired(1) \/ CycleComplete

(* decide_dispatch, as far as the runtime still uses it: is it layer 3? It is
   when the debrief can not start and a decision stands. *)
PhaseIsLayer3 == /\ Eligible(3)
                 /\ ~(Eligible(4) /\ ~LayerFired(4))

CadenceDue(m) ==
    IF m \in Hourly
    THEN ~(FiredMission(m) /\ ledger[day][m].done = Now)
    ELSE day \in OpenOn[m] /\ hour >= SlotOf[m] /\ ~FiredMission(m)

InputReady(m) == CASE Reads[m] = "none" -> TRUE
                   [] Reads[m] = "research" -> HasResearch
                   [] Reads[m] = "decisions" -> decided

DueOn(l) == {m \in Missions : LayerOf[m] = l /\ CadenceDue(m) /\ InputReady(m)}

HighestOf(S) == CHOOSE l \in S : \A k \in S : k <= l

(* A producer whose slot has passed may wake its layer by itself, first those
   with a prompt of their own, then the weekly ones. *)
Scheduled == {m \in Missions : Reads[m] = "none" /\ m \notin Hourly}
Overdue_Open(S) == {LayerOf[m] : m \in {n \in S : CadenceDue(n)
                                                  /\ Eligible(LayerOf[n])}}
Overdue(S) == {LayerOf[m] : m \in {n \in S : CadenceDue(n)}}
Weekly == {m \in Missions : Reads[m] = "none" /\ Cadence[m] = "weekly"}

DueMissions ==
    LET open == {l \in Layers : Eligible(l) /\ DueOn(l) # {}}
        late == Overdue(Scheduled \cap Dedicated)
        week == Overdue(Weekly)
    IN  IF open # {} THEN DueOn(HighestOf(open))
        ELSE IF late # {} THEN DueOn(HighestOf(late))
        ELSE IF week # {} THEN DueOn(HighestOf(week)) \cap Weekly
        ELSE {}

(* maybe_defer_ad_hoc_l3: nobody can ever act on the decision that stands. *)
Defers ==
    /\ PhaseIsLayer3
    /\ \A m \in Missions : LayerOf[m] # 3
    /\ ~LayerFired(3)
    /\ ~Completed(day, AdHoc)

----------------------------------------------------------------------------
(* The world around a tick *)

Advance ==
    /\ \/ /\ hour < 3
          /\ hour' = hour + 1
          /\ UNCHANGED day
       \/ /\ hour = 3
          /\ day < MaxDay
          /\ day' = day + 1
          /\ hour' = 0
    /\ UNCHANGED <<books, files, tick, inputs, faults>>

(* The cockpit writes an approved decision. *)
Approve ==
    /\ inputs < MaxInputs
    /\ ~decided
    /\ decided' = TRUE
    /\ inputs' = inputs + 1
    /\ UNCHANGED <<day, hour, books, shared, own, cards, notes, tick, faults>>

(* A management note is delivered. *)
Note ==
    /\ inputs < MaxInputs
    /\ ~notes
    /\ notes' = TRUE
    /\ inputs' = inputs + 1
    /\ UNCHANGED <<day, hour, books, shared, own, cards, decided, tick, faults>>

----------------------------------------------------------------------------
(* A tick *)

LockFree_Always == TRUE
LockFree == \A p \in Ticks : tick[p].pc \notin {"count", "base"}

(* dispatched_at is the time of the decision. *)
DispatchHour == IF DueMissions \cap Hourly = {} THEN 0 ELSE hour

(* build_dispatch_ctx, decide_dispatch and select_due_missions read and write
   nothing; the session keeps the day, the hour and the due list. *)
Decide(p) ==
    /\ tick[p].pc = "idle"
    /\ Defers \/ DueMissions # {}
    /\ tick' = [tick EXCEPT ![p] =
                   [pc |-> IF Defers THEN "defer" ELSE "run", day |-> day,
                    hour |-> DispatchHour, todo |-> DueMissions, ret |-> {},
                    cur |-> AdHoc]]
    /\ UNCHANGED <<day, hour, books, files, inputs, faults>>

(* write_l3_human_deferred, up to the ledger; its round is counted next. *)
Defer(p) ==
    /\ tick[p].pc = "defer"
    /\ LockFree
    /\ IF Completed(tick[p].day, AdHoc)
       THEN /\ tick' = [tick EXCEPT ![p] = Rest(tick[p])]
            /\ UNCHANGED ledger
       ELSE /\ ledger' = [ledger EXCEPT ![tick[p].day][AdHoc] = Closed]
            /\ tick' = [tick EXCEPT ![p].pc = "count", ![p].cur = AdHoc]
    /\ UNCHANGED <<day, hour, rounds, base, files, inputs, faults>>

(* The fan-out: a worker for each mission with a prompt of its own, and one
   for all the missions that share the prompt of their layer. *)
Groups(p) == {{m} : m \in tick[p].todo \cap Dedicated}
             \cup ({tick[p].todo \ Dedicated} \ {{}})

(* A worker returns and its output validates. What it leaves is in the
   directory of the day that the session gave it. *)
Work(p, g) ==
    /\ tick[p].pc = "run"
    /\ g \in Groups(p)
    /\ LET d == tick[p].day
           shims == {LayerOf[m] : m \in g \ Dedicated}
       IN  /\ shared' = [shared EXCEPT ![d] = @ \cup shims]
           /\ own' = [own EXCEPT ![d] = @ \cup (g \cap Dedicated)]
           /\ cards' = IF \E m \in g : Reads[m] = "research" THEN {}
                       ELSE cards \cup (g \cap Feeds \cap Dedicated)
           /\ notes' = (notes /\ 1 \notin shims)
           /\ decided' \in IF \E m \in g : Reads[m] = "decisions"
                           THEN {FALSE, decided} ELSE {decided}
    /\ tick' = [tick EXCEPT ![p].todo = @ \ g, ![p].ret = @ \cup g]
    /\ UNCHANGED <<day, hour, books, inputs, faults>>

(* All its attempts failed: the tick goes on without a commit. *)
Fail(p, g) ==
    /\ tick[p].pc = "run"
    /\ faults < MaxFaults
    /\ g \in Groups(p)
    /\ tick' = [tick EXCEPT ![p] = Rest([tick[p] EXCEPT !.todo = @ \ g])]
    /\ faults' = faults + 1
    /\ UNCHANGED <<day, hour, books, files, inputs>>

(* A later dispatch of an hourly mission; two ticks of one hour may stand in
   either order. *)
MayReopen(m, h, e) == m \in Hourly /\ h + 1 >= e.disp
MayRefuse(m, h, e) == m \notin Hourly \/ h + 1 <= e.disp

(* The entry of the mission lists output in the directory of its layer. *)
HasRequiredOutput(m) == m \notin Dedicated

Committed(t, m) == [t EXCEPT !.ret = @ \ {m}]

(* commit_dispatch, refused: an earlier completion already won. *)
Replayed(p, m) ==
    /\ tick[p].pc = "run"
    /\ m \in tick[p].ret
    /\ LockFree
    /\ LET d == tick[p].day
       IN  /\ Completed(d, m)
           /\ MayRefuse(m, tick[p].hour, ledger[d][m])
           /\ LayerOf[m] \notin LayersWithEvidence \/ HasRequiredOutput(m)
    /\ tick' = [tick EXCEPT ![p] = Rest(Committed(tick[p], m))]
    /\ UNCHANGED <<day, hour, books, files, inputs, faults>>

(* The card that commit_dispatch puts in the queue for a mission of a shim. *)
HandedOver(m) == {m} \cap (Feeds \ Dedicated)

(* commit_dispatch: the card a shim mission hands over, then the ledger of the
   day of the dispatch. The lock is kept while a round is to be counted. *)
Commit(p, m) ==
    /\ tick[p].pc = "run"
    /\ m \in tick[p].ret
    /\ LockFree
    /\ LET d == tick[p].day
           h == tick[p].hour
           e == ledger[d][m]
           counts == \/ LayerOf[m] \notin LayersWithEvidence
                     \/ LayerOf[m] \in shared[d]
       IN  /\ \/ ~Completed(d, m)
              \/ MayReopen(m, h, e)
              \/ LayerOf[m] \in LayersWithEvidence /\ ~HasRequiredOutput(m)
           /\ ledger' = [ledger EXCEPT ![d][m] =
                            IF m \in Hourly
                            THEN [disp |-> h + 1, done |-> Now] ELSE Closed]
           /\ tick' = [tick EXCEPT ![p] =
                           IF counts
                           THEN [Committed(tick[p], m) EXCEPT !.cur = m,
                                                              !.pc = "count"]
                           ELSE Rest(Committed(tick[p], m))]
    /\ cards' = cards \cup HandedOver(m)
    /\ UNCHANGED <<day, hour, rounds, base, shared, own, decided, notes,
                   inputs, faults>>

LayerOfItem == [i \in Items |-> IF i = AdHoc THEN 3 ELSE LayerOf[i]]

(* increment_round_counter, still under the lock. *)
Count(p) ==
    /\ tick[p].pc = "count"
    /\ LET l == LayerOfItem[tick[p].cur]
       IN  /\ rounds' = [rounds EXCEPT ![tick[p].day][l] = @ + 1]
           /\ tick' = [tick EXCEPT ![p] = IF l = 1
                                          THEN [tick[p] EXCEPT !.pc = "base"]
                                          ELSE Rest(tick[p])]
    /\ UNCHANGED <<day, hour, ledger, base, files, inputs, faults>>

(* write_l1_baseline, still under the lock. *)
Baseline(p) ==
    /\ tick[p].pc = "base"
    /\ base' = [base EXCEPT ![tick[p].day] = rounds[tick[p].day]]
    /\ tick' = [tick EXCEPT ![p] = Rest(tick[p])]
    /\ UNCHANGED <<day, hour, ledger, rounds, files, inputs, faults>>

(* The session dies; the kernel drops its lock. *)
Crash(p) ==
    /\ tick[p].pc # "idle"
    /\ faults < MaxFaults
    /\ tick' = [tick EXCEPT ![p] = Idle]
    /\ faults' = faults + 1
    /\ UNCHANGED <<day, hour, books, files, inputs>>

Progress(p) ==
    \/ Decide(p)
    \/ Defer(p)
    \/ \E g \in SUBSET Missions : Work(p, g)
    \/ \E m \in Missions : Replayed(p, m) \/ Commit(p, m)
    \/ Count(p)
    \/ Baseline(p)

Next ==
    \/ Advance
    \/ Approve
    \/ Note
    \/ \E p \in Ticks :
          \/ Progress(p)
          \/ Crash(p)
          \/ \E g \in SUBSET Missions : Fail(p, g)

(* Sessions keep ticking, workers return, and the day goes on. *)
Fairness == WF_vars(Advance) /\ \A p \in Ticks : WF_vars(Progress(p))

Spec == Init /\ [][Next]_vars
FairSpec == Spec /\ Fairness

----------------------------------------------------------------------------
(* Properties *)

(* A session is in the middle of the books. *)
Debtor(p) == tick[p].pc \in {"count", "base"}

(* What is owed: the round of the completion that was just written. *)
Owed == IF \A p \in Ticks : ~Debtor(p)
        THEN [day |-> 0, layer |-> 0, snap |-> FALSE]
        ELSE LET p == CHOOSE q \in Ticks : Debtor(q)
             IN  [day |-> tick[p].day, layer |-> LayerOfItem[tick[p].cur],
                  snap |-> tick[p].pc = "base"]

Books == INSTANCE DayContract WITH
    closed <- [d \in Days |-> [i \in Items |-> ledger[d][i].disp]],
    owed <- Owed,
    LayerFor <- LayerOfItem,
    Reopens <- Hourly,
    Replays <- {m \in Dedicated : LayerOf[m] \in LayersWithEvidence}

(* The books of commit_dispatch (dispatch_helpers.py:462): a mission is closed
   once a day, a replayed commit changes nothing, each completion counts for
   at most one round of its own layer and day, and layer 1 takes its baseline
   right after its own round, also with two ticks at once, deaths and midnight. *)
ImplementsContract == Books!Spec

(* Only one commit at a time is between its ledger and its round counter. *)
OneDebtor == \A p, q \in Ticks : Debtor(p) /\ Debtor(q) => p = q

(* The synthetic completion of layer 3 without its round: the session died
   between the two writes of write_l3_human_deferred. *)
DeferTorn(d) == /\ Completed(d, AdHoc)
                /\ rounds[d][3] = 0
                /\ \A p \in Ticks : ~Debtor(p)

DebriefWritten ==
    \A m \in Missions :
        LayerOf[m] = 4 /\ MaxDay \in OpenOn[m] => Completed(MaxDay, m)

(* The debrief of the last day is written in the end, whatever failed or
   waits for the operator: its prerequisites do not starve it
   (dispatch_helpers.py:3045), but for a session that dies in the two writes
   of a defer. *)
DebriefRuns == <>(DebriefWritten \/ DeferTorn(MaxDay))

(* maybe_defer_ad_hoc_l3 marks layer 3 as handled today, so that a decision
   nobody can act on never starves layer 4 (scaffold.py:323). *)
DebriefNeverStarved == <>DebriefWritten

(* A producer with a prompt of its own, or a weekly one, that was open on the
   last day runs, although its layer was closed when its time came, its tick
   died or its worker failed (dispatch_helpers.py:3710). *)
CatchesUp ==
    <>(\A m \in Scheduled :
          (m \in Dedicated \/ Cadence[m] = "weekly") /\ MaxDay \in OpenOn[m]
             => Completed(MaxDay, m))

(* A worker that crashed leaves its mission due, and the next tick runs it
   again (layer_templates.py:42). *)
CrashLeavesDue ==
    <>(\A m \in Scheduled : MaxDay \in OpenOn[m] => Completed(MaxDay, m))
=============================================================================
