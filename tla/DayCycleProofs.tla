---------------------------- MODULE DayCycleProofs ----------------------------
(* Theorems about DayCycle: types, the one commit in the books at a time, and *)
(* the contract that the books keep for any missions, sessions, days, inputs *)
(* and failures.                                                             *)
EXTENDS DayCycle, TLAPS

USE MissionsAssumption

LEMMA RestTyped ==
  ASSUME NEW t \in Session
  PROVE  Rest(t) \in Session
<1>1. Idle \in Session
  BY DEF Idle, Session, Days, Hours, Items
<1>2. [t EXCEPT !.pc = "run", !.cur = AdHoc] \in Session
  BY DEF Session, Items
<1>. QED
  BY <1>1, <1>2 DEF Rest

LEMMA DueAreMissions == DueMissions \in SUBSET Missions
<1>. DEFINE open == {l \in Layers : Eligible(l) /\ DueOn(l) # {}}
            late == Overdue(Scheduled \cap Dedicated)
            week == Overdue(Weekly)
<1>1. \A l : DueOn(l) \in SUBSET Missions
  BY DEF DueOn
<1>. HIDE DEF open, late, week
<1>2. DueMissions = IF open # {} THEN DueOn(HighestOf(open))
                    ELSE IF late # {} THEN DueOn(HighestOf(late))
                    ELSE IF week # {} THEN DueOn(HighestOf(week)) \cap Weekly
                    ELSE {}
  BY DEF DueMissions, open, late, week
<1>3. /\ DueOn(HighestOf(open)) \in SUBSET Missions
      /\ DueOn(HighestOf(late)) \in SUBSET Missions
      /\ DueOn(HighestOf(week)) \cap Weekly \in SUBSET Missions
  BY <1>1
<1>. QED
  BY <1>2, <1>3

LEMMA EntriesTyped == NoEntry \in Entry /\ Closed \in Entry
  BY DEF NoEntry, Closed, Entry

LEMMA IdleTyped == Idle \in Session
  BY DEF Idle, Session, Days, Hours, Items

LEMMA InitTyped == Init => TypeOK
<1>. SUFFICES ASSUME Init PROVE TypeOK
  OBVIOUS
<1>1. day \in Days /\ hour \in Hours
  BY DEF Init, Days, Hours
<1>2. ledger \in [Days -> [Items -> Entry]] /\ tick \in [Ticks -> Session]
  BY EntriesTyped, IdleTyped DEF Init
<1>. QED
  BY <1>1, <1>2 DEF Init, TypeOK

LEMMA NextTyped == TypeOK /\ [Next]_vars => TypeOK'
<1>. SUFFICES ASSUME TypeOK, [Next]_vars PROVE TypeOK'
  OBVIOUS
<1>1. CASE UNCHANGED vars
  BY <1>1 DEF TypeOK, vars, books, files
<1>2. CASE Advance
  <2>1. day' \in Days /\ hour' \in Hours
    BY <1>2 DEF TypeOK, Advance, Hours, Days
  <2>. QED
    BY <1>2, <2>1 DEF TypeOK, Advance, books, files
<1>3. CASE Approve
  BY <1>3 DEF TypeOK, Approve, books
<1>13. CASE Note
  BY <1>13 DEF TypeOK, Note, books
<1>4. ASSUME NEW p \in Ticks, Decide(p) PROVE TypeOK'
  <2>1. tick' \in [Ticks -> Session]
    <3>. DEFINE t == [pc |-> IF Defers THEN "defer" ELSE "run", day |-> day,
                      hour |-> DispatchHour, todo |-> DueMissions, ret |-> {},
                      cur |-> AdHoc]
    <3>1. DispatchHour \in Hours
      BY DEF DispatchHour, TypeOK, Hours
    <3>2. t \in Session
      BY <3>1, DueAreMissions DEF Session, TypeOK, Items
    <3>. HIDE DEF t
    <3>3. tick' = [tick EXCEPT ![p] = t]
      BY <1>4 DEF Decide, t
    <3>. QED
      BY <3>2, <3>3 DEF TypeOK
  <2>. QED
    BY <1>4, <2>1 DEF TypeOK, Decide, books, files
<1>5. ASSUME NEW p \in Ticks, Defer(p) PROVE TypeOK'
  <2>1. tick[p] \in Session /\ Rest(tick[p]) \in Session
    BY RestTyped DEF TypeOK
  <2>2. tick' \in [Ticks -> Session]
    <3>. DEFINE counted == [tick[p] EXCEPT !.pc = "count", !.cur = AdHoc]
    <3>1. counted \in Session
      BY <2>1 DEF Session, Items
    <3>2. \/ tick' = [tick EXCEPT ![p] = Rest(tick[p])]
          \/ tick' = [tick EXCEPT ![p] = counted]
      BY <1>5 DEF TypeOK, Defer
    <3>. HIDE DEF counted
    <3>. QED
      BY <2>1, <3>1, <3>2 DEF TypeOK
  <2>3. ledger' \in [Days -> [Items -> Entry]]
    <3>1. AdHoc \in Items /\ tick[p].day \in Days
      BY <2>1 DEF Items, Session
    <3>2. \/ ledger' = ledger
          \/ ledger' = [ledger EXCEPT ![tick[p].day][AdHoc] = Closed]
      BY <1>5 DEF Defer
    <3>3. CASE ledger' = ledger
      BY <3>3 DEF TypeOK
    <3>4. CASE ledger' = [ledger EXCEPT ![tick[p].day][AdHoc] = Closed]
      BY <3>1, <3>4, EntriesTyped DEF TypeOK
    <3>. QED
      BY <3>2, <3>3, <3>4
  <2>. QED
    BY <1>5, <2>2, <2>3 DEF TypeOK, Defer, files
<1>6. ASSUME NEW p \in Ticks, NEW g \in SUBSET Missions, Work(p, g)
      PROVE  TypeOK'
  <2>1. tick[p] \in Session
    BY DEF TypeOK
  <2>2. tick' \in [Ticks -> Session]
    <3>1. [tick[p] EXCEPT !.todo = @ \ g, !.ret = @ \cup g] \in Session
      BY <2>1 DEF Session
    <3>. QED
      BY <1>6, <2>1, <3>1 DEF TypeOK, Work
  <2>3. {LayerOf[m] : m \in g \ Dedicated} \subseteq Layers
    OBVIOUS
  <2>4. /\ shared' \in [Days -> SUBSET Layers]
        /\ own' \in [Days -> SUBSET Missions]
    BY <1>6, <2>1, <2>3 DEF TypeOK, Work, Session
  <2>5. cards' \subseteq Missions /\ notes' \in BOOLEAN /\ decided' \in BOOLEAN
    BY <1>6 DEF TypeOK, Work
  <2>. QED
    BY <1>6, <2>2, <2>4, <2>5 DEF TypeOK, Work, books
<1>7. ASSUME NEW p \in Ticks, NEW g \in SUBSET Missions, Fail(p, g)
      PROVE  TypeOK'
  <2>1. tick[p] \in Session
    BY DEF TypeOK
  <2>2. [tick[p] EXCEPT !.todo = @ \ g] \in Session
    BY <2>1 DEF Session
  <2>3. tick' = [tick EXCEPT ![p] = Rest([tick[p] EXCEPT !.todo = @ \ g])]
    BY <1>7 DEF Fail
  <2>4. tick' \in [Ticks -> Session]
    BY <2>2, <2>3, RestTyped DEF TypeOK
  <2>. QED
    BY <1>7, <2>4 DEF TypeOK, Fail, books, files
<1>8. ASSUME NEW p \in Ticks, NEW m \in Missions, Replayed(p, m)
      PROVE  TypeOK'
  <2>1. tick[p] \in Session
    BY DEF TypeOK
  <2>2. Committed(tick[p], m) \in Session
    BY <2>1 DEF Session, Committed
  <2>3. tick' = [tick EXCEPT ![p] = Rest(Committed(tick[p], m))]
    BY <1>8 DEF Replayed
  <2>4. tick' \in [Ticks -> Session]
    BY <2>2, <2>3, RestTyped DEF TypeOK
  <2>. QED
    BY <1>8, <2>4 DEF TypeOK, Replayed, books, files
<1>9. ASSUME NEW p \in Ticks, NEW m \in Missions, Commit(p, m)
      PROVE  TypeOK'
  <2>1. tick[p] \in Session
    BY DEF TypeOK
  <2>2. tick' \in [Ticks -> Session]
    <3>1. Committed(tick[p], m) \in Session
      BY <2>1 DEF Session, Committed
    <3>2. [Committed(tick[p], m) EXCEPT !.cur = m, !.pc = "count"] \in Session
      BY <3>1 DEF Session, Items
    <3>. DEFINE rested == Rest(Committed(tick[p], m))
                counted == [Committed(tick[p], m) EXCEPT !.cur = m,
                                                         !.pc = "count"]
    <3>3. rested \in Session /\ counted \in Session
      BY <3>1, <3>2, RestTyped
    <3>4. \/ tick' = [tick EXCEPT ![p] = rested]
          \/ tick' = [tick EXCEPT ![p] = counted]
      BY <1>9, Zenon DEF Commit
    <3>. QED
      BY <3>3, <3>4 DEF TypeOK
  <2>3. ledger' \in [Days -> [Items -> Entry]]
    <3>. DEFINE e == IF m \in Hourly
                     THEN [disp |-> tick[p].hour + 1, done |-> Now] ELSE Closed
    <3>1. e \in Entry
      BY <2>1 DEF Session, Hours, Now, Closed, TypeOK, Days, Entry
    <3>. HIDE DEF e
    <3>2. ledger' = [ledger EXCEPT ![tick[p].day][m] = e]
      BY <1>9 DEF Commit, e
    <3>. QED
      BY <3>1, <3>2 DEF TypeOK
  <2>4. cards' \subseteq Missions
    BY <1>9 DEF Commit, HandedOver, TypeOK
  <2>. QED
    BY <1>9, <2>2, <2>3, <2>4 DEF TypeOK, Commit
<1>10. ASSUME NEW p \in Ticks, Count(p) PROVE TypeOK'
  <2>1. tick[p] \in Session /\ Rest(tick[p]) \in Session
    BY RestTyped DEF TypeOK
  <2>2. [tick[p] EXCEPT !.pc = "base"] \in Session
    BY <2>1 DEF Session
  <2>3. tick' \in [Ticks -> Session]
    BY <1>10, <2>1, <2>2 DEF TypeOK, Count
  <2>4. rounds' \in [Days -> [Layers -> Nat]]
    <3>1. tick[p].day \in Days /\ LayerOfItem[tick[p].cur] \in Layers
      BY <2>1 DEF Session, LayerOfItem, Layers, Items
    <3>. QED
      BY <1>10, <3>1 DEF TypeOK, Count
  <2>. QED
    BY <1>10, <2>3, <2>4 DEF TypeOK, Count, files
<1>11. ASSUME NEW p \in Ticks, Baseline(p) PROVE TypeOK'
  <2>1. tick[p] \in Session /\ Rest(tick[p]) \in Session
    BY RestTyped DEF TypeOK
  <2>2. base' \in [Days -> [Layers -> Nat]]
    BY <1>11, <2>1 DEF TypeOK, Baseline, Session
  <2>. QED
    BY <1>11, <2>1, <2>2 DEF TypeOK, Baseline, files
<1>12. ASSUME NEW p \in Ticks, Crash(p) PROVE TypeOK'
  <2>1. Idle \in Session
    BY DEF Idle, Session, Days, Hours, Items
  <2>. QED
    BY <1>12, <2>1 DEF TypeOK, Crash, books, files
<1>. QED
  BY <1>1, <1>2, <1>3, <1>4, <1>5, <1>6, <1>7, <1>8, <1>9, <1>10, <1>11, <1>12,
     <1>13
     DEF Next, Progress

\* The books, the queues and the sessions have their types in every reachable state.
THEOREM Typing == Spec => []TypeOK
  BY InitTyped, NextTyped, PTL DEF Spec

-------------------------------------------------------------------------------
(* One commit at a time *)

\* A session that takes a baseline has just counted a round of layer 1.
BaseIsLayer1 == \A p \in Ticks : tick[p].pc = "base" => LayerOfItem[tick[p].cur] = 1

BooksInv == TypeOK /\ OneDebtor /\ BaseIsLayer1

LEMMA RestOwesNothing ==
  ASSUME NEW t \in Session
  PROVE  Rest(t).pc \notin {"count", "base"}
  BY DEF Rest, Idle, Session

\* Every step leaves the books to whoever has them, or is a step of the one
\* session that has them.
LEMMA Turns ==
  ASSUME TypeOK, [Next]_vars
  PROVE  \/ \E p \in Ticks : /\ \A q \in Ticks \ {p} : tick'[q] = tick[q]
                             /\ ~Debtor(p)
                             /\ LockFree \/ ~Debtor(p)'
                             /\ tick'[p].pc # "base"
         \/ \E p \in Ticks : /\ \A q \in Ticks \ {p} : tick'[q] = tick[q]
                             /\ Debtor(p)
                             /\ tick'[p].pc # "count"
                             /\ tick'[p].pc = "base" => /\ tick'[p].cur = tick[p].cur
                                                       /\ LayerOfItem[tick[p].cur] = 1
         \/ tick' = tick
<1>1. CASE UNCHANGED vars
  BY <1>1 DEF vars
<1>2. CASE Advance \/ Approve \/ Note
  BY <1>2 DEF Advance, Approve, Note
<1>3. ASSUME NEW p \in Ticks, NEW t, tick' = [tick EXCEPT ![p] = t]
      PROVE  tick'[p] = t /\ \A q \in Ticks \ {p} : tick'[q] = tick[q]
  BY <1>3 DEF TypeOK
<1>4. ASSUME NEW p \in Ticks PROVE tick[p] \in Session
  BY DEF TypeOK
<1>5. ASSUME NEW p \in Ticks, Decide(p)
      PROVE  /\ ~Debtor(p) /\ ~Debtor(p)' /\ tick'[p].pc # "base"
             /\ \A q \in Ticks \ {p} : tick'[q] = tick[q]
  BY <1>5 DEF Decide, Debtor, TypeOK
<1>6. ASSUME NEW p \in Ticks, Defer(p)
      PROVE  /\ ~Debtor(p) /\ LockFree /\ tick'[p].pc # "base"
             /\ \A q \in Ticks \ {p} : tick'[q] = tick[q]
  <2>1. \/ tick' = [tick EXCEPT ![p] = Rest(tick[p])]
        \/ tick' = [tick EXCEPT ![p] =
                        [tick[p] EXCEPT !.pc = "count", !.cur = AdHoc]]
    BY <1>6 DEF Defer, TypeOK
  <2>2. /\ Rest(tick[p]).pc # "base"
        /\ [tick[p] EXCEPT !.pc = "count", !.cur = AdHoc].pc # "base"
    BY <1>4, RestOwesNothing DEF Session
  <2>. QED
    BY <1>3, <1>6, <2>1, <2>2 DEF Defer, Debtor
<1>7. ASSUME NEW p \in Ticks, NEW g \in SUBSET Missions, Work(p, g)
      PROVE  /\ ~Debtor(p) /\ ~Debtor(p)' /\ tick'[p].pc # "base"
             /\ \A q \in Ticks \ {p} : tick'[q] = tick[q]
  BY <1>4, <1>7 DEF Work, Debtor, TypeOK, Session
<1>8. ASSUME NEW p \in Ticks, NEW g \in SUBSET Missions, Fail(p, g)
      PROVE  /\ ~Debtor(p) /\ ~Debtor(p)' /\ tick'[p].pc # "base"
             /\ \A q \in Ticks \ {p} : tick'[q] = tick[q]
  <2>1. [tick[p] EXCEPT !.todo = @ \ g] \in Session
    BY <1>4 DEF Session
  <2>2. tick' = [tick EXCEPT ![p] = Rest([tick[p] EXCEPT !.todo = @ \ g])]
    BY <1>8 DEF Fail
  <2>. QED
    BY <1>3, <1>8, <2>1, <2>2, RestOwesNothing DEF Fail, Debtor
<1>9. ASSUME NEW p \in Ticks, NEW m \in Missions, Replayed(p, m)
      PROVE  /\ ~Debtor(p) /\ ~Debtor(p)' /\ tick'[p].pc # "base"
             /\ \A q \in Ticks \ {p} : tick'[q] = tick[q]
  <2>1. Committed(tick[p], m) \in Session
    BY <1>4 DEF Session, Committed
  <2>2. tick' = [tick EXCEPT ![p] = Rest(Committed(tick[p], m))]
    BY <1>9 DEF Replayed
  <2>. QED
    BY <1>3, <1>9, <2>1, <2>2, RestOwesNothing DEF Replayed, Debtor
<1>10. ASSUME NEW p \in Ticks, NEW m \in Missions, Commit(p, m)
       PROVE  /\ ~Debtor(p) /\ LockFree /\ tick'[p].pc # "base"
              /\ \A q \in Ticks \ {p} : tick'[q] = tick[q]
  <2>. DEFINE rested == Rest(Committed(tick[p], m))
              counted == [Committed(tick[p], m) EXCEPT !.cur = m, !.pc = "count"]
  <2>1. Committed(tick[p], m) \in Session
    BY <1>4 DEF Session, Committed
  <2>2. rested.pc # "base" /\ counted.pc # "base"
    BY <2>1, RestOwesNothing DEF Session
  <2>3. \/ tick' = [tick EXCEPT ![p] = rested]
        \/ tick' = [tick EXCEPT ![p] = counted]
    BY <1>10, Zenon DEF Commit
  <2>. HIDE DEF rested, counted
  <2>. QED
    BY <1>3, <1>10, <2>2, <2>3 DEF Commit, Debtor
<1>11. ASSUME NEW p \in Ticks, Count(p)
       PROVE  /\ Debtor(p) /\ tick'[p].pc # "count"
              /\ tick'[p].pc = "base" => /\ tick'[p].cur = tick[p].cur
                                        /\ LayerOfItem[tick[p].cur] = 1
              /\ \A q \in Ticks \ {p} : tick'[q] = tick[q]
  <2>1. CASE LayerOfItem[tick[p].cur] = 1
    <3>1. tick' = [tick EXCEPT ![p] = [tick[p] EXCEPT !.pc = "base"]]
      BY <1>11, <2>1 DEF Count
    <3>2. /\ tick'[p] = [tick[p] EXCEPT !.pc = "base"]
          /\ \A q \in Ticks \ {p} : tick'[q] = tick[q]
      BY <1>3, <3>1, Zenon
    <3>3. /\ [tick[p] EXCEPT !.pc = "base"].pc = "base"
          /\ [tick[p] EXCEPT !.pc = "base"].cur = tick[p].cur
      BY <1>4 DEF Session
    <3>. QED
      BY <1>11, <2>1, <3>2, <3>3 DEF Count, Debtor
  <2>2. CASE LayerOfItem[tick[p].cur] # 1
    <3>1. tick' = [tick EXCEPT ![p] = Rest(tick[p])]
      BY <1>11, <2>2 DEF Count
    <3>2. /\ tick'[p] = Rest(tick[p])
          /\ \A q \in Ticks \ {p} : tick'[q] = tick[q]
      BY <1>3, <3>1, Zenon
    <3>3. tick'[p].pc \notin {"count", "base"}
      BY <1>4, <3>2, RestOwesNothing
    <3>. QED
      BY <1>11, <3>2, <3>3 DEF Count, Debtor
  <2>. QED
    BY <2>1, <2>2
<1>12. ASSUME NEW p \in Ticks, Baseline(p)
       PROVE  /\ Debtor(p) /\ ~Debtor(p)'
              /\ \A q \in Ticks \ {p} : tick'[q] = tick[q]
  BY <1>3, <1>4, <1>12, RestOwesNothing DEF Baseline, Debtor
<1>13. ASSUME NEW p \in Ticks, Crash(p)
       PROVE  /\ ~Debtor(p)'
              /\ \A q \in Ticks \ {p} : tick'[q] = tick[q]
  <2>1. tick' = [tick EXCEPT ![p] = Idle]
    BY <1>13 DEF Crash
  <2>2. tick'[p] = Idle /\ \A q \in Ticks \ {p} : tick'[q] = tick[q]
    BY <1>3, <2>1, Zenon
  <2>. QED
    BY <2>2 DEF Debtor, Idle
<1>14. ASSUME NEW p \in Ticks, ~Debtor(p)'
       PROVE  tick'[p].pc \notin {"count", "base"}
  BY <1>14 DEF Debtor
<1>. QED
  BY <1>1, <1>2, <1>5, <1>6, <1>7, <1>8, <1>9, <1>10, <1>11, <1>12, <1>13, <1>14
     DEF Next, Progress

LEMMA BooksInvariant == Spec => []BooksInv
<1>1. Init => BooksInv
  BY InitTyped DEF Init, BooksInv, OneDebtor, Debtor, BaseIsLayer1, Idle
<1>2. BooksInv /\ [Next]_vars => BooksInv'
  <2>. SUFFICES ASSUME BooksInv, [Next]_vars PROVE OneDebtor' /\ BaseIsLayer1'
    BY NextTyped DEF BooksInv
  <2>1. CASE tick' = tick
    BY <2>1 DEF BooksInv, OneDebtor, BaseIsLayer1, Debtor
  <2>2. ASSUME NEW p \in Ticks,
               \A q \in Ticks \ {p} : tick'[q] = tick[q],
               ~Debtor(p), LockFree \/ ~Debtor(p)', tick'[p].pc # "base"
        PROVE  OneDebtor' /\ BaseIsLayer1'
    BY <2>2 DEF BooksInv, OneDebtor, BaseIsLayer1, Debtor, LockFree
  <2>3. ASSUME NEW p \in Ticks,
               \A q \in Ticks \ {p} : tick'[q] = tick[q],
               Debtor(p),
               tick'[p].pc = "base" => /\ tick'[p].cur = tick[p].cur
                                       /\ LayerOfItem[tick[p].cur] = 1
        PROVE  OneDebtor' /\ BaseIsLayer1'
    BY <2>3 DEF BooksInv, OneDebtor, BaseIsLayer1, Debtor
  <2>4. TypeOK
    BY DEF BooksInv
  <2>. QED
    BY <2>1, <2>2, <2>3, <2>4, Turns
<1>. QED
  BY <1>1, <1>2, PTL DEF Spec

\* Only one session at a time is between a ledger entry and its round, whoever
\* ticks and dies.
THEOREM OneAtATime == Spec => []OneDebtor
  BY BooksInvariant, PTL DEF BooksInv

-------------------------------------------------------------------------------
(* The contract of the books *)

DebtOf(p) == [day |-> tick[p].day, layer |-> LayerOfItem[tick[p].cur],
              snap |-> tick[p].pc = "base"]
Shut == [d \in Days |-> [i \in Items |-> ledger[d][i].disp]]

LEMMA OwedNone ==
  /\ (\A p \in Ticks : ~Debtor(p)) => Owed = Books!NoOne
  /\ (\A p \in Ticks : ~Debtor(p)') => Owed' = Books!NoOne
  BY DEF Owed, Books!NoOne, Books!Nobody

LEMMA OwedBy ==
  ASSUME OneDebtor, NEW p \in Ticks, Debtor(p)
  PROVE  Owed = DebtOf(p)
<1>1. (CHOOSE q \in Ticks : Debtor(q)) = p
  BY DEF OneDebtor
<1>. QED
  BY <1>1 DEF Owed, DebtOf

LEMMA OwedByNext ==
  ASSUME OneDebtor', NEW p \in Ticks, Debtor(p)'
  PROVE  Owed' = DebtOf(p)'
<1>1. (CHOOSE q \in Ticks : Debtor(q)') = p
  BY DEF OneDebtor
<1>. QED
  BY <1>1 DEF Owed, DebtOf

\* A debt is nobody's: it has a day.
LEMMA DebtIsOwed ==
  ASSUME TypeOK, NEW p \in Ticks
  PROVE  DebtOf(p) # Books!NoOne
<1>1. tick[p].day \in Days
  BY DEF TypeOK, Session
<1>2. tick[p].day # 0
  BY <1>1 DEF Days
<1>. QED
  BY <1>2 DEF DebtOf, Books!NoOne, Books!Nobody

\* A step of a session that is not in the books leaves the debt alone.
LEMMA Undisturbed ==
  ASSUME OneDebtor, OneDebtor', NEW p \in Ticks, ~Debtor(p), ~Debtor(p)',
         \A q \in Ticks \ {p} : tick'[q] = tick[q]
  PROVE  Owed' = Owed
<1>1. CASE \E q \in Ticks : Debtor(q)
  <2>1. PICK q \in Ticks : Debtor(q)
    BY <1>1
  <2>2. q # p /\ tick'[q] = tick[q]
    BY <2>1
  <2>3. Debtor(q)' /\ DebtOf(q)' = DebtOf(q)
    BY <2>1, <2>2 DEF Debtor, DebtOf
  <2>4. Owed = DebtOf(q)
    BY <2>1, OwedBy
  <2>5. Owed' = DebtOf(q)'
    BY <2>3, OwedByNext
  <2>. QED
    BY <2>3, <2>4, <2>5
<1>2. CASE \A q \in Ticks : ~Debtor(q)
  <2>1. \A q \in Ticks : ~Debtor(q)'
    BY <1>2 DEF Debtor
  <2>. QED
    BY <1>2, <2>1, OwedNone
<1>. QED
  BY <1>1, <1>2

\* Nothing is owed once the session in the books has left them.
LEMMA Settled ==
  ASSUME OneDebtor, NEW p \in Ticks, Debtor(p), ~Debtor(p)',
         \A q \in Ticks \ {p} : tick'[q] = tick[q]
  PROVE  Owed' = Books!NoOne
<1>1. \A q \in Ticks : ~Debtor(q)'
  BY DEF OneDebtor, Debtor
<1>. QED
  BY <1>1, OwedNone

LEMMA FreeOwesNothing == LockFree => Owed = Books!NoOne
<1>1. LockFree => \A p \in Ticks : ~Debtor(p)
  BY DEF LockFree, Debtor
<1>. QED
  BY <1>1, OwedNone

LEMMA LayerIsBooked ==
  ASSUME NEW i \in Items
  PROVE  LayerOfItem[i] \in Layers
  BY DEF LayerOfItem, Layers, Items

LEMMA InitKeepsBooks == Init => Books!Init
<1>. SUFFICES ASSUME Init PROVE Books!Init
  OBVIOUS
<1>1. Shut = [d \in Days |-> [i \in Items |-> 0]]
  BY DEF Init, Shut, NoEntry
<1>2. \A p \in Ticks : ~Debtor(p)
  BY DEF Init, Debtor, Idle
<1>3. Owed = Books!NoOne
  BY <1>2, OwedNone
<1>. QED
  BY <1>1, <1>3 DEF Init, Books!Init, Shut, Layers, Books!Layers

LEMMA SameBooks ==
  ASSUME UNCHANGED books, Owed' = Owed
  PROVE  UNCHANGED Books!vars
  BY DEF books, Books!vars

\* A new entry in the ledger closes its item.
Put(f, d, i, e) == [f EXCEPT ![d][i] = e]

LEMMA EntryCloses ==
  TypeOK => \A d \in Days, i \in Items, e \in Entry :
               ledger' = Put(ledger, d, i, e) => Shut' = Put(Shut, d, i, e.disp)
<1>. SUFFICES ASSUME TypeOK, NEW d \in Days, NEW i \in Items, NEW e \in Entry,
                     ledger' = [ledger EXCEPT ![d][i] = e]
              PROVE  Shut' = [Shut EXCEPT ![d][i] = e.disp]
  BY DEF Put
<1>1. ledger \in [Days -> [Items -> Entry]]
  BY DEF TypeOK
<1>2. ASSUME NEW c \in Days
      PROVE  Shut'[c] = [Shut EXCEPT ![d][i] = e.disp][c]
  <2>1. Shut'[c] = [j \in Items |-> ledger'[c][j].disp]
    BY DEF Shut
  <2>2. Shut[c] = [j \in Items |-> ledger[c][j].disp]
    BY DEF Shut
  <2>3. CASE c = d
    <3>1. ledger'[c] = [ledger[c] EXCEPT ![i] = e]
      BY <1>1, <2>3
    <3>2. [Shut EXCEPT ![d][i] = e.disp][c] = [Shut[c] EXCEPT ![i] = e.disp]
      BY <2>3 DEF Shut
    <3>3. [j \in Items |-> ledger'[c][j].disp]
            = [[j \in Items |-> ledger[c][j].disp] EXCEPT ![i] = e.disp]
      BY <1>1, <3>1
    <3>. QED
      BY <2>1, <2>2, <3>2, <3>3
  <2>4. CASE c # d
    <3>1. ledger'[c] = ledger[c]
      BY <1>1, <2>4
    <3>2. [Shut EXCEPT ![d][i] = e.disp][c] = Shut[c]
      BY <2>4 DEF Shut
    <3>. QED
      BY <2>1, <2>2, <3>1, <3>2
  <2>. QED
    BY <2>3, <2>4
<1>3. /\ Shut' = [c \in Days |-> Shut'[c]]
      /\ [Shut EXCEPT ![d][i] = e.disp]
           = [c \in Days |-> [Shut EXCEPT ![d][i] = e.disp][c]]
  BY DEF Shut
<1>. QED
  BY <1>2, <1>3

\* The debt after a completion is what the contract lets a Close owe.
LEMMA NewDebt ==
  ASSUME TypeOK, OneDebtor', NEW p \in Ticks, LockFree,
         \A q \in Ticks \ {p} : tick'[q] = tick[q],
         tick'[p].pc # "base"
  PROVE  Owed' \in {Books!NoOne,
                    [day |-> tick'[p].day, layer |-> LayerOfItem[tick'[p].cur],
                     snap |-> FALSE]}
<1>1. CASE Debtor(p)'
  BY <1>1, OwedByNext DEF DebtOf
<1>2. CASE ~Debtor(p)'
  <2>1. \A q \in Ticks : ~Debtor(q)'
    BY <1>2 DEF LockFree, Debtor
  <2>. QED
    BY <2>1, OwedNone
<1>. QED
  BY <1>1, <1>2

Replayable == {m \in Dedicated : LayerOf[m] \in LayersWithEvidence}

LEMMA CompletionIsClose ==
  ASSUME BooksInv, BooksInv', NEW p \in Ticks, NEW d \in Days, NEW i \in Items,
         NEW e \in Entry, e.disp \in 1..4, LockFree,
         \/ ledger[d][i].disp = 0
         \/ i \in Hourly /\ e.disp >= ledger[d][i].disp
         \/ i \in Replayable,
         ledger' = [ledger EXCEPT ![d][i] = e],
         UNCHANGED <<rounds, base>>,
         \A q \in Ticks \ {p} : tick'[q] = tick[q],
         tick'[p].pc # "base",
         Debtor(p)' => tick'[p].day = d /\ tick'[p].cur = i
  PROVE  Books!Next
<1>1. Owed = Books!NoOne
  BY FreeOwesNothing
<1>2. Shut' = [Shut EXCEPT ![d][i] = e.disp]
  <2>1. TypeOK
    BY DEF BooksInv
  <2>2. ledger' = Put(ledger, d, i, e)
    BY DEF Put
  <2>3. Shut' = Put(Shut, d, i, e.disp)
    BY <2>1, <2>2, EntryCloses
  <2>. QED
    BY <2>3 DEF Put
<1>3. Owed' \in {Books!NoOne,
                 [day |-> d, layer |-> LayerOfItem[i], snap |-> FALSE]}
  <2>1. CASE Debtor(p)'
    BY <2>1, NewDebt DEF BooksInv
  <2>2. CASE ~Debtor(p)'
    <3>1. \A q \in Ticks : ~Debtor(q)'
      BY <2>2 DEF LockFree, Debtor
    <3>. QED
      BY <3>1, OwedNone
  <2>. QED
    BY <2>1, <2>2
<1>4. Shut[d][i] = ledger[d][i].disp
  BY DEF Shut
<1>5. Books!Close(d, i, e.disp)
  BY <1>1, <1>2, <1>3, <1>4 DEF Books!Close, Shut, Replayable
<1>. QED
  BY <1>5 DEF Books!Next

LEMMA DeferKeepsBooks ==
  ASSUME BooksInv, BooksInv', NEW p \in Ticks, Defer(p)
  PROVE  [Books!Next]_(Books!vars)
<1>1. tick[p] \in Session /\ tick[p].day \in Days /\ AdHoc \in Items
  BY DEF BooksInv, TypeOK, Session, Items
<1>2. CASE Completed(tick[p].day, AdHoc)
  <2>1. tick' = [tick EXCEPT ![p] = Rest(tick[p])] /\ UNCHANGED books
    BY <1>2 DEF Defer, books
  <2>2. /\ tick'[p] = Rest(tick[p])
        /\ \A q \in Ticks \ {p} : tick'[q] = tick[q]
    BY <2>1 DEF BooksInv, TypeOK
  <2>3. ~Debtor(p) /\ ~Debtor(p)'
    BY <1>1, <2>2, RestOwesNothing DEF Defer, Debtor
  <2>4. Owed' = Owed
    BY <2>2, <2>3, Undisturbed DEF BooksInv
  <2>. QED
    BY <2>1, <2>4, SameBooks
<1>3. CASE ~Completed(tick[p].day, AdHoc)
  <2>1. /\ tick' = [tick EXCEPT ![p] =
                       [tick[p] EXCEPT !.pc = "count", !.cur = AdHoc]]
        /\ ledger' = [ledger EXCEPT ![tick[p].day][AdHoc] = Closed]
        /\ UNCHANGED <<rounds, base>>
        /\ LockFree
    BY <1>3 DEF Defer, BooksInv, TypeOK
  <2>2. /\ tick'[p] = [tick[p] EXCEPT !.pc = "count", !.cur = AdHoc]
        /\ \A q \in Ticks \ {p} : tick'[q] = tick[q]
    BY <2>1 DEF BooksInv, TypeOK
  <2>3. /\ tick'[p].pc = "count"
        /\ tick'[p].day = tick[p].day
        /\ tick'[p].cur = AdHoc
    BY <1>1, <2>2 DEF Session
  <2>4. ledger[tick[p].day][AdHoc].disp = 0
    <3>1. ledger[tick[p].day][AdHoc] \in Entry
      BY <1>1 DEF BooksInv, TypeOK
    <3>. QED
      BY <1>3, <3>1 DEF Completed, Entry
  <2>5. Closed \in Entry /\ Closed.disp \in 1..4
    BY EntriesTyped DEF Closed
  <2>. QED
    BY <1>1, <2>1, <2>2, <2>3, <2>4, <2>5, CompletionIsClose
<1>. QED
  BY <1>2, <1>3

LEMMA ReplayKeepsBooks ==
  ASSUME BooksInv, BooksInv', NEW p \in Ticks, ~Debtor(p), ~Debtor(p)',
         \A q \in Ticks \ {p} : tick'[q] = tick[q], UNCHANGED books
  PROVE  [Books!Next]_(Books!vars)
<1>1. Owed' = Owed
  BY Undisturbed DEF BooksInv
<1>. QED
  BY <1>1, SameBooks

LEMMA CommitKeepsBooks ==
  ASSUME BooksInv, BooksInv', NEW p \in Ticks, NEW m \in Missions, Commit(p, m)
  PROVE  [Books!Next]_(Books!vars)
<1>. DEFINE rested == Rest(Committed(tick[p], m))
            counted == [Committed(tick[p], m) EXCEPT !.cur = m, !.pc = "count"]
            d == tick[p].day
            e == IF m \in Hourly
                 THEN [disp |-> tick[p].hour + 1, done |-> Now] ELSE Closed
<1>1. /\ tick[p] \in Session
      /\ Committed(tick[p], m) \in Session
      /\ d \in Days
      /\ m \in Items
      /\ ledger[d][m] \in Entry
  <2>1. tick[p] \in Session /\ m \in Items
    BY DEF BooksInv, TypeOK, Items
  <2>2. Committed(tick[p], m) \in Session
    BY <2>1 DEF Session, Committed
  <2>3. d \in Days
    BY <2>1 DEF Session
  <2>. QED
    BY <2>1, <2>2, <2>3 DEF BooksInv, TypeOK
<1>2. e \in Entry /\ e.disp \in 1..4
  <2>1. tick[p].hour \in 0..3 /\ Now \in Nat
    <3>1. tick[p].hour \in 0..3
      BY <1>1 DEF Session, Hours
    <3>2. day \in Nat /\ hour \in Nat
      BY DEF BooksInv, TypeOK, Days, Hours
    <3>. QED
      BY <3>1, <3>2 DEF Now
  <2>2. CASE m \in Hourly
    BY <2>1, <2>2 DEF Entry
  <2>3. CASE m \notin Hourly
    BY <2>3 DEF Entry, Closed
  <2>. QED
    BY <2>2, <2>3
<1>3. \/ tick' = [tick EXCEPT ![p] = rested]
      \/ tick' = [tick EXCEPT ![p] = counted]
  BY Zenon DEF Commit
<1>4. /\ ledger' = [ledger EXCEPT ![d][m] = e]
      /\ UNCHANGED <<rounds, base>>
      /\ LockFree
  BY DEF Commit
<1>5. \/ ledger[d][m].disp = 0
      \/ m \in Hourly /\ e.disp >= ledger[d][m].disp
      \/ m \in Replayable
  <2>1. CASE ~Completed(d, m)
    BY <1>1, <2>1 DEF Completed, Entry
  <2>2. CASE MayReopen(m, tick[p].hour, ledger[d][m])
    BY <2>2 DEF MayReopen
  <2>3. CASE LayerOf[m] \in LayersWithEvidence /\ ~HasRequiredOutput(m)
    BY <2>3 DEF Replayable, HasRequiredOutput
  <2>. QED
    BY <2>1, <2>2, <2>3, Zenon DEF Commit
<1>6. /\ tick'[p] \in {rested, counted}
      /\ \A q \in Ticks \ {p} : tick'[q] = tick[q]
  <2>. HIDE DEF rested, counted
  <2>. QED
    BY <1>3 DEF BooksInv, TypeOK
<1>7. /\ rested.pc \notin {"count", "base"}
      /\ counted.pc = "count" /\ counted.cur = m /\ counted.day = d
  BY <1>1, RestOwesNothing DEF Session, Committed
<1>. HIDE DEF rested, counted, e
<1>8. tick'[p].pc # "base"
  BY <1>6, <1>7
<1>9. Debtor(p)' => tick'[p].day = d /\ tick'[p].cur = m
  BY <1>6, <1>7 DEF Debtor
<1>. QED
  BY <1>1, <1>2, <1>4, <1>5, <1>6, <1>8, <1>9, CompletionIsClose

LEMMA CountKeepsBooks ==
  ASSUME BooksInv, BooksInv', NEW p \in Ticks, Count(p)
  PROVE  [Books!Next]_(Books!vars)
<1>. DEFINE l == LayerOfItem[tick[p].cur]
            d == tick[p].day
<1>1. tick[p] \in Session /\ d \in Days /\ l \in Layers
  BY LayerIsBooked DEF BooksInv, TypeOK, Session
<1>2. Debtor(p) /\ Owed = [day |-> d, layer |-> l, snap |-> FALSE]
  <2>1. Debtor(p)
    BY DEF Count, Debtor
  <2>2. Owed = DebtOf(p)
    BY <2>1, OwedBy DEF BooksInv
  <2>. QED
    BY <2>1, <2>2 DEF DebtOf, Count
<1>3. Owed # Books!NoOne
  BY <1>1, <1>2 DEF Books!NoOne, Books!Nobody, Days
<1>4. /\ rounds' = [rounds EXCEPT ![d][l] = @ + 1]
      /\ UNCHANGED <<ledger, base>>
  BY DEF Count
<1>5. Owed' = IF l = 1 THEN [day |-> d, layer |-> 1, snap |-> TRUE]
              ELSE Books!NoOne
  <2>1. CASE l = 1
    <3>1. tick' = [tick EXCEPT ![p] = [tick[p] EXCEPT !.pc = "base"]]
      BY <2>1 DEF Count
    <3>2. tick'[p] = [tick[p] EXCEPT !.pc = "base"]
      BY <3>1 DEF BooksInv, TypeOK
    <3>3. tick'[p].pc = "base" /\ tick'[p].day = d /\ tick'[p].cur = tick[p].cur
      BY <1>1, <3>2 DEF Session
    <3>4. Debtor(p)' /\ DebtOf(p)' = [day |-> d, layer |-> l, snap |-> TRUE]
      BY <3>3 DEF Debtor, DebtOf
    <3>5. Owed' = DebtOf(p)'
      BY <3>4, OwedByNext DEF BooksInv
    <3>. QED
      BY <2>1, <3>4, <3>5
  <2>2. CASE l # 1
    <3>1. tick' = [tick EXCEPT ![p] = Rest(tick[p])]
      BY <2>2 DEF Count
    <3>2. /\ tick'[p] = Rest(tick[p])
          /\ \A q \in Ticks \ {p} : tick'[q] = tick[q]
      BY <3>1 DEF BooksInv, TypeOK
    <3>3. ~Debtor(p)'
      BY <1>1, <3>2, RestOwesNothing DEF Debtor
    <3>. QED
      BY <1>2, <2>2, <3>2, <3>3, Settled DEF BooksInv
  <2>. QED
    BY <2>1, <2>2
<1>. HIDE DEF l, d
<1>6. Shut' = Shut
  BY <1>4 DEF Shut
<1>7. Books!Pay
  BY <1>2, <1>3, <1>4, <1>5, <1>6 DEF Books!Pay, Shut
<1>. QED
  BY <1>7 DEF Books!Next

LEMMA BaselineKeepsBooks ==
  ASSUME BooksInv, BooksInv', NEW p \in Ticks, Baseline(p)
  PROVE  [Books!Next]_(Books!vars)
<1>1. tick[p] \in Session
  BY DEF BooksInv, TypeOK
<1>2. Debtor(p) /\ Owed = DebtOf(p) /\ Owed # Books!NoOne
  <2>1. Debtor(p)
    BY DEF Baseline, Debtor
  <2>. QED
    BY <2>1, OwedBy, DebtIsOwed DEF BooksInv
<1>3. Owed.snap /\ Owed.day = tick[p].day
  BY <1>2 DEF DebtOf, Baseline
<1>4. tick' = [tick EXCEPT ![p] = Rest(tick[p])]
  BY DEF Baseline
<1>5. /\ tick'[p] = Rest(tick[p])
      /\ \A q \in Ticks \ {p} : tick'[q] = tick[q]
  BY <1>4 DEF BooksInv, TypeOK
<1>6. ~Debtor(p)'
  BY <1>1, <1>5, RestOwesNothing DEF Debtor
<1>7. Owed' = Books!NoOne
  BY <1>2, <1>5, <1>6, Settled DEF BooksInv
<1>8. Shut' = Shut
  BY DEF Baseline, Shut
<1>9. Books!Snapshot
  BY <1>2, <1>3, <1>7, <1>8 DEF Books!Snapshot, Baseline, Shut
<1>. QED
  BY <1>9 DEF Books!Next

LEMMA CrashKeepsBooks ==
  ASSUME BooksInv, BooksInv', NEW p \in Ticks, Crash(p)
  PROVE  [Books!Next]_(Books!vars)
<1>1. tick' = [tick EXCEPT ![p] = Idle] /\ UNCHANGED books
  BY DEF Crash
<1>2. tick'[p] = Idle /\ \A q \in Ticks \ {p} : tick'[q] = tick[q]
  BY <1>1 DEF BooksInv, TypeOK
<1>3. ~Debtor(p)'
  BY <1>2 DEF Debtor, Idle
<1>4. CASE Debtor(p)
  <2>1. Owed = DebtOf(p) /\ Owed # Books!NoOne
    BY <1>4, OwedBy, DebtIsOwed DEF BooksInv
  <2>2. Owed' = Books!NoOne
    BY <1>2, <1>3, <1>4, Settled DEF BooksInv
  <2>3. Shut' = Shut /\ UNCHANGED <<rounds, base>>
    BY <1>1 DEF Shut, books
  <2>4. Books!Forget
    BY <2>1, <2>2, <2>3 DEF Books!Forget, Shut
  <2>. QED
    BY <2>4 DEF Books!Next
<1>5. CASE ~Debtor(p)
  BY <1>1, <1>2, <1>3, <1>5, ReplayKeepsBooks
<1>. QED
  BY <1>4, <1>5

LEMMA StepKeepsBooks ==
  BooksInv /\ BooksInv' /\ [Next]_vars => [Books!Next]_(Books!vars)
<1>. SUFFICES ASSUME BooksInv, BooksInv', [Next]_vars
              PROVE  [Books!Next]_(Books!vars)
  OBVIOUS
<1>1. ASSUME UNCHANGED <<tick, books>>
      PROVE  [Books!Next]_(Books!vars)
  <2>1. Owed' = Owed
    BY <1>1 DEF Owed, Debtor
  <2>. QED
    BY <1>1, <2>1, SameBooks
<1>2. ASSUME NEW p \in Ticks, NEW t,
             tick' = [tick EXCEPT ![p] = t]
      PROVE  tick'[p] = t /\ \A q \in Ticks \ {p} : tick'[q] = tick[q]
  BY <1>2 DEF BooksInv, TypeOK
<1>3. ASSUME NEW p \in Ticks PROVE tick[p] \in Session
  BY DEF BooksInv, TypeOK
<1>4. CASE UNCHANGED vars \/ Advance \/ Approve \/ Note
  BY <1>1, <1>4 DEF vars, Advance, Approve, Note
<1>5. ASSUME NEW p \in Ticks, Decide(p)
      PROVE  [Books!Next]_(Books!vars)
  <2>1. /\ ~Debtor(p) /\ ~Debtor(p)' /\ UNCHANGED books
        /\ \A q \in Ticks \ {p} : tick'[q] = tick[q]
    BY <1>5 DEF Decide, Debtor, BooksInv, TypeOK
  <2>. QED
    BY <2>1, ReplayKeepsBooks
<1>6. ASSUME NEW p \in Ticks, NEW g \in SUBSET Missions, Work(p, g)
      PROVE  [Books!Next]_(Books!vars)
  <2>1. /\ ~Debtor(p) /\ ~Debtor(p)' /\ UNCHANGED books
        /\ \A q \in Ticks \ {p} : tick'[q] = tick[q]
    BY <1>3, <1>6 DEF Work, Debtor, BooksInv, TypeOK, Session
  <2>. QED
    BY <2>1, ReplayKeepsBooks
<1>7. ASSUME NEW p \in Ticks, NEW g \in SUBSET Missions, Fail(p, g)
      PROVE  [Books!Next]_(Books!vars)
  <2>1. [tick[p] EXCEPT !.todo = @ \ g] \in Session
    BY <1>3 DEF Session
  <2>2. tick' = [tick EXCEPT ![p] = Rest([tick[p] EXCEPT !.todo = @ \ g])]
    BY <1>7 DEF Fail
  <2>3. /\ ~Debtor(p) /\ ~Debtor(p)'
        /\ \A q \in Ticks \ {p} : tick'[q] = tick[q]
    BY <1>2, <1>7, <2>1, <2>2, RestOwesNothing DEF Fail, Debtor
  <2>4. UNCHANGED books
    BY <1>7 DEF Fail
  <2>. QED
    BY <2>3, <2>4, ReplayKeepsBooks
<1>8. ASSUME NEW p \in Ticks, NEW m \in Missions, Replayed(p, m)
      PROVE  [Books!Next]_(Books!vars)
  <2>1. Committed(tick[p], m) \in Session
    BY <1>3 DEF Session, Committed
  <2>2. tick' = [tick EXCEPT ![p] = Rest(Committed(tick[p], m))]
    BY <1>8 DEF Replayed
  <2>3. /\ ~Debtor(p) /\ ~Debtor(p)'
        /\ \A q \in Ticks \ {p} : tick'[q] = tick[q]
    BY <1>2, <1>8, <2>1, <2>2, RestOwesNothing DEF Replayed, Debtor
  <2>4. UNCHANGED books
    BY <1>8 DEF Replayed
  <2>. QED
    BY <2>3, <2>4, ReplayKeepsBooks
<1>. QED
  BY <1>4, <1>5, <1>6, <1>7, <1>8, DeferKeepsBooks, CommitKeepsBooks,
     CountKeepsBooks, BaselineKeepsBooks, CrashKeepsBooks
     DEF Next, Progress

\* The books of a dispatch day keep their contract, for any missions, layers,
\* sessions, inputs and deaths: a mission is closed once, a replay changes
\* nothing, each completion counts for at most one round of its own layer and
\* day, and layer 1 takes its baseline right after its own round.
THEOREM KeepsContract == Spec => ImplementsContract
<1>1. Init => Books!Init
  BY InitKeepsBooks
<1>2. BooksInv /\ BooksInv' /\ [Next]_vars => [Books!Next]_(Books!vars)
  BY StepKeepsBooks
<1>. QED
  BY <1>1, <1>2, BooksInvariant, PTL DEF Spec, ImplementsContract, Books!Spec

\* No layer starts a cycle with rounds that it has not had, and nothing that a day
\* has closed or counted is open or uncounted again, whatever dies.
THEOREM BooksKept == Spec => []Books!Promise /\ Books!OnlyForward
<1>. DEFINE closed == [d \in Days |-> [i \in Items |-> ledger[d][i].disp]]
<1>1. Books!Init => Books!Promise
  BY DEF Books!Init, Books!Promise, Books!Layers
<1>2. ASSUME rounds \in [Days -> [Layers -> Nat]], Books!Next
      PROVE  \A d \in Days, l \in Layers :
               rounds[d][l] \in Nat /\ rounds'[d][l] \in Nat /\ rounds[d][l] <= rounds'[d][l]
  <2>1. ASSUME NEW e, NEW k, rounds' = [rounds EXCEPT ![e][k] = @ + 1],
               NEW d \in Days, NEW l \in Layers
        PROVE  rounds'[d][l] \in {rounds[d][l], rounds[d][l] + 1}
    BY <1>2, <2>1
  <2>2. \/ rounds' = rounds
        \/ rounds' = [rounds EXCEPT ![Owed.day][Owed.layer] = @ + 1]
    BY <1>2 DEF Books!Next, Books!Close, Books!Pay, Books!Snapshot, Books!Forget
  <2>. QED
    BY <1>2, <2>1, <2>2
<1>3. ASSUME base \in [Days -> [Layers -> Nat]], Books!Next, NEW d \in Days, NEW l \in Layers
      PROVE  base[d][l] \in Nat
             /\ \/ base'[d][l] = base[d][l]
                \/ base'[d][l] = rounds[d][l] /\ rounds' = rounds
  <2>1. ASSUME NEW e, base' = [base EXCEPT ![e] = rounds[e]]
        PROVE  base'[d][l] \in {base[d][l], rounds[d][l]}
    BY <1>3, <2>1
  <2>2. \/ base' = base
        \/ base' = [base EXCEPT ![Owed.day] = rounds[Owed.day]] /\ rounds' = rounds
    BY <1>3 DEF Books!Next, Books!Close, Books!Pay, Books!Snapshot, Books!Forget
  <2>. QED
    BY <1>3, <2>1, <2>2
<1>4. TypeOK /\ Books!Promise /\ [Books!Next]_(Books!vars) => Books!Promise'
  <2>. SUFFICES ASSUME TypeOK, Books!Promise, Books!Next,
                       NEW d \in Days, NEW l \in Layers
                PROVE  base'[d][l] <= rounds'[d][l]
    BY DEF Books!Promise, Books!vars, Books!Layers, Layers
  <2>1. base[d][l] <= rounds[d][l]
    BY DEF Books!Promise, Books!Layers, Layers
  <2>2. rounds[d][l] \in Nat /\ rounds'[d][l] \in Nat /\ rounds[d][l] <= rounds'[d][l]
    BY <1>2 DEF TypeOK
  <2>3. /\ base[d][l] \in Nat
        /\ \/ base'[d][l] = base[d][l]
           \/ base'[d][l] = rounds[d][l] /\ rounds' = rounds
    BY <1>3 DEF TypeOK
  <2>. QED
    BY <2>1, <2>2, <2>3
<1>5. ASSUME TypeOK, [Books!Next]_(Books!vars)
      PROVE  [\A d \in Days :
                /\ \A i \in Items : closed[d][i] # 0 => closed'[d][i] # 0
                /\ \A l \in Layers : rounds[d][l] <= rounds'[d][l]]_(Books!vars)
  <2>. SUFFICES ASSUME Books!Next, NEW d \in Days, NEW i \in Items, closed[d][i] # 0
                PROVE  closed'[d][i] # 0
    BY <1>2, <1>5 DEF TypeOK
  <2>1. closed = [e \in Days |-> [k \in Items |-> closed[e][k]]]
    OBVIOUS
  <2>2. \/ closed' = closed
        \/ \E e \in Days, k \in Items, h \in 1..4 : closed' = [closed EXCEPT ![e][k] = h]
    BY DEF Books!Next, Books!Close, Books!Pay, Books!Snapshot, Books!Forget
  <2>. HIDE DEF closed
  <2>. QED
    BY <2>1, <2>2
<1>. QED
  BY <1>1, <1>4, <1>5, KeepsContract, Typing, PTL
     DEF ImplementsContract, Books!Spec, Books!OnlyForward, Books!Layers, Layers
===============================================================================
