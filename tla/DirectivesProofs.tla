-------------------------- MODULE DirectivesProofs --------------------------
(* Proofs about Directives, for every set of directives, of relays that overlap *)
(* and of agents, and for any number of texts and attempts.                      *)
EXTENDS Directives, TLAPS

(* The parts of a relay's state, one at a time. *)
LEMMA RelayParts ==
    \A u \in RelayStates :
        /\ \A S \in SUBSET Directives :
             /\ [u EXCEPT !.todo = S] \in RelayStates
             /\ [u EXCEPT !.old = S] \in RelayStates
        /\ \A pc \in {"off", "loop", "push", "mark"} : [u EXCEPT !.pc = pc] \in RelayStates
  BY DEF RelayStates

LEMMA RelayWrites ==
    ASSUME NEW u \in RelayStates, NEW todo \in SUBSET Directives,
           NEW cur \in Directives, NEW late \in SUBSET Directives,
           NEW head \in [Directives -> Texts], NEW out \in [Directives -> Texts]
    PROVE  /\ [u EXCEPT !.pc = "push", !.todo = todo, !.cur = cur, !.cloned = TRUE,
                        !.old = late, !.head = head] \in RelayStates
           /\ [u EXCEPT !.todo = todo, !.cloned = TRUE, !.head = head, !.out = out]
                \in RelayStates
  BY DEF RelayStates

(* One relay, one agent at a time. *)
LEMMA OneMoves ==
    ASSUME relay \in [Relays -> RelayStates], reader \in [Readers -> ReaderStates]
    PROVE  /\ \A r \in Relays, u \in RelayStates :
                [relay EXCEPT ![r] = u] \in [Relays -> RelayStates]
           /\ \A a \in Readers, u \in ReaderStates :
                [reader EXCEPT ![a] = u] \in [Readers -> ReaderStates]
  OBVIOUS

LEMMA RelayPushes ==
    ASSUME NEW u \in RelayStates, NEW out \in [Directives -> Texts]
    PROVE  /\ [u EXCEPT !.pc = "loop", !.cur = NoDirective, !.out = out] \in RelayStates
           /\ [u EXCEPT !.pc = "loop", !.cur = NoDirective, !.dirty = TRUE] \in RelayStates
  BY DEF RelayStates

LEMMA ReaderActs ==
    ASSUME NEW u \in ReaderStates, NEW d \in Directives, NEW list \in SUBSET Directives,
           NEW n \in 0..MaxTries
    PROVE  [u EXCEPT !.pc = "ack", !.cur = d, !.tries = n, !.list = list] \in ReaderStates
  BY DEF ReaderStates

LEMMA ReaderMoves ==
    ASSUME NEW u \in ReaderStates
    PROVE  /\ [u EXCEPT !.pc = "push"] \in ReaderStates
           /\ [u EXCEPT !.pc = "list", !.cur = NoDirective] \in ReaderStates
           /\ \A n \in 0..MaxTries : [u EXCEPT !.pc = "ack", !.tries = n] \in ReaderStates
  BY DEF ReaderStates

----------------------------------------------------------------------------
(* The inductive invariant *)

(* Who is at a push or at an acknowledgement has a directive in hand. *)
InHand ==
    /\ \A r \in Relays : relay[r].pc = "push" => relay[r].cur \in Directives
    /\ \A a \in Readers : reader[a].pc \in {"ack", "push"} => reader[a].cur \in Directives

(* Past a draft, every text anywhere is one the operator approved. *)
Signed ==
    \A d \in Directives :
        /\ live[d].status # "draft" => <<d, live[d].v>> \in approved
        /\ origin[d].status # "draft" => <<d, origin[d].v>> \in approved
        /\ d \in unpub => live[d].status # "dispatched"
        /\ inbox[d] # 0 => <<d, inbox[d]>> \in approved
        /\ \A r \in Relays : relay[r].head[d] # 0 => <<d, relay[r].head[d]>> \in approved

(* A clone that is still the head of the target's main: a push of it adds notes,
   stamped after the last scan, and changes none. *)
Fresh ==
    \A r \in Relays : r \in current =>
        /\ relay[r].pc \in {"loop", "push"} /\ relay[r].cloned
        /\ \A d \in Directives :
             /\ inbox[d] # 0 => relay[r].head[d] = inbox[d]
             /\ inbox[d] = 0 /\ relay[r].head[d] # 0 => d \notin relay[r].old

(* What a run counts as delivered is in the inbox. *)
Held ==
    \A r \in Relays, d \in Directives :
        /\ relay[r].out[d] # 0 => inbox[d] = relay[r].out[d]
        /\ /\ relay[r].cloned /\ ~relay[r].dirty
           /\ relay[r].head[d] # 0 /\ (relay[r].pc # "push" \/ d # relay[r].cur)
           => inbox[d] = relay[r].head[d]

(* A clone of the manager's main that is still its head may be marked. *)
Unmoved == \A r \in Relays : relay[r].pc = "mark" /\ r \in mcurrent => Markable(r)

(* What an agent has listed or acted on is its own, delivered, and listed. *)
InUse(a, d) == d \in reader[a].list \/ d = reader[a].cur
Own ==
    \A a \in Readers, d \in Directives : InUse(a, d) =>
        inbox[d] # 0 /\ Audience[d] = a /\ d \notin unlisted

(* Acted on once, and then acknowledged or about to be. *)
Counted ==
    \A d \in Directives :
        /\ applied[d] <= 1
        /\ d \in reader[Audience[d]].list => applied[d] = 0
        /\ applied[d] = 1 => \/ d \in ledger
                             \/ /\ reader[Audience[d]].pc \in {"ack", "push"}
                                /\ reader[Audience[d]].cur = d

(* The ledger and the notes that wait for a scan. *)
Listed ==
    \A d \in Directives :
        /\ d \in ledger \/ d \in unlisted => inbox[d] # 0
        /\ d \in ledger => d \notin unlisted

OneReader == \A a, b \in Readers : a = b
IInv == /\ TypeOK /\ InHand /\ Signed /\ Fresh /\ Held /\ Unmoved /\ Own /\ Counted
        /\ Listed
        /\ OneReader => ArrivalsAreNew

----------------------------------------------------------------------------
(* Types *)

LEMMA OffTyped == RelayOff \in RelayStates /\ ReaderOff \in ReaderStates
  <1>1. 0 \in Texts /\ 0 \in 0..MaxTries
    BY DirectiveAssumption DEF Texts
  <1> QED BY <1>1 DEF RelayOff, ReaderOff, RelayStates, ReaderStates

(* Whoever pushes leaves an inbox of texts. *)
LEMMA LandsTyped ==
    ASSUME TypeOK, NEW r \in Relays, Lands(r)
    PROVE  /\ inbox' \in [Directives -> Texts]
           /\ old' \subseteq Directives /\ unlisted' \subseteq Directives
           /\ ledger' = ledger /\ current' = {r}
  BY DEF TypeOK, Lands, RelayStates

LEMMA TargetTyped ==
    TypeOK /\ UNCHANGED target =>
        /\ inbox' \in [Directives -> Texts]
        /\ old' \subseteq Directives /\ unlisted' \subseteq Directives
        /\ ledger' \subseteq Directives /\ current' \subseteq Relays \cup Readers
  BY DEF TypeOK, target

LEMMA ManagerTyped ==
    TypeOK /\ UNCHANGED manager =>
        /\ live' \in [Directives -> Drafts] /\ origin' \in [Directives -> Drafts]
        /\ unpub' \subseteq Directives /\ approved' \subseteq Directives \X (1..MaxV)
        /\ mcurrent' \subseteq Relays
  BY DEF TypeOK, manager

(* Every variable keeps its type, for any number of relays and agents. *)
LEMMA TypeStep == TypeOK /\ InHand /\ [Next]_vars => TypeOK'
  <1> SUFFICES ASSUME TypeOK, InHand, [Next]_vars PROVE TypeOK'
    OBVIOUS
  <1> USE DirectiveAssumption
  <1> /\ relay \in [Relays -> RelayStates]
      /\ reader \in [Readers -> ReaderStates]
      /\ live \in [Directives -> Drafts]
      /\ origin \in [Directives -> Drafts]
    BY DEF TypeOK
  <1>1. ASSUME NEW d \in Directives, Approve(d) \/ Amend(d) PROVE TypeOK'
    <2>1. PICK v \in 1..MaxV, status \in {"draft", "approved"} :
            Edit(d, v, status) /\ approved' \subseteq Directives \X (1..MaxV)
      <3>1. live[d].v \in 1..MaxV
        BY DEF Drafts
      <3>2. CASE Approve(d)
        BY <3>1, <3>2 DEF Approve, TypeOK
      <3>3. CASE Amend(d)
        <4>1. live[d].v + 1 \in 1..MaxV
          BY <3>1, <3>3 DEF Amend
        <4> QED BY <4>1, <3>3 DEF Amend, TypeOK
      <3> QED BY <1>1, <3>2, <3>3
    <2>2. [v |-> v, status |-> status] \in Drafts
      BY DEF Drafts
    <2>3. live' \in [Directives -> Drafts]
      BY <2>1, <2>2 DEF Edit
    <2> QED BY <2>1, <2>3, TargetTyped DEF Edit, TypeOK
  <1>2. ASSUME NEW d \in Directives, Publish(d) \/ Pull(d) PROVE TypeOK'
    <2>1. /\ live' \in [Directives -> Drafts] /\ origin' \in [Directives -> Drafts]
          /\ unpub' \subseteq Directives /\ mcurrent' \subseteq Relays
      BY <1>2 DEF Publish, Pull, TypeOK
    <2> QED BY <1>2, <2>1, TargetTyped DEF Publish, Pull, TypeOK
  <1>3. ASSUME NEW r \in Relays, RelayStart(r) PROVE TypeOK'
    <2>1. [RelayOff EXCEPT !.pc = "loop", !.todo = Directives] \in RelayStates
      BY OffTyped DEF RelayStates
    <2> QED BY <1>3, <2>1, TargetTyped, ManagerTyped DEF RelayStart, RelayDoes, TypeOK
  <1>4. ASSUME NEW r \in Relays, NEW d \in Directives, Skip(r, d) \/ CloneFails(r, d)
        PROVE  TypeOK'
    <2>1. [relay[r] EXCEPT !.todo = relay[r].todo \ {d}] \in RelayStates
      <3>1. relay[r].todo \ {d} \in SUBSET Directives
        BY DEF RelayStates
      <3> QED BY <3>1, RelayParts
    <2>2. relay' \in [Relays -> RelayStates]
      BY <1>4, <2>1 DEF Skip, CloneFails, RelayDoes
    <2> QED BY <1>4, <2>2, TargetTyped, ManagerTyped DEF Skip, CloneFails, TypeOK
  <1>5. ASSUME NEW r \in Relays, NEW d \in Directives, Write(r, d) \/ Present(r, d)
        PROVE  TypeOK'
    <2>1. CloneHead(r) \in [Directives -> Texts] /\ live[d].v \in Texts
      BY DEF CloneHead, TypeOK, RelayStates, Drafts, Texts
    <2>2. current' \subseteq Relays \cup Readers
      BY <1>5 DEF Write, Present, Cloned, TypeOK
    <2> DEFINE head == [CloneHead(r) EXCEPT ![d] = live[d].v]
               out == IF SameText(r, d) /\ ~relay[r].dirty
                      THEN [relay[r].out EXCEPT ![d] = live[d].v] ELSE relay[r].out
    <2>3. /\ head \in [Directives -> Texts] /\ out \in [Directives -> Texts]
          /\ relay[r] \in RelayStates
          /\ relay[r].todo \ {d} \in SUBSET Directives
          /\ relay[r].old \ {d} \in SUBSET Directives
      BY <2>1 DEF RelayStates
    <2>4. CASE Write(r, d)
      <3>1. [relay[r] EXCEPT !.pc = "push", !.todo = relay[r].todo \ {d}, !.cur = d,
                             !.cloned = TRUE, !.old = relay[r].old \ {d}, !.head = head]
              \in RelayStates
        BY <2>3, RelayWrites
      <3>2. relay' \in [Relays -> RelayStates]
        <4>1. relay' = [relay EXCEPT ![r] =
                          [relay[r] EXCEPT !.pc = "push", !.todo = relay[r].todo \ {d},
                             !.cur = d, !.cloned = TRUE, !.old = relay[r].old \ {d},
                             !.head = head]]
          BY <2>4 DEF Write, RelayDoes
        <4> QED BY <3>1, <4>1, OneMoves, Zenon
      <3> QED BY <2>4, <2>2, <3>2, ManagerTyped DEF Write, TypeOK
    <2>5. CASE Present(r, d)
      <3>1. [relay[r] EXCEPT !.todo = relay[r].todo \ {d}, !.cloned = TRUE,
                             !.head = CloneHead(r), !.out = out] \in RelayStates
        BY <2>3, <2>1, RelayWrites
      <3>2. relay' \in [Relays -> RelayStates]
        <4>1. relay' = [relay EXCEPT ![r] =
                          [relay[r] EXCEPT !.todo = relay[r].todo \ {d}, !.cloned = TRUE,
                             !.head = CloneHead(r), !.out = out]]
          BY <2>5 DEF Present, RelayDoes
        <4> QED BY <3>1, <4>1, OneMoves, Zenon
      <3> QED BY <2>5, <2>2, <3>2, ManagerTyped DEF Present, TypeOK
    <2> QED BY <1>5, <2>4, <2>5
  <1>6. ASSUME NEW r \in Relays, PushOk(r) PROVE TypeOK'
    <2>1. relay[r].pc = "push" /\ Lands(r)
      BY <1>6 DEF PushOk
    <2> DEFINE out == [relay[r].out EXCEPT ![relay[r].cur] = relay[r].head[relay[r].cur]]
    <2>2. out \in [Directives -> Texts] /\ relay[r] \in RelayStates
      BY <2>1 DEF RelayStates, InHand
    <2>3. [relay[r] EXCEPT !.pc = "loop", !.cur = NoDirective, !.out = out] \in RelayStates
      BY <2>2, RelayPushes
    <2>4. relay' \in [Relays -> RelayStates]
      <3>1. relay' = [relay EXCEPT ![r] =
                        [relay[r] EXCEPT !.pc = "loop", !.cur = NoDirective, !.out = out]]
        BY <1>6 DEF PushOk, RelayDoes
      <3> QED BY <2>3, <3>1, OneMoves, Zenon
    <2> QED BY <1>6, <2>1, <2>4, LandsTyped, ManagerTyped DEF PushOk, TypeOK
  <1>7. ASSUME NEW r \in Relays, PushFails(r) PROVE TypeOK'
    <2>1. [relay[r] EXCEPT !.pc = "loop", !.cur = NoDirective, !.dirty = TRUE]
            \in RelayStates
      <3>1. relay[r] \in RelayStates /\ relay[r].out \in [Directives -> Texts]
        BY DEF RelayStates
      <3> QED BY <3>1, RelayPushes
    <2>2. relay' \in [Relays -> RelayStates]
      BY <2>1, <1>7 DEF PushFails, RelayDoes
    <2>3. CASE UNCHANGED target
      BY <1>7, <2>2, <2>3, TargetTyped, ManagerTyped DEF PushFails, TypeOK
    <2>4. CASE Lands(r)
      BY <1>7, <2>2, <2>4, LandsTyped, ManagerTyped DEF PushFails, TypeOK
    <2> QED BY <1>7, <2>3, <2>4 DEF PushFails
  <1>8. ASSUME NEW r \in Relays, MarkClone(r) \/ MarkPush(r) \/ RelayEnds(r) PROVE TypeOK'
    <2>1. relay' \in [Relays -> RelayStates]
      <3>1. [relay[r] EXCEPT !.pc = "mark"] \in RelayStates
        BY RelayParts
      <3>2. RelayOff \in RelayStates
        BY OffTyped
      <3> QED BY <1>8, <3>1, <3>2 DEF MarkClone, MarkPush, RelayEnds, RelayDoes
    <2>2. origin' \in [Directives -> Drafts] /\ mcurrent' \subseteq Relays
      <3>1. CASE MarkPush(r)
        <4>1. \A d \in Directives : [origin[d] EXCEPT !.status = "dispatched"] \in Drafts
          BY DEF Drafts
        <4> QED BY <3>1, <4>1 DEF MarkPush
      <3>2. CASE MarkClone(r) \/ RelayEnds(r)
        BY <3>2 DEF MarkClone, RelayEnds, TypeOK
      <3> QED BY <1>8, <3>1, <3>2
    <2>3. /\ inbox' \in [Directives -> Texts]
          /\ old' \subseteq Directives /\ unlisted' \subseteq Directives
          /\ ledger' \subseteq Directives /\ current' \subseteq Relays \cup Readers
      BY <1>8, TargetTyped DEF MarkClone, MarkPush, RelayEnds, Leaves, TypeOK
    <2>4. UNCHANGED <<live, unpub, approved, reader, applied, calm>>
      BY <1>8 DEF MarkClone, MarkPush, RelayEnds
    <2> QED BY <2>1, <2>2, <2>3, <2>4 DEF TypeOK
  <1>9. ASSUME NEW a \in Readers, Scan(a) PROVE TypeOK'
    <2>1. Pending(a) \in SUBSET Directives
      BY DEF Pending
    <2>2. [ReaderOff EXCEPT !.pc = "list", !.list = Pending(a)] \in ReaderStates
      BY <2>1, OffTyped DEF ReaderStates
    <2>3. relay' \in [Relays -> RelayStates]
      <3>1. \A r \in Relays : {d \in Directives : relay[r].head[d] # 0} \in SUBSET Directives
        OBVIOUS
      <3> QED BY <3>1, RelayParts, <1>9 DEF Scan
    <2>4. reader' \in [Readers -> ReaderStates]
      BY <2>2, <1>9 DEF Scan, ReaderDoes
    <2> QED BY <1>9, <2>3, <2>4, ManagerTyped DEF Scan, TypeOK
  <1>10. ASSUME NEW a \in Readers, NEW d \in Directives, Act(a, d) PROVE TypeOK'
    <2>1. [reader[a] EXCEPT !.pc = "ack", !.cur = d, !.tries = 1,
                            !.list = reader[a].list \ {d}] \in ReaderStates
      <3>1. /\ reader[a] \in ReaderStates /\ reader[a].list \ {d} \in SUBSET Directives
            /\ 1 \in 0..MaxTries
        BY DEF ReaderStates
      <3> QED BY <3>1, ReaderActs
    <2>2. reader' \in [Readers -> ReaderStates]
      <3>1. reader' = [reader EXCEPT ![a] =
                         [reader[a] EXCEPT !.pc = "ack", !.cur = d, !.tries = 1,
                                           !.list = reader[a].list \ {d}]]
        BY <1>10 DEF Act, ReaderDoes
      <3> QED BY <2>1, <3>1, OneMoves, Zenon
    <2>3. applied' \in [Directives -> 0..2]
      BY <1>10 DEF Act, TypeOK
    <2> QED BY <1>10, <2>2, <2>3, TargetTyped, ManagerTyped DEF Act, TypeOK
  <1>11. ASSUME NEW a \in Readers,
                \/ AckClone(a) \/ AckPush(a) \/ AckRetry(a) \/ AckFails(a)
                \/ ReaderEnds(a)
         PROVE  TypeOK'
    <2>1. reader' \in [Readers -> ReaderStates]
      <3>1. /\ [reader[a] EXCEPT !.pc = "list", !.cur = NoDirective] \in ReaderStates
            /\ [reader[a] EXCEPT !.pc = "push"] \in ReaderStates
        BY ReaderMoves
      <3>2. CASE AckRetry(a)
        <4>1. reader[a].tries + 1 \in 0..MaxTries
          BY <3>2 DEF AckRetry, ReaderStates
        <4>2. [reader[a] EXCEPT !.pc = "ack", !.tries = reader[a].tries + 1] \in ReaderStates
          BY <4>1, ReaderMoves
        <4>3. reader' = [reader EXCEPT ![a] =
                           [reader[a] EXCEPT !.pc = "ack", !.tries = reader[a].tries + 1]]
          BY <3>2 DEF AckRetry, ReaderDoes
        <4> QED BY <4>2, <4>3, OneMoves, Zenon
      <3>3. CASE ReaderEnds(a)
        BY <3>3, OffTyped DEF ReaderEnds, ReaderDoes
      <3>4. CASE AckClone(a) \/ AckPush(a) \/ AckFails(a)
        BY <3>1, <3>4 DEF AckClone, AckPush, AckFails, Done, ReaderDoes
      <3> QED BY <1>11, <3>2, <3>3, <3>4
    <2>2. ledger' \subseteq Directives
      <3>1. reader[a].pc \in {"ack", "push"} => reader[a].cur \in Directives
        BY DEF InHand
      <3> QED BY <1>11, <3>1
          DEF AckClone, AckPush, AckRetry, AckFails, AckRefused, ReaderEnds, TypeOK
    <2>3. applied' \in [Directives -> 0..2]
      <3>1. Forgotten(a) \in [Directives -> 0..2]
        BY DEF Forgotten, TypeOK
      <3> QED BY <1>11, <3>1
          DEF AckClone, AckPush, AckRetry, AckFails, ReaderEnds, TypeOK
    <2>4. current' \subseteq Relays \cup Readers
      BY <1>11 DEF AckClone, AckPush, AckRetry, AckFails, AckRefused, ReaderEnds, TypeOK
    <2>5. UNCHANGED <<manager, inbox, old, unlisted, relay, calm>>
      BY <1>11 DEF AckClone, AckPush, AckRetry, AckFails, AckRefused, ReaderEnds
    <2> QED BY <2>1, <2>2, <2>3, <2>4, <2>5, ManagerTyped DEF TypeOK
  <1>12. CASE OtherPush
    BY <1>12, ManagerTyped DEF OtherPush, TypeOK
  <1>13. CASE Calm
    BY <1>13, ManagerTyped, TargetTyped DEF Calm, TypeOK
  <1>14. CASE UNCHANGED vars
    BY <1>14, ManagerTyped, TargetTyped DEF vars, TypeOK
  <1> QED
    BY <1>1, <1>2, <1>3, <1>4, <1>5, <1>6, <1>7, <1>8, <1>9, <1>10, <1>11, <1>12, <1>13,
       <1>14 DEF Next, Manage, Relaying, Reading

----------------------------------------------------------------------------
(* What a step of a relay or of an agent leaves of the state *)

LEMMA RelayFrame ==
    ASSUME TypeOK, NEW r \in Relays, NEW u, RelayDoes(r, u)
    PROVE  relay'[r] = u /\ \A q \in Relays : q # r => relay'[q] = relay[q]
  BY DEF TypeOK, RelayDoes

LEMMA ReaderFrame ==
    ASSUME TypeOK, NEW a \in Readers, NEW u, ReaderDoes(a, u)
    PROVE  reader'[a] = u /\ \A b \in Readers : b # a => reader'[b] = reader[b]
  BY DEF TypeOK, ReaderDoes

LEMMA WriteFields ==
    ASSUME TypeOK, NEW r \in Relays, NEW d \in Directives, Write(r, d)
    PROVE  /\ relay'[r].pc = "push" /\ relay'[r].cur = d /\ relay'[r].cloned
           /\ relay'[r].dirty = relay[r].dirty /\ relay'[r].old = relay[r].old \ {d}
           /\ relay'[r].head = [CloneHead(r) EXCEPT ![d] = live[d].v]
           /\ relay'[r].out = relay[r].out
           /\ \A q \in Relays : q # r => relay'[q] = relay[q]
  <1>1. /\ relay'[r] = [relay[r] EXCEPT
                       !.pc = "push", !.todo = relay[r].todo \ {d}, !.cur = d,
                       !.cloned = TRUE, !.old = relay[r].old \ {d},
                       !.head = [CloneHead(r) EXCEPT ![d] = live[d].v]]
        /\ \A q \in Relays : q # r => relay'[q] = relay[q]
    BY RelayFrame DEF Write
  <1>2. relay[r] \in RelayStates
    BY DEF TypeOK
  <1> QED BY <1>1, <1>2 DEF RelayStates

LEMMA PresentFields ==
    ASSUME TypeOK, NEW r \in Relays, NEW d \in Directives, Present(r, d)
    PROVE  /\ relay'[r].pc = "loop" /\ relay'[r].cur = relay[r].cur /\ relay'[r].cloned
           /\ relay'[r].dirty = relay[r].dirty /\ relay'[r].old = relay[r].old
           /\ relay'[r].head = CloneHead(r)
           /\ relay'[r].out = IF SameText(r, d) /\ ~relay[r].dirty
                              THEN [relay[r].out EXCEPT ![d] = live[d].v] ELSE relay[r].out
           /\ \A q \in Relays : q # r => relay'[q] = relay[q]
  <1> DEFINE out == IF SameText(r, d) /\ ~relay[r].dirty
                    THEN [relay[r].out EXCEPT ![d] = live[d].v] ELSE relay[r].out
  <1>1. /\ relay'[r] = [relay[r] EXCEPT
                       !.todo = relay[r].todo \ {d}, !.cloned = TRUE, !.head = CloneHead(r),
                       !.out = out]
        /\ relay[r].pc = "loop"
        /\ \A q \in Relays : q # r => relay'[q] = relay[q]
    BY RelayFrame DEF Present, Turn
  <1>2. relay[r] \in RelayStates
    BY DEF TypeOK
  <1> HIDE DEF out
  <1>3. /\ relay'[r].pc = "loop" /\ relay'[r].cur = relay[r].cur /\ relay'[r].cloned
        /\ relay'[r].dirty = relay[r].dirty /\ relay'[r].old = relay[r].old
        /\ relay'[r].head = CloneHead(r) /\ relay'[r].out = out
    BY <1>1, <1>2 DEF RelayStates
  <1> QED BY <1>1, <1>3 DEF out

LEMMA PushOkFields ==
    ASSUME TypeOK, NEW r \in Relays, PushOk(r)
    PROVE  /\ relay'[r].pc = "loop" /\ relay'[r].cur = NoDirective
           /\ relay'[r].cloned = relay[r].cloned
           /\ relay'[r].dirty = relay[r].dirty /\ relay'[r].old = relay[r].old
           /\ relay'[r].head = relay[r].head
           /\ relay'[r].out = [relay[r].out EXCEPT ![relay[r].cur] = relay[r].head[relay[r].cur]]
           /\ \A q \in Relays : q # r => relay'[q] = relay[q]
  <1> DEFINE out == [relay[r].out EXCEPT ![relay[r].cur] = relay[r].head[relay[r].cur]]
  <1>1. /\ relay'[r] = [relay[r] EXCEPT !.pc = "loop", !.cur = NoDirective, !.out = out]
        /\ \A q \in Relays : q # r => relay'[q] = relay[q]
    BY RelayFrame DEF PushOk
  <1>2. relay[r] \in RelayStates
    BY DEF TypeOK
  <1> HIDE DEF out
  <1>3. /\ relay'[r].pc = "loop" /\ relay'[r].cur = NoDirective
        /\ relay'[r].cloned = relay[r].cloned
        /\ relay'[r].dirty = relay[r].dirty /\ relay'[r].old = relay[r].old
        /\ relay'[r].head = relay[r].head /\ relay'[r].out = out
    BY <1>1, <1>2 DEF RelayStates
  <1> QED BY <1>1, <1>3 DEF out

LEMMA PushFailsFields ==
    ASSUME TypeOK, NEW r \in Relays, PushFails(r)
    PROVE  /\ relay'[r].pc = "loop" /\ relay'[r].cur = NoDirective
           /\ relay'[r].cloned = relay[r].cloned /\ relay'[r].dirty
           /\ relay'[r].old = relay[r].old /\ relay'[r].head = relay[r].head
           /\ relay'[r].out = relay[r].out
           /\ \A q \in Relays : q # r => relay'[q] = relay[q]
  <1>1. /\ relay'[r] = [relay[r] EXCEPT !.pc = "loop", !.cur = NoDirective, !.dirty = TRUE]
        /\ \A q \in Relays : q # r => relay'[q] = relay[q]
    BY RelayFrame DEF PushFails
  <1>2. relay[r] \in RelayStates
    BY DEF TypeOK
  <1> QED BY <1>1, <1>2 DEF RelayStates

(* The other steps of a run: it starts or ends, drops a draft, or marks. *)
LEMMA QuietFields ==
    ASSUME TypeOK, NEW r \in Relays,
           \/ RelayStart(r) \/ MarkClone(r) \/ MarkPush(r) \/ RelayEnds(r)
           \/ \E d \in Directives : Skip(r, d) \/ CloneFails(r, d)
    PROVE  /\ relay'[r].pc # "push"
           /\ \/ /\ ~relay'[r].cloned
                 /\ relay'[r].head = [d \in Directives |-> 0]
                 /\ relay'[r].out = [d \in Directives |-> 0]
              \/ /\ relay[r].pc = "loop" /\ relay'[r].cur = relay[r].cur
                 /\ relay'[r].cloned = relay[r].cloned /\ relay'[r].dirty = relay[r].dirty
                 /\ relay'[r].old = relay[r].old /\ relay'[r].head = relay[r].head
                 /\ relay'[r].out = relay[r].out
           /\ \A q \in Relays : q # r => relay'[q] = relay[q]
  <1>1. relay[r] \in RelayStates
    BY DEF TypeOK
  <1>2. CASE RelayStart(r)
    <2>1. /\ relay'[r] = [RelayOff EXCEPT !.pc = "loop", !.todo = Directives]
          /\ \A q \in Relays : q # r => relay'[q] = relay[q]
      BY <1>2, RelayFrame DEF RelayStart
    <2> QED BY <2>1 DEF RelayOff
  <1>3. CASE MarkClone(r)
    BY <1>1, <1>3, RelayFrame DEF MarkClone, RelayStates
  <1>4. CASE MarkPush(r) \/ RelayEnds(r)
    BY <1>4, RelayFrame DEF MarkPush, RelayEnds, RelayOff
  <1>5. ASSUME NEW d \in Directives, Skip(r, d) \/ CloneFails(r, d)
        PROVE  /\ relay'[r].pc = "loop" /\ relay[r].pc = "loop"
               /\ relay'[r].cur = relay[r].cur
               /\ relay'[r].cloned = relay[r].cloned /\ relay'[r].dirty = relay[r].dirty
               /\ relay'[r].old = relay[r].old /\ relay'[r].head = relay[r].head
               /\ relay'[r].out = relay[r].out
               /\ \A q \in Relays : q # r => relay'[q] = relay[q]
    <2>1. /\ relay'[r] = [relay[r] EXCEPT !.todo = relay[r].todo \ {d}]
          /\ relay[r].pc = "loop"
          /\ \A q \in Relays : q # r => relay'[q] = relay[q]
      BY <1>5, RelayFrame DEF Skip, CloneFails, Turn
    <2> QED BY <2>1, <1>1 DEF RelayStates
  <1> QED BY <1>2, <1>3, <1>4, <1>5

(* An agent lists, acts, acknowledges or stops. *)
LEMMA ScanFields ==
    ASSUME TypeOK, NEW a \in Readers, Scan(a)
    PROVE  /\ reader'[a].list = Pending(a) /\ reader'[a].cur = NoDirective
           /\ reader'[a].pc = "list"
           /\ \A b \in Readers : b # a => reader'[b] = reader[b]
           /\ \A r \in Relays :
                /\ relay'[r].pc = relay[r].pc /\ relay'[r].cur = relay[r].cur
                /\ relay'[r].cloned = relay[r].cloned /\ relay'[r].dirty = relay[r].dirty
                /\ relay'[r].head = relay[r].head /\ relay'[r].out = relay[r].out
  <1>1. /\ reader'[a] = [ReaderOff EXCEPT !.pc = "list", !.list = Pending(a)]
        /\ \A b \in Readers : b # a => reader'[b] = reader[b]
    BY ReaderFrame DEF Scan
  <1>2. \A r \in Relays :
          relay'[r] = [relay[r] EXCEPT !.old = {d \in Directives : relay[r].head[d] # 0}]
    BY DEF Scan
  <1>3. \A r \in Relays : relay[r] \in RelayStates
    BY DEF TypeOK
  <1>4. /\ reader'[a].list = Pending(a) /\ reader'[a].cur = NoDirective
        /\ reader'[a].pc = "list"
    BY <1>1 DEF ReaderOff
  <1>5. ASSUME NEW r \in Relays
        PROVE  /\ relay'[r].pc = relay[r].pc /\ relay'[r].cur = relay[r].cur
               /\ relay'[r].cloned = relay[r].cloned /\ relay'[r].dirty = relay[r].dirty
               /\ relay'[r].head = relay[r].head /\ relay'[r].out = relay[r].out
    BY <1>2, <1>3 DEF RelayStates
  <1> QED BY <1>1, <1>4, <1>5

LEMMA ActFields ==
    ASSUME TypeOK, NEW a \in Readers, NEW d \in Directives, Act(a, d)
    PROVE  /\ reader'[a].list = reader[a].list \ {d} /\ reader'[a].cur = d
           /\ reader'[a].pc = "ack"
           /\ \A b \in Readers : b # a => reader'[b] = reader[b]
  <1>1. /\ reader'[a] = [reader[a] EXCEPT !.pc = "ack", !.cur = d, !.tries = 1,
                                          !.list = reader[a].list \ {d}]
        /\ \A b \in Readers : b # a => reader'[b] = reader[b]
    BY ReaderFrame DEF Act
  <1>2. reader[a] \in ReaderStates
    BY DEF TypeOK
  <1> QED BY <1>1, <1>2 DEF ReaderStates

LEMMA DoneFields ==
    ASSUME TypeOK, NEW a \in Readers, Done(a)
    PROVE  /\ reader'[a].list = reader[a].list /\ reader'[a].cur = NoDirective
           /\ reader'[a].pc = "list"
           /\ \A b \in Readers : b # a => reader'[b] = reader[b]
  <1>1. /\ reader'[a] = [reader[a] EXCEPT !.pc = "list", !.cur = NoDirective]
        /\ \A b \in Readers : b # a => reader'[b] = reader[b]
    BY ReaderFrame DEF Done
  <1>2. reader[a] \in ReaderStates
    BY DEF TypeOK
  <1> QED BY <1>1, <1>2 DEF ReaderStates

(* Cloning for the acknowledgement, or trying it again. *)
LEMMA AckFields ==
    ASSUME TypeOK, NEW a \in Readers, (AckClone(a) /\ ~Done(a)) \/ AckRetry(a)
    PROVE  /\ reader'[a].list = reader[a].list /\ reader'[a].cur = reader[a].cur
           /\ reader[a].pc \in {"ack", "push"} /\ reader'[a].pc \in {"ack", "push"}
           /\ \A b \in Readers : b # a => reader'[b] = reader[b]
  <1>1. reader[a] \in ReaderStates
    BY DEF TypeOK
  <1>2. CASE AckClone(a) /\ ~Done(a)
    <2>1. /\ reader'[a] = [reader[a] EXCEPT !.pc = "push"]
          /\ reader[a].pc = "ack"
          /\ \A b \in Readers : b # a => reader'[b] = reader[b]
      BY <1>2, ReaderFrame DEF AckClone
    <2> QED BY <2>1, <1>1 DEF ReaderStates
  <1>3. CASE AckRetry(a)
    <2>1. /\ reader'[a] = [reader[a] EXCEPT !.pc = "ack", !.tries = reader[a].tries + 1]
          /\ reader[a].pc = "push"
          /\ \A b \in Readers : b # a => reader'[b] = reader[b]
      BY <1>3, ReaderFrame DEF AckRetry, AckRefused
    <2> QED BY <2>1, <1>1 DEF ReaderStates
  <1> QED BY <1>2, <1>3

LEMMA EndsFields ==
    ASSUME TypeOK, NEW a \in Readers, ReaderEnds(a)
    PROVE  /\ reader'[a].list = {} /\ reader'[a].cur = NoDirective /\ reader'[a].pc = "off"
           /\ \A b \in Readers : b # a => reader'[b] = reader[b]
  <1>1. /\ reader'[a] = ReaderOff
        /\ \A b \in Readers : b # a => reader'[b] = reader[b]
    BY ReaderFrame DEF ReaderEnds
  <1> QED BY <1>1 DEF ReaderOff

----------------------------------------------------------------------------
(* The invariant, step by step *)

(* A push that is accepted adds approved notes and changes none. *)
LEMMA LandsGrows ==
    ASSUME IInv, NEW r \in Relays, r \in current, Lands(r), UNCHANGED approved
    PROVE  \A d \in Directives :
             /\ inbox'[d] = relay[r].head[d]
             /\ inbox[d] # 0 => inbox'[d] = inbox[d]
             /\ inbox'[d] # 0 => <<d, inbox'[d]>> \in approved
             /\ d \in unlisted' <=> d \in unlisted \/ (inbox[d] = 0 /\ inbox'[d] # 0)
             /\ inbox[d] = 0 /\ inbox'[d] # 0 => d \notin old'
             /\ d \in unlisted /\ d \in old' => d \in old
  BY DEF IInv, Lands, Fresh, Signed, Listed

(* A relay that changes its clone or the inbox keeps Signed when what it writes is
   approved. *)
LEMMA SignedStep ==
    ASSUME Signed, NEW r \in Relays, live' = live, origin' = origin, unpub' = unpub,
           approved' = approved,
           \A q \in Relays : q # r => relay'[q] = relay[q],
           \A d \in Directives : inbox'[d] # 0 => <<d, inbox'[d]>> \in approved,
           \A d \in Directives :
              relay'[r].head[d] # 0 => <<d, relay'[r].head[d]>> \in approved
    PROVE  Signed'
  <1>1. ASSUME NEW d \in Directives
        PROVE  /\ live'[d].status # "draft" => <<d, live'[d].v>> \in approved'
               /\ origin'[d].status # "draft" => <<d, origin'[d].v>> \in approved'
               /\ d \in unpub' => live'[d].status # "dispatched"
    BY DEF Signed
  <1>2. ASSUME NEW d \in Directives, NEW q \in Relays, relay'[q].head[d] # 0
        PROVE  <<d, relay'[q].head[d]>> \in approved'
    <2>1. CASE q = r
      BY <2>1, <1>2
    <2>2. CASE q # r
      <3>1. relay'[q].head[d] = relay[q].head[d]
        BY <2>2
      <3>2. relay[q].head[d] # 0
        BY <3>1, <1>2
      <3>3. <<d, relay[q].head[d]>> \in approved
        BY <3>2 DEF Signed
      <3> QED BY <3>1, <3>3
    <2> QED BY <2>1, <2>2
  <1>3. ASSUME NEW d \in Directives, inbox'[d] # 0
        PROVE  <<d, inbox'[d]>> \in approved'
    BY <1>3
  <1> QED BY <1>1, <1>2, <1>3 DEF Signed

LEMMA ManagerStep ==
    ASSUME IInv, NEW d \in Directives, Manage(d)
    PROVE  InHand' /\ Signed' /\ Fresh' /\ Held' /\ Unmoved' /\ Own' /\ Counted' /\ Listed'
           /\ (OneReader => ArrivalsAreNew')
  <1>1. UNCHANGED <<target, relay, reader, applied>>
    BY DEF Manage, Approve, Amend, Edit, Publish, Pull
  <1>2. InHand' /\ Fresh' /\ Held' /\ Own' /\ Counted' /\ Listed'
        /\ (OneReader => ArrivalsAreNew')
    BY <1>1 DEF IInv, InHand, Fresh, Held, Own, InUse, Counted, Listed, ArrivalsAreNew, target
  <1>3. Signed'
    <2>1. live \in [Directives -> Drafts] /\ origin \in [Directives -> Drafts]
      BY DEF IInv, TypeOK
    <2>2. CASE Approve(d)
      BY <1>1, <2>1, <2>2 DEF Approve, Edit, IInv, Signed, target, Drafts
    <2>3. CASE Amend(d)
      BY <1>1, <2>1, <2>3 DEF Amend, Edit, IInv, Signed, target, Drafts
    <2>4. CASE Publish(d)
      BY <1>1, <2>1, <2>4 DEF Publish, IInv, Signed, target, Drafts
    <2>5. CASE Pull(d)
      BY <1>1, <2>1, <2>5 DEF Pull, IInv, Signed, target, Drafts
    <2> QED BY <2>2, <2>3, <2>4, <2>5 DEF Manage
  <1>4. Unmoved'
    <2>1. CASE UNCHANGED <<origin, mcurrent>>
      BY <1>1, <2>1 DEF IInv, Unmoved, Markable, Delivered
    <2>2. CASE Publish(d)
      BY <2>2 DEF Publish, Unmoved
    <2> QED BY <2>1, <2>2 DEF Manage, Approve, Amend, Edit, Pull
  <1> QED BY <1>2, <1>3, <1>4

LEMMA WriteStep ==
    ASSUME IInv, NEW r \in Relays, NEW d \in Directives, Write(r, d)
    PROVE  InHand' /\ Signed' /\ Fresh' /\ Held' /\ Unmoved' /\ Own' /\ Counted' /\ Listed'
           /\ (OneReader => ArrivalsAreNew')
  <1> TypeOK
    BY DEF IInv
  <1>1. UNCHANGED <<manager, inbox, old, unlisted, ledger, reader, applied>>
    BY DEF Write
  <1>2. /\ relay'[r].pc = "push" /\ relay'[r].cur = d /\ relay'[r].cloned
        /\ relay'[r].dirty = relay[r].dirty /\ relay'[r].old = relay[r].old \ {d}
        /\ relay'[r].head = [CloneHead(r) EXCEPT ![d] = live[d].v]
        /\ relay'[r].out = relay[r].out
        /\ \A q \in Relays : q # r => relay'[q] = relay[q]
    BY WriteFields
  <1>3. /\ relay[r].pc = "loop" /\ live[d].status = "approved"
        /\ CloneHead(r)[d] = 0
        /\ current' = Cloned(r)
    BY DEF Write, Turn, Gate
  <1>4. /\ CloneHead(r) \in [Directives -> Texts]
        /\ CloneHead(r) = IF relay[r].cloned THEN relay[r].head ELSE inbox
    BY DEF CloneHead, TypeOK, RelayStates
  <1>5. \A e \in Directives : relay'[r].head[e] = IF e = d THEN live[d].v ELSE CloneHead(r)[e]
    BY <1>2, <1>4
  <1>6. InHand'
    BY <1>1, <1>2 DEF IInv, InHand
  <1>7. Signed'
    <2>1. ASSUME NEW e \in Directives, relay'[r].head[e] # 0
          PROVE  <<e, relay'[r].head[e]>> \in approved
      <3>1. CASE e = d
        BY <3>1, <1>3, <1>5 DEF IInv, Signed
      <3>2. CASE e # d
        BY <3>2, <2>1, <1>4, <1>5 DEF IInv, Signed
      <3> QED BY <3>1, <3>2
    <2>2. Signed /\ \A e \in Directives : inbox[e] # 0 => <<e, inbox[e]>> \in approved
      BY DEF IInv, Signed
    <2>3. /\ live' = live /\ origin' = origin /\ unpub' = unpub /\ approved' = approved
          /\ inbox' = inbox
      BY <1>1 DEF manager
    <2>4. \A e \in Directives : inbox'[e] # 0 => <<e, inbox'[e]>> \in approved
      BY <2>2, <2>3
    <2>5. \A q \in Relays : q # r => relay'[q] = relay[q]
      BY <1>2
    <2> QED BY <2>1, <2>2, <2>3, <2>4, <2>5, SignedStep
  <1>8. Fresh'
    <2>1. ASSUME NEW q \in Relays, q \in current', q # r
          PROVE  q \in current /\ relay'[q] = relay[q]
      BY <2>1, <1>2, <1>3 DEF Cloned
    <2>2. ASSUME r \in current', NEW e \in Directives
          PROVE  /\ inbox[e] # 0 => relay'[r].head[e] = inbox[e]
                 /\ inbox[e] = 0 /\ relay'[r].head[e] # 0 => e \notin relay'[r].old
      <3>1. CASE relay[r].cloned
        BY <2>2, <3>1, <1>2, <1>3, <1>4, <1>5 DEF IInv, Fresh, Cloned
      <3>2. CASE ~relay[r].cloned
        BY <2>2, <3>2, <1>2, <1>3, <1>4, <1>5
      <3> QED BY <3>1, <3>2
    <2>3. ASSUME NEW q \in Relays, q \in current'
          PROVE  /\ relay'[q].pc \in {"loop", "push"} /\ relay'[q].cloned
                 /\ \A e \in Directives :
                      /\ inbox'[e] # 0 => relay'[q].head[e] = inbox'[e]
                      /\ inbox'[e] = 0 /\ relay'[q].head[e] # 0 => e \notin relay'[q].old
      <3>1. CASE q = r
        BY <3>1, <2>2, <2>3, <1>1, <1>2
      <3>2. CASE q # r
        BY <3>2, <2>1, <2>3, <1>1 DEF IInv, Fresh
      <3> QED BY <3>1, <3>2
    <2> QED BY <2>3, Zenon DEF Fresh
  <1>9. Held'
    BY <1>1, <1>2, <1>3, <1>4, <1>5 DEF IInv, Held
  <1>10. Unmoved'
    BY <1>1, <1>2 DEF IInv, Unmoved, Markable, Delivered, manager
  <1>11. Own' /\ Counted' /\ Listed' /\ (OneReader => ArrivalsAreNew')
    BY <1>1 DEF IInv, Own, InUse, Counted, Listed, ArrivalsAreNew
  <1> QED BY <1>6, <1>7, <1>8, <1>9, <1>10, <1>11

LEMMA PresentStep ==
    ASSUME IInv, NEW r \in Relays, NEW d \in Directives, Present(r, d)
    PROVE  InHand' /\ Signed' /\ Fresh' /\ Held' /\ Unmoved' /\ Own' /\ Counted' /\ Listed'
           /\ (OneReader => ArrivalsAreNew')
  <1> TypeOK
    BY DEF IInv
  <1>1. UNCHANGED <<manager, inbox, old, unlisted, ledger, reader, applied>>
    BY DEF Present
  <1>2. /\ relay'[r].pc = "loop" /\ relay'[r].cur = relay[r].cur /\ relay'[r].cloned
        /\ relay'[r].dirty = relay[r].dirty /\ relay'[r].old = relay[r].old
        /\ relay'[r].head = CloneHead(r)
        /\ relay'[r].out = IF SameText(r, d) /\ ~relay[r].dirty
                           THEN [relay[r].out EXCEPT ![d] = live[d].v] ELSE relay[r].out
        /\ \A q \in Relays : q # r => relay'[q] = relay[q]
    BY PresentFields
  <1>3. /\ relay[r].pc = "loop" /\ CloneHead(r)[d] # 0
        /\ current' = Cloned(r)
        /\ CloneHead(r) = IF relay[r].cloned THEN relay[r].head ELSE inbox
        /\ relay[r].out \in [Directives -> Texts]
    BY DEF Present, Turn, CloneHead, TypeOK, RelayStates
  <1>4. InHand'
    BY <1>1, <1>2 DEF IInv, InHand
  <1>5. Signed'
    <2>1. \A e \in Directives : inbox[e] # 0 => <<e, inbox[e]>> \in approved
      BY DEF IInv, Signed
    <2>2. \A e \in Directives : relay[r].head[e] # 0 => <<e, relay[r].head[e]>> \in approved
      BY DEF IInv, Signed
    <2>3. ASSUME NEW e \in Directives, relay'[r].head[e] # 0
          PROVE  <<e, relay'[r].head[e]>> \in approved
      <3>1. CASE relay'[r].head = relay[r].head
        BY <3>1, <2>2, <2>3
      <3>2. CASE relay'[r].head = inbox
        BY <3>2, <2>1, <2>3
      <3> QED BY <3>1, <3>2, <1>2, <1>3
    <2>4. Signed
      BY DEF IInv
    <2>5. /\ live' = live /\ origin' = origin /\ unpub' = unpub /\ approved' = approved
          /\ inbox' = inbox
      BY <1>1 DEF manager
    <2>6. \A e \in Directives : inbox'[e] # 0 => <<e, inbox'[e]>> \in approved
      BY <2>1, <2>5
    <2>7. \A q \in Relays : q # r => relay'[q] = relay[q]
      BY <1>2
    <2> QED BY <2>3, <2>4, <2>5, <2>6, <2>7, SignedStep
  <1>6. Fresh'
    <2>1. ASSUME NEW q \in Relays, q \in current', q # r
          PROVE  q \in current /\ relay'[q] = relay[q]
      BY <2>1, <1>2, <1>3 DEF Cloned
    <2>2. ASSUME r \in current', NEW e \in Directives
          PROVE  /\ inbox[e] # 0 => relay'[r].head[e] = inbox[e]
                 /\ inbox[e] = 0 /\ relay'[r].head[e] # 0 => e \notin relay'[r].old
      <3>1. CASE relay[r].cloned
        BY <2>2, <3>1, <1>2, <1>3 DEF IInv, Fresh, Cloned
      <3>2. CASE ~relay[r].cloned
        BY <2>2, <3>2, <1>2, <1>3
      <3> QED BY <3>1, <3>2
    <2>3. ASSUME NEW q \in Relays, q \in current'
          PROVE  /\ relay'[q].pc \in {"loop", "push"} /\ relay'[q].cloned
                 /\ \A e \in Directives :
                      /\ inbox'[e] # 0 => relay'[q].head[e] = inbox'[e]
                      /\ inbox'[e] = 0 /\ relay'[q].head[e] # 0 => e \notin relay'[q].old
      <3>1. CASE q = r
        BY <3>1, <2>2, <2>3, <1>1, <1>2
      <3>2. CASE q # r
        BY <3>2, <2>1, <2>3, <1>1 DEF IInv, Fresh
      <3> QED BY <3>1, <3>2
    <2> QED BY <2>3, Zenon DEF Fresh
  <1>7. Held'
    <2>1. ASSUME NEW e \in Directives, relay'[r].out[e] # 0
          PROVE  inbox[e] = relay'[r].out[e]
      <3>1. CASE relay'[r].out[e] = relay[r].out[e]
        BY <3>1, <2>1 DEF IInv, Held
      <3>2. CASE e = d /\ SameText(r, d) /\ ~relay[r].dirty
        <4>1. relay'[r].out[d] = CloneHead(r)[d]
          BY <3>2, <1>2, <1>3 DEF SameText
        <4>2. inbox[d] = CloneHead(r)[d]
          BY <3>2, <1>3 DEF IInv, Held
        <4> QED BY <4>1, <4>2, <3>2
      <3> QED BY <3>1, <3>2, <1>2, <1>3
    <2>2. ASSUME NEW e \in Directives, ~relay[r].dirty, CloneHead(r)[e] # 0
          PROVE  inbox[e] = CloneHead(r)[e]
      BY <2>2, <1>3 DEF IInv, Held
    <2>3. ASSUME NEW q \in Relays, NEW e \in Directives
          PROVE  /\ relay'[q].out[e] # 0 => inbox'[e] = relay'[q].out[e]
                 /\ /\ relay'[q].cloned /\ ~relay'[q].dirty
                    /\ relay'[q].head[e] # 0 /\ (relay'[q].pc # "push" \/ e # relay'[q].cur)
                    => inbox'[e] = relay'[q].head[e]
      <3>1. CASE q = r
        BY <3>1, <1>1, <1>2, <2>1, <2>2
      <3>2. CASE q # r
        BY <3>2, <1>1, <1>2 DEF IInv, Held
      <3> QED BY <3>1, <3>2
    <2> QED BY <2>3 DEF Held
  <1>8. Unmoved'
    BY <1>1, <1>2 DEF IInv, Unmoved, Markable, Delivered, manager
  <1>9. Own' /\ Counted' /\ Listed' /\ (OneReader => ArrivalsAreNew')
    BY <1>1 DEF IInv, Own, InUse, Counted, Listed, ArrivalsAreNew
  <1> QED BY <1>4, <1>5, <1>6, <1>7, <1>8, <1>9

LEMMA PushStep ==
    ASSUME IInv, NEW r \in Relays, PushOk(r) \/ PushFails(r)
    PROVE  InHand' /\ Signed' /\ Fresh' /\ Held' /\ Unmoved' /\ Own' /\ Counted' /\ Listed'
           /\ (OneReader => ArrivalsAreNew')
  <1> TypeOK
    BY DEF IInv
  <1>1. UNCHANGED <<manager, ledger, reader, applied>>
    BY DEF PushOk, PushFails, Lands, target
  <1>2. /\ relay'[r].pc = "loop"
        /\ relay'[r].cloned = relay[r].cloned
        /\ ~relay'[r].dirty => ~relay[r].dirty
        /\ relay'[r].old = relay[r].old /\ relay'[r].head = relay[r].head
        /\ \A q \in Relays : q # r => relay'[q] = relay[q]
    BY PushOkFields, PushFailsFields
  <1>3. relay[r].pc = "push" /\ relay[r].cur \in Directives
    BY DEF PushOk, PushFails, IInv, InHand
  <1>4. \/ UNCHANGED <<inbox, old, unlisted>> /\ current' = current /\ PushFails(r)
        \/ r \in current /\ Lands(r) /\ current' = {r}
    BY DEF PushOk, PushFails, Accepted, Lands, target
  <1>5. \A d \in Directives :
          /\ inbox[d] # 0 => inbox'[d] = inbox[d]
          /\ inbox'[d] # 0 => <<d, inbox'[d]>> \in approved
          /\ d \in unlisted' <=> d \in unlisted \/ (inbox[d] = 0 /\ inbox'[d] # 0)
          /\ inbox[d] = 0 /\ inbox'[d] # 0 => d \notin old'
          /\ d \in unlisted /\ d \in old' => d \in old
    <2>1. CASE UNCHANGED <<inbox, old, unlisted>>
      <3>1. \A d \in Directives : inbox[d] # 0 => <<d, inbox[d]>> \in approved
        BY DEF IInv, Signed
      <3>2. inbox' = inbox /\ old' = old /\ unlisted' = unlisted
        BY <2>1
      <3>3. ASSUME NEW d \in Directives
            PROVE  /\ inbox[d] # 0 => inbox'[d] = inbox[d]
                   /\ inbox'[d] # 0 => <<d, inbox'[d]>> \in approved
                   /\ d \in unlisted' <=> d \in unlisted \/ (inbox[d] = 0 /\ inbox'[d] # 0)
                   /\ inbox[d] = 0 /\ inbox'[d] # 0 => d \notin old'
                   /\ d \in unlisted /\ d \in old' => d \in old
        <4>1. inbox'[d] = inbox[d]
          BY <3>2
        <4>2. d \in unlisted' <=> d \in unlisted
          BY <3>2
        <4>3. d \in old' => d \in old
          BY <3>2
        <4>4. ~(inbox[d] = 0 /\ inbox'[d] # 0)
          BY <4>1
        <4>5. inbox'[d] # 0 => <<d, inbox'[d]>> \in approved
          <5> SUFFICES ASSUME inbox'[d] # 0 PROVE <<d, inbox[d]>> \in approved
            BY <4>1
          <5> QED BY <4>1, <3>1
        <4> QED BY <4>1, <4>2, <4>3, <4>4, <4>5
      <3> QED BY <3>3
    <2>2. CASE r \in current /\ Lands(r)
      BY <2>2, <1>1, LandsGrows DEF manager
    <2> QED BY <1>4, <2>1, <2>2
  <1>6. InHand'
    BY <1>1, <1>2 DEF IInv, InHand
  <1>7. Signed'
    <2>1. ASSUME NEW d \in Directives, relay'[r].head[d] # 0
          PROVE  <<d, relay'[r].head[d]>> \in approved
      <3>1. relay'[r].head = relay[r].head
        BY <1>2
      <3>2. relay[r].head[d] # 0 => <<d, relay[r].head[d]>> \in approved
        BY DEF IInv, Signed
      <3> QED BY <3>1, <3>2, <2>1
    <2>2. Signed
      BY DEF IInv
    <2>3. live' = live /\ origin' = origin /\ unpub' = unpub /\ approved' = approved
      BY <1>1 DEF manager
    <2>4. \A d \in Directives : inbox'[d] # 0 => <<d, inbox'[d]>> \in approved
      BY <1>5
    <2>5. \A q \in Relays : q # r => relay'[q] = relay[q]
      BY <1>2
    <2> QED BY <2>1, <2>2, <2>3, <2>4, <2>5, SignedStep
  <1>8. Fresh'
    <2>1. CASE UNCHANGED <<inbox, old, unlisted>> /\ current' = current
      BY <2>1, <1>2 DEF IInv, Fresh
    <2>2. CASE r \in current /\ Lands(r) /\ current' = {r}
      <3>1. inbox' = relay[r].head /\ relay'[r].head = relay[r].head
            /\ relay'[r].cloned
        BY <2>2, <1>2 DEF Lands, IInv, Fresh
      <3> QED BY <2>2, <3>1, <1>2 DEF Fresh
    <2> QED BY <1>4, <2>1, <2>2
  <1>9. Held'
    <2>1. ASSUME NEW d \in Directives, relay'[r].out[d] # 0
          PROVE  inbox'[d] = relay'[r].out[d]
      <3>1. CASE relay'[r].out[d] = relay[r].out[d]
        BY <3>1, <2>1, <1>5 DEF IInv, Held
      <3>2. CASE PushOk(r) /\ d = relay[r].cur
        <4>1. relay[r].out \in [Directives -> Texts]
          BY DEF TypeOK, RelayStates
        <4>2. relay'[r].out[d] = relay[r].head[d]
          BY <3>2, <4>1, PushOkFields
        <4>3. inbox'[d] = relay[r].head[d]
          BY <3>2 DEF PushOk, Lands
        <4> QED BY <4>2, <4>3
      <3>3. relay[r].out \in [Directives -> Texts]
        BY DEF TypeOK, RelayStates
      <3> QED BY <3>1, <3>2, <3>3, PushOkFields, PushFailsFields
    <2>2. ASSUME NEW d \in Directives, relay[r].cloned, ~relay'[r].dirty,
                 relay[r].head[d] # 0
          PROVE  inbox'[d] = relay[r].head[d]
      <3>1. PushOk(r)
        BY <2>2, PushFailsFields
      <3> QED BY <3>1 DEF PushOk, Lands
    <2>3. ASSUME NEW q \in Relays, NEW d \in Directives
          PROVE  /\ relay'[q].out[d] # 0 => inbox'[d] = relay'[q].out[d]
                 /\ /\ relay'[q].cloned /\ ~relay'[q].dirty
                    /\ relay'[q].head[d] # 0 /\ (relay'[q].pc # "push" \/ d # relay'[q].cur)
                    => inbox'[d] = relay'[q].head[d]
      <3>1. CASE q = r
        BY <3>1, <1>2, <2>1, <2>2
      <3>2. CASE q # r
        <4>1. relay'[q] = relay[q]
          BY <3>2, <1>2
        <4>2. /\ relay[q].out[d] # 0 => inbox[d] = relay[q].out[d]
              /\ /\ relay[q].cloned /\ ~relay[q].dirty
                 /\ relay[q].head[d] # 0 /\ (relay[q].pc # "push" \/ d # relay[q].cur)
                 => inbox[d] = relay[q].head[d]
          BY DEF IInv, Held
        <4>3. inbox[d] # 0 => inbox'[d] = inbox[d]
          BY <1>5
        <4> QED BY <4>1, <4>2, <4>3
      <3> QED BY <3>1, <3>2
    <2> QED BY <2>3 DEF Held
  <1>10. Unmoved'
    BY <1>1, <1>2 DEF IInv, Unmoved, Markable, Delivered, manager
  <1>11. Own'
    BY <1>1, <1>5 DEF IInv, Own, InUse
  <1>12. Counted'
    BY <1>1 DEF IInv, Counted
  <1>13. Listed'
    BY <1>1, <1>5 DEF IInv, Listed
  <1>14. OneReader => ArrivalsAreNew'
    <2>1. unlisted' \subseteq Directives
      BY <1>4 DEF Lands, TypeOK
    <2> QED BY <1>5, <2>1 DEF IInv, ArrivalsAreNew
  <1> QED BY <1>6, <1>7, <1>8, <1>9, <1>10, <1>11, <1>12, <1>13, <1>14

LEMMA QuietStep ==
    ASSUME IInv, NEW r \in Relays,
           \/ RelayStart(r) \/ MarkClone(r) \/ MarkPush(r) \/ RelayEnds(r)
           \/ \E d \in Directives : Skip(r, d) \/ CloneFails(r, d)
    PROVE  InHand' /\ Signed' /\ Fresh' /\ Held' /\ Unmoved' /\ Own' /\ Counted' /\ Listed'
           /\ (OneReader => ArrivalsAreNew')
  <1> TypeOK
    BY DEF IInv
  <1>1. UNCHANGED <<live, unpub, approved, inbox, old, unlisted, ledger, reader, applied>>
    BY DEF RelayStart, MarkClone, MarkPush, RelayEnds, Skip, CloneFails, Leaves, manager,
           target
  <1>2. /\ relay'[r].pc # "push"
        /\ \/ /\ ~relay'[r].cloned
              /\ relay'[r].head = [d \in Directives |-> 0]
              /\ relay'[r].out = [d \in Directives |-> 0]
           \/ /\ relay[r].pc = "loop" /\ relay'[r].cur = relay[r].cur
              /\ relay'[r].cloned = relay[r].cloned /\ relay'[r].dirty = relay[r].dirty
              /\ relay'[r].old = relay[r].old /\ relay'[r].head = relay[r].head
              /\ relay'[r].out = relay[r].out
        /\ \A q \in Relays : q # r => relay'[q] = relay[q]
    BY QuietFields
  <1>3. InHand'
    BY <1>1, <1>2 DEF IInv, InHand
  <1>4. Signed'
    <2>1. ASSUME NEW d \in Directives
          PROVE  origin'[d].status # "draft" => <<d, origin'[d].v>> \in approved
      <3>1. CASE MarkPush(r)
        <4>1. origin[d] \in Drafts
          BY DEF TypeOK
        <4> QED BY <3>1, <4>1 DEF MarkPush, Unmarked, IInv, Signed, Drafts
      <3>2. CASE origin' = origin
        BY <3>2, <1>1 DEF IInv, Signed
      <3> QED BY <3>1, <3>2
          DEF RelayStart, MarkClone, RelayEnds, Skip, CloneFails, manager
    <2>2. ASSUME NEW q \in Relays, NEW d \in Directives, relay'[q].head[d] # 0
          PROVE  <<d, relay'[q].head[d]>> \in approved
      <3>1. relay'[q].head[d] = relay[q].head[d]
        <4>1. CASE q = r
          BY <4>1, <2>2, <1>2
        <4>2. CASE q # r
          BY <4>2, <1>2
        <4> QED BY <4>1, <4>2
      <3>2. relay[q].head[d] # 0
        BY <2>2, <3>1
      <3>3. <<d, relay[q].head[d]>> \in approved
        BY <3>2 DEF IInv, Signed
      <3> QED BY <3>1, <3>3
    <2> QED BY <1>1, <2>1, <2>2 DEF IInv, Signed
  <1>5. Fresh'
    <2>1. current' \subseteq current
      BY DEF RelayStart, MarkClone, MarkPush, RelayEnds, Skip, CloneFails, Leaves, target
    <2>2. ASSUME r \in current'
          PROVE  /\ relay'[r].pc = "loop" /\ relay'[r].cloned = relay[r].cloned
                 /\ relay'[r].old = relay[r].old /\ relay'[r].head = relay[r].head
      <3>1. r \in current /\ relay[r].pc \in {"loop", "push"}
        BY <2>1, <2>2 DEF IInv, Fresh
      <3>2. ~RelayStart(r) /\ ~MarkClone(r) /\ ~MarkPush(r) /\ ~RelayEnds(r)
        BY <2>2, <3>1 DEF RelayStart, MarkClone, MarkPush, RelayEnds, Leaves
      <3>3. PICK d \in Directives : Skip(r, d) \/ CloneFails(r, d)
        BY <3>2
      <3>4. relay'[r] = [relay[r] EXCEPT !.todo = relay[r].todo \ {d}] /\ relay[r].pc = "loop"
        BY <3>3, RelayFrame DEF Skip, CloneFails, Turn
      <3>5. relay[r] \in RelayStates
        BY DEF TypeOK
      <3> QED BY <3>4, <3>5 DEF RelayStates
    <2>3. ASSUME NEW q \in Relays, q \in current', NEW d \in Directives
          PROVE  /\ relay'[q].pc \in {"loop", "push"} /\ relay'[q].cloned
                 /\ inbox'[d] # 0 => relay'[q].head[d] = inbox'[d]
                 /\ inbox'[d] = 0 /\ relay'[q].head[d] # 0 => d \notin relay'[q].old
      <3>1. CASE q = r
        BY <3>1, <2>1, <2>2, <2>3, <1>1 DEF IInv, Fresh
      <3>2. CASE q # r
        BY <3>2, <2>1, <2>3, <1>1, <1>2 DEF IInv, Fresh
      <3> QED BY <3>1, <3>2
    <2>4. ASSUME NEW q \in Relays, q \in current'
          PROVE  relay'[q].pc \in {"loop", "push"} /\ relay'[q].cloned
      BY <2>1, <2>2, <2>4, <1>2 DEF IInv, Fresh
    <2> QED BY <2>3, <2>4 DEF Fresh
  <1>6. Held'
    <2>3. ASSUME NEW q \in Relays, NEW d \in Directives
          PROVE  /\ relay'[q].out[d] # 0 => inbox'[d] = relay'[q].out[d]
                 /\ /\ relay'[q].cloned /\ ~relay'[q].dirty
                    /\ relay'[q].head[d] # 0 /\ (relay'[q].pc # "push" \/ d # relay'[q].cur)
                    => inbox'[d] = relay'[q].head[d]
      <3>1. CASE q = r
        BY <3>1, <1>1, <1>2 DEF IInv, Held
      <3>2. CASE q # r
        BY <3>2, <1>1, <1>2 DEF IInv, Held
      <3> QED BY <3>1, <3>2
    <2> QED BY <2>3 DEF Held
  <1>7. Unmoved'
    <2>1. CASE MarkPush(r)
      BY <2>1 DEF MarkPush, Unmoved
    <2>2. CASE MarkClone(r)
      <3>1. origin' = origin /\ mcurrent' = mcurrent \cup {r} /\ Markable(r)
        BY <2>2 DEF MarkClone
      <3>2. relay'[r].out = relay[r].out
        <4>1. relay'[r] = [relay[r] EXCEPT !.pc = "mark"] /\ relay[r] \in RelayStates
          BY <2>2, RelayFrame DEF MarkClone, TypeOK
        <4> QED BY <4>1 DEF RelayStates
      <3>3. Markable(r)'
        BY <3>1, <3>2 DEF Markable, Delivered
      <3>4. \A q \in Relays : q # r => (Markable(q)' <=> Markable(q))
        BY <3>1, <1>2 DEF Markable, Delivered
      <3> QED BY <3>1, <3>3, <3>4, <1>2 DEF IInv, Unmoved
    <2>3. CASE RelayStart(r) \/ RelayEnds(r)
      <3>1. origin' = origin /\ mcurrent' \subseteq mcurrent /\ relay'[r].pc # "mark"
        <4>1. CASE RelayStart(r)
          <5>1. relay'[r] = [RelayOff EXCEPT !.pc = "loop", !.todo = Directives]
            BY <4>1, RelayFrame DEF RelayStart
          <5> QED BY <5>1, <4>1 DEF RelayStart, RelayOff, manager
        <4>2. CASE RelayEnds(r)
          BY <4>2, RelayFrame DEF RelayEnds, RelayOff
        <4> QED BY <2>3, <4>1, <4>2
      <3>2. \A q \in Relays : q # r => (Markable(q)' <=> Markable(q))
        BY <3>1, <1>2 DEF Markable, Delivered
      <3> QED BY <3>1, <3>2, <1>2 DEF IInv, Unmoved
    <2>4. ASSUME NEW d \in Directives, Skip(r, d) \/ CloneFails(r, d) PROVE Unmoved'
      <3>1. UNCHANGED <<origin, mcurrent>> /\ relay'[r].pc # "mark"
        <4>1. relay'[r] = [relay[r] EXCEPT !.todo = relay[r].todo \ {d}]
              /\ relay[r].pc = "loop" /\ relay[r] \in RelayStates
          BY <2>4, RelayFrame DEF Skip, CloneFails, Turn, TypeOK
        <4> QED BY <4>1, <2>4 DEF Skip, CloneFails, manager, RelayStates
      <3>2. \A q \in Relays : q # r => (Markable(q)' <=> Markable(q))
        BY <3>1, <1>2 DEF Markable, Delivered
      <3> QED BY <3>1, <3>2, <1>2 DEF IInv, Unmoved
    <2> QED BY <2>1, <2>2, <2>3, <2>4
  <1>8. Own' /\ Counted' /\ Listed' /\ (OneReader => ArrivalsAreNew')
    BY <1>1 DEF IInv, Own, InUse, Counted, Listed, ArrivalsAreNew
  <1> QED BY <1>3, <1>4, <1>5, <1>6, <1>7, <1>8

LEMMA ScanStep ==
    ASSUME IInv, NEW a \in Readers, Scan(a)
    PROVE  InHand' /\ Signed' /\ Fresh' /\ Held' /\ Unmoved' /\ Own' /\ Counted' /\ Listed'
           /\ (OneReader => ArrivalsAreNew')
  <1> TypeOK
    BY DEF IInv
  <1>1. /\ UNCHANGED <<manager, inbox, ledger, applied>>
        /\ reader[a].pc = "off" /\ current' = {}
        /\ unlisted' = unlisted \ Pending(a)
    BY DEF Scan
  <1>2. /\ reader'[a].list = Pending(a) /\ reader'[a].cur = NoDirective
        /\ reader'[a].pc = "list"
        /\ \A b \in Readers : b # a => reader'[b] = reader[b]
        /\ \A r \in Relays :
             /\ relay'[r].pc = relay[r].pc /\ relay'[r].cur = relay[r].cur
             /\ relay'[r].cloned = relay[r].cloned /\ relay'[r].dirty = relay[r].dirty
             /\ relay'[r].head = relay[r].head /\ relay'[r].out = relay[r].out
    BY ScanFields
  <1>3. InHand' /\ Signed' /\ Fresh' /\ Held'
    BY <1>1, <1>2 DEF IInv, InHand, Signed, Fresh, Held, manager
  <1>4. Unmoved'
    BY <1>1, <1>2 DEF IInv, Unmoved, Markable, Delivered, manager
  <1>5. Own'
    <2>1. ASSUME NEW b \in Readers, NEW d \in Directives, InUse(b, d)'
          PROVE  inbox[d] # 0 /\ Audience[d] = b /\ d \notin unlisted'
      <3>1. CASE b = a
        BY <3>1, <2>1, <1>1, <1>2, DirectiveAssumption DEF InUse, Pending
      <3>2. CASE b # a
        BY <3>2, <2>1, <1>1, <1>2 DEF IInv, Own, InUse
      <3> QED BY <3>1, <3>2
    <2> QED BY <2>1, <1>1 DEF Own
  <1>6. Counted'
    <2>1. ASSUME NEW d \in Directives
          PROVE  /\ applied[d] <= 1
                 /\ d \in reader'[Audience[d]].list => applied[d] = 0
                 /\ applied[d] = 1 => \/ d \in ledger
                                      \/ /\ reader'[Audience[d]].pc \in {"ack", "push"}
                                         /\ reader'[Audience[d]].cur = d
      <3>1. Audience[d] \in Readers /\ applied[d] \in 0..2
        BY DirectiveAssumption DEF TypeOK
      <3>2. CASE Audience[d] = a
        BY <3>1, <3>2, <1>1, <1>2 DEF IInv, Counted, Pending
      <3>3. CASE Audience[d] # a
        BY <3>1, <3>3, <1>2 DEF IInv, Counted
      <3> QED BY <3>2, <3>3
    <2> QED BY <2>1, <1>1 DEF Counted
  <1>7. Listed'
    BY <1>1 DEF IInv, Listed
  <1>8. OneReader => ArrivalsAreNew'
    <2> SUFFICES ASSUME OneReader, NEW d \in unlisted' PROVE FALSE
      BY <1>1 DEF ArrivalsAreNew
    <2>1. d \in unlisted /\ d \in Directives /\ d \notin Pending(a)
      BY <1>1 DEF TypeOK
    <2>2. Audience[d] = a
      BY <2>1, DirectiveAssumption DEF OneReader
    <2> QED BY <2>1, <2>2 DEF IInv, Listed, Pending
  <1> QED BY <1>3, <1>4, <1>5, <1>6, <1>7, <1>8

LEMMA ActStep ==
    ASSUME IInv, NEW a \in Readers, NEW d \in Directives, Act(a, d)
    PROVE  InHand' /\ Signed' /\ Fresh' /\ Held' /\ Unmoved' /\ Own' /\ Counted' /\ Listed'
           /\ (OneReader => ArrivalsAreNew')
  <1> TypeOK
    BY DEF IInv
  <1>1. /\ UNCHANGED <<manager, target, relay>>
        /\ reader[a].pc = "list" /\ d \in reader[a].list
        /\ applied' = [applied EXCEPT ![d] = IF @ = 2 THEN 2 ELSE @ + 1]
        /\ UNCHANGED <<inbox, old, unlisted, ledger, current, live, origin, unpub, approved>>
        /\ UNCHANGED mcurrent
    BY DEF Act, target, manager
  <1>2. /\ reader'[a].list = reader[a].list \ {d} /\ reader'[a].cur = d
        /\ reader'[a].pc = "ack"
        /\ \A b \in Readers : b # a => reader'[b] = reader[b]
    BY ActFields
  <1>3. InHand' /\ Signed' /\ Fresh' /\ Held'
    BY <1>1, <1>2 DEF IInv, InHand, Signed, Fresh, Held
  <1>4. Unmoved'
    BY <1>1 DEF IInv, Unmoved, Markable, Delivered
  <1>5. Own'
    <2>1. ASSUME NEW b \in Readers, NEW e \in Directives, InUse(b, e)'
          PROVE  InUse(b, e)
      <3>1. CASE b = a
        BY <3>1, <2>1, <1>1, <1>2 DEF InUse
      <3>2. CASE b # a
        BY <3>2, <2>1, <1>2 DEF InUse
      <3> QED BY <3>1, <3>2
    <2> QED BY <2>1, <1>1 DEF IInv, Own
  <1>6. Counted'
    <2>1. Audience[d] = a /\ applied[d] = 0
      <3>1. Audience[d] = a
        BY <1>1 DEF IInv, Own, InUse
      <3> QED BY <3>1, <1>1 DEF IInv, Counted
    <2>2. ASSUME NEW e \in Directives
          PROVE  /\ applied'[e] <= 1
                 /\ e \in reader'[Audience[e]].list => applied'[e] = 0
                 /\ applied'[e] = 1 => \/ e \in ledger
                                       \/ /\ reader'[Audience[e]].pc \in {"ack", "push"}
                                          /\ reader'[Audience[e]].cur = e
      <3>1. Audience[e] \in Readers /\ applied \in [Directives -> 0..2]
        BY DirectiveAssumption DEF TypeOK
      <3>2. CASE e = d
        BY <3>1, <3>2, <2>1, <1>1, <1>2
      <3>3. CASE e # d
        <4>1. applied'[e] = applied[e]
          BY <3>1, <3>3, <1>1
        <4>2. CASE Audience[e] = a
          BY <3>1, <3>3, <4>1, <4>2, <1>1, <1>2 DEF IInv, Counted
        <4>3. CASE Audience[e] # a
          BY <3>1, <4>1, <4>3, <1>2 DEF IInv, Counted
        <4> QED BY <4>2, <4>3
      <3> QED BY <3>2, <3>3
    <2> QED BY <2>2, <1>1 DEF Counted
  <1>7. Listed' /\ (OneReader => ArrivalsAreNew')
    BY <1>1 DEF IInv, Listed, ArrivalsAreNew
  <1> QED BY <1>3, <1>4, <1>5, <1>6, <1>7

LEMMA AckStep ==
    ASSUME IInv, NEW a \in Readers,
           AckClone(a) \/ AckPush(a) \/ AckRetry(a) \/ AckFails(a) \/ ReaderEnds(a)
    PROVE  InHand' /\ Signed' /\ Fresh' /\ Held' /\ Unmoved' /\ Own' /\ Counted' /\ Listed'
           /\ (OneReader => ArrivalsAreNew')
  <1> TypeOK
    BY DEF IInv
  <1>1. /\ UNCHANGED <<inbox, old, unlisted, live, origin, unpub, approved, relay>>
        /\ mcurrent' = mcurrent
        /\ current' \subseteq current \cup {a}
    BY DEF AckClone, AckPush, AckRetry, AckFails, AckRefused, ReaderEnds, manager
  <1>2. a \notin Relays
    BY DirectiveAssumption
  <1>3. /\ \A b \in Readers : b # a => reader'[b] = reader[b]
        /\ reader'[a].list \subseteq reader[a].list
        /\ reader'[a].cur \in {reader[a].cur, NoDirective}
        /\ reader'[a].pc \in {"ack", "push"} =>
             reader'[a].cur = reader[a].cur /\ reader[a].pc \in {"ack", "push"}
    <2>1. CASE Done(a)
      BY <2>1, DoneFields
    <2>2. CASE ReaderEnds(a)
      BY <2>2, EndsFields
    <2>3. CASE (AckClone(a) /\ ~Done(a)) \/ AckRetry(a)
      BY <2>3, AckFields
    <2> QED BY <2>1, <2>2, <2>3 DEF AckPush, AckFails
  <1>4. InHand' /\ Signed' /\ Fresh' /\ Held'
    <2>1. InHand'
      BY <1>1, <1>3 DEF IInv, InHand
    <2>2. Signed' /\ Held'
      BY <1>1 DEF IInv, Signed, Held
    <2>3. Fresh'
      BY <1>1, <1>2 DEF IInv, Fresh
    <2> QED BY <2>1, <2>2, <2>3
  <1>5. Unmoved'
    BY <1>1 DEF IInv, Unmoved, Markable, Delivered
  <1>6. Own'
    <2>1. ASSUME NEW b \in Readers, NEW e \in Directives, InUse(b, e)'
          PROVE  InUse(b, e)
      <3>1. CASE b = a
        BY <3>1, <2>1, <1>3, DirectiveAssumption DEF InUse
      <3>2. CASE b # a
        BY <3>2, <2>1, <1>3 DEF InUse
      <3> QED BY <3>1, <3>2
    <2> QED BY <2>1, <1>1 DEF IInv, Own
  <1>7. /\ ledger' = ledger \/ /\ ledger' = ledger \cup {reader[a].cur}
                               /\ reader[a].cur \in Directives
    BY DEF AckClone, AckPush, AckRetry, AckFails, AckRefused, ReaderEnds, IInv, InHand
  <1>8. Listed' /\ (OneReader => ArrivalsAreNew')
    BY <1>1, <1>7 DEF IInv, Listed, ArrivalsAreNew, Own, InUse
  <1>9. Counted'
    <2>1. ASSUME NEW e \in Directives
          PROVE  /\ applied'[e] \in {0, applied[e]}
                 /\ /\ applied'[e] = applied[e] /\ Audience[e] = a
                    /\ reader[a].pc \in {"ack", "push"} /\ reader[a].cur = e
                    => \/ e \in ledger' \/ applied[e] = 0
                       \/ reader'[a].pc \in {"ack", "push"} /\ reader'[a].cur = e
      <3>1. CASE AckClone(a) /\ Done(a)
        <4>1. applied' = applied /\ reader[a].pc = "ack" /\ reader'[a].pc = "list"
              /\ ledger' = ledger
          BY <3>1, DoneFields DEF AckClone
        <4>2. reader[a].cur \in ledger
          <5>1. ReaderDoes(a, [reader[a] EXCEPT !.pc = "push"]) => reader'[a].pc = "push"
            <6>1. reader[a] \in ReaderStates
              BY DEF TypeOK
            <6>2. [reader[a] EXCEPT !.pc = "push"].pc = "push"
              BY <6>1 DEF ReaderStates
            <6> QED BY <6>2, ReaderFrame
          <5> QED BY <3>1, <4>1, <5>1 DEF AckClone
        <4> QED BY <4>1, <4>2
      <3>2. CASE (AckClone(a) /\ ~Done(a)) \/ AckRetry(a)
        BY <3>2, AckFields DEF AckClone, AckRetry
      <3>3. CASE AckPush(a)
        BY <3>3 DEF AckPush
      <3>4. CASE AckFails(a) \/ ReaderEnds(a)
        BY <3>4 DEF AckFails, ReaderEnds, Forgotten
      <3> QED BY <3>1, <3>2, <3>3, <3>4
    <2>2. ASSUME NEW e \in Directives
          PROVE  /\ applied'[e] <= 1
                 /\ e \in reader'[Audience[e]].list => applied'[e] = 0
                 /\ applied'[e] = 1 => \/ e \in ledger'
                                       \/ /\ reader'[Audience[e]].pc \in {"ack", "push"}
                                          /\ reader'[Audience[e]].cur = e
      <3>1. Audience[e] \in Readers /\ applied[e] \in 0..2 /\ ledger \subseteq ledger'
        BY <1>7, DirectiveAssumption DEF TypeOK
      <3>2. /\ applied[e] <= 1
            /\ e \in reader[Audience[e]].list => applied[e] = 0
            /\ applied[e] = 1 => \/ e \in ledger
                                 \/ /\ reader[Audience[e]].pc \in {"ack", "push"}
                                    /\ reader[Audience[e]].cur = e
        BY DEF IInv, Counted
      <3>3. CASE Audience[e] = a
        BY <3>1, <3>2, <3>3, <2>1, <1>3
      <3>4. CASE Audience[e] # a
        BY <3>1, <3>2, <3>4, <2>1, <1>3
      <3> QED BY <3>3, <3>4
    <2> QED BY <2>2 DEF Counted
  <1> QED BY <1>4, <1>5, <1>6, <1>8, <1>9

LEMMA InvariantStep == IInv /\ [Next]_vars => IInv'
  <1> SUFFICES ASSUME IInv, [Next]_vars PROVE IInv'
    OBVIOUS
  <1>1. TypeOK'
    BY TypeStep DEF IInv
  <1>2. InHand' /\ Signed' /\ Fresh' /\ Held' /\ Unmoved' /\ Own' /\ Counted' /\ Listed'
        /\ (OneReader => ArrivalsAreNew')
    <2>1. CASE OtherPush
      <3>1. UNCHANGED <<live, origin, unpub, approved, mcurrent, inbox, old, unlisted, ledger,
                        relay, reader, applied>> /\ current' = {}
        BY <2>1 DEF OtherPush, manager
      <3> QED BY <3>1 DEF IInv, InHand, Signed, Fresh, Held, Unmoved, Markable, Delivered, Own,
                          InUse, Counted, Listed, ArrivalsAreNew
    <2>2. CASE Calm \/ UNCHANGED vars
      <3>1. UNCHANGED <<live, origin, unpub, approved, mcurrent, inbox, old, unlisted, ledger,
                        relay, reader, applied, current>>
        BY <2>2 DEF Calm, vars, manager, target
      <3> QED BY <3>1 DEF IInv, InHand, Signed, Fresh, Held, Unmoved, Markable, Delivered, Own,
                          InUse, Counted, Listed, ArrivalsAreNew
    <2> QED BY <2>1, <2>2, ManagerStep, WriteStep, PresentStep, PushStep, QuietStep, ScanStep,
               ActStep, AckStep DEF Next, Relaying, Reading
  <1> QED BY <1>1, <1>2 DEF IInv

LEMMA InvariantStart == Init => IInv
  <1> SUFFICES ASSUME Init PROVE IInv
    OBVIOUS
  <1>1. TypeOK
    <2>1. [v |-> 1, status |-> "draft"] \in Drafts /\ 0 \in Texts
      BY DirectiveAssumption DEF Drafts, Texts
    <2>2. /\ live \in [Directives -> Drafts] /\ origin \in [Directives -> Drafts]
          /\ inbox \in [Directives -> Texts]
      BY <2>1 DEF Init
    <2>3. /\ relay \in [Relays -> RelayStates] /\ reader \in [Readers -> ReaderStates]
          /\ applied \in [Directives -> 0..2]
      BY OffTyped DEF Init
    <2> QED BY <2>2, <2>3 DEF Init, TypeOK
  <1>2. InHand /\ Signed /\ Fresh /\ Held /\ Unmoved /\ Own /\ Counted /\ Listed
    BY DirectiveAssumption
    DEF Init, RelayOff, ReaderOff, InHand, Signed, Fresh, Held, Unmoved, Own, InUse, Counted,
        Listed
  <1> QED BY <1>1, <1>2 DEF IInv, Init, ArrivalsAreNew

THEOREM Invariant == Spec => []IInv
  BY InvariantStart, InvariantStep, PTL DEF Spec

----------------------------------------------------------------------------
(* What the runs check, for every instance *)

(* Every variable keeps its type: no relay leaves a text in an inbox that is
   none, no agent an attempt past the last. *)
THEOREM Typing == Spec => []TypeOK
  <1>1. IInv => TypeOK
    BY DEF IInv
  <1> QED BY <1>1, Invariant, PTL

(* However many relays overlap and agents share the repository, a note is acted
   on a second time only if an agent ended between acting and acknowledging. *)
THEOREM OnceUnlessCut == Spec => []AppliedOnce
  <1>1. IInv => AppliedOnce
    BY DEF IInv, Counted, AppliedOnce
  <1> QED BY <1>1, Invariant, PTL

(* With one agent behind the marker, a note no scan has listed is newer than the
   marker, whatever is pushed between a stamp and the push that carries it. *)
THEOREM NoArrivalIsOld == OneReader /\ Spec => []ArrivalsAreNew
  <1>1. OneReader /\ IInv => ArrivalsAreNew
    BY DEF IInv
  <1>2. ASSUME OneReader PROVE Spec => []ArrivalsAreNew
    <2>1. IInv => ArrivalsAreNew
      BY <1>1, <1>2
    <2> QED BY <2>1, Invariant, PTL
  <1> QED BY <1>2

(* Every step of the manager, of a relay or of an agent is one the contract
   allows: nothing unapproved arrives, nothing that arrived changes, and a mark
   is for the text in the inbox. *)
LEMMA ContractStep == IInv /\ [Next]_vars => [Contract!Next]_(Contract!vars)
  <1> SUFFICES ASSUME IInv, [Next]_vars PROVE [Contract!Next]_(Contract!vars)
    OBVIOUS
  <1> USE DEF Contract!Next, Contract!vars
  <1> /\ live \in [Directives -> Drafts] /\ origin \in [Directives -> Drafts]
      /\ inbox \in [Directives -> Texts]
    BY DEF IInv, TypeOK
  <1>1. origin' = origin => Dispatched' = Dispatched
    BY DEF Dispatched
  <1>2. ASSUME UNCHANGED <<approved, inbox, ledger, origin>>
        PROVE  UNCHANGED Contract!vars
    BY <1>1, <1>2
  <1>3. ASSUME NEW d \in Directives, Approve(d) PROVE Contract!Next
    <2>1. live[d].v \in 1..MaxV
      BY DEF Drafts
    <2> QED BY <1>3, <2>1, <1>1 DEF Approve, Edit, target, Contract!Approve
  <1>4. ASSUME NEW d \in Directives, Publish(d) PROVE Contract!Next
    <2>1. live[d].status # "dispatched"
      BY <1>4 DEF Publish, IInv, Signed
    <2>2. Dispatched' = {p \in Dispatched : p[1] # d}
      <3>1. \A e \in Directives : origin'[e] = IF e = d THEN live[d] ELSE origin[e]
        BY <1>4 DEF Publish
      <3>2. \A e \in Directives, v \in 1..MaxV :
              <<e, v>> \in Dispatched' <=> <<e, v>> \in Dispatched /\ e # d
        BY <2>1, <3>1 DEF Dispatched
      <3> QED BY <3>2 DEF Dispatched
    <2> QED BY <1>4, <2>2 DEF Publish, target, Contract!Reissue
  <1>5. ASSUME NEW r \in Relays, PushOk(r) \/ PushFails(r)
        PROVE  Contract!Deliver \/ UNCHANGED Contract!vars
    <2>1. UNCHANGED <<approved, ledger, origin>>
      BY <1>5 DEF PushOk, PushFails, Lands, manager, target
    <2>2. CASE inbox' = inbox
      BY <2>1, <2>2, <1>2
    <2>3. CASE r \in current /\ Lands(r)
      <3>1. inbox' \in [Directives -> 0..MaxV]
        BY <2>3 DEF Lands, IInv, TypeOK, RelayStates, Texts
      <3>2. \A d \in Directives :
              inbox'[d] = inbox[d] \/ (inbox[d] = 0 /\ <<d, inbox'[d]>> \in approved)
        <4>1. ASSUME NEW d \in Directives
              PROVE  /\ inbox[d] # 0 => inbox'[d] = inbox[d]
                     /\ inbox'[d] # 0 => <<d, inbox'[d]>> \in approved
          BY <2>1, <2>3, LandsGrows
        <4>2. \A d \in Directives : inbox[d] \in Texts /\ inbox'[d] \in 0..MaxV
          BY <3>1
        <4> QED BY <4>1, <4>2, Zenon
      <3> QED BY <2>1, <1>1, <3>1, <3>2 DEF Contract!Deliver
    <2> QED BY <1>5, <2>2, <2>3 DEF PushOk, PushFails, Accepted, target
  <1>6. ASSUME NEW r \in Relays, MarkPush(r) PROVE Contract!Mark
    <2>1. \A d \in Unmarked(r) : d \in Directives /\ inbox[d] # 0 /\ origin[d].v = inbox[d]
      <3>1. Markable(r)
        BY <1>6 DEF MarkPush, IInv, Unmoved
      <3> QED BY <3>1 DEF Unmarked, Delivered, Markable, IInv, Held
    <2>2. Dispatched' = Dispatched \cup {<<d, inbox[d]>> : d \in Unmarked(r)}
      <3>1. \A e \in Directives, v \in 1..MaxV :
              <<e, v>> \in Dispatched' <=>
                \/ <<e, v>> \in Dispatched
                \/ e \in Unmarked(r) /\ v = inbox[e]
        <4>1. \A e \in Directives :
                origin'[e] = IF e \in Unmarked(r)
                             THEN [origin[e] EXCEPT !.status = "dispatched"] ELSE origin[e]
          BY <1>6 DEF MarkPush
        <4>2. \A e \in Directives : e \in Unmarked(r) =>
                origin[e].status = "approved" /\ origin'[e] = [v |-> inbox[e], status |-> "dispatched"]
          BY <4>1, <2>1 DEF Unmarked, Drafts
        <4>3. ASSUME NEW e \in Directives, NEW v \in 1..MaxV
              PROVE  <<e, v>> \in Dispatched' <=>
                       \/ <<e, v>> \in Dispatched
                       \/ e \in Unmarked(r) /\ v = inbox[e]
          <5>1. /\ <<e, v>> \in Dispatched <=> origin[e] = [v |-> v, status |-> "dispatched"]
                /\ <<e, v>> \in Dispatched' <=> origin'[e] = [v |-> v, status |-> "dispatched"]
            BY DEF Dispatched
          <5>2. CASE e \in Unmarked(r)
            <6>1. origin[e].status # "dispatched"
              BY <4>2, <5>2
            <6>2. <<e, v>> \notin Dispatched
              BY <5>1, <6>1
            <6>3. origin'[e] = [v |-> inbox[e], status |-> "dispatched"]
              BY <4>2, <5>2
            <6>4. origin'[e] = [v |-> v, status |-> "dispatched"] <=> v = inbox[e]
              BY <6>3
            <6> QED BY <5>1, <5>2, <6>2, <6>4
          <5>3. CASE e \notin Unmarked(r)
            BY <4>1, <5>1, <5>3
          <5> QED BY <5>2, <5>3
        <4> QED BY <4>3
      <3>2. \A d \in Unmarked(r) : inbox[d] \in 1..MaxV
        BY <2>1 DEF Texts
      <3> QED BY <3>1, <3>2, <2>1 DEF Dispatched
    <2>3. Unmarked(r) \in SUBSET Directives
      BY DEF Unmarked, Delivered
    <2> QED BY <1>6, <2>1, <2>2, <2>3 DEF MarkPush, target, Contract!Mark
  <1>7. ASSUME NEW a \in Readers, AckPush(a) \/ AckRetry(a) \/ AckFails(a)
        PROVE  Contract!Next \/ UNCHANGED Contract!vars
    <2>1. reader[a].cur \in Directives /\ inbox[reader[a].cur] # 0
      BY <1>7 DEF AckPush, AckRetry, AckFails, AckRefused, IInv, InHand, Own, InUse
    <2>2. UNCHANGED <<approved, inbox, origin>>
          /\ (ledger' = ledger \/ ledger' = ledger \cup {reader[a].cur})
      BY <1>7 DEF AckPush, AckRetry, AckFails, AckRefused, manager
    <2> QED BY <2>1, <2>2, <1>1 DEF Contract!Consume
  <1>8. CASE UNCHANGED <<approved, inbox, ledger, origin>>
    BY <1>8, <1>2
  <1> QED
    BY <1>3, <1>4, <1>5, <1>6, <1>7, <1>8
    DEF Next, Manage, Relaying, Reading, vars, manager, target, Amend, Edit, Pull, RelayStart,
        Skip, Write, Present, CloneFails, MarkClone, RelayEnds, Leaves, Scan, Act, AckClone,
        ReaderEnds, OtherPush, Calm

THEOREM KeepsContract == Spec => ImplementsContract
  <1>1. Init => Contract!Init
    <2>1. Init => Dispatched = {}
      BY DEF Init, Dispatched
    <2> QED BY <2>1 DEF Init, Contract!Init
  <1>2. Spec => [][Contract!Next]_(Contract!vars)
    BY Invariant, ContractStep, PTL DEF Spec
  <1> QED BY <1>1, <1>2, PTL DEF Spec, ImplementsContract, Contract!Spec

(* A target never has, and never acts on, a text that the operator did not approve;
   what is marked as dispatched is what the target has. *)
THEOREM OnlyApproved == Spec => []Contract!Promise
  <1>1. Contract!Init => Contract!Promise
    BY DEF Contract!Init, Contract!Promise
  <1>2. Contract!Promise /\ [Contract!Next]_(Contract!vars) => Contract!Promise'
    <2> SUFFICES ASSUME Contract!Promise, Contract!Next PROVE Contract!Promise'
      BY DEF Contract!Promise, Contract!vars
    <2> USE DEF Contract!Promise
    <2>1. CASE Contract!Deliver
      <3>1. \A p \in Dispatched : p[1] \in Directives /\ p[2] # 0
        BY DEF Dispatched
      <3>2. ASSUME NEW d \in Directives, inbox[d] # 0 PROVE inbox'[d] = inbox[d]
        BY <2>1, <3>2 DEF Contract!Deliver
      <3>3. ASSUME NEW d \in Directives, inbox'[d] # 0 PROVE <<d, inbox'[d]>> \in approved
        BY <2>1, <3>3 DEF Contract!Deliver
      <3>4. UNCHANGED <<approved, Dispatched, ledger>>
        BY <2>1 DEF Contract!Deliver
      <3> QED BY <3>1, <3>2, <3>3, <3>4
    <2>2. CASE Contract!Mark
      BY <2>2 DEF Contract!Mark
    <2>3. ASSUME NEW d \in Directives, Contract!Reissue(d) PROVE Contract!Promise'
      BY <2>3 DEF Contract!Reissue
    <2>4. ASSUME NEW d \in Directives, Contract!Consume(d) PROVE Contract!Promise'
      BY <2>4 DEF Contract!Consume
    <2>5. ASSUME NEW d \in Directives, NEW v \in 1..MaxV, Contract!Approve(d, v)
          PROVE Contract!Promise'
      BY <2>5 DEF Contract!Approve
    <2> QED BY <2>1, <2>2, <2>3, <2>4, <2>5 DEF Contract!Next
  <1> QED BY <1>1, <1>2, KeepsContract, PTL DEF ImplementsContract, Contract!Spec
=============================================================================
