-------------------------- MODULE KanbanQueueProofs --------------------------
(* Proofs about KanbanQueue, for any findings, calls and drains. *)
EXTENDS KanbanQueue, TLAPS

(* What a run of a drain may rely on: every line of its file that was not late
   is still queued or archived, what it has read is archived or will be kept,
   and no line that is owed is unknown to it when it replaces the queue. *)
Known(d) == IF drain[d].pc = "swap" THEN drain[d].read ELSE drain[d].src

Idle(d) ==
    drain[d].pc \in {"off", "open"} =>
        /\ ~drain[d].own
        /\ drain[d].src = {} /\ drain[d].read = {}
        /\ drain[d].tmp = {} /\ drain[d].line = {}

Sorted(d) ==
    /\ drain[d].read \subseteq drain[d].src
    /\ drain[d].tmp \subseteq drain[d].read
    /\ drain[d].line \subseteq drain[d].read
    /\ drain[d].read \subseteq drain[d].tmp \cup archive \cup drain[d].line
    /\ drain[d].pc \in {"read", "swap"} => drain[d].line = {}
    /\ \A e, x \in drain[d].line : e = x

Attached(d) == drain[d].own => drain[d].src = queue
Traced(d) == drain[d].src \ late \subseteq queue \cup archive
Covered(d) == drain[d].pc \notin {"off", "open"} => Owed \subseteq Known(d)
Earned(d) == drain[d].pc = "archive" => \A e \in drain[d].line : CardOf[e] \in carded

Healthy(d) ==
    Idle(d) /\ Sorted(d) /\ Attached(d) /\ Traced(d) /\ Covered(d) /\ Earned(d)

Carded ==
    /\ \A c \in Cards : seen[c] \subseteq open[c]
    /\ \A c \in Cards : open[c] # {} => c \in carded
    /\ \A e \in archive : CardOf[e] \in carded

Told ==
    \A e \in Emits : emit[e] # "done" =>
        /\ e \notin queue /\ e \notin archive
        /\ \A d \in Drains : e \notin drain[d].src

IInv == TypeOK /\ Carded /\ Told /\ \A d \in Drains : Healthy(d)

----------------------------------------------------------------------------
(* A run of a drain changes the record of that drain only. *)
LEMMA DoesIt ==
    ASSUME NEW d \in Drains, NEW u \in DrainStates, TypeOK, Does(d, u)
    PROVE  /\ drain' \in [Drains -> DrainStates]
           /\ drain'[d] = u
           /\ \A q \in Drains : q # d => drain'[q] = drain[q]
  BY DEF Does, TypeOK

(* A run that is over or has not opened its file knows nothing. *)
LEMMA OffIt == Off \in DrainStates
  BY DEF Off, DrainStates

LEMMA InitIInv == Init => IInv
<1> SUFFICES ASSUME Init PROVE IInv
  OBVIOUS
<1>1. TypeOK
  BY OffIt DEF Init, TypeOK
<1>2. Carded /\ Told
  BY DEF Init, Carded, Told, Off
<1>3. ASSUME NEW d \in Drains PROVE Healthy(d)
  BY <1>1 DEF Init, Healthy, Idle, Sorted, Attached, Traced, Covered, Earned, Off, Known
<1> QED BY <1>1, <1>2, <1>3 DEF IInv

(* A drain that a step leaves alone stays healthy when the lines it relies on
   stay, and nothing is owed that was not owed before. *)
LEMMA Bystander ==
    ASSUME NEW q \in Drains, Healthy(q), drain'[q] = drain[q],
           queue' = queue, late' = late,
           archive \subseteq archive', carded \subseteq carded'
    PROVE  Healthy(q)'
  BY DEF Healthy, Idle, Sorted, Attached, Traced, Covered, Earned, Known, Owed

(* The steps of the board and of a call of the emitter that do not append. *)
LEMMA BoardStep ==
    ASSUME IInv, UNCHANGED <<queue, archive, late, drain>>,
           TypeOK', carded \subseteq carded',
           \A c \in Cards : seen'[c] \subseteq open'[c],
           \A c \in Cards : open'[c] # {} => c \in carded',
           \A e \in Emits : emit[e] = "done" => emit'[e] = "done"
    PROVE  IInv'
<1>1. Carded'
  BY DEF IInv, Carded
<1>2. Told'
  BY DEF IInv, Told
<1>3. ASSUME NEW q \in Drains PROVE Healthy(q)'
  BY <1>3, Bystander DEF IInv
<1> QED BY <1>1, <1>2, <1>3 DEF IInv

LEMMA IndexStep ==
    ASSUME KanbanAssumption, IInv, NEW c \in Cards, Index(c) \/ Close(c)
    PROVE  IInv'
  BY BoardStep DEF Index, Close, IInv, TypeOK, Carded

LEMMA NewCardIt ==
    ASSUME IInv, NEW c \in Cards, NEW k \in Kinds, NewCard(c, k)
    PROVE  /\ open' \in [Cards -> SUBSET Kinds] /\ seen' = seen
           /\ carded' \subseteq Cards /\ carded \subseteq carded' /\ c \in carded'
           /\ \A b \in Cards : seen'[b] \subseteq open'[b]
           /\ \A b \in Cards : open'[b] # {} => b \in carded'
  BY DEF NewCard, IInv, TypeOK, Carded

LEMMA EmitStep ==
    ASSUME KanbanAssumption, IInv, NEW e \in Emits,
           \/ EmitStart(e) \/ EmitSearch(e) \/ EmitCreate(e)
           \/ EmitOffline(e) \/ EmitRefused(e) \/ EmitDies(e)
    PROVE  IInv'
<1>0. CardOf[e] \in Cards /\ "keyed" \in Kinds
  BY DEF KanbanAssumption, Kinds
<1>1. CASE EmitCreate(e)
  <2>1. NewCard(CardOf[e], "keyed") /\ UNCHANGED <<queue, archive, late, drain, calm>>
    BY <1>1 DEF EmitCreate
  <2>2. emit' \in [Emits -> {"idle", "search", "create", "queue", "done"}]
    BY <1>1 DEF EmitCreate, Goes, IInv, TypeOK
  <2>3. TypeOK'
    BY <1>0, <2>1, <2>2, NewCardIt DEF IInv, TypeOK
  <2>4. \A x \in Emits : emit[x] = "done" => emit'[x] = "done"
    BY <1>1 DEF EmitCreate, Goes, IInv, TypeOK
  <2> QED BY <1>0, <2>1, <2>3, <2>4, NewCardIt, BoardStep
<1>2. CASE EmitStart(e) \/ EmitSearch(e) \/ EmitOffline(e) \/ EmitRefused(e) \/ EmitDies(e)
  <2>1. UNCHANGED <<queue, archive, late, board, drain, calm>>
    BY <1>2 DEF EmitStart, EmitSearch, EmitOffline, EmitRefused, EmitDies
  <2>2. \E pc \in {"search", "create", "queue", "done"} : Goes(e, pc)
    BY <1>2 DEF EmitStart, EmitSearch, EmitOffline, EmitRefused, EmitDies
  <2>3. emit[e] # "done"
    BY <1>2 DEF EmitStart, EmitSearch, EmitOffline, EmitRefused, EmitDies
  <2>4. TypeOK'
    BY <2>1, <2>2 DEF Goes, IInv, TypeOK, board
  <2>5. \A x \in Emits : emit[x] = "done" => emit'[x] = "done"
    BY <2>2, <2>3 DEF Goes, IInv, TypeOK
  <2> QED BY <2>1, <2>4, <2>5, BoardStep DEF board, IInv, Carded
<1> QED BY <1>1, <1>2

(* A line that is appended is read by every drain whose file it goes into and
   that still reads; otherwise it is late. *)
LEMMA AppendStep ==
    ASSUME KanbanAssumption, IInv, NEW e \in Emits, Append(e)
    PROVE  IInv'
<1>1. /\ emit[e] = "queue" /\ emit' = [emit EXCEPT ![e] = "done"]
      /\ queue' = queue \cup {e} /\ UNCHANGED <<archive, open, seen, carded, calm>>
      /\ late' = late \/ late' = late \cup {e}
  BY DEF Append, Goes, board
<1>2. ASSUME NEW q \in Drains
      PROVE  /\ drain'[q].pc = drain[q].pc /\ drain'[q].own = drain[q].own
             /\ drain'[q].read = drain[q].read /\ drain'[q].tmp = drain[q].tmp
             /\ drain'[q].line = drain[q].line
             /\ drain'[q].src = IF q \in Running /\ drain[q].own
                                THEN drain[q].src \cup {e} ELSE drain[q].src
             /\ drain'[q] \in DrainStates
  <2>1. drain'[q] = IF q \in Running /\ drain[q].own
                    THEN [drain[q] EXCEPT !.src = @ \cup {e}] ELSE drain[q]
    BY <1>2 DEF Append
  <2>2. drain[q] \in DrainStates
    BY <1>2 DEF IInv, TypeOK
  <2>3. drain[q].src \cup {e} \in SUBSET Emits
    BY <2>2 DEF DrainStates
  <2> QED
    <3>1. CASE q \in Running /\ drain[q].own
      <4>1. drain'[q] = [drain[q] EXCEPT !.src = drain[q].src \cup {e}]
        BY <2>1, <3>1
      <4> QED BY <2>2, <2>3, <3>1, <4>1 DEF DrainStates
    <3>2. CASE ~(q \in Running /\ drain[q].own)
      BY <2>1, <2>2, <3>2
    <3> QED BY <3>1, <3>2
<1>3. TypeOK'
  <2>1. drain' \in [Drains -> DrainStates]
    BY <1>2 DEF Append
  <2> QED BY <1>1, <2>1 DEF IInv, TypeOK
<1>4. Carded'
  BY <1>1 DEF IInv, Carded
<1>5. Told'
  <2> SUFFICES ASSUME NEW x \in Emits, emit'[x] # "done"
               PROVE  /\ x \notin queue' /\ x \notin archive'
                      /\ \A d \in Drains : x \notin drain'[d].src
    BY DEF Told
  <2>1. x # e /\ emit[x] # "done"
    BY <1>1 DEF IInv, TypeOK
  <2>2. ASSUME NEW d \in Drains PROVE x \notin drain'[d].src
    BY <1>2, <2>1 DEF IInv, Told
  <2> QED BY <1>1, <2>1, <2>2 DEF IInv, Told
<1>6. e \notin queue /\ e \notin archive
  BY <1>1 DEF IInv, Told
<1>7. ASSUME NEW q \in Drains PROVE Healthy(q)'
  <2>0. Healthy(q) BY DEF IInv
  <2>1. Idle(q)' BY <1>2, <2>0 DEF Healthy, Idle, Running
  <2>2. Sorted(q)' BY <1>1, <1>2, <2>0 DEF Healthy, Sorted
  <2>3. Attached(q)'
    <3>1. drain[q].own => q \in Running
      BY <2>0 DEF Healthy, Idle, Running
    <3> QED BY <1>1, <1>2, <2>0, <3>1 DEF Healthy, Attached
  <2>4. Traced(q)' BY <1>1, <1>2, <2>0 DEF Healthy, Traced
  <2>5. Covered(q)'
    <3>1. CASE q \in Running /\ (~drain[q].own \/ drain[q].pc = "swap")
      <4>1. late' = late \cup {e} BY <3>1 DEF Append, Misses
      <4> QED BY <1>1, <1>2, <2>0, <4>1 DEF Healthy, Covered, Known, Owed
    <3>2. CASE q \in Running /\ drain[q].own /\ drain[q].pc # "swap"
      BY <1>1, <1>2, <2>0, <3>2 DEF Healthy, Covered, Known, Owed
    <3>3. CASE q \notin Running
      BY <1>2, <3>3 DEF Covered, Running
    <3> QED BY <3>1, <3>2, <3>3
  <2>6. Earned(q)' BY <1>1, <1>2, <2>0 DEF Healthy, Earned
  <2> QED BY <2>1, <2>2, <2>3, <2>4, <2>5, <2>6 DEF Healthy
<1> QED BY <1>3, <1>4, <1>5, <1>7 DEF IInv

----------------------------------------------------------------------------
(* A step of a drain that leaves the queue as it is. *)
LEMMA DrainStep ==
    ASSUME IInv, NEW d \in Drains, NEW u \in DrainStates, Does(d, u),
           UNCHANGED <<emit, queue, late, calm>>,
           archive \subseteq archive', archive' \subseteq Emits,
           Carded', carded \subseteq carded', TypeOK',
           u.src \subseteq drain[d].src \cup queue,
           archive' \subseteq archive \cup drain[d].src,
           Healthy(d)'
    PROVE  IInv'
<1>1. \A q \in Drains : q # d => drain'[q] = drain[q]
  BY DoesIt DEF IInv
<1>2. drain'[d] = u
  BY DoesIt DEF IInv
<1>3. ASSUME NEW q \in Drains, q # d PROVE Healthy(q)'
  BY <1>1, <1>3, Bystander DEF IInv
<1>4. Told'
  BY <1>1, <1>2 DEF IInv, Told
<1> QED BY <1>3, <1>4 DEF IInv

LEMMA StartStep ==
    ASSUME IInv, NEW d \in Drains, DrainStart(d) \/ DrainDies(d)
    PROVE  IInv'
<1>1. PICK u \in {Off, [Off EXCEPT !.pc = "open"]} : Does(d, u)
  BY DEF DrainStart, DrainDies
<1>2. u \in DrainStates
  <2>1. CASE u = Off
    BY <2>1, OffIt
  <2>2. CASE u = [Off EXCEPT !.pc = "open"]
    BY <2>2 DEF Off, DrainStates
  <2> QED BY <2>1, <2>2
<1>3. UNCHANGED <<emit, queue, archive, late, open, seen, carded, calm>>
  BY DEF DrainStart, DrainDies, board
<1>4. drain'[d] = u /\ TypeOK'
  BY <1>1, <1>2, <1>3, DoesIt DEF IInv, TypeOK
<1>5. Healthy(d)'
  BY <1>4 DEF Healthy, Idle, Sorted, Attached, Traced, Covered, Earned, Off
<1>6. Carded'
  BY <1>3 DEF IInv, Carded
<1>7. u.src = {}
  BY DEF Off
<1> QED BY <1>1, <1>2, <1>3, <1>4, <1>5, <1>6, <1>7, DrainStep DEF IInv, TypeOK

LEMMA OpenStep ==
    ASSUME IInv, NEW d \in Drains, Open(d)
    PROVE  IInv'
<1> DEFINE u == [drain[d] EXCEPT !.pc = "read", !.own = queue # {}, !.src = queue]
<1>0. Healthy(d) /\ drain[d].pc = "open" /\ drain[d] \in DrainStates
  BY DEF Open, IInv, TypeOK
<1>1. Does(d, u) /\ UNCHANGED <<emit, queue, archive, late, open, seen, carded, calm>>
  BY DEF Open, board
<1>2. /\ u \in DrainStates /\ u.pc = "read" /\ u.own = (queue # {}) /\ u.src = queue
      /\ u.read = drain[d].read /\ u.tmp = drain[d].tmp /\ u.line = drain[d].line
  BY <1>0 DEF DrainStates, IInv, TypeOK
<1> HIDE DEF u
<1>3. drain'[d] = u /\ TypeOK'
  BY <1>1, <1>2, DoesIt DEF IInv, TypeOK
<1>4. u.read = {} /\ u.tmp = {} /\ u.line = {}
  BY <1>0, <1>2 DEF Healthy, Idle
<1>5. Healthy(d)'
  BY <1>1, <1>2, <1>3, <1>4
     DEF Healthy, Idle, Sorted, Attached, Traced, Covered, Earned, Known, Owed
<1>6. Carded'
  BY <1>1 DEF IInv, Carded
<1> QED BY <1>1, <1>2, <1>3, <1>5, <1>6, DrainStep DEF IInv, TypeOK

(* The steps of a run that only move its program counter and its line. *)
LEMMA ReadStep ==
    ASSUME IInv, NEW d \in Drains, NEW e \in Emits, Read(d, e)
    PROVE  IInv'
<1>0. /\ Healthy(d) /\ drain[d].pc = "read" /\ drain[d] \in DrainStates
      /\ e \in drain[d].src /\ e \notin drain[d].read
  BY DEF Read, IInv, TypeOK
<1>1. PICK u : /\ Does(d, u)
               /\ u = IF e \in Garbled
                      THEN [drain[d] EXCEPT !.read = @ \cup {e}, !.tmp = @ \cup {e}]
                      ELSE [drain[d] EXCEPT !.pc = "search", !.read = @ \cup {e},
                                            !.line = {e}]
  BY DEF Read
<1>2. UNCHANGED <<emit, queue, archive, late, open, seen, carded, calm>>
  BY DEF Read, board
<1>3. /\ u \in DrainStates /\ u.own = drain[d].own /\ u.src = drain[d].src
      /\ u.read = drain[d].read \cup {e}
      /\ \/ u.pc = "read" /\ u.tmp = drain[d].tmp \cup {e} /\ u.line = drain[d].line
         \/ u.pc = "search" /\ u.tmp = drain[d].tmp /\ u.line = {e}
  BY <1>0, <1>1 DEF DrainStates
<1>4. drain'[d] = u /\ TypeOK'
  BY <1>1, <1>2, <1>3, DoesIt DEF IInv, TypeOK
<1>5. Healthy(d)'
  BY <1>0, <1>2, <1>3, <1>4
     DEF Healthy, Idle, Sorted, Attached, Traced, Covered, Earned, Known, Owed
<1>6. Carded'
  BY <1>2 DEF IInv, Carded
<1> QED BY <1>1, <1>2, <1>3, <1>4, <1>5, <1>6, DrainStep DEF IInv, TypeOK

LEMMA SearchStep ==
    ASSUME KanbanAssumption, IInv, NEW d \in Drains, NEW e \in Emits, Search(d, e)
    PROVE  IInv'
<1>0. /\ Healthy(d) /\ drain[d].pc = "search" /\ drain[d] \in DrainStates
      /\ drain[d].line = {e} /\ CardOf[e] \in Cards
  BY DEF Search, IInv, TypeOK, KanbanAssumption
<1>1. PICK pc \in {"archive", "create"} :
        /\ Does(d, [drain[d] EXCEPT !.pc = pc])
        /\ pc = "archive" => seen[CardOf[e]] # {}
  BY DEF Search
<1>2. UNCHANGED <<emit, queue, archive, late, open, seen, carded, calm>>
  BY DEF Search, board
<1> DEFINE u == [drain[d] EXCEPT !.pc = pc]
<1>3. /\ u \in DrainStates /\ u.own = drain[d].own /\ u.src = drain[d].src
      /\ u.read = drain[d].read /\ u.tmp = drain[d].tmp /\ u.line = drain[d].line
      /\ u.pc = pc
  BY <1>0, <1>1 DEF DrainStates
<1> HIDE DEF u
<1>4. drain'[d] = u /\ TypeOK'
  BY <1>1, <1>2, <1>3, DoesIt DEF IInv, TypeOK, u
<1>5. pc = "archive" => CardOf[e] \in carded
  BY <1>0, <1>1 DEF IInv, Carded
<1>6. Healthy(d)'
  BY <1>0, <1>1, <1>2, <1>3, <1>4, <1>5
     DEF Healthy, Idle, Sorted, Attached, Traced, Covered, Earned, Known, Owed
<1>7. Carded'
  BY <1>2 DEF IInv, Carded
<1>8. Does(d, u)
  BY <1>1 DEF u
<1> QED BY <1>2, <1>3, <1>4, <1>6, <1>7, <1>8, DrainStep DEF IInv, TypeOK

(* A run that keeps its line for the next queue, or archives it. *)
LEMMA LineStep ==
    ASSUME KanbanAssumption, IInv, NEW d \in Drains,
           Refused(d) \/ Archive(d) \/ \E e \in Emits : Create(d, e)
    PROVE  IInv'
<1>0. /\ Healthy(d) /\ drain[d] \in DrainStates
      /\ drain[d].pc \in {"create", "archive"}
  BY DEF Refused, Archive, Create, IInv, TypeOK
<1>1. UNCHANGED <<emit, queue, late, calm>>
  BY DEF Refused, Archive, Create, board
<1> DEFINE kept == [drain[d] EXCEPT !.pc = "read", !.tmp = @ \cup drain[d].line, !.line = {}]
           filed == [drain[d] EXCEPT !.pc = "read", !.line = {}]
           made == [drain[d] EXCEPT !.pc = "archive"]
<1>2. /\ kept \in DrainStates /\ filed \in DrainStates /\ made \in DrainStates
      /\ kept.pc = "read" /\ kept.own = drain[d].own /\ kept.src = drain[d].src
      /\ kept.read = drain[d].read /\ kept.tmp = drain[d].tmp \cup drain[d].line
      /\ kept.line = {}
      /\ filed.pc = "read" /\ filed.own = drain[d].own /\ filed.src = drain[d].src
      /\ filed.read = drain[d].read /\ filed.tmp = drain[d].tmp /\ filed.line = {}
      /\ made.pc = "archive" /\ made.own = drain[d].own /\ made.src = drain[d].src
      /\ made.read = drain[d].read /\ made.tmp = drain[d].tmp
      /\ made.line = drain[d].line
  BY <1>0 DEF DrainStates
<1> HIDE DEF kept, filed, made
<1>3. CASE Archive(d)
  <2>1. /\ drain[d].pc = "archive" /\ Does(d, filed)
        /\ archive' = archive \cup drain[d].line /\ UNCHANGED <<open, seen, carded>>
    BY <1>3 DEF Archive, board, filed
  <2>2. drain[d].line \subseteq drain[d].src /\ drain[d].line \subseteq Emits
    BY <1>0 DEF Healthy, Sorted, DrainStates
  <2>3. drain'[d] = filed /\ TypeOK'
    BY <1>1, <1>2, <2>1, <2>2, DoesIt DEF IInv, TypeOK
  <2>4. Carded'
    BY <1>0, <2>1 DEF IInv, Carded, Healthy, Earned
  <2>5. Healthy(d)'
    BY <1>0, <1>1, <1>2, <2>1, <2>3
       DEF Healthy, Idle, Sorted, Attached, Traced, Covered, Earned, Known, Owed
  <2> QED BY <1>1, <1>2, <2>1, <2>2, <2>3, <2>4, <2>5, DrainStep DEF IInv, TypeOK
<1>4. CASE Refused(d)
  <2>1. /\ drain[d].pc = "create" /\ Does(d, kept)
        /\ UNCHANGED <<archive, open, seen, carded>>
    BY <1>4 DEF Refused, Kept, board, kept
  <2>3. drain'[d] = kept /\ TypeOK'
    BY <1>1, <1>2, <2>1, DoesIt DEF IInv, TypeOK
  <2>4. Carded'
    BY <2>1 DEF IInv, Carded
  <2>5. Healthy(d)'
    BY <1>0, <1>1, <1>2, <2>1, <2>3
       DEF Healthy, Idle, Sorted, Attached, Traced, Covered, Earned, Known, Owed
  <2> QED BY <1>1, <1>2, <2>1, <2>3, <2>4, <2>5, DrainStep DEF IInv, TypeOK
<1>5. ASSUME NEW e \in Emits, Create(d, e) PROVE IInv'
  <2>1. /\ drain[d].pc = "create" /\ drain[d].line = {e} /\ archive' = archive
        /\ NewCard(CardOf[e], "bare")
        /\ Does(d, kept) \/ Does(d, made)
    BY <1>5 DEF Create, Kept, kept, made
  <2>2. CardOf[e] \in Cards /\ "bare" \in Kinds
    BY DEF KanbanAssumption, Kinds
  <2>3. /\ open' \in [Cards -> SUBSET Kinds] /\ seen' = seen /\ carded' \subseteq Cards
        /\ carded \subseteq carded' /\ CardOf[e] \in carded'
        /\ \A b \in Cards : seen'[b] \subseteq open'[b]
        /\ \A b \in Cards : open'[b] # {} => b \in carded'
    BY <2>1, <2>2, NewCardIt
  <2>4. Carded'
    BY <2>1, <2>3 DEF IInv, Carded
  <2>5. PICK u \in {kept, made} : Does(d, u)
    BY <2>1
  <2>6. u \in DrainStates /\ u.src = drain[d].src
    BY <1>2
  <2>7. drain'[d] = u /\ TypeOK'
    BY <1>1, <2>1, <2>3, <2>5, <2>6, DoesIt DEF IInv, TypeOK
  <2>8. Healthy(d)'
    BY <1>0, <1>1, <1>2, <2>1, <2>3, <2>7
       DEF Healthy, Idle, Sorted, Attached, Traced, Covered, Earned, Known, Owed
  <2> QED BY <1>1, <2>1, <2>3, <2>4, <2>5, <2>6, <2>7, <2>8, DrainStep DEF IInv, TypeOK
<1> QED BY <1>3, <1>4, <1>5

LEMMA EndStep ==
    ASSUME IInv, NEW d \in Drains, EndOfFile(d)
    PROVE  IInv'
<1>0. /\ Healthy(d) /\ drain[d].pc = "read" /\ drain[d] \in DrainStates
      /\ drain[d].src = drain[d].read
  BY DEF EndOfFile, IInv, TypeOK
<1> DEFINE u == [drain[d] EXCEPT !.pc = "swap"]
<1>1. Does(d, u) /\ UNCHANGED <<emit, queue, archive, late, open, seen, carded, calm>>
  BY DEF EndOfFile, board
<1>2. /\ u \in DrainStates /\ u.own = drain[d].own /\ u.src = drain[d].src
      /\ u.read = drain[d].read /\ u.tmp = drain[d].tmp /\ u.line = drain[d].line
      /\ u.pc = "swap"
  BY <1>0 DEF DrainStates
<1> HIDE DEF u
<1>3. drain'[d] = u /\ TypeOK'
  BY <1>1, <1>2, DoesIt DEF IInv, TypeOK
<1>4. Healthy(d)'
  BY <1>0, <1>1, <1>2, <1>3
     DEF Healthy, Idle, Sorted, Attached, Traced, Covered, Earned, Known, Owed
<1>5. Carded'
  BY <1>1 DEF IInv, Carded
<1> QED BY <1>1, <1>2, <1>3, <1>4, <1>5, DrainStep DEF IInv, TypeOK

(* A drain that replaces the queue keeps every line that is owed, and brings
   back none that is neither late nor archived. *)
LEMMA SwapKeeps ==
    ASSUME IInv, NEW d \in Drains, Swap(d)
    PROVE  Owed' = Owed
<1>1. /\ drain[d].pc = "swap" /\ queue' = drain[d].tmp
      /\ late' = late /\ archive' = archive
  BY DEF Swap
<1>2. Healthy(d)
  BY DEF IInv
<1>3. Owed \subseteq drain[d].tmp
  BY <1>1, <1>2 DEF Healthy, Covered, Known, Sorted, Owed
<1>4. drain[d].tmp \ late \subseteq queue \cup archive
  BY <1>1, <1>2 DEF Healthy, Sorted, Traced
<1> QED BY <1>1, <1>3, <1>4 DEF Owed

LEMMA SwapStep ==
    ASSUME IInv, NEW d \in Drains, Swap(d)
    PROVE  IInv'
<1>1. /\ drain[d].pc = "swap" /\ queue' = drain[d].tmp
      /\ UNCHANGED <<emit, archive, late, open, seen, carded, calm>>
  BY DEF Swap, board
<1>2. Healthy(d) /\ drain[d] \in DrainStates
  BY DEF IInv, TypeOK
<1>3. drain'[d] = Off
  BY DEF Swap
<1>4. ASSUME NEW q \in Drains, q # d
      PROVE  /\ drain'[q].pc = drain[q].pc /\ ~drain'[q].own
             /\ drain'[q].src = drain[q].src /\ drain'[q].read = drain[q].read
             /\ drain'[q].tmp = drain[q].tmp /\ drain'[q].line = drain[q].line
             /\ drain'[q] \in DrainStates
  BY <1>4 DEF Swap, IInv, TypeOK, DrainStates
<1>5. TypeOK'
  <2>1. drain' \in [Drains -> DrainStates]
    BY <1>3, <1>4, OffIt DEF Swap
  <2> QED BY <1>1, <1>2, <2>1 DEF IInv, TypeOK, DrainStates
<1>6. Carded'
  BY <1>1 DEF IInv, Carded
<1>7. Told'
  BY <1>1, <1>2, <1>3, <1>4 DEF IInv, Told, Off, Healthy, Sorted
<1>8. Healthy(d)'
  BY <1>3 DEF Healthy, Idle, Sorted, Attached, Traced, Covered, Earned, Off
<1>9. ASSUME NEW q \in Drains, q # d PROVE Healthy(q)'
  <2>0. Healthy(q) BY DEF IInv
  <2>1. Idle(q)' /\ Sorted(q)' /\ Attached(q)' /\ Earned(q)'
    BY <1>1, <1>4, <1>9, <2>0 DEF Healthy, Idle, Sorted, Attached, Earned
  <2>2. Covered(q)'
    BY <1>4, <1>9, <2>0, SwapKeeps DEF Healthy, Covered, Known
  <2>3. Traced(q)'
    <3>1. queue \ late \subseteq archive \cup Owed
      BY DEF Owed
    <3>2. Owed \subseteq queue'
      BY SwapKeeps DEF Owed
    <3> QED BY <1>1, <1>4, <1>9, <2>0, <3>1, <3>2 DEF Healthy, Traced
  <2> QED BY <2>1, <2>2, <2>3 DEF Healthy
<1> QED BY <1>5, <1>6, <1>7, <1>8, <1>9 DEF IInv

LEMMA NextIInv ==
    ASSUME KanbanAssumption, IInv, [Next]_vars
    PROVE  IInv'
<1>1. CASE Calm
  <2>1. TypeOK' /\ UNCHANGED <<emit, queue, archive, late, open, seen, carded, drain>>
    BY <1>1 DEF Calm, IInv, TypeOK, board
  <2> QED BY <2>1, BoardStep DEF IInv, Carded
<1>2. CASE UNCHANGED vars
  <2>1. TypeOK' /\ UNCHANGED <<emit, queue, archive, late, open, seen, carded, drain>>
    BY <1>2 DEF vars, IInv, TypeOK, board
  <2> QED BY <2>1, BoardStep DEF IInv, Carded
<1>3. ASSUME NEW c \in Cards, Index(c) \/ Close(c) PROVE IInv'
  BY <1>3, IndexStep
<1>4. ASSUME NEW e \in Emits,
             Emitting(e) \/ EmitOffline(e) \/ EmitRefused(e) \/ EmitDies(e)
      PROVE  IInv'
  BY <1>4, EmitStep, AppendStep DEF Emitting
<1>5. ASSUME NEW d \in Drains,
             DrainStart(d) \/ Draining(d) \/ Refused(d) \/ DrainDies(d)
      PROVE  IInv'
  <2>1. CASE DrainStart(d) \/ DrainDies(d)
    BY <2>1, StartStep
  <2>2. CASE Refused(d)
    BY <2>2, LineStep
  <2>3. CASE Draining(d)
    <3>1. CASE Open(d) BY <3>1, OpenStep
    <3>2. CASE Archive(d) BY <3>2, LineStep
    <3>3. CASE EndOfFile(d) BY <3>3, EndStep
    <3>4. CASE Swap(d) BY <3>4, SwapStep
    <3>5. ASSUME NEW e \in Emits, Read(d, e) \/ Search(d, e) \/ Create(d, e)
          PROVE  IInv'
      BY <3>5, ReadStep, SearchStep, LineStep
    <3> QED BY <2>3, <3>1, <3>2, <3>3, <3>4, <3>5 DEF Draining
  <2> QED BY <1>5, <2>1, <2>2, <2>3
<1> QED BY <1>1, <1>2, <1>3, <1>4, <1>5 DEF Next

(* What a run may rely on holds in every state of every behaviour. *)
THEOREM Invariant == Spec => []IInv
<1>1. IInv /\ [Next]_vars => IInv'
  BY NextIInv, KanbanAssumption
<1> QED BY InitIInv, <1>1, PTL DEF Spec

(* Every variable keeps its type, for any findings, calls and drains. *)
THEOREM Typing == Spec => []TypeOK
<1>1. IInv => TypeOK
  BY DEF IInv
<1> QED BY <1>1, Invariant, PTL

(* No step leaves the queue's promise: what is owed to the board stays owed until
   there has been a card of it, and no card comes of nothing. *)
LEMMA ContractInit == Init => Contract!Init
  BY DEF Init, Contract!Init, Asked, Owed

(* A step that keeps the three abstract variables is a stutter. *)
LEMMA Stutters ==
    ASSUME Asked' = Asked, Owed' = Owed, carded' = carded
    PROVE  [Contract!Next]_Contract!vars
  BY DEF Contract!vars

LEMMA EmitRefines ==
    ASSUME KanbanAssumption, IInv, NEW e \in Emits,
           Emitting(e) \/ EmitOffline(e) \/ EmitRefused(e) \/ EmitDies(e)
    PROVE  [Contract!Next]_Contract!vars
<1>1. CASE EmitStart(e) \/ EmitOffline(e)
  <2>1. /\ UNCHANGED <<queue, archive, late, carded>>
        /\ \E pc \in {"done", "search", "queue"} : emit' = [emit EXCEPT ![e] = pc]
    BY <1>1 DEF EmitStart, EmitOffline, Goes, board
  <2>2. Asked' = Asked \cup {e} /\ Owed' = Owed
    BY <2>1 DEF Asked, Owed, IInv, TypeOK
  <2>3. Contract!Ask(e)
    BY <2>1, <2>2 DEF Contract!Ask
  <2> QED BY <2>3 DEF Contract!Next
<1>2. CASE EmitSearch(e) \/ EmitRefused(e) \/ EmitDies(e)
  <2>1. /\ UNCHANGED <<queue, archive, late, carded>> /\ emit[e] # "idle"
        /\ \E pc \in {"done", "create", "queue"} : emit' = [emit EXCEPT ![e] = pc]
    BY <1>2 DEF EmitSearch, EmitRefused, EmitDies, Goes, board
  <2>2. Asked' = Asked /\ Owed' = Owed
    BY <2>1 DEF Asked, Owed, IInv, TypeOK
  <2> QED BY <2>1, <2>2, Stutters
<1>3. CASE EmitCreate(e)
  <2>1. /\ UNCHANGED <<queue, archive, late>> /\ emit[e] = "create"
        /\ \E pc \in {"done", "queue"} : emit' = [emit EXCEPT ![e] = pc]
        /\ carded' = carded \cup {CardOf[e]}
    BY <1>3 DEF EmitCreate, NewCard, Goes
  <2>2. Asked' = Asked /\ Owed' = Owed /\ e \in Asked
    BY <2>1 DEF Asked, Owed, IInv, TypeOK
  <2>3. Contract!Card(e)
    BY <2>1, <2>2 DEF Contract!Card
  <2> QED BY <2>3 DEF Contract!Next
<1>4. CASE Append(e)
  <2>1. /\ UNCHANGED <<archive, carded>> /\ emit[e] = "queue"
        /\ queue' = queue \cup {e} /\ emit' = [emit EXCEPT ![e] = "done"]
        /\ late' = late \/ late' = late \cup {e}
    BY <1>4 DEF Append, Goes, board
  <2>2. Asked' = Asked /\ e \in Asked
    BY <2>1 DEF Asked, IInv, TypeOK
  <2>3. e \notin queue
    BY <2>1 DEF IInv, Told
  <2>4. Owed' = Owed \/ Owed' = Owed \cup {e}
    BY <2>1, <2>3 DEF Owed
  <2>5. Owed' = Owed \cup {e} => Contract!Owe(e)
    BY <2>1, <2>2 DEF Contract!Owe
  <2> QED BY <2>1, <2>2, <2>4, <2>5, Stutters DEF Contract!Next
<1> QED BY <1>1, <1>2, <1>3, <1>4 DEF Emitting

LEMMA DrainRefines ==
    ASSUME KanbanAssumption, IInv, NEW d \in Drains,
           DrainStart(d) \/ Draining(d) \/ Refused(d) \/ DrainDies(d)
    PROVE  [Contract!Next]_Contract!vars
<1>0. emit' = emit /\ Asked' = Asked
  BY DEF DrainStart, Draining, Refused, DrainDies, Open, Archive, EndOfFile, Swap,
         Read, Search, Create, Asked
<1>1. CASE Archive(d)
  <2>1. /\ drain[d].pc = "archive" /\ archive' = archive \cup drain[d].line
        /\ UNCHANGED <<queue, late, carded>>
    BY <1>1 DEF Archive, board
  <2>2. Healthy(d) /\ drain[d].line \subseteq Emits
    BY DEF IInv, TypeOK, DrainStates
  <2>3. CASE drain[d].line \cap Owed = {}
    BY <1>0, <2>1, <2>3, Stutters DEF Owed
  <2>4. ASSUME NEW e \in drain[d].line, drain[d].line = {e}
        PROVE  Contract!Settle(e)
    BY <1>0, <2>1, <2>2, <2>4 DEF Contract!Settle, Owed, Healthy, Earned
  <2>5. CASE drain[d].line \cap Owed # {}
    <3>1. PICK e \in drain[d].line : TRUE
      BY <2>5
    <3>2. drain[d].line = {e}
      BY <2>2, <3>1 DEF Healthy, Sorted
    <3> QED BY <2>2, <2>4, <3>1, <3>2 DEF Contract!Next
  <2> QED BY <2>3, <2>5
<1>2. CASE Swap(d)
  <2>1. carded' = carded
    BY <1>2 DEF Swap, board
  <2> QED BY <1>0, <1>2, <2>1, SwapKeeps, Stutters
<1>3. ASSUME NEW e \in Emits, Create(d, e) PROVE [Contract!Next]_Contract!vars
  <2>1. /\ drain[d].pc = "create" /\ drain[d].line = {e}
        /\ carded' = carded \cup {CardOf[e]} /\ UNCHANGED <<queue, archive, late>>
    BY <1>3 DEF Create, NewCard
  <2>2. Healthy(d) /\ e \in drain[d].src
    BY <2>1 DEF IInv, Healthy, Sorted
  <2>3. e \in Asked
    BY <2>2 DEF IInv, Told, Asked
  <2>4. Contract!Card(e)
    BY <1>0, <2>1, <2>3 DEF Contract!Card, Owed
  <2> QED BY <2>4 DEF Contract!Next
<1>4. CASE \/ DrainStart(d) \/ Refused(d) \/ DrainDies(d) \/ Open(d) \/ EndOfFile(d)
           \/ \E e \in Emits : Read(d, e) \/ Search(d, e)
  <2>1. UNCHANGED <<queue, archive, late, carded>>
    BY <1>4 DEF DrainStart, Refused, DrainDies, Open, EndOfFile, Read, Search, board
  <2> QED BY <1>0, <2>1, Stutters DEF Owed
<1> QED BY <1>1, <1>2, <1>3, <1>4 DEF Draining

(* The emitter and any number of overlapping drains implement the contract: a
   queued line leaves the queue only once its finding has had a card, unless it
   was appended while a drain was about to replace the file. *)
THEOREM KeepsContract == Spec => ImplementsContract
<1>1. ASSUME KanbanAssumption, IInv, [Next]_vars
      PROVE  [Contract!Next]_Contract!vars
  <2>1. CASE Calm \/ UNCHANGED vars \/ \E c \in Cards : Index(c) \/ Close(c)
    <3>1. UNCHANGED <<emit, queue, archive, late, carded>>
      BY <2>1 DEF Calm, vars, Index, Close, board
    <3> QED BY <3>1, Stutters DEF Asked, Owed
  <2>2. ASSUME NEW e \in Emits,
               Emitting(e) \/ EmitOffline(e) \/ EmitRefused(e) \/ EmitDies(e)
        PROVE  [Contract!Next]_Contract!vars
    BY <1>1, <2>2, EmitRefines
  <2>3. ASSUME NEW d \in Drains,
               DrainStart(d) \/ Draining(d) \/ Refused(d) \/ DrainDies(d)
        PROVE  [Contract!Next]_Contract!vars
    BY <1>1, <2>3, DrainRefines
  <2> QED BY <1>1, <2>1, <2>2, <2>3 DEF Next
<1>2. IInv /\ [Next]_vars => [Contract!Next]_Contract!vars
  BY <1>1, KanbanAssumption
<1> QED BY ContractInit, <1>2, Invariant, PTL DEF Spec, ImplementsContract, Contract!Spec

(* Nothing is on the board or in the queue that the emitter was not asked for,
   however drains replay, overlap and die. *)
THEOREM NothingUnasked == Spec => []Contract!Promise
<1>1. Contract!Init => Contract!Promise
  BY DEF Contract!Init, Contract!Promise
<1>2. Contract!Promise /\ [Contract!Next]_(Contract!vars) => Contract!Promise'
  BY DEF Contract!Promise, Contract!Next, Contract!Ask, Contract!Card, Contract!Owe,
     Contract!Settle, Contract!vars
<1> QED BY <1>1, <1>2, KeepsContract, PTL DEF ImplementsContract, Contract!Spec
=============================================================================
