----------------------------- MODULE KanbanQueue -----------------------------
(* The dead-letter queue of the board. emit_kanban_item.sh creates a card on  *)
(* GitHub or else appends a line to a local file; drain_kanban_queue.sh, from *)
(* a timer and by hand, replays the lines and replaces the file by those that *)
(* failed. GitHub's search shows a new card only after a while.               *)
(*                                                                         *)
(* A drain keeps the file it opened: after somebody else has replaced the    *)
(* queue it goes on reading lines of a file that has no name any more.       *)
EXTENDS Naturals, FiniteSets

CONSTANTS Cards,       \* findings, by title
          Emits,       \* calls of the emitter; a call is also its line
          CardOf,      \* [Emits -> Cards]
          Dismissed,   \* findings of the dismiss-ledger
          Garbled,     \* calls whose line comes out unreadable
          Drains,
          Timers,      \* the drains that a systemd timer starts
          SearchFails  \* gh issue list may fail

ASSUME KanbanAssumption ==
    /\ CardOf \in [Emits -> Cards]
    /\ Dismissed \subseteq Cards
    /\ Garbled \subseteq Emits
    /\ Timers \subseteq Drains
    /\ SearchFails \in BOOLEAN

VARIABLES
    emit,      \* [Emits -> where the call is]
    queue,     \* the lines of the file at the queue's path; {} is no file
    archive,   \* the lines of <queue>.drained
    late,      \* lines appended when a drain would not read them any more
    open,      \* [Cards -> the kinds of its open cards]
    seen,      \* [Cards -> those that the search finds]
    carded,    \* the findings that have had a card
    drain,     \* [Drains -> what a run knows]
    calm       \* nothing fails from here on

board == <<open, seen, carded>>
vars == <<emit, queue, archive, late, board, drain, calm>>

(* A card of the emitter carries the emit-key of the finding, a replayed one
   only its task (drain_kanban_queue.sh:260). *)
Kinds == {"keyed", "bare"}

Off == [pc |-> "off", own |-> FALSE, src |-> {}, read |-> {}, tmp |-> {}, line |-> {}]

DrainStates ==
    [pc : {"off", "open", "read", "search", "create", "archive", "swap"},
     own : BOOLEAN,            \* its file still is the one at the path
     src : SUBSET Emits,       \* the lines of its file
     read : SUBSET Emits, tmp : SUBSET Emits, line : SUBSET Emits]

TypeOK ==
    /\ emit \in [Emits -> {"idle", "search", "create", "queue", "done"}]
    /\ queue \subseteq Emits /\ archive \subseteq Emits /\ late \subseteq Emits
    /\ open \in [Cards -> SUBSET Kinds]
    /\ seen \in [Cards -> SUBSET Kinds]
    /\ carded \subseteq Cards
    /\ drain \in [Drains -> DrainStates]
    /\ calm \in BOOLEAN

Init ==
    /\ emit = [e \in Emits |-> "idle"]
    /\ queue = {} /\ archive = {} /\ late = {}
    /\ open = [c \in Cards |-> {}]
    /\ seen = [c \in Cards |-> {}]
    /\ carded = {}
    /\ drain = [d \in Drains |-> Off]
    /\ calm = FALSE

----------------------------------------------------------------------------
(* The board *)

(* gh issue create makes the card. *)
NewCard(c, kind) ==
    /\ open' = [open EXCEPT ![c] = @ \cup {kind}]
    /\ carded' = carded \cup {c}
    /\ UNCHANGED seen

(* The search catches up with a card. *)
Index(c) ==
    /\ seen[c] # open[c]
    /\ seen' = [seen EXCEPT ![c] = open[c]]
    /\ UNCHANGED <<emit, queue, archive, late, open, carded, drain, calm>>

(* A person is done with the finding. *)
Close(c) ==
    /\ open[c] # {}
    /\ open' = [open EXCEPT ![c] = {}]
    /\ seen' = [seen EXCEPT ![c] = {}]
    /\ UNCHANGED <<emit, queue, archive, late, carded, drain, calm>>

----------------------------------------------------------------------------
(* The emitter *)

Goes(e, pc) == emit' = [emit EXCEPT ![e] = pc]

(* A token that reaches the board: the ledger is asked first, then the board. *)
EmitStart(e) ==
    /\ emit[e] = "idle"
    /\ Goes(e, IF CardOf[e] \in Dismissed THEN "done" ELSE "search")
    /\ UNCHANGED <<queue, archive, late, board, drain, calm>>

EmitOffline(e) ==
    /\ ~calm
    /\ emit[e] = "idle"
    /\ Goes(e, "queue")
    /\ UNCHANGED <<queue, archive, late, board, drain, calm>>

(* The emitter looks for its key, which only its own cards carry. *)
EmitSearch(e) ==
    /\ emit[e] = "search"
    /\ \/ "keyed" \in seen[CardOf[e]] /\ Goes(e, "done")
       \/ "keyed" \notin seen[CardOf[e]] /\ Goes(e, "create")
       \/ SearchFails /\ ~calm /\ Goes(e, "create")
    /\ UNCHANGED <<queue, archive, late, board, drain, calm>>

(* The answer of a create that worked may be lost too. *)
EmitCreate(e) ==
    /\ emit[e] = "create"
    /\ NewCard(CardOf[e], "keyed")
    /\ \/ Goes(e, "done")
       \/ ~calm /\ Goes(e, "queue")
    /\ UNCHANGED <<queue, archive, late, drain, calm>>

EmitRefused(e) ==
    /\ ~calm
    /\ emit[e] = "create"
    /\ Goes(e, "queue")
    /\ UNCHANGED <<queue, archive, late, board, drain, calm>>

(* The drains that have their file open. *)
Running == {d \in Drains : drain[d].pc \notin {"off", "open"}}

(* A drain that will replace the queue without having read a line of now. *)
Misses(d) == ~drain[d].own \/ drain[d].pc = "swap"

(* echo >> $QUEUE: whoever still reads that file reads the line. *)
Append(e) ==
    /\ emit[e] = "queue"
    /\ Goes(e, "done")
    /\ queue' = queue \cup {e}
    /\ drain' = [d \in Drains |->
                   IF d \in Running /\ drain[d].own
                   THEN [drain[d] EXCEPT !.src = @ \cup {e}] ELSE drain[d]]
    /\ late' = IF \E d \in Running : Misses(d) THEN late \cup {e} ELSE late
    /\ UNCHANGED <<archive, board, calm>>

EmitDies(e) ==
    /\ ~calm
    /\ emit[e] \in {"search", "create", "queue"}
    /\ Goes(e, "done")
    /\ UNCHANGED <<queue, archive, late, board, drain, calm>>

Emitting(e) == EmitStart(e) \/ EmitSearch(e) \/ EmitCreate(e) \/ Append(e)

----------------------------------------------------------------------------
(* The drain *)

Does(d, u) == drain' = [drain EXCEPT ![d] = u]

DrainStart_OffByOne(d) ==
    /\ drain[d].pc = "off"
    /\ Cardinality(queue) > 1
    /\ Does(d, [Off EXCEPT !.pc = "open"])
    /\ UNCHANGED <<emit, queue, archive, late, board, calm>>

DrainStart(d) ==
    /\ drain[d].pc = "off"
    /\ queue # {}
    /\ Does(d, [Off EXCEPT !.pc = "open"])
    /\ UNCHANGED <<emit, queue, archive, late, board, calm>>

(* done < "$QUEUE", after the token: the file may have gone in the meantime. *)
Open(d) ==
    /\ drain[d].pc = "open"
    /\ Does(d, [drain[d] EXCEPT !.pc = "read", !.own = queue # {}, !.src = queue])
    /\ UNCHANGED <<emit, queue, archive, late, board, calm>>

Read(d, e) ==
    /\ drain[d].pc = "read"
    /\ e \in drain[d].src \ drain[d].read
    /\ Does(d, IF e \in Garbled
               THEN [drain[d] EXCEPT !.read = @ \cup {e}, !.tmp = @ \cup {e}]
               ELSE [drain[d] EXCEPT !.pc = "search", !.read = @ \cup {e},
                                     !.line = {e}])
    /\ UNCHANGED <<emit, queue, archive, late, board, calm>>

(* The drain looks for the title among the open cards. *)
Search(d, e) ==
    /\ drain[d].pc = "search"
    /\ drain[d].line = {e}
    /\ \/ seen[CardOf[e]] # {} /\ Does(d, [drain[d] EXCEPT !.pc = "archive"])
       \/ seen[CardOf[e]] = {} /\ Does(d, [drain[d] EXCEPT !.pc = "create"])
       \/ SearchFails /\ ~calm /\ Does(d, [drain[d] EXCEPT !.pc = "create"])
    /\ UNCHANGED <<emit, queue, archive, late, board, calm>>

(* A line whose create failed goes into the next queue. *)
Kept_Dropped(d) == [drain[d] EXCEPT !.pc = "read", !.line = {}]
Kept(d) == [drain[d] EXCEPT !.pc = "read", !.tmp = @ \cup drain[d].line, !.line = {}]

Create(d, e) ==
    /\ drain[d].pc = "create"
    /\ drain[d].line = {e}
    /\ NewCard(CardOf[e], "bare")
    /\ \/ Does(d, [drain[d] EXCEPT !.pc = "archive"])
       \/ ~calm /\ Does(d, Kept(d))
    /\ UNCHANGED <<emit, queue, archive, late, calm>>

Refused(d) ==
    /\ ~calm
    /\ drain[d].pc = "create"
    /\ Does(d, Kept(d))
    /\ UNCHANGED <<emit, queue, archive, late, board, calm>>

Archive(d) ==
    /\ drain[d].pc = "archive"
    /\ archive' = archive \cup drain[d].line
    /\ Does(d, [drain[d] EXCEPT !.pc = "read", !.line = {}])
    /\ UNCHANGED <<emit, queue, late, board, calm>>

EndOfFile(d) ==
    /\ drain[d].pc = "read"
    /\ drain[d].src = drain[d].read
    /\ Does(d, [drain[d] EXCEPT !.pc = "swap"])
    /\ UNCHANGED <<emit, queue, archive, late, board, calm>>

(* mv, or rm when nothing failed: the path names another file from here on. *)
Swap(d) ==
    /\ drain[d].pc = "swap"
    /\ queue' = drain[d].tmp
    /\ drain' = [x \in Drains |-> IF x = d THEN Off ELSE [drain[x] EXCEPT !.own = FALSE]]
    /\ UNCHANGED <<emit, archive, late, board, calm>>

(* TimeoutStartSec, or a person: the temporary file goes, the queue stays. *)
DrainDies(d) ==
    /\ ~calm
    /\ drain[d].pc # "off"
    /\ Does(d, Off)
    /\ UNCHANGED <<emit, queue, archive, late, board, calm>>

Draining(d) ==
    \/ Open(d) \/ Archive(d) \/ EndOfFile(d) \/ Swap(d)
    \/ \E e \in Emits : Read(d, e) \/ Search(d, e) \/ Create(d, e)

Calm == /\ ~calm
        /\ calm' = TRUE
        /\ UNCHANGED <<emit, queue, archive, late, board, drain>>

Next ==
    \/ \E c \in Cards : Index(c) \/ Close(c)
    \/ \E e \in Emits : Emitting(e) \/ EmitOffline(e) \/ EmitRefused(e) \/ EmitDies(e)
    \/ \E d \in Drains : DrainStart(d) \/ Draining(d) \/ Refused(d) \/ DrainDies(d)
    \/ Calm

(* A run goes on until it ends, and the timer starts it every 15 minutes. *)
Fairness ==
    /\ WF_vars(Calm)
    /\ \A e \in Emits : WF_vars(Emitting(e))
    /\ \A d \in Drains : WF_vars(Draining(d))
    /\ \A d \in Timers : WF_vars(DrainStart(d))

Spec == Init /\ [][Next]_vars
FairSpec == Spec /\ Fairness

----------------------------------------------------------------------------
(* Properties *)

(* The lines that wait, but for those appended while a drain was about to
   replace the file. *)
Owed == queue \ (late \cup archive)
Asked == {e \in Emits : emit[e] # "idle"}

Contract == INSTANCE KanbanContract WITH asked <- Asked, owed <- Owed

(* A queued line leaves the queue only once there has been a card of its finding
   (drain_kanban_queue.sh:17), whatever dies, however drains overlap. *)
ImplementsContract == Contract!Spec

(* Every readable line reaches the board once the failures stop
   (emit_kanban_item.sh:879, "the finding is not LOST"). *)
DrainsDry == \A e \in Emits \ Garbled : e \in Owed ~> e \in archive

(* "re-emitting the EXACT same finding still dedups" (emit_kanban_item.sh:127):
   an emitter whose search works makes no card beside one the search finds. *)
ReEmitDedups ==
    [][\A e \in Emits : emit[e] = "search" /\ emit'[e] = "create"
                          => seen[CardOf[e]] = {}]_vars
=============================================================================
