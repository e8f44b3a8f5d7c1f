------------------------------ MODULE Directives ------------------------------
(* A directive on its way: the manager writes it in his own repository and the  *)
(* operator approves it; the relay (scripts/dispatch_directives.py, remote      *)
(* delivery) copies it through private clones into the target's inbox and marks *)
(* it as dispatched at the manager's remote; the agents that share the target's *)
(* repository scan the inbox, act, and acknowledge (scripts/management_inbox.py).*)
(*                                                                             *)
(* Git is the only synchronisation: a push is refused when the remote has moved *)
(* since the clone. `current` holds who has a clone of the target's main that   *)
(* still is its head, `mcurrent` the same for the manager's.                    *)
EXTENDS Naturals, FiniteSets

CONSTANTS Directives,
          Rank,         \* [Directives -> Nat], the order of the file names
          Relays,       \* runs of the relay that may overlap (no lock is taken)
          Readers,      \* the agents of the target's repository
          Audience,     \* [Directives -> Readers]
          Amendable,    \* those whose text the manager may change
          MaxV,         \* texts of one directive
          MaxTries,     \* attempts of transact
          NoDirective

ASSUME DirectiveAssumption ==
    /\ Audience \in [Directives -> Readers]
    /\ Rank \in [Directives -> Nat]
    /\ Amendable \subseteq Directives
    /\ MaxV \in Nat \ {0}
    /\ MaxTries \in Nat \ {0}
    /\ NoDirective \notin Directives
    /\ Relays \cap Readers = {}

VARIABLES
    live,        \* the outbound queue in the manager's checkout
    origin,      \* the same on the manager's remote main
    unpub,       \* edits of the checkout that are not pushed
    approved,    \* the texts the operator has approved so far
    inbox,       \* queues/management on the target's main: text, 0 when absent
    old,         \* notes stamped before .last-mgmt-scan
    unlisted,    \* notes no scan of their reader has listed yet
    ledger,      \* .consumed.json
    current, mcurrent,
    relay, reader,
    applied,     \* how often a note was acted on, since an agent last ended
                 \* between acting on it and acknowledging it
    calm         \* nothing fails and nobody else pushes from here on

manager == <<live, origin, unpub, approved, mcurrent>>
target == <<inbox, old, unlisted, ledger, current>>
vars == <<manager, target, relay, reader, applied, calm>>

Texts == 0..MaxV

RelayOff == [pc |-> "off", todo |-> {}, cur |-> NoDirective, cloned |-> FALSE,
             dirty |-> FALSE, old |-> {},
             head |-> [d \in Directives |-> 0], out |-> [d \in Directives |-> 0]]
ReaderOff == [pc |-> "off", list |-> {}, cur |-> NoDirective, tries |-> 0]

Drafts == [v : 1..MaxV, status : {"draft", "approved", "dispatched"}]
RelayStates ==
    [pc : {"off", "loop", "push", "mark"}, todo : SUBSET Directives,
     cur : Directives \cup {NoDirective}, cloned : BOOLEAN, dirty : BOOLEAN,
     old : SUBSET Directives, head : [Directives -> Texts], out : [Directives -> Texts]]
ReaderStates ==
    [pc : {"off", "list", "ack", "push"}, list : SUBSET Directives,
     cur : Directives \cup {NoDirective}, tries : 0..MaxTries]

TypeOK ==
    /\ live \in [Directives -> Drafts] /\ origin \in [Directives -> Drafts]
    /\ unpub \subseteq Directives
    /\ approved \subseteq Directives \X (1..MaxV)
    /\ inbox \in [Directives -> Texts]
    /\ old \subseteq Directives /\ unlisted \subseteq Directives
    /\ ledger \subseteq Directives
    /\ current \subseteq Relays \cup Readers /\ mcurrent \subseteq Relays
    /\ relay \in [Relays -> RelayStates]
    /\ reader \in [Readers -> ReaderStates]
    /\ applied \in [Directives -> 0..2]
    /\ calm \in BOOLEAN

Init ==
    /\ live = [d \in Directives |-> [v |-> 1, status |-> "draft"]]
    /\ origin = live
    /\ unpub = {} /\ approved = {}
    /\ inbox = [d \in Directives |-> 0]
    /\ old = {} /\ unlisted = {} /\ ledger = {}
    /\ current = {} /\ mcurrent = {}
    /\ relay = [r \in Relays |-> RelayOff]
    /\ reader = [r \in Readers |-> ReaderOff]
    /\ applied = [d \in Directives |-> 0]
    /\ calm = FALSE

----------------------------------------------------------------------------
(* The manager and the operator *)

Edit(d, v, status) ==
    /\ live' = [live EXCEPT ![d] = [v |-> v, status |-> status]]
    /\ unpub' = unpub \cup {d}
    /\ UNCHANGED <<origin, mcurrent, target, relay, reader, applied, calm>>

Approve(d) ==
    /\ live[d].status = "draft"
    /\ Edit(d, live[d].v, "approved")
    /\ approved' = approved \cup {<<d, live[d].v>>}

(* Another text needs another approval. *)
Amend(d) ==
    /\ ~calm
    /\ d \in Amendable /\ live[d].v < MaxV
    /\ live[d].status # "dispatched"
    /\ Edit(d, live[d].v + 1, "draft")
    /\ UNCHANGED approved

Publish(d) ==
    /\ d \in unpub
    /\ origin' = [origin EXCEPT ![d] = live[d]]
    /\ unpub' = unpub \ {d}
    /\ mcurrent' = {}
    /\ UNCHANGED <<live, approved, target, relay, reader, applied, calm>>

Pull(d) ==
    /\ d \notin unpub
    /\ live[d] # origin[d]
    /\ live' = [live EXCEPT ![d] = origin[d]]
    /\ UNCHANGED <<origin, unpub, approved, mcurrent, target, relay, reader, applied, calm>>

----------------------------------------------------------------------------
(* The relay *)

RelayDoes(r, u) == relay' = [relay EXCEPT ![r] = u]

RelayStart(r) ==
    /\ relay[r].pc = "off"
    /\ \E d \in Directives : live[d].status = "approved"
    /\ RelayDoes(r, [RelayOff EXCEPT !.pc = "loop", !.todo = Directives])
    /\ UNCHANGED <<manager, target, reader, applied, calm>>

(* The drafts come in the order of their names. *)
Turn(r, d) ==
    /\ relay[r].pc = "loop"
    /\ d \in relay[r].todo
    /\ \A e \in relay[r].todo : Rank[d] <= Rank[e]

(* The gate: status approved, and the operator's name beside it. *)
Gate_AnyStatus(d) == live[d].status # "dispatched"
Gate(d) == live[d].status = "approved"

Skip(r, d) ==
    /\ Turn(r, d)
    /\ ~Gate(d)
    /\ RelayDoes(r, [relay[r] EXCEPT !.todo = relay[r].todo \ {d}])
    /\ UNCHANGED <<manager, target, reader, applied, calm>>

(* One clone of a target serves the whole run, whatever happens there. *)
CloneHead(r) == IF relay[r].cloned THEN relay[r].head ELSE inbox
Cloned(r) == IF relay[r].cloned THEN current ELSE current \cup {r}

(* The note is absent: write it, stamp it, commit it. *)
Write(r, d) ==
    /\ Turn(r, d)
    /\ Gate(d)
    /\ CloneHead(r)[d] = 0
    /\ current' = Cloned(r)
    /\ RelayDoes(r, [relay[r] EXCEPT
                       !.pc = "push", !.todo = relay[r].todo \ {d}, !.cur = d,
                       !.cloned = TRUE, !.old = relay[r].old \ {d},
                       !.head = [CloneHead(r) EXCEPT ![d] = live[d].v]])
    /\ UNCHANGED <<manager, inbox, old, unlisted, ledger, reader, applied, calm>>

(* It is there already. With the same text there is nothing to commit, which
   counts as delivered; git says otherwise in a tree a failed push has left. *)
SameText_WithStamp(r, d) == FALSE
SameText(r, d) == CloneHead(r)[d] = live[d].v
Present(r, d) ==
    /\ Turn(r, d)
    /\ Gate(d)
    /\ CloneHead(r)[d] # 0
    /\ current' = Cloned(r)
    /\ RelayDoes(r, [relay[r] EXCEPT
                       !.todo = relay[r].todo \ {d}, !.cloned = TRUE, !.head = CloneHead(r),
                       !.out = IF SameText(r, d) /\ ~relay[r].dirty
                               THEN [relay[r].out EXCEPT ![d] = live[d].v]
                               ELSE relay[r].out])
    /\ UNCHANGED <<manager, inbox, old, unlisted, ledger, reader, applied, calm>>

CloneFails(r, d) ==
    /\ ~calm
    /\ Turn(r, d)
    /\ Gate(d) /\ ~relay[r].cloned
    /\ RelayDoes(r, [relay[r] EXCEPT !.todo = relay[r].todo \ {d}])
    /\ UNCHANGED <<manager, target, reader, applied, calm>>

(* The push carries every commit of the clone, those of failed pushes too. *)
Lands(r) ==
    LET new == {d \in Directives : inbox[d] = 0 /\ relay[r].head[d] # 0}
    IN  /\ inbox' = relay[r].head
        /\ old' = (old \ new) \cup (new \cap relay[r].old)
        /\ unlisted' = unlisted \cup new
        /\ current' = {r}
        /\ UNCHANGED ledger

Accepted_Forced(r) == TRUE
Accepted(r) == r \in current

PushOk(r) ==
    /\ relay[r].pc = "push"
    /\ Accepted(r)
    /\ Lands(r)
    /\ LET d == relay[r].cur
       IN  RelayDoes(r, [relay[r] EXCEPT
                           !.pc = "loop", !.cur = NoDirective,
                           !.out = [relay[r].out EXCEPT ![d] = relay[r].head[d]]])
    /\ UNCHANGED <<manager, reader, applied, calm>>

(* Refused, or failed, or landed without a word: the note counts as not
   delivered, its file is removed, and its commit stays in the clone. *)
PushFails(r) ==
    /\ relay[r].pc = "push"
    /\ \/ (~Accepted(r) \/ ~calm) /\ UNCHANGED target
       \/ Accepted(r) /\ ~calm /\ Lands(r)
    /\ RelayDoes(r, [relay[r] EXCEPT !.pc = "loop", !.cur = NoDirective, !.dirty = TRUE])
    /\ UNCHANGED <<manager, reader, applied, calm>>

(* What was delivered, as the manager's remote has it: the same text, approved
   or marked already. One that differs keeps the others from being marked. *)
Delivered(r) == {d \in Directives : relay[r].out[d] # 0}
Markable(r) ==
    \A d \in Delivered(r) :
        origin[d].v = relay[r].out[d] /\ origin[d].status # "draft"
Unmarked(r) == {d \in Delivered(r) : origin[d].status = "approved"}

(* Its clone of the target is not looked at again. *)
Leaves(r) ==
    /\ current' = current \ {r}
    /\ UNCHANGED <<inbox, old, unlisted, ledger>>

MarkClone(r) ==
    /\ relay[r].pc = "loop" /\ relay[r].todo = {}
    /\ Delivered(r) # {} /\ Markable(r) /\ Unmarked(r) # {}
    /\ RelayDoes(r, [relay[r] EXCEPT !.pc = "mark"])
    /\ mcurrent' = mcurrent \cup {r}
    /\ Leaves(r)
    /\ UNCHANGED <<live, origin, unpub, approved, reader, applied, calm>>

MarkPush(r) ==
    /\ relay[r].pc = "mark"
    /\ r \in mcurrent
    /\ origin' = [d \in Directives |->
                    IF d \in Unmarked(r) THEN [origin[d] EXCEPT !.status = "dispatched"]
                    ELSE origin[d]]
    /\ mcurrent' = {}
    /\ RelayDoes(r, RelayOff)
    /\ UNCHANGED <<live, unpub, approved, target, reader, applied, calm>>

(* Nothing to mark, something that may not be marked, or a push that failed;
   or the run was killed. *)
RelayEnds(r) ==
    /\ \/ /\ relay[r].pc = "loop" /\ relay[r].todo = {}
          /\ Delivered(r) = {} \/ ~Markable(r) \/ Unmarked(r) = {}
       \/ relay[r].pc = "mark" /\ r \notin mcurrent
       \/ relay[r].pc # "off" /\ ~calm
    /\ RelayDoes(r, RelayOff)
    /\ mcurrent' = mcurrent \ {r}
    /\ Leaves(r)
    /\ UNCHANGED <<live, origin, unpub, approved, reader, applied, calm>>

----------------------------------------------------------------------------
(* The agents of the target *)

ReaderDoes(a, u) == reader' = [reader EXCEPT ![a] = u]

Pending_All(a) == {d \in Directives : inbox[d] # 0 /\ Audience[d] = a}
Pending(a) == {d \in Directives : inbox[d] # 0 /\ Audience[d] = a /\ d \notin ledger}

(* Clone, list, stamp the marker, push: one step, as a remote that moved in
   between makes the whole attempt start again. Every note stamped until now,
   in the inbox or in a clone of a relay, is older than the marker. *)
Scan(a) ==
    /\ reader[a].pc = "off"
    /\ Pending(a) # {}
    /\ old' = {d \in Directives : inbox[d] # 0}
    /\ relay' = [r \in Relays |->
                   [relay[r] EXCEPT !.old = {d \in Directives : relay[r].head[d] # 0}]]
    /\ unlisted' = unlisted \ Pending(a)
    /\ current' = {}
    /\ ReaderDoes(a, [ReaderOff EXCEPT !.pc = "list", !.list = Pending(a)])
    /\ UNCHANGED <<manager, inbox, ledger, applied, calm>>

Act(a, d) ==
    /\ reader[a].pc = "list" /\ d \in reader[a].list
    /\ applied' = [applied EXCEPT ![d] = IF @ = 2 THEN 2 ELSE @ + 1]
    /\ ReaderDoes(a, [reader[a] EXCEPT !.pc = "ack", !.cur = d, !.tries = 1,
                                       !.list = reader[a].list \ {d}])
    /\ UNCHANGED <<manager, target, relay, calm>>

Done(a) == ReaderDoes(a, [reader[a] EXCEPT !.pc = "list", !.cur = NoDirective])

AckClone(a) ==
    /\ reader[a].pc = "ack"
    /\ IF reader[a].cur \in ledger
       THEN /\ Done(a)
            /\ UNCHANGED current
       ELSE /\ ReaderDoes(a, [reader[a] EXCEPT !.pc = "push"])
            /\ current' = current \cup {a}
    /\ UNCHANGED <<manager, inbox, old, unlisted, ledger, relay, applied, calm>>

AckPush(a) ==
    /\ reader[a].pc = "push"
    /\ a \in current
    /\ ledger' = ledger \cup {reader[a].cur}
    /\ current' = {}
    /\ Done(a)
    /\ UNCHANGED <<manager, inbox, old, unlisted, relay, applied, calm>>

(* A push that is refused, fails or lands without a word: again from a new clone,
   which has the entries of the others and may have this one. *)
AckRefused(a) ==
    /\ reader[a].pc = "push"
    /\ \/ /\ a \notin current \/ ~calm
          /\ current' = current \ {a}
          /\ UNCHANGED ledger
       \/ /\ a \in current /\ ~calm
          /\ ledger' = ledger \cup {reader[a].cur}
          /\ current' = {}
    /\ UNCHANGED <<manager, inbox, old, unlisted, relay, calm>>

AckRetry(a) ==
    /\ AckRefused(a)
    /\ reader[a].tries < MaxTries
    /\ ReaderDoes(a, [reader[a] EXCEPT !.pc = "ack", !.tries = reader[a].tries + 1])
    /\ UNCHANGED applied

Forgotten(a) == [d \in Directives |-> IF d = reader[a].cur THEN 0 ELSE applied[d]]

AckFails(a) ==
    /\ AckRefused(a)
    /\ reader[a].tries = MaxTries
    /\ applied' = Forgotten(a)
    /\ Done(a)

(* The tick of the agent ends, or dies on the way. *)
ReaderEnds(a) ==
    /\ \/ reader[a].pc = "list" /\ reader[a].list = {}
       \/ reader[a].pc # "off" /\ ~calm
    /\ applied' = Forgotten(a)
    /\ ReaderDoes(a, ReaderOff)
    /\ current' = current \ {a}
    /\ UNCHANGED <<manager, inbox, old, unlisted, ledger, relay, calm>>

----------------------------------------------------------------------------
(* The department pushes its own work to the same main. *)
OtherPush ==
    /\ ~calm
    /\ current # {}
    /\ current' = {}
    /\ UNCHANGED <<manager, inbox, old, unlisted, ledger, relay, reader, applied, calm>>

Calm == /\ ~calm
        /\ calm' = TRUE
        /\ UNCHANGED <<manager, target, relay, reader, applied>>

Manage(d) == Approve(d) \/ Amend(d) \/ Publish(d) \/ Pull(d)

Relaying(r) ==
    \/ \E d \in Directives :
         Skip(r, d) \/ Write(r, d) \/ Present(r, d) \/ CloneFails(r, d)
    \/ PushOk(r) \/ PushFails(r) \/ MarkClone(r) \/ MarkPush(r) \/ RelayEnds(r)

Reading(a) ==
    \/ Scan(a) \/ AckClone(a) \/ AckPush(a) \/ AckRetry(a) \/ AckFails(a)
    \/ ReaderEnds(a)
    \/ \E d \in Directives : Act(a, d)

Next ==
    \/ \E d \in Directives : Manage(d)
    \/ \E r \in Relays : RelayStart(r) \/ Relaying(r)
    \/ \E a \in Readers : Reading(a)
    \/ OtherPush
    \/ Calm

(* The floor starts the relay at each of its moments, the manager's ticks push
   and pull, the agents run at least their daily layer 1. *)
Fairness ==
    /\ WF_vars(Calm)
    /\ \A d \in Directives : WF_vars(Publish(d)) /\ WF_vars(Pull(d))
    /\ \A r \in Relays : WF_vars(RelayStart(r)) /\ WF_vars(Relaying(r))
    /\ \A a \in Readers : WF_vars(Reading(a))

Spec == Init /\ [][Next]_vars
FairSpec == Spec /\ Fairness

----------------------------------------------------------------------------
(* Properties *)

Dispatched == {p \in Directives \X (1..MaxV) :
                 origin[p[1]] = [v |-> p[2], status |-> "dispatched"]}

Contract == INSTANCE DirectiveContract WITH dispatched <- Dispatched

(* Only approved texts arrive, what has arrived does not change, the mark is for
   the text that arrived, and no acknowledgement is lost, whoever pushes. *)
ImplementsContract == Contract!Spec

(* A note is acted on once, unless an agent ended between acting on it and
   having its acknowledgement pushed (management_inbox.py:5). *)
AppliedOnce == \A d \in Directives : applied[d] <= 1

(* Nothing stays on its way for ever: an approved directive is marked in the end,
   unless the target has another text of it, and what was delivered is consumed
   by its own reader, though clones and pushes fail for a while. *)
MailSettles ==
    []<>(\A d \in Directives :
           /\ live[d].status # "approved" \/ inbox[d] \notin {0, live[d].v}
           /\ inbox[d] # 0 => d \in ledger)

(* "has ANY new note arrived since the last time a real layer ran STEP 0-ter?"
   (dispatch_helpers.py:860): a note that no scan has listed is newer than the
   marker, although both stamps are taken before their pushes. *)
ArrivalsAreNew == unlisted \cap old = {}
=============================================================================
