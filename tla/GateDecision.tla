---------------------------- MODULE GateDecision ----------------------------
(***************************************************************************)
(* The life of an operator's decision on a gate.  The cockpit (console/)   *)
(* writes inbox/decisions/<gate>.yaml in the department's repository; the  *)
(* department's tick hands the first pending decision to an execution      *)
(* worker (layer 3), which acts in the outside world, archives the         *)
(* decision and closes the gate's card; the tick then commits the          *)
(* dispatch to the ledger of the day (scripts/lib/dispatch_helpers.py).    *)
(*                                                                         *)
(* The operator, the tick and the person who executes what no program can  *)
(* share nothing but files.  A step here is one file operation, or one     *)
(* external action.  The tick lock (module TickLock) is taken for granted: *)
(* one tick runs at a time, in the live session or in its headless         *)
(* replacement.                                                            *)
(***************************************************************************)
EXTENDS Integers, FiniteSets

CONSTANTS
  Gates,       \* gate ids, numbered in the order of their file names
  NoGate,
  NoVerdict,   \* stands for an absent decision file
  Manual,      \* gates whose approval no program can carry out
  Stuck,       \* gates that a guard rail may hold for good
  Late,        \* whether the operator may act on a gate that is being executed
  MaxRetries,  \* MAX_RETRIES_DEFAULT
  MaxDay,      \* bound: days
  MaxCrashes,  \* bound: deaths of a tick
  MaxFaults,   \* bound: workers that fail of themselves
  MaxHolds     \* bound: times that a guard rail comes down

ASSUME GateAssumption ==
  /\ Gates \subseteq Nat
  /\ IsFiniteSet(Gates)
  /\ NoGate \notin Gates
  /\ NoVerdict \notin {"approve", "reject"}
  /\ Manual \subseteq Gates
  /\ Stuck \subseteq Gates
  /\ Late \in BOOLEAN
  /\ MaxRetries \in Nat
  /\ MaxDay \in Nat \ {0}
  /\ MaxCrashes \in Nat
  /\ MaxFaults \in Nat
  /\ MaxHolds \in Nat

VARIABLES
  day,         \* the Paris date
  card,        \* queues/gates: open, or below .done/published or .done/abandoned
  decision,    \* inbox/decisions/<gate>.yaml
  processed,   \* inbox/decisions/.processed/<gate>.yaml
  abandoned,   \* gates with a file in inbox/decisions/.abandoned
  ledger,      \* per day, the trigger ids in outputs/<day>/dispatch.json
  rounds,      \* per day, layer 3's entry in outputs/<day>/round_counter.json
  forms,       \* decisions whose request has passed load_gate, to be written
  held,        \* gates that a guard rail holds back at the moment
  pc,          \* where the tick is
  trig,        \* the trigger id handed to the worker
  at,          \* the day of ctx, fixed when the tick decides
  seen,        \* the verdict that the worker has read
  mem,         \* the decision that the archiver has read
  tries,       \* workers spawned again in this tick
  executed,    \* history: external actions for each gate, up to MaxRuns
  crashes, faults, holds   \* history: disturbances, for the bounds

tick  == <<pc, trig, at, seen, mem, tries>>
files == <<card, decision, processed, abandoned, ledger, rounds>>
env   == <<day, forms, held, crashes, faults, holds>>
vars  == <<day, card, decision, processed, abandoned, ledger, rounds, forms, held,
           pc, trig, at, seen, mem, tries, executed, crashes, faults, holds>>

Verdicts == {"approve", "reject"}
Days     == 1 .. MaxDay
MaxRuns  == 2 + MaxCrashes + MaxFaults
Working  == {"spawned", "acting", "archiving", "stamping", "moving", "closing",
             "returned"}

TickOK ==
  /\ pc \in Working \cup {"idle", "prepared", "commit", "count"}
  /\ trig \in Gates \cup {NoGate}
  /\ pc \in Working \cup {"commit", "count"} => trig \in Gates
  /\ at \in Days
  /\ seen \in Verdicts \cup {NoVerdict}
  /\ mem \in Verdicts \cup {NoVerdict}
  /\ tries \in 0 .. MaxRetries

RestOK ==
  /\ day \in Days
  /\ card \in [Gates -> {"open", "published", "abandoned"}]
  /\ decision \in [Gates -> Verdicts \cup {NoVerdict}]
  /\ processed \in [Gates -> Verdicts \cup {NoVerdict}]
  /\ abandoned \subseteq Gates
  /\ ledger \in [Days -> SUBSET Gates]
  /\ rounds \in [Days -> Nat]
  /\ forms \subseteq Gates \X Verdicts
  /\ held \subseteq Gates
  /\ executed \in [Gates -> 0 .. MaxRuns]
  /\ crashes \in 0 .. MaxCrashes
  /\ faults \in 0 .. MaxFaults
  /\ holds \in 0 .. MaxHolds

TypeOK == TickOK /\ RestOK

Init ==
  /\ day = 1
  /\ card = [g \in Gates |-> "open"]
  /\ decision = [g \in Gates |-> NoVerdict]
  /\ processed = [g \in Gates |-> NoVerdict]
  /\ abandoned = {}
  /\ ledger = [d \in Days |-> {}]
  /\ rounds = [d \in Days |-> 0]
  /\ forms = {}
  /\ held = {}
  /\ pc = "idle" /\ trig = NoGate /\ at = 1
  /\ seen = NoVerdict /\ mem = NoVerdict /\ tries = 0
  /\ executed = [g \in Gates |-> 0]
  /\ crashes = 0 /\ faults = 0 /\ holds = 0

-----------------------------------------------------------------------------
(* Files. *)

Active(g) == decision[g] # NoVerdict

\* Mutant of Archived: an existing archive is not looked for.
Archived_Never(g) == FALSE

Archived(g) == processed[g] # NoVerdict

Write(g, v) == decision' = [decision EXCEPT ![g] = v]

-----------------------------------------------------------------------------
(* The operator, in the cockpit. *)

(* What the documents expect of the operator: a gate is left alone once its
   decision is being executed.  Late lifts this. *)
LeftToOperator(g) == Late \/ (trig # g /\ executed[g] = 0 /\ g \notin abandoned)

(* gate_decide, first half: load_gate only finds a gate whose card is open and
   that has no active decision ... *)
DecideCheck(g, v) ==
  /\ LeftToOperator(g)
  /\ card[g] = "open"
  /\ ~Active(g)
  /\ forms' = forms \cup {<<g, v>>}
  /\ UNCHANGED <<day, held, crashes, faults, holds, files, tick, executed>>

(* ... second half: write_gate_decision replaces whatever file is there by now. *)
DecideWrite(g, v) ==
  /\ <<g, v>> \in forms
  /\ LeftToOperator(g)
  /\ forms' = forms \ {<<g, v>>}
  /\ Write(g, v)
  /\ UNCHANGED <<day, held, crashes, faults, holds, card, processed, abandoned,
                 ledger, rounds, tick, executed>>

(* gate_undo and delete_gate_decision.  No program of the repository writes the
   resolved or decided_by fields that gate_undo looks for in the card. *)
Undo(g) ==
  /\ LeftToOperator(g)
  /\ Active(g)
  /\ Write(g, NoVerdict)
  /\ UNCHANGED <<env, card, processed, abandoned, ledger, rounds, tick, executed>>

(* A person carries out an approval that no program can, and archives it. *)
ByHand(g) ==
  /\ g \in Manual
  /\ decision[g] = "approve"
  /\ executed[g] = 0
  /\ executed' = [executed EXCEPT ![g] = 1]
  /\ processed' = [processed EXCEPT ![g] = decision[g]]
  /\ Write(g, NoVerdict)
  /\ UNCHANGED <<env, card, abandoned, ledger, rounds, tick>>

-----------------------------------------------------------------------------
(* The surroundings. *)

\* A day starts on a fresh outputs directory, whatever the tick is doing.
Midnight ==
  /\ day < MaxDay
  /\ day' = day + 1
  /\ UNCHANGED <<forms, held, crashes, faults, holds, files, tick, executed>>

\* A guard rail (kill switch, quiet hours, quota) comes down on a gate ...
Hold(g) ==
  /\ holds < MaxHolds
  /\ g \notin held
  /\ held' = held \cup {g}
  /\ holds' = holds + 1
  /\ UNCHANGED <<day, forms, crashes, faults, files, tick, executed>>

\* ... and is lifted.
Lift(g) ==
  /\ g \in held
  /\ held' = held \ {g}
  /\ UNCHANGED <<day, forms, crashes, faults, holds, files, tick, executed>>

-----------------------------------------------------------------------------
(* The tick. *)

Goto(place) == pc' = place

\* Nothing of a tick outlives it: dispatch state is only in the ledger.
Forget ==
  /\ Goto("idle")
  /\ trig' = NoGate /\ at' = 1 /\ seen' = NoVerdict /\ mem' = NoVerdict /\ tries' = 0

\* Mutant of Reconciled: cards are left to the workers.
Reconciled_No == card

\* reconcile_gate_dir: open cards follow the archives; .processed wins.
Reconciled ==
  [g \in Gates |-> IF card[g] # "open" THEN card[g]
                   ELSE IF processed[g] # NoVerdict THEN "published"
                   ELSE IF g \in abandoned THEN "abandoned"
                   ELSE "open"]

Prepare ==
  /\ pc = "idle"
  /\ card' = Reconciled
  /\ Goto("prepared")
  /\ UNCHANGED <<env, decision, processed, abandoned, ledger, rounds, trig, at, seen,
                 mem, tries, executed>>

\* _event_pending_trigger_ids for the day d.
Pending(d) == {g \in Gates : Active(g) /\ g \notin ledger[d]}

\* build_dispatch_ctx, select_due_missions and event_trigger_ids_for_dispatch,
\* which hands one id to one worker, the first by name ...
Select(g) ==
  /\ pc = "prepared"
  /\ g \in Pending(day)
  /\ \A h \in Pending(day) : g <= h
  /\ trig' = g
  /\ at' = day
  /\ Goto("spawned")
  /\ UNCHANGED <<env, files, seen, mem, tries, executed>>

\* ... or no decision is pending: a heartbeat.
Heartbeat ==
  /\ pc = "prepared"
  /\ Pending(day) = {}
  /\ Forget
  /\ UNCHANGED <<env, files, executed>>

\* should_retry: a new worker for the same trigger, until the retries are spent.
Fails ==
  \/ /\ tries < MaxRetries
     /\ tries' = tries + 1
     /\ seen' = NoVerdict /\ mem' = NoVerdict
     /\ Goto("spawned")
     /\ UNCHANGED <<trig, at>>
  \/ /\ tries = MaxRetries
     /\ Forget

-----------------------------------------------------------------------------
(* The execution worker (the layer 3 prompt), one per tick. *)

\* Mutant of Blocked: a worker that is held back reports that it is done.
Blocked_Returns ==
  /\ pc = "spawned"
  /\ trig \in held
  /\ Goto("returned")
  /\ UNCHANGED <<env, files, trig, at, seen, mem, tries, executed>>

\* The pre-flight finds a guard rail: blocked, nothing is committed.
Blocked ==
  /\ pc = "spawned"
  /\ trig \in held
  /\ Forget
  /\ UNCHANGED <<env, files, executed>>

\* Mutant of Deferred: what was deferred is archived as if it had been executed.
Deferred_Archives ==
  /\ pc = "spawned"
  /\ trig \in Manual \ held
  /\ decision[trig] = "approve"
  /\ seen' = "approve"
  /\ Goto("archiving")
  /\ UNCHANGED <<env, files, trig, at, mem, tries, executed>>

\* DEFERRED-to-human-supervised: the item stays, the outcome is committed.
Deferred ==
  /\ pc = "spawned"
  /\ trig \in Manual \ held
  /\ decision[trig] = "approve"
  /\ Goto("returned")
  /\ UNCHANGED <<env, files, trig, at, seen, mem, tries, executed>>

\* Mutant of Read: a decision counts as an approval without a look inside.
Read_AnyVerdict ==
  /\ pc = "spawned"
  /\ trig \notin held
  /\ Active(trig)
  /\ ~(trig \in Manual /\ decision[trig] = "approve")
  /\ seen' = "approve"
  /\ Goto("acting")
  /\ UNCHANGED <<env, files, trig, at, mem, tries, executed>>

\* The worker reads its inbox item ...
Read ==
  /\ pc = "spawned"
  /\ trig \notin held
  /\ Active(trig)
  /\ ~(trig \in Manual /\ decision[trig] = "approve")
  /\ seen' = decision[trig]
  /\ Goto("acting")
  /\ UNCHANGED <<env, files, trig, at, mem, tries, executed>>

\* Mutant of Missing: a worker without its item reports that it is done.
Missing_Returns ==
  /\ pc = "spawned"
  /\ trig \notin held
  /\ ~Active(trig)
  /\ Goto("returned")
  /\ UNCHANGED <<env, files, trig, at, seen, mem, tries, executed>>

(* ... which an earlier worker of this tick may have moved, so that only the
   card is left to close, or the operator deleted. *)
Missing ==
  /\ pc = "spawned"
  /\ trig \notin held
  /\ ~Active(trig)
  /\ \/ /\ Archived(trig) \/ trig \in abandoned
        /\ seen' = IF Archived(trig) THEN "approve" ELSE "reject"
        /\ Goto("closing")
        /\ UNCHANGED <<trig, at, mem, tries>>
     \/ /\ ~Archived(trig) /\ trig \notin abandoned
        /\ Fails
  /\ UNCHANGED <<env, files, executed>>

\* The external action of an approved decision.
Execute ==
  /\ pc = "acting"
  /\ seen = "approve"
  /\ executed' = [executed EXCEPT ![trig] = IF @ < MaxRuns THEN @ + 1 ELSE @]
  /\ Goto("archiving")
  /\ UNCHANGED <<env, files, trig, at, seen, mem, tries>>

\* A rejected decision is moved to .abandoned.
Abandon ==
  /\ pc = "acting"
  /\ seen = "reject"
  /\ IF Active(trig)
     THEN /\ abandoned' = abandoned \cup {trig}
          /\ Write(trig, NoVerdict)
          /\ Goto("closing")
          /\ UNCHANGED <<trig, at, seen, mem, tries>>
     ELSE /\ Fails
          /\ UNCHANGED <<decision, abandoned>>
  /\ UNCHANGED <<env, card, processed, ledger, rounds, executed>>

(* archive_successful_decision: the two existence checks and the read ... *)
Archive ==
  /\ pc = "archiving"
  /\ IF Active(trig) /\ ~Archived(trig)
     THEN mem' = decision[trig] /\ Goto("stamping") /\ UNCHANGED <<trig, at, seen, tries>>
     ELSE IF Archived(trig) /\ ~Active(trig)
     THEN Goto("closing") /\ UNCHANGED <<trig, at, seen, mem, tries>>
     ELSE Fails      \* FileExistsError, FileNotFoundError
  /\ UNCHANGED <<env, files, executed>>

\* ... what was read is written back with its processed_at stamp ...
Stamp ==
  /\ pc = "stamping"
  /\ Write(trig, mem)
  /\ Goto("moving")
  /\ UNCHANGED <<env, card, processed, abandoned, ledger, rounds, trig, at, seen, mem,
                 tries, executed>>

\* Mutant of Move: the active file is copied, not moved.
Move_Copies ==
  /\ pc = "moving"
  /\ IF Active(trig) /\ ~Archived(trig)
     THEN /\ processed' = [processed EXCEPT ![trig] = decision[trig]]
          /\ Goto("closing")
          /\ UNCHANGED <<trig, at, seen, mem, tries>>
     ELSE /\ Fails
          /\ UNCHANGED processed
  /\ UNCHANGED <<env, card, decision, abandoned, ledger, rounds, executed>>

\* ... and the file that is there by now is moved to .processed.
Move ==
  /\ pc = "moving"
  /\ IF Active(trig) /\ ~Archived(trig)
     THEN /\ processed' = [processed EXCEPT ![trig] = decision[trig]]
          /\ Write(trig, NoVerdict)
          /\ Goto("closing")
          /\ UNCHANGED <<trig, at, seen, mem, tries>>
     ELSE /\ Fails
          /\ UNCHANGED <<processed, decision>>
  /\ UNCHANGED <<env, card, abandoned, ledger, rounds, executed>>

\* Mutant of Outcome: every card that a worker closes is filed as published.
Outcome_Published == "published"

Outcome == IF seen = "reject" THEN "abandoned" ELSE "published"

\* archive_gate_card, a no-op when the card is closed already.
Close ==
  /\ pc = "closing"
  /\ card' = [card EXCEPT ![trig] = IF @ = "open" THEN Outcome ELSE @]
  /\ Goto("returned")
  /\ UNCHANGED <<env, decision, processed, abandoned, ledger, rounds, trig, at, seen,
                 mem, tries, executed>>

\* The worker fails, stops or hangs at any point; its parent notices.
Fault ==
  /\ pc \in Working
  /\ faults < MaxFaults
  /\ faults' = faults + 1
  /\ Fails
  /\ UNCHANGED <<day, forms, held, crashes, holds, files, executed>>

-----------------------------------------------------------------------------
(* The tick again. *)

\* validate_layer_output accepts the artifacts.
Validate ==
  /\ pc = "returned"
  /\ Goto("commit")
  /\ UNCHANGED <<env, files, trig, at, seen, mem, tries, executed>>

(* commit_dispatch, under the ledger's lock: dispatch.json of the day on which
   the tick decided is replaced, unless it has this trigger already ... *)
Commit ==
  /\ pc = "commit"
  /\ IF trig \in ledger[at]
     THEN Forget /\ UNCHANGED ledger
     ELSE /\ ledger' = [ledger EXCEPT ![at] = @ \cup {trig}]
          /\ Goto("count")
          /\ UNCHANGED <<trig, at, seen, mem, tries>>
  /\ UNCHANGED <<env, card, decision, processed, abandoned, rounds, executed>>

\* Mutant of Count: the round is booked on the day of the commit.
Count_Today ==
  /\ pc = "count"
  /\ rounds' = [rounds EXCEPT ![day] = @ + 1]
  /\ Forget
  /\ UNCHANGED <<env, card, decision, processed, abandoned, ledger, executed>>

\* ... then increment_round_counter.
Count ==
  /\ pc = "count"
  /\ rounds' = [rounds EXCEPT ![at] = @ + 1]
  /\ Forget
  /\ UNCHANGED <<env, card, decision, processed, abandoned, ledger, executed>>

\* The session, or the whole tick, dies.
Crash ==
  /\ pc # "idle"
  /\ crashes < MaxCrashes
  /\ crashes' = crashes + 1
  /\ Forget
  /\ UNCHANGED <<day, forms, held, faults, holds, files, executed>>

Operator ==
  \E g \in Gates :
    \/ \E v \in Verdicts : DecideCheck(g, v) \/ DecideWrite(g, v)
    \/ Undo(g)
    \/ ByHand(g)

Surroundings ==
  \/ Midnight
  \/ \E g \in Gates : Hold(g) \/ Lift(g)
  \/ Fault
  \/ Crash

TickStep ==
  \/ Prepare
  \/ \E g \in Gates : Select(g)
  \/ Heartbeat
  \/ Blocked \/ Deferred \/ Read \/ Missing
  \/ Execute \/ Abandon
  \/ Archive \/ Stamp \/ Move \/ Close
  \/ Validate \/ Commit \/ Count

Next == Operator \/ Surroundings \/ TickStep

Spec == Init /\ [][Next]_vars

(* Ticks are started for ever (the live loop paces itself, the floor and the
   supervisor restart it) and a worker goes on to its end.  A guard rail is
   lifted in the end unless the gate is Stuck.  Nothing is assumed of the
   operator, nor that a worker or a tick ever fails. *)
Fairness ==
  /\ WF_vars(TickStep)
  /\ \A g \in Gates \ Stuck : WF_vars(Lift(g))

FairSpec == Spec /\ Fairness

-----------------------------------------------------------------------------
(* Safety, whatever the operator does and when. *)

\* commit_dispatch only records a trigger that was carried out, abandoned, or
\* deferred to a person; a failed, blocked or empty-handed worker commits nothing.
LedgerIsEarned ==
  \A d \in Days : \A g \in ledger[d] :
    executed[g] > 0 \/ g \in abandoned \/ g \in Manual

\* A decision below .processed was executed at least once, however workers and
\* ticks failed on the way.
ArchivedWasExecuted == \A g \in Gates : processed[g] # NoVerdict => executed[g] > 0

\* A card is only filed as published or abandoned when the archive of decisions
\* says so too, whether its worker or the reconciliation of a later tick filed it.
CardFollowsArchive ==
  \A g \in Gates :
    /\ card[g] = "published" => processed[g] # NoVerdict
    /\ card[g] = "abandoned" => g \in abandoned

\* Layer 3's rounds, which gate layer 1, count the day's committed triggers, but
\* for those whose tick died between the two writes of commit_dispatch.
RoundsCountCommits ==
  \A d \in Days :
    /\ rounds[d] <= Cardinality(ledger[d])
    /\ Cardinality(ledger[d]) <=
         rounds[d] + crashes + IF pc = "count" /\ at = d THEN 1 ELSE 0

\* An archived decision is never replaced, even by a second one on the same gate.
ArchiveIsFinal ==
  [][\A g \in Gates : processed[g] # NoVerdict => processed'[g] = processed[g]]_vars

\* What a worker may rely on at each of its steps; with it the invariants above
\* are inductive.
WorkerKnows ==
  /\ pc \in {"archiving", "stamping", "moving"} =>
       executed[trig] > 0 /\ seen = "approve"
  /\ pc = "closing" =>
       \/ seen = "reject" /\ trig \in abandoned
       \/ seen = "approve" /\ processed[trig] # NoVerdict
  /\ pc \in {"returned", "commit"} =>
       executed[trig] > 0 \/ trig \in abandoned \/ trig \in Manual

-----------------------------------------------------------------------------
(* While the operator leaves a gate alone that is being executed. *)

\* A decision is executed once, plus once for each worker or tick that died and
\* may have died between the external action and the archive.
ExecutedOnce ==
  \A g \in Gates : executed[g] <= 1 + crashes + faults

StandingVerdict ==
  [g \in Gates |-> IF processed[g] # NoVerdict THEN processed[g]
                   ELSE IF g \in abandoned THEN "reject"
                   ELSE decision[g]]

SettledAs ==
  [g \in Gates |-> IF processed[g] # NoVerdict THEN "published"
                   ELSE IF g \in abandoned THEN "abandoned"
                   ELSE "open"]

Contract == INSTANCE GateContract WITH
  verdict <- StandingVerdict,
  outcome <- SettledAs

\* Two forms open at once, retries, crashes and the steps of the archiver never
\* show the operator anything but the contract: the gate is settled once, by the
\* verdict that stood at that moment.
ImplementsContract == Contract!ContractSpec

\* A decision that no guard rail holds back for good is carried out or taken
\* back in the end, whatever crashed, failed or was blocked before.
EveryDecisionSettles ==
  \A g \in Gates \ (Manual \cup Stuck) : Active(g) ~> ~Active(g)

\* The card of a settled gate leaves the open queue in the end, even when the
\* worker or the tick died before it filed the card.
SettledCardsClose ==
  \A g \in Gates :
    (processed[g] # NoVerdict \/ g \in abandoned) ~> card[g] # "open"

\* Between the worker's read and the archive the decision stays what was read, and
\* an archived or abandoned gate has no active decision: with it, and Late = FALSE,
\* every step is a step of the contract.
DecisionStays ==
  /\ \A g \in Gates :
       Active(g) => processed[g] = NoVerdict /\ g \notin abandoned
  /\ pc \in {"acting", "archiving", "stamping", "moving"} =>
       /\ seen # NoVerdict
       /\ decision[trig] = seen
       /\ ~(trig \in Manual /\ seen = "approve")
  /\ pc \in {"stamping", "moving"} => mem = seen

\* Every execution but the archived one, and the one on its way to the archive, is
\* paid for by a crash or a fault.
RunsArePaid ==
  \A g \in Gates :
    executed[g] <= crashes + faults +
      IF \/ processed[g] # NoVerdict
         \/ trig = g /\ pc \in {"archiving", "stamping", "moving"}
      THEN 1 ELSE 0

\* The archive prevents a later tick from executing the decision once more.
ArchivedIsNotRerun ==
  [][\A g \in Gates : processed[g] # NoVerdict => executed'[g] = executed[g]]_vars
=============================================================================
