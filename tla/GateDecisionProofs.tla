------------------------- MODULE GateDecisionProofs -------------------------
(***************************************************************************)
(* Proofs about GateDecision for any gates, bounds and operator: its type, *)
(* the truth of the ledger, the archive and the cards, and, when the       *)
(* operator leaves alone what is being executed, that it implements        *)
(* GateContract and executes a decision once but for crashes.              *)
(***************************************************************************)
EXTENDS GateDecision, FiniteSetTheorems, TLAPS

(* Types. *)

LEMMA InitType == Init => TypeOK
BY GateAssumption DEF Init, TypeOK, TickOK, RestOK, Verdicts, Days, MaxRuns, Working

LEMMA ForgetType == Forget => TickOK'
BY GateAssumption DEF Forget, Goto, TickOK, Working, Days

LEMMA FailsType == TickOK /\ pc \in Working /\ Fails => TickOK'
<1>. SUFFICES ASSUME TickOK, pc \in Working, Fails, tries < MaxRetries,
                     tries' = tries + 1, seen' = NoVerdict, mem' = NoVerdict,
                     pc' = "spawned", UNCHANGED <<trig, at>>
              PROVE  TickOK'
  BY ForgetType DEF Fails, Goto
<1>. QED
  BY GateAssumption DEF TickOK, Working

LEMMA TickType == TypeOK /\ [Next]_vars => TickOK'
<1>. SUFFICES ASSUME TickOK, RestOK, [Next]_vars PROVE TickOK'
  BY DEF TypeOK
<1>. USE GateAssumption DEF TickOK, RestOK, Working, Verdicts
<1>1. CASE \/ \E g \in Gates, v \in Verdicts : DecideCheck(g, v) \/ DecideWrite(g, v)
           \/ \E g \in Gates : Undo(g) \/ ByHand(g) \/ Hold(g) \/ Lift(g)
           \/ Midnight
           \/ UNCHANGED vars
  <2>1. UNCHANGED tick
    BY <1>1 DEF DecideCheck, DecideWrite, Undo, ByHand, Midnight, Hold, Lift, vars,
        tick
  <2>. QED
    BY <2>1 DEF tick
<1>2. CASE Fault
  BY <1>2, FailsType DEF Fault
<1>3. CASE Crash
  BY <1>3, ForgetType DEF Crash
<1>4. CASE Prepare
  BY <1>4 DEF Prepare, Goto
<1>5. ASSUME NEW g \in Gates, Select(g)
      PROVE  TickOK'
  BY <1>5 DEF Select, Goto
<1>6. CASE Heartbeat
  BY <1>6, ForgetType DEF Heartbeat
<1>7. CASE Blocked
  BY <1>7, ForgetType DEF Blocked
<1>8. CASE Deferred
  BY <1>8 DEF Deferred, Goto
<1>9. CASE Read
  BY <1>9 DEF Read, Goto
<1>10. CASE Missing
  BY <1>10, FailsType DEF Missing, Goto
<1>11. CASE Execute
  BY <1>11 DEF Execute, Goto
<1>12. CASE Abandon
  BY <1>12, FailsType DEF Abandon, Goto
<1>13. CASE Archive
  BY <1>13, FailsType DEF Archive, Goto
<1>14. CASE Stamp
  BY <1>14 DEF Stamp, Goto
<1>15. CASE Move
  BY <1>15, FailsType DEF Move, Goto
<1>16. CASE Close
  BY <1>16 DEF Close, Goto
<1>17. CASE Validate
  BY <1>17 DEF Validate, Goto
<1>18. CASE Commit
  BY <1>18, ForgetType DEF Commit, Goto
<1>19. CASE Count
  BY <1>19, ForgetType DEF Count
<1>. QED
  BY <1>1, <1>2, <1>3, <1>4, <1>5, <1>6, <1>7, <1>8, <1>9, <1>10, <1>11, <1>12,
    <1>13, <1>14, <1>15, <1>16, <1>17, <1>18, <1>19 DEF Next, Operator,
    Surroundings, TickStep

LEMMA RestType == TypeOK /\ [Next]_vars => RestOK'
<1>. SUFFICES ASSUME TickOK, RestOK, [Next]_vars PROVE RestOK'
  BY DEF TypeOK
<1>. USE GateAssumption DEF TickOK, RestOK
<1>1. CASE \/ \E g \in Gates : Lift(g) \/ Select(g)
           \/ Heartbeat \/ Blocked \/ Deferred \/ Read \/ Missing \/ Archive
           \/ Validate
           \/ UNCHANGED vars
  BY <1>1 DEF Lift, Select, Heartbeat, Blocked, Deferred, Read, Missing, Archive,
    Validate, vars, env, files
<1>2. ASSUME NEW g \in Gates, NEW v \in Verdicts, DecideCheck(g, v)
      PROVE  RestOK'
  BY <1>2 DEF DecideCheck, files
<1>3. ASSUME NEW g \in Gates, NEW v \in Verdicts, DecideWrite(g, v)
      PROVE  RestOK'
  BY <1>3 DEF DecideWrite, Write
<1>4. ASSUME NEW g \in Gates, Undo(g)
      PROVE  RestOK'
  BY <1>4 DEF Undo, Write, env
<1>5. ASSUME NEW g \in Gates, ByHand(g)
      PROVE  RestOK'
  BY <1>5 DEF ByHand, Write, env, MaxRuns, Verdicts
<1>6. CASE Midnight
  BY <1>6 DEF Midnight, files, Days
<1>7. ASSUME NEW g \in Gates, Hold(g)
      PROVE  RestOK'
  BY <1>7 DEF Hold, files
<1>8. CASE Fault
  BY <1>8 DEF Fault, files
<1>9. CASE Crash
  BY <1>9 DEF Crash, files
<1>10. CASE Prepare
  BY <1>10 DEF Prepare, Reconciled, env
<1>11. CASE Execute
  BY <1>11 DEF Execute, env, files, MaxRuns, Working
<1>12. CASE Abandon
  BY <1>12 DEF Abandon, Write, env, Working
<1>13. CASE Stamp
  BY <1>13 DEF Stamp, Write, env, Working
<1>14. CASE Move
  BY <1>14 DEF Move, Write, env, Working
<1>15. CASE Close
  BY <1>15 DEF Close, Outcome, env, Working
<1>16. CASE Commit
  BY <1>16 DEF Commit, env, Working
<1>17. CASE Count
  BY <1>17 DEF Count, env, Working
<1>. QED
  BY <1>1, <1>2, <1>3, <1>4, <1>5, <1>6, <1>7, <1>8, <1>9, <1>10, <1>11, <1>12,
    <1>13, <1>14, <1>15, <1>16, <1>17 DEF Next, Operator, Surroundings, TickStep

\* The cockpit, the queues, the archives, the ledger and the tick have their types
\* in every reachable state.
THEOREM Typing == Spec => []TypeOK
<1>1. TypeOK /\ [Next]_vars => TypeOK'
  BY TickType, RestType DEF TypeOK
<1>. QED
  BY <1>1, InitType, PTL DEF Spec

-----------------------------------------------------------------------------
(* What the ledger, the archive and the cards say is true. *)

\* The inductive invariant: the three claims of GateDecision, and what the worker
\* carries from the external action to the commit.
DecisionInv ==
  /\ TypeOK
  /\ ArchivedWasExecuted
  /\ CardFollowsArchive
  /\ LedgerIsEarned
  /\ WorkerKnows

LEMMA InitDecision == Init => DecisionInv
<1>1. Init => TypeOK
  BY InitType
<1>. QED
  BY <1>1 DEF Init, DecisionInv, ArchivedWasExecuted, CardFollowsArchive,
      LedgerIsEarned,
     WorkerKnows, Days

LEMMA NextType == TypeOK /\ [Next]_vars => TypeOK'
BY TickType, RestType DEF TypeOK

LEMMA NextWorker == DecisionInv /\ [Next]_vars => WorkerKnows'
<1>. SUFFICES ASSUME DecisionInv, [Next]_vars PROVE WorkerKnows'
  OBVIOUS
<1>. USE DEF DecisionInv, TypeOK, TickOK, RestOK, WorkerKnows, Working
<1>1. CASE \/ \E g \in Gates, v \in Verdicts : DecideCheck(g, v) \/ DecideWrite(g, v)
           \/ \E g \in Gates : Undo(g) \/ Hold(g) \/ Lift(g)
           \/ Midnight
           \/ UNCHANGED vars
  BY <1>1 DEF DecideCheck, DecideWrite, Undo, Midnight, Hold, Lift, vars, env,
    files, tick
<1>2. ASSUME NEW g \in Gates, ByHand(g)
      PROVE  WorkerKnows'
  BY <1>2, GateAssumption DEF ByHand, tick, Write
<1>3. CASE Fault
  BY <1>3 DEF Fault, Fails, Forget, Goto
<1>4. CASE Crash
  BY <1>4 DEF Crash, Forget, Goto
<1>5. CASE Prepare
  BY <1>5 DEF Prepare, Goto
<1>6. ASSUME NEW g \in Gates, Select(g)
      PROVE  WorkerKnows'
  BY <1>6 DEF Select, Goto
<1>7. CASE Heartbeat
  BY <1>7 DEF Heartbeat, Forget, Goto
<1>8. CASE Blocked
  BY <1>8 DEF Blocked, Forget, Goto
<1>9. CASE Deferred
  BY <1>9 DEF Deferred, Goto
<1>10. CASE Read
  BY <1>10 DEF Read, Goto
<1>11. CASE Missing
  BY <1>11 DEF Missing, Fails, Forget, Goto, Archived, env, files
<1>12. CASE Execute
  <2>1. /\ trig \in Gates
        /\ executed[trig] \in 0 .. MaxRuns
        /\ MaxRuns \in Nat \ {0}
    <3>1. MaxRuns \in Nat \ {0}
      BY GateAssumption DEF MaxRuns
    <3>. QED
      BY <1>12, <3>1 DEF Execute
  <2>2. executed'[trig] > 0
    BY <1>12, <2>1 DEF Execute
  <2>. QED
    BY <1>12, <2>2 DEF Execute, Goto
<1>13. CASE Abandon
  BY <1>13 DEF Abandon, Fails, Forget, Goto
<1>14. CASE Archive
  BY <1>14 DEF Archive, Fails, Forget, Goto, Archived, files
<1>15. CASE Stamp
  BY <1>15 DEF Stamp, Goto
<1>16. CASE Move
  BY <1>16, GateAssumption DEF Move, Fails, Forget, Goto, Active
<1>17. CASE Close
  BY <1>17 DEF Close, Goto, ArchivedWasExecuted
<1>18. CASE Validate
  BY <1>18 DEF Validate, Goto, files
<1>19. CASE Commit
  BY <1>19 DEF Commit, Forget, Goto
<1>20. CASE Count
  BY <1>20 DEF Count, Forget, Goto
<1>. QED
  BY <1>1, <1>2, <1>3, <1>4, <1>5, <1>6, <1>7, <1>8, <1>9, <1>10, <1>11, <1>12,
    <1>13, <1>14, <1>15, <1>16, <1>17, <1>18, <1>19, <1>20 DEF Next, Operator,
    Surroundings, TickStep

LEMMA NextArchived == DecisionInv /\ [Next]_vars => ArchivedWasExecuted'
<1>. SUFFICES ASSUME DecisionInv, [Next]_vars PROVE ArchivedWasExecuted'
  OBVIOUS
<1>. USE DEF DecisionInv, TypeOK, TickOK, RestOK, ArchivedWasExecuted
<1>1. CASE \/ \E g \in Gates, v \in Verdicts : DecideCheck(g, v) \/ DecideWrite(g, v)
           \/ \E g \in Gates : Undo(g) \/ Hold(g) \/ Lift(g) \/ Select(g)
           \/ Midnight \/ Fault \/ Crash \/ Prepare \/ Heartbeat \/ Blocked
           \/ Deferred \/ Read \/ Missing \/ Abandon \/ Archive \/ Stamp
           \/ Close \/ Validate \/ Commit \/ Count
           \/ UNCHANGED vars
  BY <1>1 DEF DecideCheck, DecideWrite, Undo, Midnight, Hold, Lift, Fault, Crash,
    Prepare, Select, Heartbeat, Blocked, Deferred, Read, Missing, Abandon, Archive,
    Stamp, Close, Validate, Commit, Count, vars, env, files
<1>2. ASSUME NEW g \in Gates, ByHand(g)
      PROVE  ArchivedWasExecuted'
  BY <1>2 DEF ByHand
<1>3. CASE Execute
  BY <1>3, GateAssumption DEF Execute, Working, env, files, MaxRuns
<1>4. CASE Move
  BY <1>4 DEF Move, WorkerKnows, Working
<1>. QED
  BY <1>1, <1>2, <1>3, <1>4 DEF Next, Operator, Surroundings, TickStep

LEMMA NextCard == DecisionInv /\ [Next]_vars => CardFollowsArchive'
<1>. SUFFICES ASSUME DecisionInv, [Next]_vars PROVE CardFollowsArchive'
  OBVIOUS
<1>. USE DEF DecisionInv, TypeOK, TickOK, RestOK, CardFollowsArchive
<1>1. CASE \/ \E g \in Gates, v \in Verdicts : DecideCheck(g, v) \/ DecideWrite(g, v)
           \/ \E g \in Gates : Undo(g) \/ Hold(g) \/ Lift(g) \/ Select(g)
           \/ Midnight \/ Fault \/ Crash \/ Heartbeat \/ Blocked \/ Deferred
           \/ Read \/ Missing \/ Execute \/ Archive \/ Stamp \/ Validate
           \/ Commit \/ Count
           \/ UNCHANGED vars
  BY <1>1 DEF DecideCheck, DecideWrite, Undo, Midnight, Hold, Lift, Fault, Crash,
    Select, Heartbeat, Blocked, Deferred, Read, Missing, Execute, Archive, Stamp,
    Validate, Commit, Count, vars, env, files
<1>2. ASSUME NEW g \in Gates, ByHand(g)
      PROVE  CardFollowsArchive'
  BY <1>2, GateAssumption DEF ByHand
<1>3. CASE Prepare
  BY <1>3 DEF Prepare, Reconciled
<1>4. CASE Abandon
  BY <1>4 DEF Abandon
<1>5. CASE Move
  BY <1>5 DEF Move, Active, Working
<1>6. CASE Close
  BY <1>6 DEF Close, Outcome, WorkerKnows, Working
<1>. QED
  BY <1>1, <1>2, <1>3, <1>4, <1>5, <1>6 DEF Next, Operator, Surroundings, TickStep

LEMMA NextLedger == DecisionInv /\ [Next]_vars => LedgerIsEarned'
<1>. SUFFICES ASSUME DecisionInv, [Next]_vars PROVE LedgerIsEarned'
  OBVIOUS
<1>. USE DEF DecisionInv, TypeOK, TickOK, RestOK, LedgerIsEarned
<1>1. CASE \/ \E g \in Gates, v \in Verdicts : DecideCheck(g, v) \/ DecideWrite(g, v)
           \/ \E g \in Gates : Undo(g) \/ Hold(g) \/ Lift(g) \/ Select(g)
           \/ Midnight \/ Fault \/ Crash \/ Prepare \/ Heartbeat \/ Blocked
           \/ Deferred \/ Read \/ Missing \/ Archive \/ Stamp \/ Move \/ Close
           \/ Validate \/ Count
           \/ UNCHANGED vars
  BY <1>1 DEF DecideCheck, DecideWrite, Undo, Midnight, Hold, Lift, Fault, Crash,
    Prepare, Select, Heartbeat, Blocked, Deferred, Read, Missing, Archive, Stamp,
    Move, Close, Validate, Count, vars, env, files
<1>2. ASSUME NEW g \in Gates, ByHand(g)
      PROVE  LedgerIsEarned'
  BY <1>2 DEF ByHand
<1>3. CASE Execute
  BY <1>3, GateAssumption DEF Execute, Working, env, files, MaxRuns
<1>4. CASE Abandon
  BY <1>4 DEF Abandon
<1>5. CASE Commit
  <2>1. executed[trig] > 0 \/ trig \in abandoned \/ trig \in Manual
    BY <1>5 DEF Commit, WorkerKnows
  <2>2. ASSUME NEW d \in Days, NEW g \in ledger'[d]
        PROVE  g \in ledger[d] \/ g = trig
    BY <1>5, <2>2 DEF Commit
  <2>. QED
    BY <1>5, <2>1, <2>2 DEF Commit
<1>. QED
  BY <1>1, <1>2, <1>3, <1>4, <1>5 DEF Next, Operator, Surroundings, TickStep

LEMMA DecisionInvariant == Spec => []DecisionInv
<1>1. DecisionInv /\ [Next]_vars => DecisionInv'
  BY NextType, NextWorker, NextArchived, NextCard, NextLedger DEF DecisionInv
<1>. QED
  BY <1>1, InitDecision, PTL DEF Spec

\* Whatever the operator does and when, and whatever crashes or fails: a trigger is
\* committed to the ledger of a day only after it was executed, abandoned, or
\* deferred to a person.
THEOREM LedgerTruth == Spec => []LedgerIsEarned
BY DecisionInvariant, PTL DEF DecisionInv

\* A decision below .processed was executed.
THEOREM ArchiveTruth == Spec => []ArchivedWasExecuted
BY DecisionInvariant, PTL DEF DecisionInv

\* A card filed as published or abandoned belongs to a decision that is archived as
\* such, whoever filed it.
THEOREM CardTruth == Spec => []CardFollowsArchive
BY DecisionInvariant, PTL DEF DecisionInv

-----------------------------------------------------------------------------
(* The archive is final. *)

LEMMA ArchiveStep ==
  DecisionInv /\ [Next]_vars =>
    \A g \in Gates : processed[g] # NoVerdict => processed'[g] = processed[g]
<1>. SUFFICES ASSUME DecisionInv, [Next]_vars, NEW k \in Gates, processed[k] # NoVerdict
              PROVE  processed'[k] = processed[k]
  OBVIOUS
<1>1. CASE \/ \E g \in Gates, v \in Verdicts : DecideCheck(g, v) \/ DecideWrite(g, v)
           \/ \E g \in Gates : Undo(g) \/ Hold(g) \/ Lift(g) \/ Select(g)
           \/ Midnight \/ Fault \/ Crash \/ Prepare \/ Heartbeat \/ Blocked
           \/ Deferred \/ Read \/ Missing \/ Execute \/ Abandon \/ Archive
           \/ Stamp \/ Close \/ Validate \/ Commit \/ Count
           \/ UNCHANGED vars
  BY <1>1 DEF DecideCheck, DecideWrite, Undo, Midnight, Hold, Lift, Fault, Crash,
    Prepare, Select, Heartbeat, Blocked, Deferred, Read, Missing, Execute, Abandon,
    Archive, Stamp, Close, Validate, Commit, Count, vars, env, files
<1>2. ASSUME NEW g \in Gates, ByHand(g)
      PROVE  processed'[k] = processed[k]
  BY <1>2 DEF ByHand, DecisionInv, TypeOK, TickOK, RestOK, ArchivedWasExecuted
<1>3. CASE Move
  BY <1>3 DEF Move, Archived, DecisionInv, TypeOK, TickOK, RestOK
<1>. QED
  BY <1>1, <1>2, <1>3 DEF Next, Operator, Surroundings, TickStep

\* Once a decision is archived no second decision, retry or crash replaces it.
THEOREM ArchiveFinal == Spec => ArchiveIsFinal
<1>1. DecisionInv /\ [Next]_vars =>
        [\A g \in Gates : processed[g] # NoVerdict => processed'[g] = processed[g]]_vars
  BY ArchiveStep
<1>. QED
  BY <1>1, DecisionInvariant, PTL DEF Spec, ArchiveIsFinal

-----------------------------------------------------------------------------
(* The rounds of a day count its commits. *)

\* 1 between the two writes of commit_dispatch for day d.
Uncounted(d) == IF pc = "count" /\ at = d THEN 1 ELSE 0

\* The inductive form of RoundsCountCommits.
RoundsInv ==
  \A d \in Days :
    /\ rounds[d] + Uncounted(d) <= Cardinality(ledger[d])
    /\ Cardinality(ledger[d]) <= rounds[d] + Uncounted(d) + crashes

LEMMA RoundsFrame ==
  TypeOK /\ [Next]_vars =>
    \/ Commit \/ Count \/ Crash
    \/ /\ UNCHANGED <<ledger, rounds, crashes>>
       /\ (pc # "count" /\ pc' # "count") \/ UNCHANGED <<pc, at>>
<1>. DEFINE Same == /\ UNCHANGED <<ledger, rounds, crashes>>
                    /\ (pc # "count" /\ pc' # "count") \/ UNCHANGED <<pc, at>>
<1>. SUFFICES ASSUME TypeOK, [Next]_vars PROVE Commit \/ Count \/ Crash \/ Same
  OBVIOUS
<1>1. CASE \/ \E g \in Gates, v \in Verdicts : DecideCheck(g, v) \/ DecideWrite(g, v)
           \/ \E g \in Gates : Undo(g) \/ ByHand(g) \/ Hold(g) \/ Lift(g) \/ Select(g)
           \/ Midnight \/ Fault \/ Prepare \/ Heartbeat \/ Blocked \/ Deferred
           \/ Read \/ Missing \/ Execute \/ Abandon \/ Archive \/ Stamp
           \/ Move \/ Close \/ Validate
           \/ UNCHANGED vars
  BY <1>1 DEF DecideCheck, DecideWrite, Undo, ByHand, Midnight, Hold, Lift, Fault,
    Prepare, Select, Heartbeat, Blocked, Deferred, Read, Missing, Execute, Abandon,
    Archive, Stamp, Move, Close, Validate, Fails, Forget, Goto, vars, Working, env,
    files, tick
<1>2. CASE Crash
  BY <1>2
<1>3. CASE Commit
  BY <1>3
<1>4. CASE Count
  BY <1>4
<1>. QED
  BY <1>1, <1>2, <1>3, <1>4 DEF Next, Operator, Surroundings, TickStep

LEMMA NextRounds == TypeOK /\ RoundsInv /\ [Next]_vars => RoundsInv'
<1>. SUFFICES ASSUME TypeOK, RoundsInv, [Next]_vars, NEW d \in Days PROVE RoundsInv!(d)'
  BY DEF RoundsInv
<1>1. /\ IsFiniteSet(ledger[d])
      /\ Cardinality(ledger[d]) \in Nat
      /\ rounds[d] \in Nat /\ crashes \in Nat /\ at \in Days
  <2>1. ledger[d] \subseteq Gates
    BY DEF TypeOK, TickOK, RestOK
  <2>. QED
    BY <2>1, GateAssumption, FS_Subset, FS_CardinalityType DEF TypeOK, TickOK, RestOK
<1>2. /\ rounds[d] + Uncounted(d) <= Cardinality(ledger[d])
      /\ Cardinality(ledger[d]) <= rounds[d] + Uncounted(d) + crashes
  BY DEF RoundsInv
<1>3. CASE Commit
  <2>1. CASE trig \in ledger[at]
    BY <1>2, <1>3, <2>1 DEF Commit, Forget, Goto, Uncounted, env
  <2>2. CASE trig \notin ledger[at] /\ at # d
    BY <1>1, <1>2, <1>3, <2>2 DEF Commit, Goto, Uncounted, env, TypeOK, TickOK, RestOK
  <2>3. CASE trig \notin ledger[at] /\ at = d
    <3>1. ledger'[d] = ledger[d] \cup {trig}
      BY <1>1, <1>3, <2>3 DEF Commit, TypeOK, TickOK, RestOK
    <3>2. Cardinality(ledger'[d]) = Cardinality(ledger[d]) + 1
      BY <1>1, <2>3, <3>1, FS_AddElement
    <3>. QED
      BY <1>1, <1>2, <1>3, <2>3, <3>2 DEF Commit, Goto, Uncounted, env
  <2>. QED
    BY <2>1, <2>2, <2>3
<1>4. CASE Count
  <2>1. rounds'[d] = rounds[d] + Uncounted(d) /\ Uncounted(d)' = 0
    BY <1>1, <1>4 DEF Count, Forget, Goto, Uncounted, TypeOK, TickOK, RestOK
  <2>. QED
    BY <1>1, <1>2, <1>4, <2>1 DEF Count, env
<1>5. CASE Crash
  <2>1. Uncounted(d) \in {0, 1} /\ Uncounted(d)' = 0
    BY <1>5 DEF Crash, Forget, Goto, Uncounted
  <2>. QED
    BY <1>1, <1>2, <1>5, <2>1 DEF Crash, files
<1>6. CASE /\ UNCHANGED <<ledger, rounds, crashes>>
           /\ (pc # "count" /\ pc' # "count") \/ UNCHANGED <<pc, at>>
  BY <1>2, <1>6 DEF Uncounted
<1>. QED
  BY <1>3, <1>4, <1>5, <1>6, RoundsFrame

\* Layer 3's round counter of a day equals the number of triggers committed that
\* day, less at most one for each tick that died between the two writes.
THEOREM RoundsTruth == Spec => []RoundsCountCommits
<1>1. Init => RoundsInv
  BY FS_EmptySet, GateAssumption DEF Init, RoundsInv, Uncounted, Days
<1>2. TypeOK /\ RoundsInv => RoundsCountCommits
  <2>. SUFFICES ASSUME TypeOK, RoundsInv, NEW d \in Days
                PROVE  RoundsCountCommits!(d)
    BY DEF RoundsCountCommits
  <2>1. ledger[d] \subseteq Gates /\ rounds[d] \in Nat /\ crashes \in Nat
    BY GateAssumption DEF TypeOK, TickOK, RestOK
  <2>2. Cardinality(ledger[d]) \in Nat
    BY <2>1, GateAssumption, FS_Subset, FS_CardinalityType
  <2>. QED
    BY <2>1, <2>2 DEF RoundsInv, Uncounted
<1>. QED
  BY <1>1, <1>2, NextRounds, Typing, PTL DEF Spec

-----------------------------------------------------------------------------
(* While the operator leaves alone what is being executed. *)

LEMMA NextStays ==
  ASSUME Late = FALSE
  PROVE  DecisionInv /\ DecisionStays /\ [Next]_vars => DecisionStays'
<1>. SUFFICES ASSUME DecisionInv, DecisionStays, [Next]_vars PROVE DecisionStays'
  OBVIOUS
<1>. USE GateAssumption DEF DecisionInv, TypeOK, TickOK, RestOK, DecisionStays,
    Working, Active
<1>1. CASE \/ \E g \in Gates, v \in Verdicts : DecideCheck(g, v)
           \/ \E g \in Gates : Hold(g) \/ Lift(g) \/ Select(g)
           \/ Midnight \/ Crash \/ Prepare \/ Heartbeat \/ Blocked \/ Deferred
           \/ Read \/ Execute \/ Close \/ Validate \/ Commit \/ Count
           \/ UNCHANGED vars
  BY <1>1 DEF DecideCheck, Midnight, Hold, Lift, Crash, Prepare, Select, Heartbeat,
    Blocked, Deferred, Read, Execute, Close, Validate, Commit, Count, Forget, Goto,
    vars, env, files, tick
<1>2. ASSUME NEW g \in Gates, NEW v \in Verdicts, DecideWrite(g, v)
      PROVE  DecisionStays'
  BY <1>2 DEF DecideWrite, Write, LeftToOperator, tick, ArchivedWasExecuted
<1>3. ASSUME NEW g \in Gates, Undo(g)
      PROVE  DecisionStays'
  BY <1>3 DEF Undo, Write, LeftToOperator, tick
<1>4. ASSUME NEW g \in Gates, ByHand(g)
      PROVE  DecisionStays'
  BY <1>4 DEF ByHand, Write, tick
<1>5. CASE Fault
  BY <1>5 DEF Fault, Fails, Forget, Goto, files
<1>6. CASE Missing
  BY <1>6 DEF Missing, Fails, Forget, Goto, files
<1>7. CASE Abandon
  BY <1>7 DEF Abandon, Fails, Forget, Goto, Write
<1>8. CASE Archive
  BY <1>8 DEF Archive, Fails, Forget, Goto, Archived, files
<1>9. CASE Stamp
  BY <1>9 DEF Stamp, Goto, Write
<1>10. CASE Move
  BY <1>10 DEF Move, Fails, Forget, Goto, Write, Archived
<1>. QED
  BY <1>1, <1>2, <1>3, <1>4, <1>5, <1>6, <1>7, <1>8, <1>9, <1>10 DEF Next, Operator,
    Surroundings, TickStep

LEMMA NextRuns ==
  DecisionInv /\ DecisionStays /\ RunsArePaid /\ [Next]_vars => RunsArePaid'
<1>. SUFFICES ASSUME DecisionInv, DecisionStays, RunsArePaid, [Next]_vars,
                     NEW k \in Gates
              PROVE  RunsArePaid!(k)'
  BY DEF RunsArePaid
<1>1. RunsArePaid!(k)
  BY DEF RunsArePaid
<1>2. executed[k] \in Nat /\ crashes \in Nat /\ faults \in Nat
  BY GateAssumption DEF DecisionInv, TypeOK, TickOK, RestOK, MaxRuns
<1>3. CASE \/ \E g \in Gates, v \in Verdicts : DecideCheck(g, v) \/ DecideWrite(g, v)
           \/ \E g \in Gates : Undo(g) \/ Hold(g) \/ Lift(g) \/ Select(g)
           \/ Midnight \/ Prepare \/ Heartbeat \/ Blocked \/ Deferred \/ Read
           \/ Stamp \/ Close \/ Validate \/ Commit \/ Count
           \/ UNCHANGED vars
  BY <1>3, <1>1, <1>2 DEF DecideCheck, DecideWrite, Undo, Midnight, Hold, Lift,
    Prepare, Select, Heartbeat, Blocked, Deferred, Read, Stamp, Close, Validate,
    Commit, Count, Goto, Forget, vars, env, files, tick
<1>4. ASSUME NEW g \in Gates, ByHand(g)
      PROVE  RunsArePaid!(k)'
  <2>1. CASE k = g
    <3>1. executed'[k] = 1 /\ processed'[k] = "approve"
      BY <1>4, <2>1 DEF ByHand, DecisionInv, TypeOK, TickOK, RestOK
    <3>. QED
      BY <1>4, <1>2, <3>1, GateAssumption DEF ByHand, env
  <2>2. CASE k # g
    <3>1. executed'[k] = executed[k] /\ processed'[k] = processed[k]
      BY <1>4, <2>2 DEF ByHand, DecisionInv, TypeOK, TickOK, RestOK
    <3>. QED
      BY <1>4, <1>1, <3>1 DEF ByHand, env, tick
  <2>. QED
    BY <2>1, <2>2
<1>5. CASE Fault
  BY <1>5, <1>1, <1>2 DEF Fault, Fails, Forget, Goto, files
<1>6. CASE Crash
  BY <1>6, <1>1, <1>2 DEF Crash, Forget, Goto, files
<1>7. CASE Missing
  BY <1>7, <1>1, <1>2 DEF Missing, Fails, Forget, Goto, env, files
<1>8. CASE Execute
  BY <1>8, <1>1, <1>2 DEF Execute, Goto, DecisionInv, TypeOK, TickOK, RestOK,
    DecisionStays, Active, Working, env, files
<1>9. CASE Abandon
  BY <1>9, <1>1, <1>2 DEF Abandon, Fails, Forget, Goto, env
<1>10. CASE Archive
  BY <1>10, <1>1, <1>2 DEF Archive, Goto, DecisionInv, TypeOK, TickOK, RestOK,
    DecisionStays, Archived, Active, env, files, Working
<1>11. CASE Move
  BY <1>11, <1>1, <1>2 DEF Move, Goto, DecisionInv, TypeOK, TickOK, RestOK,
    DecisionStays, Archived, Active, env, Working
<1>. QED
  BY <1>3, <1>4, <1>5, <1>6, <1>7, <1>8, <1>9, <1>10, <1>11 DEF Next, Operator,
    Surroundings, TickStep

\* The invariant of the runs in which the operator keeps off what is being executed.
AloneInv == DecisionInv /\ DecisionStays /\ RunsArePaid

LEMMA AloneInvariant ==
  ASSUME Late = FALSE
  PROVE  Spec => []AloneInv
<1>1. Init => AloneInv
  <2>1. Init => DecisionStays /\ RunsArePaid
    BY DEF Init, DecisionStays, RunsArePaid, Active
  <2>. QED
    BY <2>1, InitDecision DEF AloneInv
<1>2. DecisionInv /\ [Next]_vars => DecisionInv'
  BY NextType, NextWorker, NextArchived, NextCard, NextLedger DEF DecisionInv
<1>3. AloneInv /\ [Next]_vars => AloneInv'
  BY <1>2, NextStays, NextRuns DEF AloneInv
<1>. QED
  BY <1>1, <1>3, PTL DEF Spec

\* When the operator keeps off a gate that is being executed, its decision is executed
\* at most once, and once more for each worker or tick that died.
THEOREM OnceButForCrashes ==
  ASSUME Late = FALSE
  PROVE  Spec => []ExecutedOnce
<1>1. AloneInv => ExecutedOnce
  <2>. SUFFICES ASSUME AloneInv, NEW g \in Gates
                PROVE  executed[g] <= 1 + crashes + faults
    BY DEF ExecutedOnce
  <2>1. executed[g] \in Nat /\ crashes \in Nat /\ faults \in Nat
    BY GateAssumption DEF AloneInv, DecisionInv, TypeOK, TickOK, RestOK, MaxRuns
  <2>. QED
    BY <2>1 DEF AloneInv, RunsArePaid
<1>. QED
  BY <1>1, AloneInvariant, PTL

-----------------------------------------------------------------------------
(* Refinement. *)

\* Steps that change no decision and no archive are not seen by the contract.
LEMMA Unseen ==
  UNCHANGED <<decision, processed, abandoned>> =>
    UNCHANGED <<StandingVerdict, SettledAs>>
BY DEF StandingVerdict, SettledAs

\* A verdict written or deleted on a gate that is not settled.
LEMMA RuleStep ==
  ASSUME TypeOK, NEW g \in Gates, NEW v \in Verdicts \cup {NoVerdict},
         processed[g] = NoVerdict, g \notin abandoned,
         Write(g, v), UNCHANGED <<processed, abandoned>>
  PROVE  Contract!Rule(g, v)
<1>1. StandingVerdict' = [StandingVerdict EXCEPT ![g] = v]
  BY DEF StandingVerdict, Write, TypeOK, TickOK, RestOK
<1>2. SettledAs[g] = "open" /\ SettledAs' = SettledAs
  BY DEF SettledAs
<1>. QED
  BY <1>1, <1>2 DEF Contract!Rule

\* An active approval that is archived.
LEMMA PublishStep ==
  ASSUME TypeOK, NEW g \in Gates, decision[g] = "approve",
         processed[g] = NoVerdict, g \notin abandoned,
         processed' = [processed EXCEPT ![g] = decision[g]],
         Write(g, NoVerdict), UNCHANGED abandoned
  PROVE  Contract!Settle(g)
<1>1. StandingVerdict' = StandingVerdict /\ StandingVerdict[g] = "approve"
  BY GateAssumption DEF StandingVerdict, Write, TypeOK, TickOK, RestOK
<1>2. SettledAs[g] = "open" /\ SettledAs' = [SettledAs EXCEPT ![g] = "published"]
  BY GateAssumption DEF SettledAs, TypeOK, TickOK, RestOK
<1>. QED
  BY <1>1, <1>2 DEF Contract!Settle

\* An active rejection that is moved to .abandoned.
LEMMA AbandonStep ==
  ASSUME TypeOK, NEW g \in Gates, decision[g] = "reject",
         processed[g] = NoVerdict, g \notin abandoned,
         abandoned' = abandoned \cup {g},
         Write(g, NoVerdict), UNCHANGED processed
  PROVE  Contract!Settle(g)
<1>1. StandingVerdict' = StandingVerdict /\ StandingVerdict[g] = "reject"
  BY GateAssumption DEF StandingVerdict, Write, TypeOK, TickOK, RestOK
<1>2. SettledAs[g] = "open" /\ SettledAs' = [SettledAs EXCEPT ![g] = "abandoned"]
  BY GateAssumption DEF SettledAs, TypeOK, TickOK, RestOK
<1>. QED
  BY <1>1, <1>2 DEF Contract!Settle

LEMMA ContractStep ==
  ASSUME Late = FALSE, AloneInv, [Next]_vars
  PROVE  \/ \E g \in Gates :
              \/ \E v \in Verdicts \cup {NoVerdict} : Contract!Rule(g, v)
              \/ Contract!Settle(g)
         \/ UNCHANGED <<StandingVerdict, SettledAs>>
<1>. DEFINE Seen == \/ \E g \in Gates :
                         \/ \E v \in Verdicts \cup {NoVerdict} : Contract!Rule(g, v)
                         \/ Contract!Settle(g)
                    \/ UNCHANGED <<StandingVerdict, SettledAs>>
<1>. SUFFICES Seen
  OBVIOUS
<1>1. TypeOK /\ DecisionInv /\ DecisionStays
  BY DEF AloneInv, DecisionInv
<1>. HIDE DEF Seen
<1>2. CASE \/ \E g \in Gates, v \in Verdicts : DecideCheck(g, v)
           \/ \E g \in Gates : Hold(g) \/ Lift(g) \/ Select(g)
           \/ Midnight \/ Fault \/ Crash \/ Prepare \/ Heartbeat \/ Blocked
           \/ Deferred \/ Read \/ Missing \/ Execute \/ Archive \/ Close
           \/ Validate \/ Commit \/ Count
           \/ UNCHANGED vars
  BY <1>2, Unseen DEF DecideCheck, Midnight, Hold, Lift, Fault, Crash, Prepare,
    Select, Heartbeat, Blocked, Deferred, Read, Missing, Execute, Archive, Close,
    Validate, Commit, Count, vars, env, files, Seen
<1>3. ASSUME NEW g \in Gates, NEW v \in Verdicts, DecideWrite(g, v)
      PROVE  Seen
  <2>1. processed[g] = NoVerdict /\ g \notin abandoned
    BY <1>3, <1>1, GateAssumption
       DEF DecideWrite, LeftToOperator, DecisionInv, ArchivedWasExecuted, TypeOK,
           TickOK, RestOK
  <2>. QED
    BY <1>3, <1>1, <2>1, RuleStep DEF DecideWrite, Seen
<1>4. ASSUME NEW g \in Gates, Undo(g)
      PROVE  Seen
  <2>1. processed[g] = NoVerdict /\ g \notin abandoned
    BY <1>4, <1>1 DEF Undo, DecisionStays
  <2>. QED
    BY <1>4, <1>1, <2>1, RuleStep DEF Undo, Seen
<1>5. ASSUME NEW g \in Gates, ByHand(g)
      PROVE  Seen
  <2>1. processed[g] = NoVerdict /\ g \notin abandoned
    BY <1>5, <1>1, GateAssumption DEF ByHand, DecisionStays, Active
  <2>. QED
    BY <1>5, <1>1, <2>1, PublishStep DEF ByHand, Seen
<1>6. CASE Abandon
  <2>1. CASE Active(trig)
    <3>1. /\ trig \in Gates /\ decision[trig] = "reject"
          /\ processed[trig] = NoVerdict /\ trig \notin abandoned
      BY <1>6, <1>1, <2>1 DEF Abandon, DecisionStays, TypeOK, TickOK, RestOK, Working
    <3>. QED
      BY <1>6, <1>1, <2>1, <3>1, AbandonStep DEF Abandon, Seen
  <2>2. CASE ~Active(trig)
    BY <1>6, <2>2, Unseen DEF Abandon, Seen
  <2>. QED
    BY <2>1, <2>2
<1>7. CASE Stamp
  <2>1. trig \in Gates /\ decision[trig] = mem
    BY <1>7, <1>1 DEF Stamp, DecisionStays, TypeOK, TickOK, RestOK, Working
  <2>2. decision' = decision
    BY <1>7, <1>1, <2>1 DEF Stamp, Write, TypeOK, TickOK, RestOK
  <2>. QED
    BY <1>7, <2>2, Unseen DEF Stamp, Seen
<1>8. CASE Move
  <2>1. CASE Active(trig) /\ ~Archived(trig)
    <3>1. /\ trig \in Gates /\ decision[trig] = "approve"
          /\ processed[trig] = NoVerdict /\ trig \notin abandoned
      BY <1>8, <1>1, <2>1
         DEF Move, DecisionStays, DecisionInv, WorkerKnows, TypeOK, TickOK, RestOK,
             Working
    <3>. QED
      BY <1>8, <1>1, <2>1, <3>1, PublishStep DEF Move, Seen
  <2>2. CASE ~(Active(trig) /\ ~Archived(trig))
    BY <1>8, <2>2, Unseen DEF Move, Seen
  <2>. QED
    BY <2>1, <2>2
<1>. QED
  BY <1>2, <1>3, <1>4, <1>5, <1>6, <1>7, <1>8 DEF Next, Operator, Surroundings,
    TickStep

\* When the operator keeps off a gate that is being executed: ticks, workers, retries,
\* crashes and a person's own executions never show the operator anything but the
\* contract's steps; each gate is settled once, by the verdict that stood.
THEOREM Implements ==
  ASSUME Late = FALSE
  PROVE  Spec => ImplementsContract
<1>1. Init => Contract!ContractInit
  BY DEF Init, Contract!ContractInit, StandingVerdict, SettledAs
<1>2. AloneInv /\ [Next]_vars => [Contract!ContractNext]_(Contract!contractVars)
  <2>. SUFFICES ASSUME AloneInv, [Next]_vars
                PROVE  Contract!ContractNext \/ UNCHANGED Contract!contractVars
    OBVIOUS
  <2>. QED
    BY ContractStep
       DEF Contract!ContractNext, Contract!contractVars, Contract!Verdicts, Verdicts
<1>. QED
  BY <1>1, <1>2, AloneInvariant, PTL
     DEF Spec, ImplementsContract, Contract!ContractSpec

\* What the operator can count on: a gate is settled as the verdict said that stood
\* at that moment, and neither its outcome nor its verdict changes after that.
THEOREM SettledOnce ==
  ASSUME Late = FALSE
  PROVE  Spec => []Contract!SettledByVerdict /\ Contract!SettledForGood
<1>1. Contract!ContractInit => Contract!SettledByVerdict
  BY DEF Contract!ContractInit, Contract!SettledByVerdict
<1>2. ASSUME NEW g \in Gates, Contract!ContractNext, SettledAs[g] # "open"
      PROVE  SettledAs'[g] = SettledAs[g] /\ StandingVerdict'[g] = StandingVerdict[g]
  <2>1. DOMAIN SettledAs = Gates /\ DOMAIN StandingVerdict = Gates
    BY DEF SettledAs, StandingVerdict
  <2>. QED
    BY <1>2, <2>1 DEF Contract!ContractNext, Contract!Rule, Contract!Settle
<1>3. Contract!SettledByVerdict /\ [Contract!ContractNext]_(Contract!contractVars)
        => Contract!SettledByVerdict'
  <2>. SUFFICES ASSUME Contract!SettledByVerdict, Contract!ContractNext, NEW g \in Gates
                PROVE  /\ SettledAs'[g] = "published" => StandingVerdict'[g] = "approve"
                       /\ SettledAs'[g] = "abandoned" => StandingVerdict'[g] = "reject"
    BY DEF Contract!SettledByVerdict, Contract!contractVars
  <2>1. DOMAIN SettledAs = Gates
    BY DEF SettledAs
  <2>2. CASE SettledAs[g] # "open"
    BY <1>2, <2>2 DEF Contract!SettledByVerdict
  <2>3. CASE SettledAs[g] = "open"
    <3>1. PICK h \in Gates : \/ SettledAs' = SettledAs
                             \/ Contract!Settle(h)
      BY DEF Contract!ContractNext, Contract!Rule
    <3>. QED
      BY <2>1, <2>3, <3>1 DEF Contract!Settle
  <2>. QED
    BY <2>2, <2>3
<1>4. [Contract!ContractNext]_(Contract!contractVars) =>
        [\A g \in Gates : SettledAs[g] # "open" =>
           SettledAs'[g] = SettledAs[g] /\ StandingVerdict'[g] = StandingVerdict[g]
        ]_(Contract!contractVars)
  BY <1>2
<1>. QED
  BY <1>1, <1>3, <1>4, Implements, PTL
     DEF ImplementsContract, Contract!ContractSpec, Contract!SettledForGood

\* A decision in the archive is not carried out again by a later tick: it takes a
\* second decision on a gate that is being executed.
THEOREM RerunsNeedALateVerdict ==
  ASSUME Late = FALSE
  PROVE  Spec => ArchivedIsNotRerun
<1>1. ASSUME AloneInv, [Next]_vars
      PROVE  [\A g \in Gates : processed[g] # NoVerdict =>
                executed'[g] = executed[g]]_vars
  <2>. SUFFICES ASSUME Next, NEW g \in Gates, processed[g] # NoVerdict
                PROVE  executed'[g] = executed[g]
    BY <1>1
  <2>1. TypeOK /\ DecisionStays
    BY <1>1 DEF AloneInv, DecisionInv
  <2>2. ASSUME NEW h \in Gates, ByHand(h) PROVE executed'[g] = executed[g]
    BY <2>1, <2>2, GateAssumption DEF ByHand, DecisionStays, Active, TypeOK, TickOK, RestOK
  <2>3. CASE Execute
    <3>1. trig \in Gates /\ Active(trig)
      BY <2>1, <2>3, GateAssumption
         DEF Execute, DecisionStays, TypeOK, TickOK, RestOK, Active, Working
    <3>. QED
      BY <2>1, <2>3, <3>1 DEF Execute, DecisionStays, TypeOK, TickOK, RestOK
  <2>4. CASE ~Execute /\ ~ \E h \in Gates : ByHand(h)
    BY <2>4 DEF Next, Operator, Surroundings, TickStep, DecideCheck, DecideWrite, Undo,
      Midnight, Hold, Lift, Fault, Crash, Prepare, Select, Heartbeat, Blocked, Deferred,
      Read, Missing, Archive, Stamp, Move, Close, Validate, Commit, Count, Abandon,
      vars, env, files
  <2>. QED
    BY <2>2, <2>3, <2>4
<1>. QED
  BY <1>1, AloneInvariant, PTL DEF Spec, ArchivedIsNotRerun
=============================================================================
