-------------------------- MODULE DueDispatchProofs --------------------------
(***************************************************************************)
(* Proofs about DueDispatch for any missions, agents, lease time, cooldown *)
(* and clock: its type, the consistency of the watermark file, and that it *)
(* implements DueContract.                                                 *)
(***************************************************************************)
EXTENDS DueDispatch, TLAPS

(* What the four writers of the watermark do to a file. *)

LEMMA LeaseType ==
  ASSUME NEW c \in Claims, NEW m \in Missions, NEW t \in Times
  PROVE  NewLease(c, m, t) \in Leases
<1>1. t \in Nat /\ LeaseTime \in Nat
  BY MissionAssumption DEF Times
<1>2. Period(m, t) \in Nat
  BY PeriodAssumption
<1>. QED
  BY <1>1, <1>2 DEF NewLease, Leases

LEMMA ClaimedType ==
  ASSUME NEW file \in Files, NEW lv, NEW c \in Claims, NEW t \in Times
  PROVE  Claimed(file, lv, c, t) \in Files
<1>. SUFFICES ASSUME NEW m \in Missions
              PROVE  Claimed(file, lv, c, t)[m] \in Entry
  BY DEF Claimed, Files
<1>1. NewLease(c, m, t) \in Leases
  BY LeaseType
<1>2. file[m] \in Entry
  BY DEF Files
<1>. QED
  BY <1>1, <1>2 DEF Claimed, Entry

LEMMA ReleasedType ==
  ASSUME NEW file \in Files, NEW S, NEW c
  PROVE  Released(file, S, c) \in Files
BY DEF Released, Files, Entry

LEMMA AckedType ==
  ASSUME NEW file \in Files, NEW m \in Missions, NEW p \in Nat
  PROVE  Acked(file, m, p) \in Files
BY DEF Acked, Files, Entry

-----------------------------------------------------------------------------
(* Types. *)

LEMMA WakeType ==
  ASSUME TypeOK, NEW r \in Agents
  PROVE  Wake(r) \in Wakes /\ ClaimId(r) \in Claims
<1>1. now[r] \in Times /\ plan[r] \subseteq Missions
  BY DEF TypeOK
<1>2. \A m \in plan[r] : Period(m, now[r]) \in Nat
  BY <1>1, PeriodAssumption
<1>. QED
  BY <1>1, <1>2 DEF Wake, Wakes, Jobs, ClaimId, Claims

LEMMA InitType == Init => TypeOK
<1>. SUFFICES ASSUME Init PROVE TypeOK
  OBVIOUS
<1>1. 0 \in Times /\ 1 \in Times
  BY MissionAssumption DEF Times
<1>2. NoEntry \in Entry
  BY DEF NoEntry, Entry
<1>. QED
  BY <1>1, <1>2, DispatchAssumption DEF Init, TypeOK, Files, Phases

LEMMA ExitType ==
  ASSUME TypeOK, NEW r \in Agents, Exit(r)
  PROVE  /\ pc' \in [Agents -> Phases]
         /\ now' \in [Agents -> Times]
         /\ plan' \in [Agents -> SUBSET Missions]
         /\ appended' \in [Agents -> BOOLEAN]
<1>1. 0 \in Times
  BY MissionAssumption DEF Times
<1>. QED
  BY <1>1 DEF TypeOK, Exit, Goto, Phases

LEMMA NextType == TypeOK /\ [Next]_vars => TypeOK'
<1>. SUFFICES ASSUME TypeOK, [Next]_vars PROVE TypeOK'
  OBVIOUS
<1>1. CASE Tick
  <2>1. clock + 1 \in Times
    BY <1>1, MissionAssumption DEF Tick, TypeOK, Times
  <2>. QED
    BY <1>1, <2>1 DEF Tick, TypeOK
<1>2. ASSUME NEW m \in Missions, SetStatus(m) PROVE TypeOK'
  BY <1>2 DEF SetStatus, runner, TypeOK
<1>3. ASSUME NEW r \in Agents, Run(r) PROVE TypeOK'
  <2>1. CASE Start(r)
    BY <2>1 DEF Start, Goto, Phases, TypeOK
  <2>2. CASE Claim(r)
    <3>1. wm' \in Files
      BY <2>2, ClaimedType, WakeType DEF Claim, TypeOK
    <3>2. Plan(wm, live, now[r]) \subseteq Missions
      BY DEF Plan, TypeOK
    <3>. QED
      BY <2>2, <3>1, <3>2 DEF Claim, Goto, Phases, TypeOK
  <2>3. CASE Healthy(r)
    BY <2>3, ExitType DEF Healthy, TypeOK
  <2>4. CASE Refused(r)
    BY <2>4 DEF Refused, Goto, Phases, TypeOK
  <2>5. CASE CoolDown(r)
    BY <2>5 DEF CoolDown, Goto, Phases, TypeOK
  <2>6. CASE Append(r)
    <3>1. inbox' \subseteq Jobs /\ sent' \subseteq Wakes
      BY <2>6, WakeType DEF Append, TypeOK, Wakes
    <3>. QED
      BY <2>6, <3>1 DEF Append, Goto, Phases, TypeOK
  <2>7. CASE Mark(r)
    BY <2>7 DEF Mark, Goto, Phases, TypeOK
  <2>8. CASE MarkFails(r)
    BY <2>8 DEF MarkFails, Goto, Phases, TypeOK
  <2>9. CASE Accepted(r)
    BY <2>9, ExitType DEF Accepted, TypeOK
  <2>10. CASE Release(r)
    <3>1. wm' \in Files
      BY <2>10, ReleasedType DEF Release, TypeOK
    <3>. QED
      BY <2>10, <3>1, ExitType DEF Release, TypeOK
  <2>11. CASE Crash(r)
    BY <2>11, ExitType DEF Crash, TypeOK
  <2>. QED
    BY <1>3, <2>1, <2>2, <2>3, <2>4, <2>5, <2>6, <2>7, <2>8, <2>9, <2>10, <2>11
       DEF Run
<1>4. ASSUME NEW j \in inbox, Complete(j[1], j[2]) PROVE TypeOK'
  <2>1. j[1] \in Missions /\ j[2] \in Nat
    BY DEF TypeOK, Jobs
  <2>2. wm' \in Files
    BY <1>4, <2>1, AckedType DEF Complete, TypeOK
  <2>3. acking' \subseteq Acks
    <3>. DEFINE ack == [mission |-> j[1], period |-> j[2],
                        landed |-> Advances(wm[j[1]], j[2])]
    <3>1. Advances(wm[j[1]], j[2]) \in BOOLEAN
      BY DEF Advances
    <3>2. ack \in Acks
      BY <2>1, <3>1 DEF Acks
    <3>3. acking' = acking \cup {ack}
      BY <1>4 DEF Complete
    <3>. HIDE DEF ack
    <3>. QED
      BY <3>2, <3>3 DEF TypeOK
  <2>. QED
    BY <1>4, <2>2, <2>3 DEF Complete, runner, TypeOK
<1>5. ASSUME NEW j \in inbox, Drop(j[1], j[2]) PROVE TypeOK'
  BY <1>5 DEF Drop, runner, TypeOK
<1>6. ASSUME NEW a \in acking, ReportSuccess(a) PROVE TypeOK'
  <2>1. <<a.mission, a.period>> \in Jobs
    BY DEF TypeOK, Acks, Jobs
  <2>. QED
    BY <1>6, <2>1 DEF ReportSuccess, Recorded, runner, TypeOK
<1>7. ASSUME NEW a \in acking, ReportFailure(a) \/ AckCrash(a) PROVE TypeOK'
  BY <1>7 DEF ReportFailure, AckCrash, runner, TypeOK
<1>8. CASE UNCHANGED vars
  BY <1>8 DEF vars, TypeOK
<1>. QED
  BY <1>1, <1>2, <1>3, <1>4, <1>5, <1>6, <1>7, <1>8 DEF Next, Session, AtHorizon

\* The variables, the watermark file among them, keep their types through every
\* claim, release, acknowledgement and crash (loop_backup.py, due_missions.py).
THEOREM TypeCorrect == Spec => []TypeOK
<1>. QED
  BY InitType, NextType, PTL DEF Spec

-----------------------------------------------------------------------------
(* The steps that write the watermark or the inbox, and what each writer of the
   watermark does to one entry. *)

LEMMA Writers ==
  ASSUME [Next]_vars
  PROVE  \/ UNCHANGED <<wm, sent>>
         \/ \E r \in Agents : Claim(r) \/ Release(r) \/ Append(r)
         \/ \E j \in inbox : Complete(j[1], j[2])
<1>1. CASE Tick \/ AtHorizon \/ UNCHANGED vars
  BY <1>1 DEF Tick, AtHorizon, vars
<1>2. CASE \E m \in Missions : SetStatus(m)
  BY <1>2 DEF SetStatus
<1>3. ASSUME NEW r \in Agents, Run(r)
      PROVE  UNCHANGED <<wm, sent>> \/ Claim(r) \/ Release(r) \/ Append(r)
  BY <1>3 DEF Run, Start, Healthy, Refused, CoolDown, Mark, MarkFails, Accepted,
              Crash
<1>4. ASSUME Session
      PROVE  UNCHANGED <<wm, sent>> \/ \E j \in inbox : Complete(j[1], j[2])
  BY <1>4 DEF Session, Drop, ReportSuccess, ReportFailure, AckCrash
<1>. QED
  BY <1>1, <1>2, <1>3, <1>4 DEF Next

LEMMA ClaimedEntry ==
  ASSUME NEW file \in Files, NEW lv, NEW c, NEW t \in Times, NEW m \in Missions
  PROVE  LET new == Claimed(file, lv, c, t)[m] IN
         /\ new.last = file[m].last
         /\ \/ new.pending = file[m].pending
            \/ new.pending = NoLease
            \/ /\ m \in Periodic
               /\ Due(file[m], m, t)
               /\ new.pending = NewLease(c, m, t)
<1>1. file[m] \in Entry
  BY DEF Files
<1>. QED
  BY <1>1 DEF Claimed, Entry, Plan, Periodic

LEMMA ReleasedEntry ==
  ASSUME NEW file \in Files, NEW S, NEW c, NEW m \in Missions
  PROVE  LET new == Released(file, S, c)[m] IN
         /\ new.last = file[m].last
         /\ new.pending = file[m].pending \/ new.pending = NoLease
BY DEF Released, Files, Entry

LEMMA AckedEntry ==
  ASSUME NEW file \in Files, NEW m \in Missions, NEW p \in Nat, NEW n \in Missions
  PROVE  LET new == Acked(file, m, p)[n] IN
         /\ n # m => new = file[n]
         /\ n = m => /\ new.last = IF file[m].last <= p THEN p ELSE file[m].last
                     /\ new.pending = IF file[m].pending.period = p THEN NoLease
                                      ELSE file[m].pending
BY DEF Acked, Files, Entry, Advances

LEMMA AckedLast ==
  ASSUME NEW file \in Files, NEW m \in Missions, NEW p \in Nat, NEW n \in Missions
  PROVE  file[n].last <= Acked(file, m, p)[n].last
<1>1. file[n].last \in Nat \cup {NoPeriod}
  BY DEF Files, Entry
<1>. QED
  BY <1>1, AckedEntry DEF NoPeriod

-----------------------------------------------------------------------------
(* Safety. *)

\* Nothing a claim, a release or an acknowledgement does, in whatever order,
\* takes a success off the record (write_due_success).
THEOREM Monotone == Spec => WatermarkMonotone
<1>1. ASSUME TypeOK, [Next]_vars
      PROVE  [\A m \in Missions : wm[m].last <= wm'[m].last]_vars
  <2>. SUFFICES ASSUME NEW m \in Missions PROVE wm[m].last <= wm'[m].last
    OBVIOUS
  <2>0. wm \in Files /\ wm[m].last \in Nat \cup {NoPeriod}
    BY <1>1 DEF TypeOK, Files, Entry
  <2>1. CASE wm' = wm
    BY <2>0, <2>1 DEF NoPeriod
  <2>2. ASSUME NEW r \in Agents, Claim(r) PROVE wm[m].last <= wm'[m].last
    <3>1. now[r] \in Times
      BY <1>1 DEF TypeOK
    <3>2. wm'[m].last = wm[m].last
      BY <2>0, <2>2, <3>1, ClaimedEntry DEF Claim
    <3>. QED
      BY <2>0, <3>2 DEF NoPeriod
  <2>3. ASSUME NEW r \in Agents, Release(r) PROVE wm[m].last <= wm'[m].last
    <3>1. wm'[m].last = wm[m].last
      BY <2>0, <2>3, ReleasedEntry DEF Release
    <3>. QED
      BY <2>0, <3>1 DEF NoPeriod
  <2>4. ASSUME NEW j \in inbox, Complete(j[1], j[2])
        PROVE  wm[m].last <= wm'[m].last
    <3>1. j[1] \in Missions /\ j[2] \in Nat
      BY <1>1 DEF TypeOK, Jobs
    <3>. QED
      BY <2>0, <2>4, <3>1, AckedLast DEF Complete
  <2>. QED
    BY <1>1, <2>1, <2>2, <2>3, <2>4, Writers DEF Append
<1>. QED
  BY <1>1, TypeCorrect, PTL DEF Spec, WatermarkMonotone

\* A lease is never held for the period on record as done: a claim is made only
\* for a due period and an acknowledgement clears the lease it fulfils.
THEOREM DoneNotLeased == Spec => []NoLeaseForDone
<1>1. Init => NoLeaseForDone
  BY DEF Init, NoLeaseForDone, NoEntry
<1>2. ASSUME TypeOK, NoLeaseForDone, [Next]_vars
      PROVE  NoLeaseForDone'
  <2>. SUFFICES ASSUME NEW m \in Missions, wm'[m].pending # NoLease
                PROVE  wm'[m].pending.period # wm'[m].last
    BY DEF NoLeaseForDone
  <2>0. /\ wm \in Files
        /\ wm[m].pending # NoLease => wm[m].pending.period # wm[m].last
    BY <1>2 DEF TypeOK, NoLeaseForDone
  <2>1. CASE wm' = wm
    BY <2>0, <2>1
  <2>2. ASSUME NEW r \in Agents, Claim(r)
        PROVE  wm'[m].pending.period # wm'[m].last
    <3>1. now[r] \in Times
      BY <1>2 DEF TypeOK
    <3>2. CASE wm'[m].pending = wm[m].pending
      BY <2>0, <2>2, <3>1, <3>2, ClaimedEntry DEF Claim
    <3>3. CASE /\ m \in Periodic
               /\ Due(wm[m], m, now[r])
               /\ wm'[m].pending = NewLease(ClaimId(r), m, now[r])
      <4>1. wm[m].last # Period(m, now[r])
        BY <3>3 DEF Due, Periodic
      <4>2. wm'[m].last = wm[m].last
        BY <2>0, <2>2, <3>1, ClaimedEntry DEF Claim
      <4>. QED
        BY <3>3, <4>1, <4>2 DEF NewLease
    <3>. QED
      BY <2>0, <2>2, <3>1, <3>2, <3>3, ClaimedEntry DEF Claim
  <2>3. ASSUME NEW r \in Agents, Release(r)
        PROVE  wm'[m].pending.period # wm'[m].last
    BY <2>0, <2>3, ReleasedEntry DEF Release
  <2>4. ASSUME NEW j \in inbox, Complete(j[1], j[2])
        PROVE  wm'[m].pending.period # wm'[m].last
    <3>1. j[1] \in Missions /\ j[2] \in Nat
      BY <1>2 DEF TypeOK, Jobs
    <3>. QED
      BY <2>0, <2>4, <3>1, AckedEntry DEF Complete
  <2>. QED
    BY <1>2, <2>1, <2>2, <2>3, <2>4, Writers DEF Append
<1>. QED
  BY <1>1, <1>2, TypeCorrect, PTL DEF Spec

\* An acknowledgement, and nothing else, moves the record on, and it takes away
\* no lease but the one of its own period.
THEOREM AckSpares == Spec => AckSparesOtherLease
<1>1. ASSUME TypeOK, [Next]_vars,
             NEW m \in Missions,
             wm[m].last # wm'[m].last,
             wm[m].pending.period # wm'[m].last
      PROVE  wm'[m].pending = wm[m].pending
  <2>0. wm \in Files
    BY <1>1 DEF TypeOK
  <2>1. ASSUME NEW r \in Agents, Claim(r) \/ Release(r) PROVE FALSE
    <3>1. now[r] \in Times
      BY <1>1 DEF TypeOK
    <3>. QED
      BY <1>1, <2>0, <2>1, <3>1, ClaimedEntry, ReleasedEntry DEF Claim, Release
  <2>2. ASSUME NEW j \in inbox, Complete(j[1], j[2])
        PROVE  wm'[m].pending = wm[m].pending
    <3>1. j[1] \in Missions /\ j[2] \in Nat
      BY <1>1 DEF TypeOK, Jobs
    <3>. QED
      BY <1>1, <2>0, <2>2, <3>1, AckedEntry DEF Complete
  <2>. QED
    BY <1>1, <2>1, <2>2, Writers DEF Append
<1>2. ASSUME TypeOK, [Next]_vars
      PROVE  [\A m \in Missions :
                /\ wm[m].last # wm'[m].last
                /\ wm[m].pending.period # wm'[m].last
                => wm'[m].pending = wm[m].pending]_vars
  BY <1>1, <1>2
<1>. QED
  BY <1>2, TypeCorrect, PTL DEF Spec, AckSparesOtherLease

(* DoneWasDelivered is not inductive: what the session may still acknowledge
   must have come with a wake too. *)
InboxWasSent == \A j \in inbox : \E w \in sent : j \in w.jobs

DeliveryInv == TypeOK /\ InboxWasSent /\ DoneWasDelivered

LEMMA DeliveryInvariant == Spec => []DeliveryInv
<1>1. Init => DeliveryInv
  BY InitType DEF Init, DeliveryInv, InboxWasSent, DoneWasDelivered, NoEntry
<1>2. ASSUME DeliveryInv, [Next]_vars
      PROVE  InboxWasSent' /\ DoneWasDelivered'
  <2>0. TypeOK /\ InboxWasSent /\ DoneWasDelivered
    BY <1>2 DEF DeliveryInv
  <2>1. sent \subseteq sent'
    BY <1>2, Writers DEF Claim, Release, Append, Complete
  <2>2. InboxWasSent'
    <3>. SUFFICES ASSUME NEW j \in inbox' PROVE \E w \in sent' : j \in w.jobs
      BY DEF InboxWasSent
    <3>1. CASE j \in inbox
      BY <2>0, <2>1, <3>1 DEF InboxWasSent
    <3>2. CASE \E r \in Agents : Append(r)
      BY <2>0, <2>1, <3>2 DEF InboxWasSent, Append
    <3>3. j \in inbox \/ \E r \in Agents : Append(r)
      <4>1. (\E r \in Agents : Append(r)) \/ inbox' \subseteq inbox
        BY <1>2 DEF Next, Run, Session, Tick, SetStatus, Start, Claim, Healthy,
             Refused, CoolDown, Mark, MarkFails, Accepted, Release, Crash,
             Complete, ReportSuccess, ReportFailure, AckCrash, Drop, AtHorizon,
             vars
      <4>. QED
        BY <4>1
    <3>. QED
      BY <3>1, <3>2, <3>3
  <2>3. DoneWasDelivered'
    <3>. SUFFICES ASSUME NEW m \in Missions, wm'[m].last # NoPeriod
                  PROVE  \E w \in sent' : <<m, wm'[m].last>> \in w.jobs
      BY DEF DoneWasDelivered
    <3>1. CASE wm'[m].last = wm[m].last
      BY <2>0, <2>1, <3>1 DEF DoneWasDelivered
    <3>2. ASSUME NEW j \in inbox, Complete(j[1], j[2]), wm'[m].last # wm[m].last
          PROVE  m = j[1] /\ wm'[m].last = j[2] /\ j = <<j[1], j[2]>>
      <4>1. wm \in Files /\ j[1] \in Missions /\ j[2] \in Nat /\ j = <<j[1], j[2]>>
        BY <2>0 DEF TypeOK, Jobs
      <4>. QED
        BY <3>2, <4>1, AckedEntry DEF Complete
    <3>3. ASSUME NEW r \in Agents, Claim(r) \/ Release(r)
          PROVE  wm'[m].last = wm[m].last
      <4>1. wm \in Files /\ now[r] \in Times
        BY <2>0 DEF TypeOK
      <4>. QED
        BY <3>3, <4>1, ClaimedEntry, ReleasedEntry DEF Claim, Release
    <3>. QED
      BY <1>2, <2>0, <2>1, <3>1, <3>2, <3>3, Writers DEF Append, InboxWasSent
  <2>. QED
    BY <2>2, <2>3
<1>. QED
  BY <1>1, <1>2, NextType, PTL DEF Spec, DeliveryInv

\* A period is on record as done only when a wake carried it to the session:
\* no claim, release, crash or edit of dept.yaml makes a mission look done.
THEOREM OnlyDeliveredIsDone == Spec => []DoneWasDelivered
<1>. QED
  BY DeliveryInvariant, PTL DEF DeliveryInv

\* Every success in due-dispatch.json is one the watermark has caught up with:
\* the read-back comes before the ledger and the watermark only moves on.
THEOREM LedgerBehind == Spec => []LedgerBehindWatermark
<1>1. Init => LedgerBehindWatermark
  BY DEF Init, LedgerBehindWatermark
<1>2. ASSUME TypeOK, LedgerBehindWatermark, [Next]_vars,
             [\A m \in Missions : wm[m].last <= wm'[m].last]_vars
      PROVE  LedgerBehindWatermark'
  <2>1. ASSUME NEW m \in Missions
        PROVE  /\ wm[m].last \in Int /\ wm'[m].last \in Int
               /\ wm[m].last <= wm'[m].last
    <3>1. TypeOK'
      BY <1>2, NextType
    <3>2. wm[m].last \in Int /\ wm'[m].last \in Int
      BY <1>2, <3>1 DEF TypeOK, Files, Entry, NoPeriod
    <3>. QED
      BY <1>2, <3>2 DEF vars
  <2>2. ASSUME NEW a \in acking, ReportSuccess(a), NEW j \in ledger'
        PROVE  j \in ledger \/ (j[1] = a.mission /\ j[2] = wm[j[1]].last)
    BY <2>2 DEF ReportSuccess, Recorded, ReadsBack
  <2>3. (\E a \in acking : ReportSuccess(a)) \/ ledger' = ledger
    BY <1>2 DEF Next, Run, Session, Tick, SetStatus, Start, Claim, Healthy,
         Refused, CoolDown, Append, Mark, MarkFails, Accepted, Release, Crash,
         Complete, ReportFailure, AckCrash, Drop, AtHorizon, vars
  <2>. SUFFICES ASSUME NEW j \in ledger' PROVE j[2] <= wm'[j[1]].last
    BY DEF LedgerBehindWatermark
  <2>4. j[1] \in Missions /\ j[2] \in Nat
    <3>1. TypeOK'
      BY <1>2, NextType
    <3>. QED
      BY <3>1 DEF TypeOK, Jobs
  <2>5. CASE j \in ledger
    <3>1. j[2] <= wm[j[1]].last
      BY <1>2, <2>5 DEF LedgerBehindWatermark
    <3>. QED
      BY <2>1, <2>4, <3>1
  <2>6. CASE j[2] = wm[j[1]].last
    BY <2>1, <2>4, <2>6
  <2>. QED
    BY <2>2, <2>3, <2>5, <2>6
<1>. QED
  BY <1>1, <1>2, Monotone, TypeCorrect, PTL DEF Spec, WatermarkMonotone

\* A completion is reported as one that did not persist only when a later period of
\* its mission is recorded by then (command_complete): whatever was written between
\* its write and its read-back, the watermark is not behind it.
THEOREM FailedIsOvertaken == Spec => []FailedMeansOvertaken
<1>. DEFINE Reached == \A a \in acking : a.period <= wm[a.mission].last
<1>1. Init => Reached
  BY DEF Init
<1>2. ASSUME TypeOK, TypeOK', Reached, [Next]_vars,
             [\A m \in Missions : wm[m].last <= wm'[m].last]_vars
      PROVE  Reached'
  <2>. SUFFICES ASSUME NEW a \in acking' PROVE a.period <= wm'[a.mission].last
    OBVIOUS
  <2>1. a.mission \in Missions /\ a.period \in Nat
    BY <1>2 DEF TypeOK, Acks
  <2>2. wm[a.mission].last \in Int /\ wm'[a.mission].last \in Int
    BY <1>2, <2>1 DEF TypeOK, Files, Entry, NoPeriod
  <2>3. wm[a.mission].last <= wm'[a.mission].last
    BY <1>2, <2>1, <2>2 DEF vars
  <2>4. CASE a \in acking
    BY <1>2, <2>1, <2>2, <2>3, <2>4
  <2>5. CASE a \notin acking
    <3>1. PICK j \in inbox : Complete(j[1], j[2])
      BY <1>2, <2>5 DEF Next, Run, Session, Tick, SetStatus, Start, Claim, Healthy,
         Refused, CoolDown, Append, Mark, MarkFails, Accepted, Release, Crash,
         ReportSuccess, ReportFailure, AckCrash, Drop, AtHorizon, vars
    <3>2. j[1] \in Missions /\ j[2] \in Nat /\ wm \in Files
      BY <1>2 DEF TypeOK, Jobs
    <3>3. a.mission = j[1] /\ a.period = j[2] /\ wm' = Acked(wm, j[1], j[2])
      BY <2>5, <3>1 DEF Complete
    <3>4. wm'[j[1]].last = IF wm[j[1]].last <= j[2] THEN j[2] ELSE wm[j[1]].last
      BY <3>2, <3>3, AckedEntry
    <3>. QED
      BY <2>2, <3>2, <3>3, <3>4
  <2>. QED
    BY <2>4, <2>5
<1>3. TypeOK /\ Reached => FailedMeansOvertaken
  <2>. SUFFICES ASSUME TypeOK, Reached, NEW a \in acking, ~ReadsBack(a)
                PROVE  a.period < wm[a.mission].last
    BY DEF FailedMeansOvertaken
  <2>1. a.mission \in Missions /\ a.period \in Nat
    BY DEF TypeOK, Acks
  <2>2. wm[a.mission].last \in Int
    BY <2>1 DEF TypeOK, Files, Entry, NoPeriod
  <2>. QED
    BY <2>2, <2>1 DEF ReadsBack
<1>. QED
  BY <1>1, <1>2, <1>3, Monotone, TypeCorrect, PTL DEF Spec, WatermarkMonotone

-----------------------------------------------------------------------------
(* Implementation of the contract. *)

Done  == [m \in Missions |-> wm[m].last]
Lease == [m \in Missions |-> IF wm[m].pending = NoLease THEN NoPeriod
                             ELSE wm[m].pending.period]
Delivered == UNION {w.jobs : w \in sent}

LEMMA DeliveredJobs ==
  ASSUME NEW S \in SUBSET Wakes
  PROVE  UNION {w.jobs : w \in S} \subseteq Missions \X Nat
BY DEF Wakes, Jobs

LEMMA LeaseValues ==
  ASSUME NEW file \in Files
  PROVE  [m \in Missions |-> IF file[m].pending = NoLease THEN NoPeriod
                             ELSE file[m].pending.period]
         \in [Missions -> Nat \cup {NoPeriod}]
<1>. SUFFICES ASSUME NEW m \in Missions, file[m].pending # NoLease
              PROVE  file[m].pending.period \in Nat
  OBVIOUS
<1>1. file[m].pending \in Leases
  BY DEF Files, Entry
<1>. QED
  BY <1>1 DEF Leases

\* A claim only leases periods that are not done; a release only withdraws.
LEMMA ReletStep ==
  ASSUME TypeOK, TypeOK', NEW r \in Agents, Claim(r) \/ Release(r)
  PROVE  /\ Done' = Done
         /\ Delivered' = Delivered
         /\ \A m \in Missions :
              Lease'[m] # Lease[m] /\ Lease'[m] # NoPeriod => Lease'[m] # Done[m]
<1>0. wm \in Files /\ now[r] \in Times
  BY DEF TypeOK
<1>1. ASSUME NEW m \in Missions PROVE wm'[m].last = wm[m].last
  BY <1>0, ClaimedEntry, ReleasedEntry DEF Claim, Release
<1>2. ASSUME NEW m \in Missions, Lease'[m] # Lease[m], Lease'[m] # NoPeriod
      PROVE  Lease'[m] # Done[m]
  <2>1. CASE Release(r)
    BY <1>0, <1>2, <2>1, ReleasedEntry DEF Release, Lease
  <2>2. CASE Claim(r)
    <3>1. /\ Due(wm[m], m, now[r])
          /\ m \in Periodic
          /\ wm'[m].pending = NewLease(ClaimId(r), m, now[r])
      BY <1>0, <1>2, <2>2, ClaimedEntry DEF Claim, Lease
    <3>. QED
      BY <1>2, <3>1 DEF Due, Periodic, NewLease, Lease, Done
  <2>. QED
    BY <2>1, <2>2
<1>. QED
  BY <1>1, <1>2 DEF Done, Delivered, Claim, Release

\* An acknowledgement of the session is the contract's Succeed.
LEMMA SucceedStep ==
  ASSUME TypeOK, NEW m \in Missions, NEW p \in Nat, Complete(m, p)
  PROVE  /\ Done' = [Done EXCEPT ![m] = IF @ <= p THEN p ELSE @]
         /\ Lease' = [Lease EXCEPT ![m] = IF @ = p THEN NoPeriod ELSE @]
         /\ Delivered' = Delivered
<1>0. wm \in Files /\ wm' = Acked(wm, m, p)
  BY DEF TypeOK, Complete
<1>1. ASSUME NEW n \in Missions, n # m PROVE wm'[n] = wm[n]
  BY <1>0, <1>1, AckedEntry
<1>2. /\ wm'[m].last = IF wm[m].last <= p THEN p ELSE wm[m].last
      /\ wm'[m].pending = IF wm[m].pending.period = p THEN NoLease
                          ELSE wm[m].pending
  BY <1>0, AckedEntry
<1>3. Lease'[m] = IF Lease[m] = p THEN NoPeriod ELSE Lease[m]
  BY <1>2 DEF Lease, NoPeriod
<1>4. Done'[m] = IF Done[m] <= p THEN p ELSE Done[m]
  BY <1>2 DEF Done
<1>5. ASSUME NEW n \in Missions, n # m PROVE Lease'[n] = Lease[n] /\ Done'[n] = Done[n]
  BY <1>1, <1>5 DEF Lease, Done
<1>6. Delivered' = Delivered
  BY DEF Complete, Delivered
<1>7. Done' = [Done EXCEPT ![m] = IF @ <= p THEN p ELSE @]
  BY <1>4, <1>5 DEF Done
<1>8. Lease' = [Lease EXCEPT ![m] = IF @ = p THEN NoPeriod ELSE @]
  BY <1>3, <1>5 DEF Lease
<1>. QED
  BY <1>6, <1>7, <1>8

\* Whatever runners, crashes, edits of dept.yaml and late acknowledgements do,
\* a reader of the watermark and of the inbox sees the contract's steps only.
THEOREM Implements == Spec => ImplementsContract
<1>1. Init => Contract!ContractInit
  BY DEF Init, Contract!ContractInit, NoEntry
<1>2. ASSUME DeliveryInv, DeliveryInv', [Next]_vars
      PROVE  [Contract!ContractNext]_(Contract!contractVars)
  <2>0. /\ TypeOK /\ TypeOK' /\ InboxWasSent
        /\ Done = [m \in Missions |-> wm[m].last]
        /\ Lease = [m \in Missions |-> IF wm[m].pending = NoLease THEN NoPeriod
                                       ELSE wm[m].pending.period]
        /\ Delivered = UNION {w.jobs : w \in sent}
    BY <1>2 DEF DeliveryInv, Done, Lease, Delivered
  <2>1. CASE UNCHANGED <<wm, sent>>
    BY <2>1 DEF Contract!contractVars
  <2>2. ASSUME NEW r \in Agents, Claim(r) \/ Release(r)
        PROVE  Contract!Relet
    <3>1. Lease' \in [Missions -> Nat \cup {NoPeriod}]
      BY <2>0, LeaseValues DEF TypeOK, Lease
    <3>. QED
      BY <2>0, <2>2, <3>1, ReletStep
         DEF Contract!Relet, Contract!MaybePeriod, Done, Lease, Delivered
  <2>3. ASSUME NEW r \in Agents, Append(r)
        PROVE  Contract!Deliver
    <3>1. wm' = wm /\ sent \subseteq sent'
      BY <2>3 DEF Append
    <3>2. Delivered \subseteq Delivered' /\ Delivered' \subseteq Missions \X Nat
      <4>1. Delivered' \subseteq Missions \X Nat
        BY <2>0, DeliveredJobs DEF TypeOK, Delivered
      <4>. QED
        BY <3>1, <4>1 DEF Delivered
    <3>. QED
      BY <3>1, <3>2 DEF Contract!Deliver, Delivered
  <2>4. ASSUME NEW j \in inbox, Complete(j[1], j[2])
        PROVE  Contract!ContractNext
    <3>1. j[1] \in Missions /\ j[2] \in Nat /\ j = <<j[1], j[2]>>
      BY <2>0 DEF TypeOK, Jobs
    <3>2. j \in Delivered
      BY <2>0 DEF InboxWasSent, Delivered
    <3>3. Contract!Succeed(j[1], j[2])
      BY <2>0, <2>4, <3>1, <3>2, SucceedStep
         DEF Contract!Succeed, Done, Lease, Delivered
    <3>. QED
      BY <3>2, <3>3 DEF Contract!ContractNext, Delivered
  <2>. QED
    BY <1>2, <2>1, <2>2, <2>3, <2>4, Writers DEF Contract!ContractNext
<1>. QED
  BY <1>1, <1>2, DeliveryInvariant, PTL
     DEF Spec, ImplementsContract, Contract!ContractSpec

-----------------------------------------------------------------------------
(* When no runner outlives the unit of time it started in, a lease is always for
   a later period than the last success.  That is not inductive: a success must
   find no lease of an earlier period than its own, so the lease of a mission
   covers every job of it in the inbox or in the plan of a runner at work, and
   nothing on record is ahead of the clock. *)

PromptRunners ==
  \A r \in Agents :
    /\ Working(r) => now[r] = clock
    /\ pc[r] \in {"idle", "started"} => plan[r] = {}

NothingAhead ==
  /\ \A j \in inbox : j[2] <= Period(j[1], clock)
  /\ \A m \in Missions : wm[m].last <= Period(m, clock)

LeaseCovers(m) ==
  /\ m \in Periodic
  /\ wm[m].last < wm[m].pending.period
  /\ \A j \in inbox : j[1] = m => j[2] <= wm[m].pending.period
  /\ \A r \in Agents :
       m \in plan[r] => Period(m, now[r]) <= wm[m].pending.period

PromptInv ==
  /\ TypeOK
  /\ PromptRunners
  /\ NothingAhead
  /\ \A m \in Missions : wm[m].pending # NoLease => LeaseCovers(m)

LEMMA PromptInit == Init => PromptInv
<1>. SUFFICES ASSUME Init PROVE PromptInv
  OBVIOUS
<1>1. \A m \in Missions : wm[m].last <= Period(m, clock)
  <2>. SUFFICES ASSUME NEW m \in Missions PROVE wm[m].last <= Period(m, clock)
    OBVIOUS
  <2>1. clock \in Times
    BY MissionAssumption DEF Times, Init
  <2>2. Period(m, clock) \in Nat /\ wm[m].last = -1
    BY <2>1, PeriodAssumption DEF Init, NoEntry, NoPeriod
  <2>. QED
    BY <2>2
<1>2. PromptRunners
  BY DEF Init, PromptRunners, Working
<1>. QED
  BY <1>1, <1>2, InitType DEF Init, PromptInv, NothingAhead, NoEntry

LEMMA PromptTick ==
  ASSUME MaxLag = 0, PromptInv, TypeOK', Tick
  PROVE  PromptInv'
<1>0. clock \in Times /\ clock + 1 \in Times /\ clock <= clock + 1
  BY MissionAssumption DEF PromptInv, TypeOK, Tick, Times
<1>1. \A r \in Agents : ~Working(r)
  <2>. SUFFICES ASSUME NEW r \in Agents, Working(r) PROVE FALSE
    OBVIOUS
  <2>1. now[r] = clock /\ clock - now[r] < 0
    BY DEF Tick, PromptInv, PromptRunners
  <2>. QED
    BY <1>0, <2>1 DEF Times
<1>2. PromptRunners'
  BY <1>1 DEF PromptInv, PromptRunners, Tick, Working
<1>3. \A j \in inbox : j[2] <= Period(j[1], clock + 1)
  <2>. SUFFICES ASSUME NEW j \in inbox PROVE j[2] <= Period(j[1], clock + 1)
    OBVIOUS
  <2>1. j[1] \in Missions /\ j[2] \in Nat /\ j[2] <= Period(j[1], clock)
    BY DEF PromptInv, NothingAhead, TypeOK, Jobs
  <2>2. /\ Period(j[1], clock) \in Nat /\ Period(j[1], clock + 1) \in Nat
        /\ Period(j[1], clock) <= Period(j[1], clock + 1)
    BY <1>0, <2>1, PeriodAssumption
  <2>. QED
    BY <2>1, <2>2
<1>4. \A m \in Missions : wm[m].last <= Period(m, clock + 1)
  <2>. SUFFICES ASSUME NEW m \in Missions PROVE wm[m].last <= Period(m, clock + 1)
    OBVIOUS
  <2>1. wm[m].last \in Int /\ wm[m].last <= Period(m, clock)
    BY DEF PromptInv, NothingAhead, TypeOK, Files, Entry, NoPeriod
  <2>2. /\ Period(m, clock) \in Nat /\ Period(m, clock + 1) \in Nat
        /\ Period(m, clock) <= Period(m, clock + 1)
    BY <1>0, PeriodAssumption
  <2>. QED
    BY <2>1, <2>2
<1>5. \A m \in Missions : wm'[m].pending # NoLease => LeaseCovers(m)'
  BY DEF PromptInv, LeaseCovers, Tick
<1>. QED
  BY <1>2, <1>3, <1>4, <1>5 DEF PromptInv, NothingAhead, Tick

LEMMA PromptClaim ==
  ASSUME PromptInv, TypeOK', NEW r \in Agents, Claim(r)
  PROVE  PromptInv'
<1>0. /\ wm \in Files /\ clock \in Times /\ now[r] \in Times /\ now[r] = clock
      /\ \A m \in Missions : Period(m, clock) \in Nat
  BY PeriodAssumption DEF PromptInv, TypeOK, PromptRunners, Working, Claim
<1>1. PromptRunners'
  BY DEF PromptInv, TypeOK, PromptRunners, Working, Claim, Goto
<1>2. NothingAhead'
  BY <1>0, ClaimedEntry DEF PromptInv, NothingAhead, Claim
<1>3. ASSUME NEW m \in Missions, wm'[m].pending # NoLease
      PROVE  LeaseCovers(m)'
  <2>1. CASE wm'[m].pending = wm[m].pending /\ m \notin plan'[r]
    <3>1. wm'[m].last = wm[m].last
      BY <1>0, ClaimedEntry DEF Claim
    <3>. QED
      BY <1>3, <2>1, <3>1 DEF PromptInv, TypeOK, LeaseCovers, Claim
  <2>2. CASE m \in Periodic /\ Due(wm[m], m, clock)
             /\ wm'[m].pending = NewLease(ClaimId(r), m, clock)
    <3>1. wm'[m].pending.period = Period(m, clock)
      BY <2>2 DEF NewLease
    <3>2. wm'[m].last < Period(m, clock)
      <4>1. wm'[m].last = wm[m].last /\ wm[m].last \in Int
        BY <1>0, ClaimedEntry DEF Claim, Files, Entry, NoPeriod
      <4>2. wm[m].last <= Period(m, clock) /\ wm[m].last # Period(m, clock)
        BY <2>2 DEF PromptInv, NothingAhead, Due, Periodic
      <4>. QED
        BY <1>0, <4>1, <4>2
    <3>3. \A j \in inbox : j[1] = m => j[2] <= Period(m, clock)
      BY DEF PromptInv, NothingAhead
    <3>4. \A q \in Agents : m \in plan'[q] => now[q] = clock
      <4>. SUFFICES ASSUME NEW q \in Agents, m \in plan'[q], q # r PROVE now[q] = clock
        BY <1>0
      <4>1. Working(q)
        BY DEF PromptInv, TypeOK, PromptRunners, Working, Claim
      <4>. QED
        BY <4>1 DEF PromptInv, PromptRunners
    <3>. QED
      BY <1>0, <2>2, <3>1, <3>2, <3>3, <3>4 DEF LeaseCovers, Claim
  <2>3. \/ wm'[m].pending = wm[m].pending /\ m \notin plan'[r]
        \/ m \in Periodic /\ Due(wm[m], m, clock)
           /\ wm'[m].pending = NewLease(ClaimId(r), m, clock)
    <3>1. plan'[r] = Plan(wm, live, clock)
      BY <1>0 DEF Claim, PromptInv, TypeOK
    <3>2. CASE m \in Plan(wm, live, clock) \ Continuous
      BY <1>0, <3>2 DEF Claim, Claimed, Plan, Periodic, Files, Entry
    <3>3. CASE m \notin Plan(wm, live, clock) \ Continuous
      <4>1. wm'[m].pending = wm[m].pending
        BY <1>0, <1>3, <3>3 DEF Claim, Claimed, Files, Entry
      <4>2. m \in Periodic
        BY <1>3, <4>1 DEF PromptInv, LeaseCovers
      <4>. QED
        BY <3>1, <3>3, <4>1, <4>2 DEF Periodic
    <3>. QED
      BY <3>2, <3>3
  <2>. QED
    BY <2>1, <2>2, <2>3
<1>. QED
  BY <1>1, <1>2, <1>3 DEF PromptInv

LEMMA PromptAcknowledge ==
  ASSUME PromptInv, TypeOK', NEW j \in inbox, Complete(j[1], j[2])
  PROVE  PromptInv'
<1>0. /\ wm \in Files /\ j[1] \in Missions /\ j[2] \in Nat
      /\ wm' = Acked(wm, j[1], j[2])
      /\ UNCHANGED <<clock, pc, now, plan>>
      /\ inbox' \subseteq inbox
  BY DEF PromptInv, TypeOK, Jobs, Complete, runner
<1>1. PromptRunners'
  BY <1>0 DEF PromptInv, PromptRunners, Working
<1>2. NothingAhead'
  <2>1. \A m \in Missions : wm'[m].last = wm[m].last \/ (m = j[1] /\ wm'[m].last = j[2])
    BY <1>0, AckedEntry
  <2>. QED
    BY <1>0, <2>1 DEF PromptInv, NothingAhead
<1>3. ASSUME NEW m \in Missions, wm'[m].pending # NoLease
      PROVE  LeaseCovers(m)'
  <2>1. wm'[m].pending = wm[m].pending
    BY <1>0, <1>3, AckedEntry
  <2>2. LeaseCovers(m) /\ wm[m].pending # NoLease
    BY <1>3, <2>1 DEF PromptInv
  <2>3. wm'[m].last < wm[m].pending.period
    <3>1. CASE m # j[1]
      BY <1>0, <2>2, <3>1, AckedEntry DEF LeaseCovers
    <3>2. CASE m = j[1]
      <4>1. wm[m].pending.period # j[2]
        BY <1>0, <1>3, <3>2, AckedEntry
      <4>2. wm[m].pending.period \in Nat
        BY <1>0, <2>2 DEF Files, Entry, Leases
      <4>3. j[2] < wm[m].pending.period
        BY <1>0, <2>2, <3>2, <4>1, <4>2 DEF LeaseCovers
      <4>. QED
        BY <1>0, <2>2, <3>2, <4>3, AckedEntry DEF LeaseCovers
    <3>. QED
      BY <3>1, <3>2
  <2>. QED
    BY <1>0, <2>1, <2>2, <2>3 DEF LeaseCovers
<1>. QED
  BY <1>1, <1>2, <1>3 DEF PromptInv

LEMMA PromptAppend ==
  ASSUME PromptInv, TypeOK', NEW r \in Agents, Append(r)
  PROVE  PromptInv'
<1>0. /\ UNCHANGED <<clock, wm, now, plan>>
      /\ now[r] = clock
      /\ \A j \in inbox' :
           j \in inbox \/ (j[1] \in plan[r] /\ j[2] = Period(j[1], clock))
  <2>1. now[r] = clock
    BY DEF Append, PromptInv, PromptRunners, Working
  <2>. QED
    BY <2>1 DEF Append, Wake
<1>1. PromptRunners'
  BY DEF PromptInv, TypeOK, PromptRunners, Working, Append, Goto
<1>2. NothingAhead'
  <2>1. \A m \in plan[r] : Period(m, clock) \in Nat
    BY PeriodAssumption DEF PromptInv, TypeOK
  <2>. QED
    BY <1>0, <2>1 DEF PromptInv, NothingAhead
<1>3. \A m \in Missions : wm'[m].pending # NoLease => LeaseCovers(m)'
  BY <1>0 DEF PromptInv, LeaseCovers
<1>. QED
  BY <1>1, <1>2, <1>3 DEF PromptInv

LEMMA PromptRelease ==
  ASSUME PromptInv, TypeOK', NEW r \in Agents, Release(r)
  PROVE  PromptInv'
<1>0. wm \in Files /\ UNCHANGED <<clock, inbox>>
  BY DEF PromptInv, TypeOK, Release
<1>1. \A m \in Missions : /\ wm'[m].last = wm[m].last
                          /\ wm'[m].pending = wm[m].pending \/ wm'[m].pending = NoLease
  BY <1>0, ReleasedEntry DEF Release
<1>2. PromptRunners'
  BY DEF PromptInv, TypeOK, PromptRunners, Working, Release, Exit, Goto
<1>3. NothingAhead'
  BY <1>0, <1>1 DEF PromptInv, NothingAhead
<1>4. \A m \in Missions : \A q \in Agents :
        m \in plan'[q] => m \in plan[q] /\ now'[q] = now[q]
  BY DEF PromptInv, TypeOK, Release, Exit
<1>5. \A m \in Missions : wm'[m].pending # NoLease => LeaseCovers(m)'
  BY <1>0, <1>1, <1>4 DEF PromptInv, LeaseCovers
<1>. QED
  BY <1>2, <1>3, <1>5 DEF PromptInv

LEMMA PromptRunnerStep ==
  ASSUME PromptInv, TypeOK', NEW r \in Agents,
         \/ Start(r) \/ Healthy(r) \/ Refused(r) \/ CoolDown(r)
         \/ Mark(r) \/ MarkFails(r) \/ Accepted(r) \/ Crash(r)
  PROVE  PromptInv'
<1>0. UNCHANGED <<clock, wm, inbox>>
  BY DEF Start, Healthy, Refused, CoolDown, Mark, MarkFails, Accepted, Crash
<1>1. PromptRunners'
  BY DEF PromptInv, TypeOK, PromptRunners, Working, Start, Healthy, Refused,
         CoolDown, Mark, MarkFails, Accepted, Crash, Exit, Goto
<1>2. \A m \in Missions : \A q \in Agents :
        m \in plan'[q] => m \in plan[q] /\ now'[q] = now[q]
  <2>1. CASE Start(r)
    BY <2>1 DEF PromptInv, TypeOK, PromptRunners, Working, Start
  <2>2. CASE ~Start(r)
    BY <2>2 DEF PromptInv, TypeOK, Healthy, Refused, CoolDown, Mark, MarkFails,
                Accepted, Crash, Exit
  <2>. QED
    BY <2>1, <2>2
<1>3. \A m \in Missions : wm'[m].pending # NoLease => LeaseCovers(m)'
  BY <1>0, <1>2 DEF PromptInv, LeaseCovers
<1>. QED
  BY <1>0, <1>1, <1>3 DEF PromptInv, NothingAhead

LEMMA PromptStutter ==
  ASSUME PromptInv, TypeOK', UNCHANGED <<clock, wm, pc, now, plan>>, inbox' \subseteq inbox
  PROVE  PromptInv'
BY DEF PromptInv, PromptRunners, Working, NothingAhead, LeaseCovers

LEMMA PromptInvariant == ASSUME MaxLag = 0 PROVE Spec => []PromptInv
<1>1. ASSUME PromptInv, TypeOK', [Next]_vars
      PROVE  PromptInv'
  <2>1. CASE Tick
    BY <1>1, <2>1, PromptTick
  <2>2. ASSUME NEW m \in Missions, SetStatus(m) PROVE PromptInv'
    BY <1>1, <2>2, PromptStutter DEF SetStatus, runner
  <2>3. ASSUME NEW r \in Agents, Run(r) PROVE PromptInv'
    BY <1>1, <2>3, PromptClaim, PromptAppend, PromptRelease, PromptRunnerStep DEF Run
  <2>4. ASSUME NEW j \in inbox, Complete(j[1], j[2]) \/ Drop(j[1], j[2])
        PROVE  PromptInv'
    <3>1. CASE Complete(j[1], j[2])
      BY <1>1, <3>1, PromptAcknowledge
    <3>2. CASE Drop(j[1], j[2])
      BY <1>1, <3>2, PromptStutter DEF Drop, runner
    <3>. QED
      BY <2>4, <3>1, <3>2
  <2>5. ASSUME NEW a \in acking, ReportSuccess(a) \/ ReportFailure(a) \/ AckCrash(a)
        PROVE  PromptInv'
    BY <1>1, <2>5, PromptStutter DEF ReportSuccess, ReportFailure, AckCrash, runner
  <2>6. CASE AtHorizon \/ UNCHANGED vars
    BY <1>1, <2>6, PromptStutter DEF AtHorizon, vars
  <2>. QED
    BY <1>1, <2>1, <2>2, <2>3, <2>4, <2>5, <2>6 DEF Next, Session
<1>. QED
  BY <1>1, PromptInit, TypeCorrect, PTL DEF Spec

\* While runners end in the unit of time they started in, claims and successes
\* that cross at a calendar boundary never leave a lease for the past.
THEOREM PromptLeases == ASSUME MaxLag = 0 PROVE Spec => []LeaseAhead
<1>1. PromptInv => LeaseAhead
  BY DEF PromptInv, LeaseAhead, LeaseCovers
<1>. QED
  BY <1>1, PromptInvariant, PTL

-----------------------------------------------------------------------------
(* Where the leases of the file come from. *)

LEMMA LeaseSteps ==
  ASSUME TypeOK, [Next]_vars, NEW m \in Missions
  PROVE  \/ wm'[m].pending \in {wm[m].pending, NoLease}
         \/ \E r \in Agents :
              /\ Claim(r)
              /\ m \in plan'[r] \ Continuous
              /\ Due(wm[m], m, now[r])
              /\ wm'[m].pending = NewLease(ClaimId(r), m, now[r])
<1>0. wm \in Files
  BY DEF TypeOK
<1>1. CASE wm' = wm
  BY <1>1
<1>2. ASSUME NEW r \in Agents, Claim(r), wm'[m].pending \notin {wm[m].pending, NoLease}
      PROVE  /\ m \in plan'[r] \ Continuous
             /\ Due(wm[m], m, now[r])
             /\ wm'[m].pending = NewLease(ClaimId(r), m, now[r])
  <2>1. plan'[r] = Plan(wm, live, now[r])
    BY <1>2 DEF Claim, TypeOK
  <2>2. wm'[m].pending = IF m \in Plan(wm, live, now[r]) \ Continuous
                         THEN NewLease(ClaimId(r), m, now[r])
                         ELSE IF m \in live THEN wm[m].pending ELSE NoLease
    BY <1>0, <1>2 DEF Claim, Claimed, Files, Entry
  <2>. QED
    BY <1>2, <2>1, <2>2 DEF Plan
<1>3. ASSUME NEW r \in Agents, Release(r)
      PROVE  wm'[m].pending \in {wm[m].pending, NoLease}
  BY <1>0, <1>3, ReleasedEntry DEF Release
<1>4. ASSUME NEW j \in inbox, Complete(j[1], j[2])
      PROVE  wm'[m].pending \in {wm[m].pending, NoLease}
  <2>1. j[1] \in Missions /\ j[2] \in Nat
    BY DEF TypeOK, Jobs
  <2>. QED
    BY <1>0, <1>4, <2>1, AckedEntry DEF Complete
<1>. QED
  BY <1>1, <1>2, <1>3, <1>4, Writers DEF Append

\* A step is one of the runner r, or it leaves r where it is.
LEMMA OneRunner ==
  ASSUME TypeOK, [Next]_vars, NEW r \in Agents
  PROVE  \/ Run(r)
         \/ /\ pc'[r] = pc[r] /\ now'[r] = now[r]
            /\ plan'[r] = plan[r] /\ appended'[r] = appended[r]
<1>1. ASSUME NEW q \in Agents, Run(q), q # r
      PROVE  /\ pc'[r] = pc[r] /\ now'[r] = now[r]
             /\ plan'[r] = plan[r] /\ appended'[r] = appended[r]
  BY <1>1 DEF Run, Start, Claim, Healthy, Refused, CoolDown, Append, Mark, MarkFails,
              Accepted, Release, Crash, Exit, Goto, TypeOK
<1>2. ASSUME ~ \E q \in Agents : Run(q)
      PROVE  runner' = runner \/ UNCHANGED <<pc, now, plan, appended>>
  BY <1>2 DEF Next, Tick, SetStatus, Session, Complete, Drop, ReportSuccess,
              ReportFailure, AckCrash, AtHorizon, vars
<1>. QED
  BY <1>1, <1>2 DEF runner

LEMMA ClaimOfLease ==
  ASSUME NEW r \in Agents, NEW t
  PROVE  NoLease.claim # <<r, t>>
BY MissionAssumption DEF NoLease, NoClaim

-----------------------------------------------------------------------------
(* A runner that ends without a wake leaves no lease.  What makes it so is that
   a claim id names one runner: launchd starts an agent once per unit of time,
   so that no lease of an earlier runner bears the name of one at work, and the
   leases that do bear it are for missions of its plan. *)

RunnersKept ==
  \A r \in Agents :
    /\ pc[r] \in {"idle", "started"} => plan[r] = {}
    /\ pc[r] \in {"marking", "injected"} => Wake(r) \in sent
    /\ Working(r) => now[r] <= clock /\ (now[r] = clock => r \in woke)

LeasesDated ==
  \A m \in Missions : \A r \in Agents : \A t \in Times :
    wm[m].pending.claim = <<r, t>> => t <= clock /\ (t = clock => r \in woke)

LeasesPlanned ==
  \A m \in Missions : \A r \in Agents :
    Working(r) /\ wm[m].pending.claim = ClaimId(r) => m \in ClaimedBy(r)

ClaimsKept == RunnersKept /\ LeasesDated /\ LeasesPlanned

LEMMA RunnersStep ==
  ASSUME TypeOK, RunnersKept, [Next]_vars
  PROVE  RunnersKept'
<1>1. CASE Tick
  <2>1. clock \in Nat /\ clock' = clock + 1 /\ now \in [Agents -> Nat]
    BY <1>1 DEF Tick, TypeOK, Times
  <2>. QED
    BY <1>1, <2>1 DEF Tick, RunnersKept, Working, Wake
<1>2. ASSUME NEW r \in Agents, Run(r) PROVE RunnersKept'
  <2>. SUFFICES ASSUME NEW q \in Agents
                PROVE  /\ pc'[q] \in {"idle", "started"} => plan'[q] = {}
                       /\ pc'[q] \in {"marking", "injected"} => Wake(q)' \in sent'
                       /\ pc'[q] # "idle" =>
                            now'[q] <= clock' /\ (now'[q] = clock' => q \in woke')
    BY DEF RunnersKept, Working
  <2>0. clock' = clock /\ woke \subseteq woke' /\ sent \subseteq sent' /\ clock \in Nat
    BY <1>2 DEF Run, Start, Claim, Healthy, Refused, CoolDown, Append, Mark, MarkFails,
                Accepted, Release, Crash, TypeOK, Times
  <2>1. CASE q # r
    <3>1. pc'[q] = pc[q] /\ plan'[q] = plan[q] /\ now'[q] = now[q]
      BY <1>2, <2>1 DEF Run, Start, Claim, Healthy, Refused, CoolDown, Append, Mark,
             MarkFails, Accepted, Release, Crash, Exit, Goto, TypeOK
    <3>2. Wake(q)' = Wake(q)
      BY <3>1 DEF Wake
    <3>. QED
      BY <2>0, <3>1, <3>2 DEF RunnersKept, Working
  <2>2. CASE q = r
    <3>1. CASE Start(r)
      BY <2>0, <2>2, <3>1 DEF Start, Goto, TypeOK, RunnersKept, Working
    <3>2. CASE Claim(r)
      BY <2>0, <2>2, <3>2 DEF Claim, Goto, TypeOK, RunnersKept, Working
    <3>3. CASE Append(r)
      <4>1. now' = now /\ plan' = plan /\ pc'[r] = "marking" /\ Wake(r) \in sent'
        BY <3>3 DEF Append, Goto, TypeOK
      <4>2. Wake(r)' = Wake(r)
        BY <4>1 DEF Wake
      <4>. QED
        BY <2>0, <2>2, <3>3, <4>1, <4>2 DEF Append, RunnersKept, Working
    <3>4. CASE Mark(r)
      <4>1. now' = now /\ plan' = plan /\ pc'[r] = "injected"
        BY <3>4 DEF Mark, Goto, TypeOK
      <4>2. Wake(r)' = Wake(r)
        BY <4>1 DEF Wake
      <4>. QED
        BY <2>0, <2>2, <3>4, <4>1, <4>2 DEF Mark, RunnersKept, Working
    <3>5. CASE Refused(r) \/ CoolDown(r) \/ MarkFails(r)
      BY <2>0, <2>2, <3>5 DEF Refused, CoolDown, MarkFails, Goto, TypeOK, RunnersKept,
                              Working
    <3>6. CASE Healthy(r) \/ Accepted(r) \/ Release(r) \/ Crash(r)
      BY <2>2, <3>6 DEF Healthy, Accepted, Release, Crash, Exit, Goto, TypeOK
    <3>. QED
      BY <1>2, <3>1, <3>2, <3>3, <3>4, <3>5, <3>6 DEF Run
  <2>. QED
    BY <2>1, <2>2
<1>3. CASE ~(Tick \/ \E r \in Agents : Run(r))
  <2>1. UNCHANGED <<clock, woke, pc, now, plan, sent>>
    BY <1>3 DEF Next, SetStatus, Session, Complete, Drop, ReportSuccess, ReportFailure,
                AckCrash, AtHorizon, vars, runner
  <2>2. \A r \in Agents : Wake(r)' = Wake(r)
    BY <2>1 DEF Wake
  <2>. QED
    BY <2>1, <2>2 DEF RunnersKept, Working
<1>. QED
  BY <1>1, <1>2, <1>3

LEMMA DatedStep ==
  ASSUME TypeOK, RunnersKept, LeasesDated, [Next]_vars
  PROVE  LeasesDated'
<1>. SUFFICES ASSUME NEW m \in Missions, NEW r \in Agents, NEW t \in Times,
                     wm'[m].pending.claim = <<r, t>>
              PROVE  t <= clock' /\ (t = clock' => r \in woke')
  BY DEF LeasesDated
<1>0. t \in Nat /\ clock \in Nat
  BY DEF TypeOK, Times
<1>1. t <= clock /\ (t = clock => r \in woke)
  <2>1. CASE wm'[m].pending = wm[m].pending
    BY <2>1 DEF LeasesDated
  <2>2. CASE wm'[m].pending = NoLease
    BY <2>2, ClaimOfLease
  <2>3. ASSUME NEW q \in Agents, Claim(q),
               wm'[m].pending = NewLease(ClaimId(q), m, now[q])
        PROVE  t <= clock /\ (t = clock => r \in woke)
    <3>1. q = r /\ t = now[r]
      BY <2>3 DEF NewLease, ClaimId
    <3>. QED
      BY <2>3, <3>1 DEF RunnersKept, Working, Claim
  <2>. QED
    BY <2>1, <2>2, <2>3, LeaseSteps
<1>2. CASE Tick
  BY <1>0, <1>1, <1>2 DEF Tick
<1>3. CASE ~Tick
  <2>1. clock' = clock /\ woke \subseteq woke'
    BY <1>3 DEF Next, SetStatus, Run, Start, Claim, Healthy, Refused, CoolDown, Append,
           Mark, MarkFails, Accepted, Release, Crash, Session, Complete, Drop,
           ReportSuccess, ReportFailure, AckCrash, AtHorizon, vars, runner
  <2>. QED
    BY <1>1, <2>1
<1>. QED
  BY <1>2, <1>3

LEMMA PlannedStep ==
  ASSUME TypeOK, ClaimsKept, [Next]_vars
  PROVE  LeasesPlanned'
<1>. SUFFICES ASSUME NEW m \in Missions, NEW r \in Agents, Working(r)',
                     wm'[m].pending.claim = <<r, now'[r]>>
              PROVE  m \in plan'[r] \ Continuous
  BY DEF LeasesPlanned, ClaimedBy, ClaimId
<1>1. CASE Start(r)
  <2>1. wm' = wm /\ now'[r] = clock /\ r \notin woke /\ clock \in Times
    BY <1>1 DEF Start, TypeOK
  <2>. QED
    BY <2>1 DEF ClaimsKept, LeasesDated
<1>2. CASE Claim(r)
  <2>1. now'[r] = now[r] /\ plan[r] = {} /\ Working(r)
    BY <1>2 DEF Claim, ClaimsKept, RunnersKept, Working
  <2>2. wm[m].pending.claim # ClaimId(r)
    BY <2>1 DEF ClaimsKept, LeasesPlanned, ClaimedBy
  <2>3. \A q \in Agents : Claim(q) => q = r
    BY <1>2 DEF Claim, Goto, TypeOK
  <2>. QED
    BY <2>1, <2>2, <2>3, LeaseSteps, ClaimOfLease DEF ClaimId
<1>3. CASE ~Start(r) /\ ~Claim(r)
  <2>1. Working(r) /\ now'[r] = now[r] /\ plan'[r] = plan[r]
    <3>1. CASE Run(r)
      BY <1>3, <3>1 DEF Run, Healthy, Refused, CoolDown, Append, Mark, MarkFails,
             Accepted, Release, Crash, Exit, Goto, Working, TypeOK
    <3>. QED
      BY <3>1, OneRunner DEF Working
  <2>2. wm[m].pending.claim = ClaimId(r)
    <3>1. ASSUME NEW q \in Agents, Claim(q),
                 wm'[m].pending = NewLease(ClaimId(q), m, now[q])
          PROVE  FALSE
      BY <1>3, <3>1 DEF NewLease, ClaimId
    <3>. QED
      BY <2>1, <3>1, LeaseSteps, ClaimOfLease DEF ClaimId
  <2>. QED
    BY <2>1, <2>2 DEF ClaimsKept, LeasesPlanned, ClaimedBy
<1>. QED
  BY <1>1, <1>2, <1>3

LEMMA ClaimsInvariant == Spec => []ClaimsKept
<1>1. Init => ClaimsKept
  <2>. SUFFICES ASSUME Init PROVE ClaimsKept
    OBVIOUS
  <2>1. ASSUME NEW m \in Missions, NEW r \in Agents, NEW t \in Times
        PROVE  wm[m].pending.claim # <<r, t>>
    <3>1. wm[m] = NoEntry
      BY DEF Init
    <3>. QED
      BY <3>1, ClaimOfLease DEF NoEntry
  <2>2. RunnersKept
    BY DEF Init, RunnersKept, Working
  <2>3. LeasesDated /\ LeasesPlanned
    BY <2>1 DEF Init, LeasesDated, LeasesPlanned, ClaimId, Working
  <2>. QED
    BY <2>2, <2>3 DEF ClaimsKept
<1>2. TypeOK /\ ClaimsKept /\ [Next]_vars => ClaimsKept'
  BY RunnersStep, DatedStep, PlannedStep DEF ClaimsKept
<1>. QED
  BY <1>1, <1>2, TypeCorrect, PTL DEF Spec

\* In calm times every way out of a runner but the one after its wake gives the
\* leases back (the EXIT trap of local-loop-backup-runner.sh): a lease that a
\* runner leaves behind always has its wake in the inbox.
THEOREM LeaseHasWake == Spec => LeaseMeansWake
<1>1. ASSUME TypeOK, ClaimsKept, [Next]_vars
      PROVE  [\A r \in Agents : Calm /\ Working(r) /\ pc'[r] = "idle" =>
                \A m \in Missions :
                  wm'[m].pending.claim = ClaimId(r) => Wake(r) \in sent]_vars
  <2>. SUFFICES ASSUME NEW r \in Agents, Calm, Working(r), pc'[r] = "idle",
                       NEW m \in Missions, wm'[m].pending.claim = ClaimId(r)
                PROVE  Wake(r) \in sent
    OBVIOUS
  <2>1. Healthy(r) \/ Accepted(r) \/ Release(r)
    <3>1. Run(r)
      BY <1>1, OneRunner DEF Working
    <3>. QED
      BY <1>1, <3>1 DEF Run, Start, Claim, Refused, CoolDown, Append, Mark, MarkFails,
                        Crash, Goto, TypeOK
  <2>2. CASE Healthy(r)
    BY <1>1, <2>2 DEF Healthy, ClaimsKept, LeasesPlanned
  <2>3. CASE Accepted(r)
    BY <1>1, <2>3 DEF Accepted, ClaimsKept, RunnersKept
  <2>4. CASE Release(r)
    <3>1. wm \in Files /\ wm' = Released(wm, ClaimedBy(r), ClaimId(r))
      BY <1>1, <2>4 DEF TypeOK, Release
    <3>2. wm'[m].pending # NoLease
      BY ClaimOfLease DEF ClaimId
    <3>3. wm'[m].pending = wm[m].pending /\ m \notin ClaimedBy(r)
      BY <3>1, <3>2 DEF Released, Files, Entry
    <3>. QED
      BY <1>1, <3>3 DEF ClaimsKept, LeasesPlanned
  <2>. QED
    BY <2>1, <2>2, <2>3, <2>4
<1>. QED
  BY <1>1, ClaimsInvariant, TypeCorrect, PTL DEF Spec, LeaseMeansWake

\* A runner whose wake is in the inbox and whose marker can be written has accepted
\* it: it does not come to the EXIT trap with claims to give back.
AcceptedIsOver ==
  \A r \in Agents : appended[r] => pc[r] \in {"marking", "injected"}

\* When no write fails, only the claims of a wake that was not accepted are released;
\* so the marker's failing write is the one way to release those of an accepted wake.
THEOREM ReleasesRefused ==
  ASSUME IOFaults = FALSE PROVE Spec => ReleasedMeansNotAccepted
<1>1. Init => AcceptedIsOver
  BY DEF Init, AcceptedIsOver
<1>2. TypeOK /\ AcceptedIsOver /\ [Next]_vars => AcceptedIsOver'
  <2>. SUFFICES ASSUME TypeOK, AcceptedIsOver, [Next]_vars PROVE AcceptedIsOver'
    OBVIOUS
  <2>. USE DEF TypeOK, AcceptedIsOver
  <2>1. ASSUME NEW r \in Agents, Run(r) PROVE AcceptedIsOver'
    <3>1. CASE Start(r) \/ Claim(r) \/ Refused(r) \/ CoolDown(r)
      BY <3>1 DEF Start, Claim, Refused, CoolDown, Working, Goto
    <3>2. CASE Append(r) \/ Mark(r)
      BY <3>2 DEF Append, Mark, Goto
    <3>3. CASE Healthy(r) \/ Accepted(r) \/ Release(r) \/ Crash(r)
      BY <3>3 DEF Healthy, Accepted, Release, Crash, Exit, Goto
    <3>. QED
      BY <2>1, <3>1, <3>2, <3>3 DEF Run, MarkFails
  <2>2. CASE Tick \/ Session \/ AtHorizon \/ UNCHANGED vars
    BY <2>2 DEF Tick, Session, Complete, ReportSuccess, ReportFailure, AckCrash, Drop,
                AtHorizon, runner, vars
  <2>3. ASSUME NEW m \in Missions, SetStatus(m) PROVE AcceptedIsOver'
    BY <2>3 DEF SetStatus, runner
  <2>. QED
    BY <2>1, <2>2, <2>3 DEF Next
<1>3. AcceptedIsOver =>
        [\A r \in Agents : pc[r] = "exit" /\ pc'[r] = "idle" /\ appended[r] =>
           wm' = wm]_vars
  BY DEF AcceptedIsOver
<1>. QED
  BY <1>1, <1>2, <1>3, TypeCorrect, PTL DEF Spec, ReleasedMeansNotAccepted

-----------------------------------------------------------------------------
(* Two wakes of calm times are a cooldown apart, because the marker is never
   older than such a wake while nobody holds the lock: that needs every runner
   to mark in the unit of time it read the clock in. *)

WakeMarked(w) ==
  /\ 1 <= w.at /\ w.at <= clock
  /\ CalmFrom <= w.at =>
       w.at <= marker \/ \E r \in Agents : pc[r] = "marking" /\ now[r] = w.at

MarkerKept ==
  /\ 1 <= clock
  /\ marker <= clock
  /\ \A w \in sent : WakeMarked(w)

LEMMA NewWake ==
  ASSUME TypeOK, [Next]_vars, NEW r \in Agents, appended'[r], ~appended[r]
  PROVE  Append(r)
<1>1. Run(r)
  BY OneRunner
<1>. QED
  BY <1>1 DEF Run, Start, Claim, Healthy, Refused, CoolDown, Append, Mark, MarkFails,
              Accepted, Release, Crash, Exit, TypeOK

LEMMA MarkerStep ==
  ASSUME PromptInv, TypeOK', MarkerKept, [Next]_vars
  PROVE  MarkerKept'
<1>0. /\ TypeOK /\ clock \in Nat /\ marker \in Nat
      /\ \A r \in Agents : Working(r) => now[r] = clock
      /\ \A w \in sent : w.at \in Nat
  BY DEF PromptInv, PromptRunners, TypeOK, Times, Wakes
<1>1. CASE Tick
  BY <1>0, <1>1 DEF Tick, MarkerKept, WakeMarked
<1>2. ASSUME NEW r \in Agents, Append(r) PROVE MarkerKept'
  <2>1. ASSUME NEW w \in sent PROVE WakeMarked(w)'
    <3>1. WakeMarked(w)
      BY DEF MarkerKept
    <3>. QED
      BY <1>0, <1>2, <3>1 DEF Append, Goto, FloorLockFree, WakeMarked
  <2>2. ASSUME NEW w \in sent', w = Wake(r) PROVE WakeMarked(w)'
    <3>1. w.at = now[r] /\ now[r] = clock
      BY <1>0, <1>2, <2>2 DEF Append, Working, Wake
    <3>2. pc'[r] = "marking" /\ now'[r] = now[r] /\ clock' = clock
      BY <1>0, <1>2 DEF Append, Goto, TypeOK
    <3>3. 1 <= clock
      BY DEF MarkerKept
    <3>. QED
      BY <1>0, <3>1, <3>2, <3>3 DEF WakeMarked
  <2>3. \A w \in sent' : w \in sent \/ w = Wake(r)
    BY <1>2 DEF Append
  <2>4. 1 <= clock' /\ marker' <= clock'
    BY <1>2 DEF Append, MarkerKept
  <2>. QED
    BY <2>1, <2>2, <2>3, <2>4 DEF MarkerKept
<1>3. ASSUME NEW r \in Agents, Mark(r) PROVE MarkerKept'
  <2>1. /\ now[r] = clock /\ marker' = clock /\ clock' = clock /\ sent' = sent
        /\ now' = now
    BY <1>0, <1>3 DEF Mark, Working
  <2>. QED
    BY <1>0, <2>1 DEF MarkerKept, WakeMarked
<1>4. ASSUME NEW r \in Agents, MarkFails(r) \/ Crash(r) PROVE MarkerKept'
  <2>1. clock < CalmFrom /\ UNCHANGED <<clock, marker, sent>> /\ CalmFrom \in Nat
    BY <1>0, <1>4, DispatchAssumption DEF MarkFails, Crash, Calm
  <2>. QED
    BY <1>0, <2>1 DEF MarkerKept, WakeMarked
<1>5. ASSUME UNCHANGED <<clock, marker, sent>>,
             \A r \in Agents : pc[r] = "marking" => pc'[r] = "marking" /\ now'[r] = now[r]
      PROVE  MarkerKept'
  BY <1>5 DEF MarkerKept, WakeMarked
<1>6. ASSUME NEW r \in Agents, Run(r), ~(Append(r) \/ Mark(r) \/ MarkFails(r) \/ Crash(r))
      PROVE  MarkerKept'
  <2>1. UNCHANGED <<clock, marker, sent>>
    BY <1>6 DEF Run, Start, Claim, Healthy, Refused, CoolDown, Accepted, Release
  <2>2. ASSUME NEW q \in Agents, pc[q] = "marking"
        PROVE  pc'[q] = "marking" /\ now'[q] = now[q]
    BY <1>0, <1>6, <2>2 DEF Run, Start, Claim, Healthy, Refused, CoolDown, Accepted,
           Release, Exit, Goto, Working, TypeOK
  <2>. QED
    BY <1>5, <2>1, <2>2
<1>7. CASE ~(Tick \/ \E r \in Agents : Run(r))
  <2>1. UNCHANGED <<clock, marker, sent, pc, now>>
    BY <1>7 DEF Next, SetStatus, Session, Complete, Drop, ReportSuccess, ReportFailure,
                AckCrash, AtHorizon, vars, runner
  <2>. QED
    BY <1>5, <2>1
<1>. QED
  BY <1>1, <1>2, <1>3, <1>4, <1>6, <1>7

\* While runners end in the unit of time they started in, the last-inject marker
\* and its lock keep the wakes of both agents a cooldown apart in calm times
\* (inject_loop_wake).
THEOREM WakesCooledDown == ASSUME MaxLag = 0 PROVE Spec => WakesSpaced
<1>1. Init => MarkerKept
  BY DEF Init, MarkerKept
<1>2. PromptInv /\ TypeOK' /\ MarkerKept /\ [Next]_vars => MarkerKept'
  BY MarkerStep
<1>3. ASSUME PromptInv, MarkerKept, [Next]_vars
      PROVE  [\A r \in Agents : appended'[r] /\ ~appended[r] =>
                \A w \in sent : CalmFrom <= w.at =>
                  ~(w.at <= now[r] /\ now[r] < w.at + Cooldown)]_vars
  <2>. SUFFICES ASSUME NEW r \in Agents, appended'[r], ~appended[r],
                       NEW w \in sent, CalmFrom <= w.at
                PROVE  ~(now[r] < w.at + Cooldown)
    OBVIOUS
  <2>1. Append(r)
    BY <1>3, NewWake DEF PromptInv
  <2>2. now[r] = clock /\ clock \in Nat /\ marker \in Nat /\ w.at \in Nat /\ Cooldown \in Nat
    BY <1>3, <2>1, DispatchAssumption
       DEF Append, Working, PromptInv, PromptRunners, TypeOK, Times, Wakes
  <2>3. 1 <= w.at /\ w.at <= marker /\ marker <= clock
    BY <1>3, <2>1 DEF Append, FloorLockFree, MarkerKept, WakeMarked
  <2>4. clock - marker >= Cooldown
    BY <2>1, <2>2, <2>3 DEF Append, InCooldown
  <2>. QED
    BY <2>2, <2>3, <2>4
<1>. QED
  BY <1>1, <1>2, <1>3, PromptInvariant, TypeCorrect, PTL DEF Spec, WakesSpaced

-----------------------------------------------------------------------------
(* No agent repeats a mission-period while the lease of an earlier wake lasts.
   That asks of every wake in the inbox that its lease is over, or still in the
   file, or fulfilled; and of every runner between its claim and its wake that
   no wake covers what it claimed and that nobody else claimed it too.  A claim
   drops the lease of a mission that is not live, so this is about the missions
   whose status nobody edits. *)

Steady     == Periodic \ Flippable
Today(m)   == Period(m, clock)
Over(w)    == w.at + LeaseTime <= clock
Holding(r) == pc[r] \in {"claimed", "exit"}

WakesPast ==
  \A w \in sent : w.at <= clock /\ \A j \in w.jobs : j[2] <= Period(j[1], clock)

Covered(m, w) ==
  \/ Over(w)
  \/ wm[m].last = Today(m)
  \/ /\ wm[m].pending # NoLease
     /\ wm[m].pending.period = Today(m)
     /\ w.at + LeaseTime <= wm[m].pending.expires

WakesCovered ==
  \A m \in Steady : \A w \in sent : <<m, Today(m)>> \in w.jobs => Covered(m, w)

Held(r, m) ==
  /\ \A w \in sent : <<m, Today(m)>> \in w.jobs => Over(w)
  /\ \/ wm[m].last = Today(m)
     \/ wm[m].pending = NewLease(ClaimId(r), m, clock)

PlansHeld ==
  \A r \in Agents : Holding(r) =>
    /\ \A m \in plan[r] \cap Steady : Held(r, m)
    /\ \A q \in Agents : q # r /\ Holding(q) => plan[r] \cap plan[q] \cap Steady = {}

RepeatInv ==
  /\ Missions \ Flippable \subseteq live
  /\ WakesPast /\ WakesCovered /\ PlansHeld

\* What PromptInv and the assumptions say of the numbers involved.
LEMMA PromptNumbers ==
  ASSUME PromptInv
  PROVE  /\ TypeOK /\ wm \in Files /\ clock \in Times /\ clock \in Nat
         /\ LeaseTime \in Nat /\ LeaseTime > 0
         /\ \A r \in Agents : Working(r) => now[r] = clock
         /\ \A w \in sent : w.at \in Nat
         /\ \A m \in Missions : /\ Today(m) \in Nat
                                /\ wm[m].last \in Int
                                /\ wm[m].last <= Today(m)
<1>1. ASSUME NEW m \in Missions PROVE Today(m) \in Nat
  BY PeriodAssumption DEF PromptInv, TypeOK, Today
<1>. QED
  BY <1>1, MissionAssumption
     DEF PromptInv, PromptRunners, NothingAhead, TypeOK, Times, Wakes, Files, Entry,
         NoPeriod, Today

LEMMA FreshLease ==
  ASSUME NEW r \in Agents, NEW t, NEW m
  PROVE  /\ NewLease(<<r, t>>, m, clock) # NoLease
         /\ NewLease(<<r, t>>, m, clock).period = Today(m)
         /\ NewLease(<<r, t>>, m, clock).expires = clock + LeaseTime
<1>1. NewLease(<<r, t>>, m, clock).claim = <<r, t>>
  BY DEF NewLease
<1>2. NoLease.claim # <<r, t>>
  BY ClaimOfLease
<1>. QED
  BY <1>1, <1>2 DEF NewLease, Today

\* A mission that a runner holds is not due for any other.
LEMMA HeldNotDue ==
  ASSUME PromptInv, NEW r \in Agents, NEW m \in Steady, Held(r, m)
  PROVE  ~Due(wm[m], m, clock)
<1>0. m \notin Continuous /\ clock \in Nat /\ LeaseTime \in Nat /\ LeaseTime > 0
  BY PromptNumbers DEF Steady, Periodic
<1>1. CASE wm[m].last = Today(m)
  BY <1>0, <1>1 DEF Due, Today
<1>2. CASE wm[m].pending = NewLease(ClaimId(r), m, clock)
  <2>1. /\ wm[m].pending # NoLease
        /\ wm[m].pending.period = Today(m)
        /\ wm[m].pending.expires = clock + LeaseTime
    BY <1>2, FreshLease DEF ClaimId
  <2>. QED
    BY <1>0, <2>1 DEF Due, Today
<1>. QED
  BY <1>1, <1>2 DEF Held

\* When a mission is due, every wake of its period is over.
LEMMA DueMeansOver ==
  ASSUME PromptInv, RepeatInv, NEW m \in Steady, Due(wm[m], m, clock),
         NEW w \in sent, <<m, Today(m)>> \in w.jobs
  PROVE  Over(w)
<1>1. Covered(m, w)
  BY DEF RepeatInv, WakesCovered
<1>2. m \in Missions /\ m \notin Continuous
  BY DEF Steady, Periodic
<1>3. CASE /\ wm[m].pending # NoLease
           /\ wm[m].pending.period = Today(m)
           /\ w.at + LeaseTime <= wm[m].pending.expires
  <2>1. wm[m].pending.expires \in Nat
    BY <1>2, <1>3, PromptNumbers DEF Files, Entry, Leases
  <2>2. wm[m].pending.expires <= clock
    BY <1>2, <1>3, <2>1, PromptNumbers DEF Due, Today
  <2>. QED
    BY <1>3, <2>1, <2>2, PromptNumbers DEF Over
<1>4. wm[m].last # Today(m)
  BY <1>2 DEF Due, Today
<1>. QED
  BY <1>1, <1>3, <1>4 DEF Covered

LEMMA RepeatTick ==
  ASSUME MaxLag = 0, PromptInv, TypeOK', RepeatInv, Tick
  PROVE  RepeatInv'
<1>0. /\ clock \in Times /\ clock \in Nat /\ clock + 1 \in Times
      /\ clock' = clock + 1 /\ LeaseTime \in Nat
      /\ UNCHANGED <<live, wm, pc, now, plan, sent>>
      /\ \A w \in sent : w.at \in Nat
  BY PromptNumbers DEF Tick, TypeOK
<1>1. \A r \in Agents : ~Working(r)
  <2>. SUFFICES ASSUME NEW r \in Agents, Working(r) PROVE FALSE
    OBVIOUS
  <2>1. now[r] = clock /\ clock - now[r] < 0
    BY PromptNumbers DEF Tick
  <2>. QED
    BY <1>0, <2>1
<1>2. ASSUME NEW m \in Missions
      PROVE  Today(m) \in Nat /\ Today(m)' \in Nat /\ Today(m) <= Today(m)'
  BY <1>0, PeriodAssumption DEF Today
<1>3. WakesPast'
  <2>. SUFFICES ASSUME NEW w \in sent, NEW j \in w.jobs
                PROVE  j[2] <= Period(j[1], clock + 1)
    BY <1>0 DEF WakesPast, RepeatInv
  <2>1. j[1] \in Missions /\ j[2] \in Nat
    BY PromptNumbers DEF TypeOK, Wakes, Jobs
  <2>2. j[2] <= Today(j[1])
    BY DEF RepeatInv, WakesPast, Today
  <2>3. j[2] <= Today(j[1])'
    BY <1>2, <2>1, <2>2
  <2>. QED
    BY <1>0, <2>3 DEF Today
<1>4. WakesCovered'
  <2>. SUFFICES ASSUME NEW m \in Steady, NEW w \in sent, <<m, Today(m)'>> \in w.jobs
                PROVE  Covered(m, w)'
    BY <1>0 DEF WakesCovered
  <2>1. m \in Missions
    BY DEF Steady, Periodic
  <2>2. Today(m)' <= Today(m)
    BY DEF RepeatInv, WakesPast, Today
  <2>3. Today(m)' = Today(m)
    BY <1>2, <2>1, <2>2
  <2>4. Covered(m, w)
    BY <2>3 DEF RepeatInv, WakesCovered
  <2>5. Over(w) => Over(w)'
    BY <1>0 DEF Over
  <2>. QED
    BY <1>0, <2>3, <2>4, <2>5 DEF Covered
<1>5. PlansHeld'
  BY <1>0, <1>1 DEF PlansHeld, Holding, Working
<1>. QED
  BY <1>0, <1>3, <1>4, <1>5 DEF RepeatInv

LEMMA RepeatClaim ==
  ASSUME PromptInv, TypeOK', RepeatInv, NEW r \in Agents, Claim(r)
  PROVE  RepeatInv'
<1>0. /\ wm \in Files /\ clock \in Nat /\ LeaseTime \in Nat
      /\ UNCHANGED <<clock, live, now, sent>>
      /\ now[r] = clock
      /\ plan' = [plan EXCEPT ![r] = Plan(wm, live, clock)]
      /\ plan \in [Agents -> SUBSET Missions]
      /\ wm' = Claimed(wm, live, ClaimId(r), clock)
      /\ pc' = [pc EXCEPT ![r] = "claimed"] /\ pc \in [Agents -> Phases]
      /\ ~Holding(r)
      /\ \A w \in sent : w.at \in Nat
  <2>1. now[r] = clock
    BY PromptNumbers DEF Claim, Working
  <2>. QED
    BY <2>1, PromptNumbers DEF Claim, Goto, TypeOK, Holding
<1>1. ASSUME NEW m \in Steady
      PROVE  /\ Today(m)' = Today(m)
             /\ wm'[m].last = wm[m].last
             /\ Due(wm[m], m, clock) => wm'[m].pending = NewLease(ClaimId(r), m, clock)
             /\ ~Due(wm[m], m, clock) => wm'[m].pending = wm[m].pending
             /\ m \in plan'[r] => Due(wm[m], m, clock)
  <2>1. m \in Missions /\ m \in live /\ m \notin Continuous
    BY DEF Steady, Periodic, RepeatInv
  <2>. QED
    BY <1>0, <2>1 DEF Claimed, Plan, Files, Entry, Today
<1>2. WakesCovered'
  <2>. SUFFICES ASSUME NEW m \in Steady, NEW w \in sent, <<m, Today(m)>> \in w.jobs
                PROVE  Covered(m, w)'
    BY <1>0, <1>1 DEF WakesCovered
  <2>1. CASE Due(wm[m], m, clock)
    BY <1>0, <2>1, DueMeansOver DEF Covered, Over
  <2>2. CASE ~Due(wm[m], m, clock)
    <3>1. Covered(m, w)
      BY DEF RepeatInv, WakesCovered
    <3>. QED
      BY <1>0, <1>1, <2>2, <3>1 DEF Covered, Over
  <2>. QED
    BY <2>1, <2>2
<1>3. ASSUME NEW m \in plan'[r] \cap Steady
      PROVE  Held(r, m)'
  <2>1. \A w \in sent : <<m, Today(m)>> \in w.jobs => Over(w)
    BY <1>1, <1>3, DueMeansOver
  <2>2. wm'[m].pending = NewLease(ClaimId(r), m, clock)
    BY <1>1, <1>3
  <2>. QED
    BY <1>0, <1>1, <2>1, <2>2 DEF Held, Over, ClaimId, NewLease
<1>4. ASSUME NEW q \in Agents, q # r, Holding(q)
      PROVE  /\ \A m \in plan[q] \cap Steady : Held(q, m)' /\ m \notin plan'[r]
             /\ plan'[q] = plan[q]
  <2>. SUFFICES ASSUME NEW m \in plan[q] \cap Steady PROVE Held(q, m)' /\ m \notin plan'[r]
    BY <1>0, <1>4
  <2>1. Held(q, m)
    BY <1>4 DEF RepeatInv, PlansHeld
  <2>2. ~Due(wm[m], m, clock)
    BY <2>1, HeldNotDue
  <2>. QED
    BY <1>0, <1>1, <2>1, <2>2 DEF Held, Over, ClaimId, NewLease
<1>5. PlansHeld'
  <2>1. \A q \in Agents : Holding(q)' => q = r \/ Holding(q)
    BY <1>0 DEF Holding
  <2>2. \A q, s \in Agents : q # r /\ s # r /\ q # s /\ Holding(q) /\ Holding(s) =>
          plan'[q] \cap plan'[s] \cap Steady = {}
    BY <1>4 DEF RepeatInv, PlansHeld
  <2>3. \A q \in Agents : q # r /\ Holding(q) => plan'[r] \cap plan'[q] \cap Steady = {}
    BY <1>4
  <2>. QED
    BY <1>3, <1>4, <2>1, <2>2, <2>3 DEF PlansHeld
<1>. QED
  BY <1>0, <1>2, <1>5 DEF RepeatInv, WakesPast

LEMMA RepeatAppend ==
  ASSUME PromptInv, TypeOK', RepeatInv, NEW r \in Agents, Append(r)
  PROVE  RepeatInv'
<1>0. /\ clock \in Nat /\ LeaseTime \in Nat
      /\ UNCHANGED <<clock, live, wm, now, plan>>
      /\ Holding(r)
      /\ sent' = sent \cup {Wake(r)}
      /\ Wake(r).at = clock
      /\ \A j \in Wake(r).jobs : j[1] \in plan[r] /\ j[2] = Today(j[1])
      /\ \A q \in Agents : Holding(q)' => q # r /\ Holding(q)
  <2>1. now[r] = clock
    BY PromptNumbers DEF Append, Working
  <2>. QED
    BY <2>1, PromptNumbers DEF Append, Goto, TypeOK, Holding, Wake, Today
<1>1. \A m : Today(m)' = Today(m)
  BY <1>0 DEF Today
<1>2. WakesPast'
  <2>1. ASSUME NEW j \in Wake(r).jobs PROVE j[2] <= Period(j[1], clock)
    <3>1. j[1] \in Missions
      BY <1>0, PromptNumbers DEF TypeOK
    <3>2. j[2] = Today(j[1]) /\ Today(j[1]) \in Nat
      BY <1>0, <3>1, PromptNumbers
    <3>. QED
      BY <3>2 DEF Today
  <2>. QED
    BY <1>0, <2>1 DEF RepeatInv, WakesPast
<1>3. WakesCovered'
  <2>. SUFFICES ASSUME NEW m \in Steady, NEW w \in sent', <<m, Today(m)>> \in w.jobs
                PROVE  Covered(m, w)'
    BY <1>1 DEF WakesCovered
  <2>1. CASE w \in sent
    <3>1. Covered(m, w)
      BY <2>1 DEF RepeatInv, WakesCovered
    <3>. QED
      BY <1>0, <1>1, <3>1 DEF Covered, Over
  <2>2. CASE w = Wake(r)
    <3>1. m \in plan[r]
      BY <1>0, <2>2
    <3>2. Held(r, m)
      BY <1>0, <3>1 DEF RepeatInv, PlansHeld
    <3>3. CASE wm[m].last = Today(m)
      BY <1>0, <1>1, <3>3 DEF Covered
    <3>4. CASE wm[m].pending = NewLease(ClaimId(r), m, clock)
      BY <1>0, <1>1, <2>2, <3>4, FreshLease DEF Covered, ClaimId
    <3>. QED
      BY <3>2, <3>3, <3>4 DEF Held
  <2>. QED
    BY <1>0, <2>1, <2>2
<1>4. ASSUME NEW q \in Agents, q # r, Holding(q), NEW m \in plan[q] \cap Steady
      PROVE  Held(q, m)'
  <2>1. Held(q, m)
    BY <1>4 DEF RepeatInv, PlansHeld
  <2>2. m \notin plan[r]
    BY <1>0, <1>4 DEF RepeatInv, PlansHeld
  <2>3. <<m, Today(m)>> \notin Wake(r).jobs
    BY <1>0, <2>2
  <2>. QED
    BY <1>0, <1>1, <2>1, <2>3 DEF Held, Over, ClaimId
<1>5. PlansHeld'
  BY <1>0, <1>4 DEF RepeatInv, PlansHeld
<1>. QED
  BY <1>0, <1>2, <1>3, <1>5 DEF RepeatInv

LEMMA RepeatRelease ==
  ASSUME PromptInv, TypeOK', RepeatInv, NEW r \in Agents, Release(r)
  PROVE  RepeatInv'
<1>0. /\ wm \in Files
      /\ UNCHANGED <<clock, live, sent>>
      /\ wm' = Released(wm, ClaimedBy(r), ClaimId(r))
      /\ Holding(r)
      /\ \A q \in Agents : Holding(q)' =>
           q # r /\ Holding(q) /\ plan'[q] = plan[q] /\ now'[q] = now[q]
  BY PromptNumbers DEF Release, Exit, Goto, Holding, TypeOK
<1>1. ASSUME NEW m \in Steady
      PROVE  /\ Today(m)' = Today(m)
             /\ wm'[m].last = wm[m].last
             /\ \/ wm'[m].pending = wm[m].pending
                \/ m \in plan[r] /\ wm[m].pending.claim = ClaimId(r)
  BY <1>0 DEF Released, ClaimedBy, Files, Entry, Today, Steady, Periodic
<1>2. WakesCovered'
  <2>. SUFFICES ASSUME NEW m \in Steady, NEW w \in sent, <<m, Today(m)>> \in w.jobs
                PROVE  Covered(m, w)'
    BY <1>0, <1>1 DEF WakesCovered
  <2>1. CASE m \in plan[r]
    <3>1. Over(w)
      BY <1>0, <2>1 DEF RepeatInv, PlansHeld, Held
    <3>. QED
      BY <1>0, <3>1 DEF Covered, Over
  <2>2. CASE m \notin plan[r]
    <3>1. Covered(m, w)
      BY DEF RepeatInv, WakesCovered
    <3>. QED
      BY <1>0, <1>1, <2>2, <3>1 DEF Covered, Over
  <2>. QED
    BY <2>1, <2>2
<1>3. ASSUME NEW q \in Agents, Holding(q)', NEW m \in plan[q] \cap Steady
      PROVE  Held(q, m)'
  <2>1. Held(q, m) /\ q # r /\ now'[q] = now[q]
    BY <1>0, <1>3 DEF RepeatInv, PlansHeld
  <2>2. NewLease(ClaimId(q), m, clock).claim # ClaimId(r)
    BY <2>1 DEF NewLease, ClaimId
  <2>3. wm'[m].last = Today(m) \/ wm'[m].pending = NewLease(ClaimId(q), m, clock)
    BY <1>1, <2>1, <2>2 DEF Held
  <2>4. ClaimId(q)' = ClaimId(q)
    BY <2>1 DEF ClaimId
  <2>. QED
    BY <1>0, <1>1, <2>1, <2>3, <2>4 DEF Held, Over, NewLease
<1>4. PlansHeld'
  BY <1>0, <1>3 DEF RepeatInv, PlansHeld
<1>. QED
  BY <1>0, <1>2, <1>4 DEF RepeatInv, WakesPast

LEMMA RepeatAcknowledge ==
  ASSUME PromptInv, TypeOK', RepeatInv, NEW j \in inbox, Complete(j[1], j[2])
  PROVE  RepeatInv'
<1>0. /\ wm \in Files /\ j[1] \in Missions /\ j[2] \in Nat
      /\ wm' = Acked(wm, j[1], j[2])
      /\ j[2] <= Today(j[1])
      /\ UNCHANGED <<clock, live, sent, pc, now, plan>>
  BY DEF PromptInv, TypeOK, NothingAhead, Jobs, Complete, runner, Today
<1>1. ASSUME NEW m \in Steady
      PROVE  /\ Today(m)' = Today(m)
             /\ wm[m].last = Today(m) => wm'[m].last = Today(m)
             /\ wm[m].pending.period = Today(m) =>
                  wm'[m].last = Today(m) \/ wm'[m].pending = wm[m].pending
  <2>0. m \in Missions
    BY DEF Steady, Periodic
  <2>1. CASE m # j[1]
    BY <1>0, <2>0, <2>1, AckedEntry DEF Today
  <2>2. CASE m = j[1]
    <3>1. /\ wm'[m].last = IF wm[m].last <= j[2] THEN j[2] ELSE wm[m].last
          /\ wm'[m].pending = IF wm[m].pending.period = j[2] THEN NoLease
                              ELSE wm[m].pending
      BY <1>0, <2>2, AckedEntry
    <3>2. wm[m].last \in Int /\ wm[m].last <= Today(m) /\ Today(m) \in Nat
      BY <2>0, PromptNumbers
    <3>3. Today(m)' = Today(m)
      BY <1>0 DEF Today
    <3>. QED
      BY <1>0, <2>2, <3>1, <3>2, <3>3
  <2>. QED
    BY <2>1, <2>2
<1>2. WakesCovered'
  <2>. SUFFICES ASSUME NEW m \in Steady, NEW w \in sent, <<m, Today(m)>> \in w.jobs
                PROVE  Covered(m, w)'
    BY <1>0, <1>1 DEF WakesCovered
  <2>1. Covered(m, w)
    BY DEF RepeatInv, WakesCovered
  <2>. QED
    BY <1>0, <1>1, <2>1 DEF Covered, Over
<1>3. ASSUME NEW r \in Agents, Holding(r), NEW m \in plan[r] \cap Steady
      PROVE  Held(r, m)'
  <2>1. Held(r, m)
    BY <1>3 DEF RepeatInv, PlansHeld
  <2>2. NewLease(ClaimId(r), m, clock).period = Today(m)
    BY DEF NewLease, Today
  <2>3. wm'[m].last = Today(m) \/ wm'[m].pending = NewLease(ClaimId(r), m, clock)
    BY <1>1, <2>1, <2>2 DEF Held
  <2>4. ClaimId(r)' = ClaimId(r)
    BY <1>0 DEF ClaimId
  <2>. QED
    BY <1>0, <1>1, <2>1, <2>3, <2>4 DEF Held, Over, NewLease
<1>4. PlansHeld'
  BY <1>0, <1>3 DEF RepeatInv, PlansHeld, Holding
<1>. QED
  BY <1>0, <1>2, <1>4 DEF RepeatInv, WakesPast

\* Steps that write neither the watermark nor the inbox.
LEMMA RepeatSame ==
  ASSUME RepeatInv, UNCHANGED <<clock, wm, sent>>,
         Missions \ Flippable \subseteq live',
         \A q \in Agents : Holding(q)' =>
           Holding(q) /\ plan'[q] = plan[q] /\ now'[q] = now[q]
  PROVE  RepeatInv'
<1>1. \A m : Today(m)' = Today(m)
  BY DEF Today
<1>2. WakesCovered'
  BY <1>1 DEF RepeatInv, WakesCovered, Covered, Over
<1>3. ASSUME NEW q \in Agents, Holding(q)', NEW m \in plan[q] \cap Steady
      PROVE  Held(q, m)'
  <2>1. Held(q, m) /\ now'[q] = now[q]
    BY <1>3 DEF RepeatInv, PlansHeld
  <2>. QED
    BY <1>1, <2>1 DEF Held, Over, ClaimId, NewLease
<1>4. PlansHeld'
  BY <1>3 DEF RepeatInv, PlansHeld
<1>. QED
  BY <1>2, <1>4 DEF RepeatInv, WakesPast

LEMMA RepeatOther ==
  ASSUME IOFaults = FALSE, PromptInv, RepeatInv,
         \/ \E m \in Missions : SetStatus(m)
         \/ \E r \in Agents : \/ Start(r) \/ Healthy(r) \/ Refused(r) \/ CoolDown(r)
                              \/ Mark(r) \/ MarkFails(r) \/ Accepted(r) \/ Crash(r)
         \/ \E j \in inbox : Drop(j[1], j[2])
         \/ \E a \in acking : ReportSuccess(a) \/ ReportFailure(a) \/ AckCrash(a)
         \/ AtHorizon \/ UNCHANGED vars
  PROVE  RepeatInv'
<1>0. TypeOK
  BY DEF PromptInv
<1>1. ASSUME NEW m \in Missions, SetStatus(m) PROVE RepeatInv'
  BY <1>1, RepeatSame DEF SetStatus, runner, Holding, RepeatInv
<1>2. ASSUME NEW r \in Agents,
             \/ Start(r) \/ Healthy(r) \/ Refused(r) \/ CoolDown(r)
             \/ Mark(r) \/ MarkFails(r) \/ Accepted(r) \/ Crash(r)
      PROVE  RepeatInv'
  <2>1. UNCHANGED <<clock, live, wm, sent>>
    BY <1>2 DEF Start, Healthy, Refused, CoolDown, Mark, MarkFails, Accepted, Crash
  <2>2. ASSUME NEW q \in Agents, Holding(q)'
        PROVE  Holding(q) /\ plan'[q] = plan[q] /\ now'[q] = now[q]
    BY <1>0, <1>2, <2>2 DEF Start, Healthy, Refused, CoolDown, Mark, MarkFails, Accepted,
           Crash, Exit, Goto, Holding, Working, TypeOK
  <2>. QED
    BY <2>1, <2>2, RepeatSame DEF RepeatInv
<1>3. CASE \/ \E j \in inbox : Drop(j[1], j[2])
           \/ \E a \in acking : ReportSuccess(a) \/ ReportFailure(a) \/ AckCrash(a)
           \/ AtHorizon \/ UNCHANGED vars
  <2>1. UNCHANGED <<clock, live, wm, sent, pc, now, plan>>
    BY <1>3 DEF Drop, ReportSuccess, ReportFailure, AckCrash, AtHorizon, vars, runner
  <2>. QED
    BY <2>1, RepeatSame DEF RepeatInv, Holding
<1>. QED
  BY <1>1, <1>2, <1>3

LEMMA RepeatInvariant ==
  ASSUME MaxLag = 0, IOFaults = FALSE
  PROVE  Spec => []RepeatInv
<1>1. Init => RepeatInv
  BY DEF Init, RepeatInv, WakesPast, WakesCovered, PlansHeld, Holding
<1>2. PromptInv /\ TypeOK' /\ RepeatInv /\ [Next]_vars => RepeatInv'
  BY RepeatTick, RepeatClaim, RepeatAppend, RepeatRelease, RepeatAcknowledge, RepeatOther
     DEF Next, Run, Session
<1>. QED
  BY <1>1, <1>2, PromptInvariant, TypeCorrect, PTL DEF Spec

LEMMA NoRepeatStep ==
  ASSUME PromptInv, RepeatInv, [Next]_vars,
         NEW r \in Agents, appended'[r], ~appended[r],
         NEW w \in sent, NEW m \in ClaimedBy(r) \ Flippable,
         <<m, Period(m, now[r])>> \in w.jobs
  PROVE  w.at + LeaseTime <= now[r]
<1>1. Append(r)
  BY NewWake DEF PromptInv
<1>2. now[r] = clock /\ plan[r] \subseteq Missions
  BY <1>1, PromptNumbers DEF Append, Working, TypeOK
<1>3. Holding(r) /\ m \in plan[r] \cap Steady
  BY <1>1, <1>2 DEF Append, Holding, ClaimedBy, Steady, Periodic
<1>4. Held(r, m)
  BY <1>3 DEF RepeatInv, PlansHeld
<1>. QED
  BY <1>2, <1>4 DEF Held, Over, Today

\* The lease keeps the agents from appending duplicate work (claim_due_missions,
\* release_due_claims), whoever crashes, cools down or releases in between: for
\* every mission whose status in dept.yaml is not edited.
THEOREM NoRepeat ==
  ASSUME MaxLag = 0, IOFaults = FALSE
  PROVE  Spec => [][\A r \in Agents : appended'[r] /\ ~appended[r] =>
                      \A w \in sent : \A m \in ClaimedBy(r) \ Flippable :
                        <<m, Period(m, now[r])>> \in w.jobs =>
                          w.at + LeaseTime <= now[r]]_vars
<1>1. ASSUME PromptInv, RepeatInv, [Next]_vars
      PROVE  [\A r \in Agents : appended'[r] /\ ~appended[r] =>
                \A w \in sent : \A m \in ClaimedBy(r) \ Flippable :
                  <<m, Period(m, now[r])>> \in w.jobs => w.at + LeaseTime <= now[r]]_vars
  BY <1>1, NoRepeatStep
<1>. QED
  BY <1>1, RepeatInvariant, PromptInvariant, PTL DEF Spec

\* So when dept.yaml is left alone, no wake at all repeats work under a lease.
THEOREM NoRepeatAtAll ==
  ASSUME MaxLag = 0, IOFaults = FALSE, Flippable = {}
  PROVE  Spec => NoEarlyRepeat
<1>1. ASSUME PromptInv, RepeatInv, [Next]_vars
      PROVE  [\A r \in Agents : appended'[r] /\ ~appended[r] =>
                \A w \in sent : \A m \in ClaimedBy(r) :
                  <<m, Period(m, now[r])>> \in w.jobs => w.at + LeaseTime <= now[r]]_vars
  <2>1. \A r \in Agents : ClaimedBy(r) \ Flippable = ClaimedBy(r)
    OBVIOUS
  <2>. QED
    BY <1>1, <2>1, NoRepeatStep
<1>. QED
  BY <1>1, RepeatInvariant, PromptInvariant, PTL DEF Spec, NoEarlyRepeat

\* What the readers of the watermark can count on, by way of the contract: a period
\* that is done was delivered, is not leased, and stays done.
THEOREM ContractKept ==
  Spec => []Contract!ContractInv /\ Contract!ContractMonotone
<1>. DEFINE Ends == [m \in Missions |-> wm[m].last]
<1>1. Contract!ContractInit => Contract!ContractTypeOK /\ Contract!ContractInv
  BY DEF Contract!ContractInit, Contract!ContractTypeOK, Contract!ContractInv,
         Contract!MaybePeriod
<1>2. ASSUME Contract!ContractTypeOK, Contract!ContractInv,
             [Contract!ContractNext]_(Contract!contractVars)
      PROVE  Contract!ContractTypeOK' /\ Contract!ContractInv'
  <2>. DEFINE Lent == [m \in Missions |-> IF wm[m].pending = NoLease THEN NoPeriod
                                          ELSE wm[m].pending.period]
              Sent == UNION {w.jobs : w \in sent}
  <2>. USE <1>2 DEF Contract!ContractTypeOK, Contract!ContractInv, Contract!MaybePeriod
  <2>1. /\ Ends \in [Missions -> Nat \cup {NoPeriod}]
        /\ Lent \in [Missions -> Nat \cup {NoPeriod}]
        /\ Sent \subseteq Missions \X Nat
        /\ \A m \in Missions : Ends[m] # NoPeriod =>
             <<m, Ends[m]>> \in Sent /\ Lent[m] # Ends[m]
    OBVIOUS
  <2>2. SUFFICES /\ Ends' \in [Missions -> Nat \cup {NoPeriod}]
                 /\ Lent' \in [Missions -> Nat \cup {NoPeriod}]
                 /\ Sent' \subseteq Missions \X Nat
                 /\ \A m \in Missions : Ends'[m] # NoPeriod =>
                      <<m, Ends'[m]>> \in Sent' /\ Lent'[m] # Ends'[m]
    OBVIOUS
  <2>3. CASE Contract!Relet
    <3>1. /\ Lent' \in [Missions -> Nat \cup {NoPeriod}]
          /\ \A m \in Missions :
               Lent'[m] # Lent[m] /\ Lent'[m] # NoPeriod => Lent'[m] # Ends[m]
          /\ Ends' = Ends /\ Sent' = Sent
      BY <2>3 DEF Contract!Relet
    <3>. HIDE DEF Ends, Lent, Sent
    <3>. QED
      BY <2>1, <3>1
  <2>4. CASE Contract!Deliver
    <3>1. /\ Sent \subseteq Sent' /\ Sent' \subseteq Missions \X Nat
          /\ Ends' = Ends /\ Lent' = Lent
      BY <2>4 DEF Contract!Deliver
    <3>. HIDE DEF Ends, Lent, Sent
    <3>. QED
      BY <2>1, <3>1
  <2>5. ASSUME NEW j \in Sent, Contract!Succeed(j[1], j[2])
        PROVE  /\ Ends' \in [Missions -> Nat \cup {NoPeriod}]
               /\ Lent' \in [Missions -> Nat \cup {NoPeriod}]
               /\ Sent' \subseteq Missions \X Nat
               /\ \A m \in Missions : Ends'[m] # NoPeriod =>
                    <<m, Ends'[m]>> \in Sent' /\ Lent'[m] # Ends'[m]
    <3>1. /\ Ends' = [Ends EXCEPT ![j[1]] = IF @ <= j[2] THEN j[2] ELSE @]
          /\ Lent' = [Lent EXCEPT ![j[1]] = IF @ = j[2] THEN NoPeriod ELSE @]
          /\ Sent' = Sent
      BY <2>5 DEF Contract!Succeed
    <3>2. j \in Missions \X Nat
      BY <2>1
    <3>3. j[1] \in Missions /\ j[2] \in Nat /\ j = <<j[1], j[2]>>
      BY <3>2
    <3>. HIDE DEF Ends, Lent, Sent
    <3>. QED
      BY <2>1, <2>5, <3>1, <3>3 DEF NoPeriod
  <2>6. CASE UNCHANGED Contract!contractVars
    <3>1. Ends' = Ends /\ Lent' = Lent /\ Sent' = Sent
      BY <2>6 DEF Contract!contractVars
    <3>. HIDE DEF Ends, Lent, Sent
    <3>. QED
      BY <2>1, <3>1
  <2>. QED
    BY <2>3, <2>4, <2>5, <2>6 DEF Contract!ContractNext
<1>3. ASSUME Contract!ContractTypeOK, [Contract!ContractNext]_(Contract!contractVars)
      PROVE  [\A m \in Missions : Ends[m] <= Ends'[m]]_(Contract!contractVars)
  <2>1. Ends \in [Missions -> Nat \cup {NoPeriod}]
    BY <1>3 DEF Contract!ContractTypeOK, Contract!MaybePeriod
  <2>2. \/ Ends' = Ends \/ UNCHANGED Contract!contractVars
        \/ \E m, p : <<m, p>> \in Missions \X Nat
                     /\ Ends' = [Ends EXCEPT ![m] = IF @ <= p THEN p ELSE @]
    <3>1. ASSUME NEW j \in UNION {w.jobs : w \in sent}, Contract!Succeed(j[1], j[2])
          PROVE  \E m, p : <<m, p>> \in Missions \X Nat
                          /\ Ends' = [Ends EXCEPT ![m] = IF @ <= p THEN p ELSE @]
      <4>1. <<j[1], j[2]>> \in Missions \X Nat
        BY <1>3, <3>1 DEF Contract!ContractTypeOK, Contract!Succeed
      <4>2. Ends' = [Ends EXCEPT ![j[1]] = IF @ <= j[2] THEN j[2] ELSE @]
        BY <3>1 DEF Contract!Succeed
      <4>. QED
        BY <4>1, <4>2
    <3>. QED
      BY <1>3, <3>1 DEF Contract!ContractNext, Contract!Relet, Contract!Deliver
  <2>. HIDE DEF Ends
  <2>3. (\A m \in Missions : Ends[m] <= Ends'[m]) \/ UNCHANGED Contract!contractVars
    <3>1. ASSUME NEW q \in Missions, NEW p \in Nat,
                 Ends' = [Ends EXCEPT ![q] = IF @ <= p THEN p ELSE @]
          PROVE  \A m \in Missions : Ends[m] <= Ends'[m]
      BY <2>1, <3>1 DEF NoPeriod
    <3>2. ASSUME Ends' = Ends
          PROVE  \A m \in Missions : Ends[m] <= Ends'[m]
      BY <2>1, <3>2 DEF NoPeriod
    <3>. QED
      BY <2>2, <3>1, <3>2
  <2>. QED
    BY <2>3 DEF Ends
<1>. QED
  BY <1>1, <1>2, <1>3, Implements, PTL
     DEF ImplementsContract, Contract!ContractSpec, Contract!ContractMonotone
=============================================================================
