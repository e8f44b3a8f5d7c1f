# A specification of bubble-ops-loop

bubble-ops-loop runs departments of AI agents: each department is a git
repository with queues, a persistent session that ticks through it, and a set of
small programs around it that wake the session, hand it work and record what was
done. Nothing but files joins these programs, and what goes wrong between them
(two LaunchAgents, a session and a backup floor, an operator and a tick) is what a
unit test hardly reaches. This directory models the protocols between them in
TLA+, checks the models with TLC on small instances, and proves their main
safety properties with TLAPS for every instance.

Paths below are relative to the repository. "The code" is always the source at the
lines named in `PROJECT.json`, `map`.

## 1. The system

### Components, their state and their operations

| component | state | operations | status |
|---|---|---|---|
| due watermark (`scripts/lib/loop_backup.py`, `scripts/due_missions.py`, `scripts/lib/due_dispatch_ledger.py`) | one JSON file per department: per mission the last successful period and a pending lease; a success ledger | `claim`, `release`, `complete` under a sibling flock; `append_success` under another | DueWatermark, DueDispatch |
| LaunchAgent runner (`deploy/local/local-loop-backup-runner.sh`, `deploy/local/lib/local_loop_lib.sh`) | shell variables (`NOW_EPOCH`, `CLAIMS_TOKEN`), inbox file, last-inject marker | read the clock, claim, append one wake, mark, release in the EXIT trap | DueDispatch |
| tick lock (`scripts/tick-lock.sh`) | a flock, a side file with a pid, a holder process | `acquire`, `release`, `status`; the holder's sleep and cleanup | TickLock |
| VPS backup floor (`scripts/loop-backup.sh`, `scripts/lib/auto_restart.py`) | the same flock, heartbeat lines, an inject file, restart history | freshness gate, wake the live session, headless tick, classify its outcome, auto-restart | BackupFloor, TickLock |
| dispatch core (`scripts/lib/dispatch_helpers.py`) | per day `dispatch.json`, `round_counter.json`, L1 baseline; queues; the git checkout | `build_dispatch_ctx`, `decide_dispatch`, `select_due_missions`, `commit_dispatch`, event triggers, archiving, `safe_pull` | DayCycle, GateDecision, GitSync |
| console gates (`console/routes/gate.py`, `console/services/github_reader.py`) | `queues/gates`, `inbox/decisions` of the department | decide, undo, list pending gates | GateDecision |
| tick protocol and layer prompts (`scripts/lib/scaffold.py`, `scripts/lib/layer_templates.py`) | none of their own | the order of the calls a tick and a worker make | GateDecision, DayCycle, GitSync |
| directives and management inbox (`scripts/dispatch_directives.py`, `scripts/management_inbox.py`) | outbound queue and its marks, `queues/management`, `.consumed.json`, `.last-mgmt-scan`, private clones | deliver, verify, mark; scan, act, acknowledge | Directives |
| kanban queue (`tools/kanban/`) | a file of lines, its archive, the board on GitHub | emit or append; drain, archive, replace | KanbanQueue |
| agent-message | queue files | send, receive | not modelled |
| onboarding state machine | `STATE.yaml` | validate steps, activate, cancel, retire | not modelled |
| git-guard, token-broker | audit logs | check, mint, push; policy | a push that may be refused, in GitSync |
| decision signing | keys | sign, verify | cryptography stays external |
| console views, eclosion launcher, sessions, notify, hooks, cockpit health, wiki tools, schemas, deploy scripts, idle-compact, telegram gap detector, system-one decisions | projections, templates, one-shot scripts | | not modelled |

The full list, with the reason for every part that is left out, is `components` in
`PROJECT.json`.

### How they interact

* Two LaunchAgents run the same runner script on one watermark. A runner reads the
  clock once, claims under the flock, and appends a wake to the inbox of the live
  session later; the session executes and acknowledges later still, through the
  same watermark. Suspending the Mac stretches any of these gaps.
* A live tick and the floor's headless tick exclude each other by the tick lock. A
  live tick is many short shells, so a background process holds the flock for it.
* The operator decides in the cockpit by writing a file that the tick's next scan
  finds; the tick hands its name to a worker, the worker acts on the outside world and
  moves the file, and the tick commits afterwards.
* The tick's first step is the git sync. Everything a department writes, and every change
  that people merge, goes through it; pushes of other repositories' relays and of other
  agents meet it at the remote.
* The manager's relay writes into another department's repository through a private clone; that
  department's agents scan the same files, and only refused pushes order the two.
* Any program may report a finding to the board; when GitHub cannot be reached the finding goes to a
  local file that a timer drains.

### What is hard

The `hazards` of `PROJECT.json` list it by line: clocks read once and used after a
suspension; two writes that a death separates (claim and wake, wake and marker,
external action and archive, decision and card, ledger and counter); locks that are
dropped between a check and its use (the read-back of a completion, `gate_decide`);
acknowledgements that arrive late and out of order; a tick that crosses midnight; a
retry of something that was done; a push that lands without a word; a file that is replaced
while another process reads it or appends to it; a git command that fails half-way and what
the next one makes of that; and things that must happen in the end although
nobody in particular is responsible for them.

### What makes each modelled component correct

* Watermark and runners: recorded successes never go back and were delivered; a
  lease never hides a period that is not done; every live mission ends up done; no wake
  repeats a leased mission-period; a lease left behind means a wake in the inbox.
* Tick lock: the side file never names a process that does not hold the lock; a tick
  keeps the lock it took; the lock never wedges; `acquire` always returns.
* Gate decision: a decision is executed once, unless something died in the middle;
  what the ledger, archive and cards say is true; a gate is settled once, by the verdict
  that stood; every decision and card is settled in the end.
* Dispatch day: a mission is closed once a day and counts for at most one round, of its own day and
  layer; the debrief is written in the end, whatever failed; what was missed is caught up.
* Backup floor: no tick joins a guarded one; a fresh heartbeat stands for work that was done; restarts
  stay within the budget; the layers run although the session is gone.
* Directives: only approved text arrives, what arrived does not change, a mark is for what arrived, a
  note is acted on once, and all mail settles.
* Kanban queue: a queued finding stays owed until it has had a card, and the queue runs dry.
* Git sync: no edit is lost, an executed decision does not come back, a dropped runtime file does, and
  the checkout follows main.

## 2. The modules

| module | what it is |
|---|---|
| `DueWatermark` | the pure part of the watermark: which missions are due, and what claim, release and complete write |
| `DueDispatch` | the processes around it: clock, two runners, inbox, marker, session, ledger |
| `DueContract` | abstract: per mission a success that only grows, a lease, and what was delivered |
| `DueDispatchProofs` | theorems about DueDispatch |
| `TickLock` | the flock, the side file, the holder processes, live and headless ticks, the floor |
| `LockContract` | abstract: a lock that changes hands only by way of nobody, and a live tick that relies on it |
| `TickLockProofs` | theorems about TickLock |
| `GateDecision` | cockpit, tick, worker and archive of a gate's decision |
| `GateContract` | abstract: a verdict may change while the gate is open; it is settled once by the verdict that stands |
| `GateDecisionProofs` | theorems about GateDecision |
| `DayCycle` | ticks that decide, work and commit, and the books of the day, under two sessions at once |
| `DayContract` | abstract: what is closed, the round that is owed for it, layer 1's baseline |
| `DayCycleProofs` | theorems about DayCycle |
| `BackupFloor` | the timer units, the live session, the heartbeat and the restarts |
| `BackupFloorProofs` | theorems about BackupFloor |
| `Directives` | manager, relay, remote, and the agents that read the target's inbox |
| `DirectiveContract` | abstract: approved, delivered, marked, consumed |
| `DirectivesProofs` | theorems about Directives |
| `KanbanQueue` | emitters, drains, the file and the board |
| `KanbanContract` | abstract: what was asked for, what is owed, what has had a card |
| `KanbanQueueProofs` | theorems about KanbanQueue |
| `GitSync` | `safe_pull` as git commands over a moving main, with kills |
| `GitSyncProofs` | theorems about GitSync |
| `MC...` | instances for TLC |

### DueWatermark and DueDispatch

`wm[m]` is the watermark's entry of mission m: `last` is `last_success_period`,
`pending` the lease with its claim id, period and expiry. Period tokens are numbers,
because the code compares tokens of one cadence with `=` and `<=` only. `now[r]`,
`plan[r]` and `appended[r]` are a runner's shell variables (`NOW_EPOCH`,
`CLAIMS_TOKEN`) and `pc[r]` where it is between `Start` and the EXIT trap. `Claim`,
`Release` and `Complete` are the three critical sections; `Append` and `Mark` are two
steps because the inbox is fsynced before the marker is written. `Complete` and
`ReportSuccess`/`ReportFailure` are two steps because the read-back of
`command_complete` is outside the lock. `Tick` lets up to `MaxLag` pass under a running
runner. Crashes, failed writes, lost turns and edits of `dept.yaml` happen until
`CalmFrom`.

A claim id is a uuid in the code and the pair (agent, time of the claim) here; one
LaunchAgent never has two runners at once. A malformed watermark or a refused
configuration ends the runner without a write, which is `Crash`. Not modelled: the
Hermes harness, departments without `due_dispatch`, a clock that steps back.

### TickLock

`flock` is the lock, `pidfile` the side file, `holder[p]` the life of a holder process
(started, has the flock, has emptied the file, has written its pid, removed the file).
`acquire` is check, spawn and wait (`AcquireHeld`, `AcquireSpawn`,
`AcquireConfirm`/`AcquireGivesUp`), `release` is kill and remove. The floor's backup tick
takes the flock itself and its headless tick follows the protocol too, so it calls
acquire and release inside. `gaveUp` and `killed` record what excuses a property.
`[ -f ] && kill -0` and the `rm` of a stale file are one step, and a pid is not reused
by a foreign process. In `LockContract` the lock has an owner and at most one live tick relies on it: here one that
started its own holder, saw its pid and is not older than a hold (`Relies`).

### GateDecision

`decision`, `processed` and `abandoned` are `inbox/decisions` and its two archives, `card` is
`queues/gates` with `.done`, `ledger[d]` and `rounds[d]` are the trigger ids in
`outputs/<d>/dispatch.json` and layer 3's entry in `round_counter.json`. A tick is `Prepare`
(reconcile), `Select` or `Heartbeat`, the worker, `Validate`, `Commit`, `Count`. The
worker is `Blocked`, `Deferred`, `Read` or `Missing`, then `Execute` or `Abandon`, the three
file operations of `archive_successful_decision` (`Archive`, `Stamp`, `Move`) and `Close`.
Everything is kept that the order of the writes can show: `at` is the day of `ctx`,
`seen` what the worker read, `mem` what the archiver read and will write back. `Fault`
ends a worker at any point (the tick retries it), `Crash` the whole tick. The
operator's request has two halves, `DecideCheck` (load_gate) and `DecideWrite`.

The constant `Late` separates two questions. With `Late = TRUE` the operator may decide and
undo at any moment, also while the decision is executed; with `Late = FALSE` a gate is left
alone once a worker has it or it was executed, which is what the prompts and the
undo page take for granted.

Taken for granted: the tick lock (one tick at a time, the subject of TickLock) and that
layer 3 is the layer the tick selects. Left out: the verdicts modify, defer and choose,
signatures, markers of dispatched items from before the ledger, several event missions
on one queue, delivery over GitHub, materialized outputs.

### DayCycle

`ledger[d]`, `rounds[d]` and `base[d]` are `dispatch.json`, `round_counter.json` and `.l1-baseline.json` of a
day; `shared` and `own` say which output directories hold work. A session's memory (`tick[p]`) is what
`Decide` read: the day, the hour and the missions to run. `DueMissions` is the walk of
`select_due_missions`: the highest eligible layer, fall-through to the lower ones, catch-up, weekly
missions. `Commit` is the critical section of `commit_dispatch`, whose writes are three steps (`Commit`,
`Count`, `Baseline`) because a death may separate them; the ledger's lock is held over the three. Two
sessions model what is left when the tick lock has been given up. A day has four `Hours`, because the code
compares the time only with the layers' floors. Days do not share books, so a tick that
crosses midnight is a matter of `MaxDay`; the theorems cover every number of days.

Not modelled: cron and every-N cadences, active hours, missions forced by the floor, markers from before the
ledger, and the event path, which GateDecision has.

### BackupFloor

A unit (`floor[f]`) is a run of `loop-backup.sh`: `Fire` passes the freshness gate, `Wake` writes the inject
file, `Woken` or `GiveUp` end the wait of 240 s, `Headless` takes the flock and runs a tick in the place of the
session, and `HeadlessRan`, `HeadlessLimit` and `HeadlessCrash` are what `classify_tick_outcome` makes of its end.
`Decide`, `Restart` and `Record` are three steps because the history is read, used and written without a lock.
`beat` is the age of the newest line that `latest_heartbeat_epoch` counts; `served` is the age of the last tick
that was carried out, which is nowhere in the code and is what `beat` should stand for. Time is in units of
which `StaleAfter` make a stale heartbeat. The lock is one step here; that it may be is what `LockContract` is for, which
both TickLock and this module implement (here a live tick relies on the lock while it is `guarded`).

### Directives

`live` is the manager's checkout and `origin` his remote; `inbox`, `old`, `ledger` are the target's remote. A
clone that is still the head of its remote is a member of `current` or `mcurrent`: this is all that decides
whether a push is refused. A relay goes through its directives one by one (`Write`, `Present`, `PushOk`, `PushFails`)
and marks at the end. A push that fails may have landed. A text is a version number. Agents scan, act and acknowledge,
with the retries of `transact`. Not modelled: delivery into a live checkout under the tick lock (the
older mode), malformed files.

### KanbanQueue

A line is the call that wrote it. A drain has the file it opened (`src`), what it has read, and the lines it will
write back (`tmp`); `own` says whether its file still is the one at the path, because `mv` gives the path to
another file. `seen` is what GitHub's search finds of `open`. `late` are lines that came when a drain would not
read any more and was about to replace the file. Appends are atomic, lines of an unreadable kind are `Garbled`.

### GitSync

A file's content is the number of the edit that made it. `origin` is the tip of main, `base`, `head`, `ahead`, `log` are
HEAD as a commit of main with unpushed changes on top, `tree` is the checkout, `held` and `stash` the stash of this sync,
`tag` the backup tag, `unmerged` the files with markers, `wedged` the index entries that are out of date, `orig` an
open rebase. The steps are those of `safe_pull`: `Commit` (runtime files only) and `Push`; `Stash`; `Pull`, `Recover` (the
wedge fallback with its guards, `Proven`) or `PullFails`; `Restore`; `Pop`. Between any two of them others commit to main and the process
may be killed; `KillRebase` is a kill within the rebase. `keep` is what the department wrote and did not replace itself, `shelf` the
stashes that no sync looks at any more.

What git does is external and follows the commands the code gives: a rebase carries unpushed changes over and stops where both sides
changed a file; `stash pop` leaves markers in a tracked file that changed and refuses to overwrite an untracked one; commit, stash
and pull refuse to work while a file is unmerged, and so does `git checkout -- .`. Two edits of one file never merge. The department works between two syncs, not
in one: a console write into the checkout between the stash and the pop is left out. Also left out: paths the sandbox hides, `DRY_RUN`, file remotes, the choice of the
push branch on a laptop, the token for the push.

## 3. The runs

| run | instance | question |
|---|---|---|
| `due_core` | 1 daily mission, 2 agents, lag 1, crashes, I/O faults, edits until time 3 of 4 | contract of the watermark, leases left behind, no completion lost, liveness |
| `due_prompt` | 3 missions (daily, weekly, continuous), no suspension, no failing write | leases look ahead, no early repeat, wakes spaced |
| `tick_lock` | 2 pids, MaxHold 2, both actors | side file, guard, what acquire says, contract, liveness |
| `gate_any` | 2 gates (1 manual), 2 days, 1 crash, `Late` | what ledger, archive, cards and counter say is true |
| `gate_core` | 2 gates (1 manual), 2 days, 1 retry, 1 crash, 1 fault, 1 hold, not `Late` | executed once, contract, liveness |
| `gate_rerun` | 2 gates, 1 crash, `Late` | violated: an archived decision is executed again |
| `day_cycle` | 1 mission each of layers 1 and 2, 2 of layer 4 (1 weekly), 2 sessions, 1 input, 1 fault | contract, debrief, catch-up |
| `floor` | 2 missions, a layer 1 and a layer 4 unit, 3 kinds of harness, 1 restart an hour | guarded ticks, truthful heartbeat, budget, liveness |
| `directives` | 2 directives (1 with 2 texts), 1 relay, 1 agent, 2 attempts | contract, once, arrivals, liveness |
| `kanban` | 2 findings, 2 calls (1 unreadable), 2 drains | contract, liveness |
| `git_sync` | 4 files (decision, archive, doctrine, untracked), 4 edits, 1 wedge | nothing lost, archive, repair, liveness |
| `git_wedge` | 2 files, 4 edits, no wedge | violated: a merged change never lands |

Why the bounds are enough for what they ask. Two agents, because the runners only
interact in pairs, through one file. Five units of time with `MCPeriod` put a day's
boundary inside a claim and a lease's expiry inside the run. Two holder processes are a
held lock and a competitor; the third starter always finds one of the two. Two gates
are one at work and one behind or in front of it; two days are one midnight, and the
ledgers of different days never meet. One crash and one fault suffice for each window
between two writes, and the theorems cover the rest. Two sessions in `day_cycle`, one of them a session whose lock was given up: a
third would find the ledger's lock as the second does. Two units in `floor` are one that runs and one that
fires; the restart budget of one an hour is the smallest that both can exceed together. In `directives`
one relay meets the remote that agents and others move; overlapping relays are in the theorems. In
`kanban` two calls that report one finding are enough to fill, drain and refill the file, and two
drains to replace it under each other. In `git_sync` the four files are one of each kind the code tells apart,
and four edits (one is the first commit) are one of ours under one of theirs, twice. `MaxRuns` stops the count of executions
above what the crashes and faults can explain. TLC also checks that the runs fire
every action, and for every property of a passing run there is a mutant of the code
(named `<Definition>_<what>`, defined beside the original) that violates it. What is proved and what another property of the run implies
is not checked a second time: `NoLeaseForDone`, `DoneWasDelivered` and `WatermarkMonotone` follow from the contract that `due_core` checks, and
`HeadlessKillsNobody`, `ReleasedMeansNotAccepted` and BackupFloor's `ImplementsContract` are theorems of section 5.

Deadlock is checked in the runs of DueDispatch, TickLock, GateDecision and BackupFloor; the other modules have counters that run out
(days, edits, calls), after which nothing need happen. `AtHorizon` in DueDispatch lets time end. The
types (`TypeOK` of each module) are proved, and no run spends its time on them.

### Fairness

* DueDispatch: time passes, launchd starts each agent once per unit in calm times, a runner goes to its
  end, the session works through its inbox. A crash is a step of the runner's weakly
  fair action, so nothing more is assumed before the calm. `EventuallyDone` needs
  `MayStall = FALSE`: with a stale heartbeat, a wake of one agent that lists nothing
  periodic can take the inbox slot just before the other agent's, which then releases its
  claims for a cooldown.
* TickLock: processes run and time passes (strong fairness, because ticks may be in a
  short critical step again and again). No tick need ever release, begin or end.
* GateDecision: ticks are started for ever, by the paced loop, the floor and the
  supervisor, and go on; a guard rail is lifted in the end unless its gate is in `Stuck`. Nothing is
  assumed of the operator or the calendar.
* DayCycle: sessions keep ticking, workers return, the day goes on. Faults are bounded, not fair.
* BackupFloor: timers fire again and again (strong fairness, because a unit that runs disables its own
  timer and a fresh heartbeat the gate), a unit and a live tick that have begun go on, a hold expires. The session need not tick of
  itself, nor come back.
* Directives, KanbanQueue, GitSync: runs that have begun go on, timers and ticks start them again and
  again, and failures end at some moment (`calm`) that nobody knows. Before it anything may fail any number of times.

## 4. What the violated runs show

Each is one disagreement between the code and what the repository says of it; the
quotations are in `PROJECT.json`, `findings`.

* `gate_rerun`: the filter of pending gates looks only at active decisions, so a gate between
  archive and card is offered again, and its second decision is executed before the
  archiver finds the first. The verdict has to come late: for an operator who leaves the gate alone while it is executed
  the same property is proved (`RerunsNeedALateVerdict`).
* `git_wedge`: after a `stash pop` that conflicts on a tracked file, `git checkout -- .` is refused, the file stays
  unmerged, and every later commit, stash and pull of every later sync fails.

The modules state more that the code does not keep. These have no run of their own; each was found with TLC, by
checking the definition on the constants named here.

| definition | constants | what happens |
|---|---|---|
| `NoEarlyRepeat` (DueDispatch) | 1 daily mission, lease 3, `MaxLag = 1` | a runner that was suspended after its clock read claims an old period over the new lease; the mission-period is delivered twice within its lease (`local-loop-backup-runner.sh:63`, against `loop_backup.py:502`); under the hypotheses of `NoRepeat` (section 5) it is proved |
| `ReleasedMeansNotAccepted` (DueDispatch) | `MaxLag = 0`, `IOFaults = TRUE` | the marker's write fails after the inbox append and the runner releases the claims of a wake that was accepted (`local_loop_lib.sh:815`, against `loop_backup.py:553`); with `IOFaults = FALSE` it is proved for every lag |
| `LandedIsNotReportedFailed` (DueDispatch) | lease 1, no fault | the read-back is outside the lock; a completion of the next period in between makes a landed one look lost (`due_missions.py:1008`); nothing but such an overtaking does (`FailedIsOvertaken`) |
| `SharedGuardLasts` (TickLock) | those of `tick_lock` | ticks share a hold, but its sleep is not renewed (`tick-lock.sh:120`, against 115-117) |
| `EveryDecisionSettles` (GateDecision) | `Stuck = {1}`, no crash | one id per worker, the first by name, and a blocked one commits nothing: those behind it wait for ever (`dispatch_helpers.py:1874`, against `layer_templates.py:44`) |
| `CrashLeavesDue` (DayCycle) | `brief` and an hourly `watch`, both layer 1, 1 session, 1 fault | one of two missions is committed and the tick dies: the layer has fired, and the other is never selected again that day (`dispatch_helpers.py:3182`, against `layer_templates.py:42`) |
| `DebriefNeverStarved` (DayCycle) | those of `day_cycle` with `Missions = {brief, study, debrief}` and `Dedicated = {}` (with `review`, its catch-up opens layer 4 for both) | the session dies between the two writes of a defer: layer 3 has no round, and the debrief never gets its turn (`dispatch_helpers.py:730`, against `scaffold.py:323`) |
| `ArrivalsAreNew` (Directives) | two agents of one repository | the scan of one makes a note of the other older than the marker they share (`management_inbox.py:77`) |
| `ReEmitDedups` (KanbanQueue) | 1 timer, no failing search | a replayed card carries no emit-key, so the next report makes a second card (`drain_kanban_queue.sh:260`, against `emit_kanban_item.sh:126`) |
| `NeverLoses` (GitSync) | those of `git_wedge` | a sync is killed within its rebase, the next one commits on the detached HEAD, and its `rebase --abort` leaves that commit to no branch (`dispatch_helpers.py:5589`, against 5146); as long as no sync is killed it is proved (`OnlyKillsLose`) |

What was read off the code while modelling it, without a property of its own:

* Git sync. The note "will retry on next sync" (`dispatch_helpers.py:5706`) does not hold for a clean tree, since the push
  is part of `force_commit_and_push`, which returns at once when there is nothing to commit; and as the push
  comes before the pull, one that main has overtaken is refused each time until something new is
  written after a pull. A stash that a kill or a failed pop left behind is never popped. One untracked file in the way of a pop takes the
  tracked edits of the same stash out of the checkout, and the sync reports success.
* Dispatch day. A dedicated mission of layers 1 and 4 whose commit is replayed is not recognised (`dispatch_helpers.py:538`). The
  commit of an older dispatch can replace a newer ledger entry of such a mission. With research cards and no layer 2 mission layer 4 waits for ever. One worker of a fan-out
  that fails closes the layer for itself too.
* Backup floor. A degraded layer 4 tick writes its line whatever its exit, and the line counts as life. Restarts that
  fail are not counted. Any change of the heartbeat's mtime during the wait is taken for the session's answer
  (`loop-backup.sh:1107`). The list of missions is older than the wait (`loop-backup.sh:1652`). Days are UTC here and Paris
  in the dispatcher.
* Directives. One directive that cannot be marked keeps all those of its run from being marked. An amended
  directive that was delivered and not yet marked stays blocked. A failed push's commit goes out with the next one. `delivered_at` has
  seconds, the marker microseconds.
* Kanban queue. A line appended after the last read of a drain is lost when the drain replaces the file
  (`emit_kanban_item.sh:879` says it is not). A dismissed finding reaches the board by way of the queue, because the dismiss-ledger is
  consulted only when there is a token (`emit_kanban_item.sh:868`). A drain that its unit's timeout ends starts from the head of the
  file again, so that the tail of a long queue may never drain.

## 5. What is proved

All proofs are for every value of the constants under the named assumptions of the
modules (`MissionAssumption`, `PeriodAssumption`, `DispatchAssumption`, `GateAssumption`,
`LockAssumption`, `MissionsAssumption`, `FloorAssumption`, `DirectiveAssumption`,
`KanbanAssumption`, `GitAssumption`).

**DueDispatch.** `TypeCorrect`; `Monotone` (successes never go back) and `AckSpares` follow
from the three operators that write the file (lemmas `ClaimedEntry`, `ReleasedEntry`,
`AckedEntry`, and `Writers`, which says that nothing else writes it). `DoneNotLeased` is
inductive with the types. `OnlyDeliveredIsDone` needs `DeliveryInv`: what is in the
inbox was sent, so what is acknowledged was. `LedgerBehind` needs that an
acknowledgement on its way to the ledger is not ahead of the watermark. `Implements` maps
each step to a step of DueContract or a stutter. `PromptLeases` assumes `MaxLag = 0`, and
`PromptInv` says what that buys: a runner's `now` is the clock, so nothing that is in
flight is of a later period than any lease; without the assumption it fails (section 4).
`LeaseHasWake` needs `ClaimsKept`: a claim id names one run of one runner, because launchd starts
an agent once per unit, so no lease of an earlier run bears it (`LeasesDated`), and the leases that do bear it are of that
run's plan (`LeasesPlanned`), so that the release in the EXIT trap finds them all. `FailedIsOvertaken` adds to the types that a completion that is
still to be read back is not ahead of the watermark (`Reached`). `ReleasesRefused` assumes that no write after the append
fails; then a runner past its append never gets to the release with its token (`AcceptedIsOver`), suspended or not. `WakesCooledDown`
assumes `MaxLag = 0` and uses `MarkerKept`: a wake of the calm is not newer than the marker, or its runner is still about to
write it under the inject lock.

`NoRepeat` is the hardest of them: a wake that an agent sends lists no mission-period of its claims that an earlier wake lists, unless
the lease of that one is over. Its hypotheses are the ones under which it is true: no suspension after the clock read, no failed marker write
(each breaks it, section 4), and missions that nobody switches off and on, since `_purge_inert_leases` drops the lease of a
mission that is off and the next claim after that is meant to deliver it again. `RepeatInv` says of every wake ever sent and every mission of today's
period in it that the wake is over, or the period is done, or a lease that lasts at least as long stands for it (`Covered`); of a runner that holds claims that all
such wakes are over and that its lease still stands (`Held`); and that no two runners hold the same. `NoRepeatAtAll` is the run's `NoEarlyRepeat`.
`ContractKept` carries the promise of DueContract over to what implements it.

**GateDecision.** `DecisionInv` joins `ArchivedWasExecuted`, `CardFollowsArchive` and
`LedgerIsEarned` with `WorkerKnows`, what a worker knows at each point between the
external action and the commit; none of the three is inductive without it, because `Move`,
`Close` and `Commit` write what an earlier step found. Its theorems hold for any operator.
`ArchiveFinal` is an action property of `Archive`'s and `Move`'s two checks. `RoundsTruth` strengthens
the two bounds to `RoundsInv`, which counts the round that is between the two writes.
`OnceButForCrashes` and `Implements` assume `Late = FALSE`; `AloneInv` adds `DecisionStays` (what
the worker read still stands) and `RunsArePaid` (every execution but the archived one
is paid for by a crash or a fault). `SettledOnce` is what GateContract promises of its own accord, carried over by the refinement, and
`RerunsNeedALateVerdict` follows from `AloneInv`: a worker before its execution holds a decision that is not archived.

**TickLock.** `LockInv` ties the flock to the life of the holder processes: a holder has it from its
`flock()` to its exit (`HoldersLock`), the side file names no live process but one asleep on the
lock (`FileNamesHolder`), and the headless tick works only while the floor has the lock.
`PidfileTruth` says less than these and is not inductive: it does not say that a holder about to write
its pid has the lock. `OwnGuardLasts` needs
`SleepsLongEnough`, the age of a tick and the sleep left to its holder add up to MaxHold or more;
this is where the proof uses that no time passes while an acquire or a release waits.
`HolderVisible` needs `VisibleInv`: until an acquire ends too early, a holder on its way to the lock has
its starter waiting for it (`StarterWaits`), nobody else writes the side file
(`FileIsOurs`, `FileFollows`), and a release has no other holder to miss (`KillsTheHolder`).
`AcquireTells` needs `PidIsHolder` (while a live tick waits for its holder, a pid in the side file is that of a holder asleep on the lock) and
`HeadlessSpares`, since a headless tick that killed a holder would leave the waiting tick with a file that lies.
`Implements` maps the lock to LockContract: `OwnGuardLasts` is what makes a step that takes the lock away from a tick one on which it does not
rely any more, and the lemma `Passes`, that no step moves the flock from one owner to another, is what the contract asks of every other step.
`ReliedIsOwner` is the contract's promise.

**DayCycle.** `OneAtATime`: only one session is between its ledger and its counter, because the ledger's lock is
held over the three writes. `KeepsContract` rests on it: `Owed`, the abstract round that is not counted yet, is defined by the one
debtor, so each write is the contract's `Close`, `Pay` or `Snapshot`, and a death is `Forget`.

**BackupFloor.** `TicksAlone` from `HoldersInv`: a tick under the lock is the one the lock names. `FreshIsServed` is inductive with the
types. `RestartsBounded` strengthens the bound to `BudgetInv`, which also counts the units between their decision and their restart: when a
unit decides, at most all the others are already on their way. `Implements` shows with `HoldersInv` and this module's own `Passes` that the lock that
is taken in one step here keeps the contract that TickLock's many steps keep. The two models share no state: the theorems say that both lock protocols
have one and the same abstraction, not that their composition was checked.

**Directives.** One invariant, `IInv`: what a relay holds in its clone is what it read (`InHand`), was approved (`Signed`) and is of the remote's
head if its clone is current (`Fresh`); what is marked is in the inbox (`Held`, `Unmoved`); what an agent lists is its
own (`Own`), counted (`Counted`) and stamped (`Listed`). `OnceUnlessCut`, `NoArrivalIsOld` (for one agent behind the marker, `OneReader`) and
`KeepsContract` follow from it, for any number of overlapping relays and of agents.

**KanbanQueue.** `Healthy(d)` says of each drain what its file and its temporary file mean for the queue, in particular that whoever still has the file at the
path knows all its lines (`Attached`), and that one that has lost it still covers all that is owed (`Covered`). It
is what makes `Swap`, which replaces the file blindly, a settlement of the contract.

**GitSync.** `IInv` ties each wanted edit to a place. `Sound` says of HEAD, and of the branch an open rebase goes back to, that a wanted edit of its unpushed commits is still the content of a
file at HEAD; `InPlace` that such a file is in the checkout as well, so that `Pull`, `Recover` and `PullFails` may replace HEAD; `Phase` that the checkout equals HEAD when the stash is held, so
that they may replace the checkout. `NothingLost` alone is not inductive: it does not say where an edit will be after the next step.
`ArchivedStaysOut` needs `ArchiveInv`. In every tree of files that may become the checkout (main, HEAD, the checkout, the head an open rebase goes back to), no decision
lies beside the archived copy of itself, an unpushed decision is not one that main has or has archived, and an unpushed archive whose decision was left alone is not of the decision main has (`Apart`); main
has every archive that a branch builds on (`Grows`); and what `Restore` will bring back from the tag after a pull is nowhere on main (`Pulled`). It uses that two decisions have two archives, which
the file names give (the third conjunct of `GitAssumption`). `WrittenFilesStay` rests on it and on `StaysInv`: between pull and repair the files are in the tag.
`OnlyKillsLose` (`CleanInv`) shows that the one hole of `NothingLost`, commits on top of an open rebase, needs a kill.

**What the contracts promise.** Each abstract module states in one line what its users rely on (`ContractInv`, `SettledByVerdict`, `SettledForGood`, `Promise`, `OnlyForward`), as an invariant of the
abstract steps. `ContractKept`, `SettledOnce`, `ReliedIsOwner`, `BooksKept`, `OnlyApproved` and `NothingUnasked` prove it for the detailed modules, through the refinement and
not from the details.

**Only model-checked:** liveness (`EventuallyDone`,
`NeverWedged`, `AcquireReturns`, `EveryDecisionSettles`, `SettledCardsClose`, `DebriefRuns`, `CatchesUp`, `FloorsCatchUp`,
`MailSettles`, `DrainsDry`, `LandsOrSticks`), which is out of the prover's reach. Every other property of a passing run is proved,
some of them under the hypotheses on constants named above, which hold in the runs that check them.

`EveryDecisionSettles` leaves out the gates in `Manual`: a deferred decision stays
in the inbox for a person, and if the operator rejects it instead on the same day, the day's ledger
already has its id, so that it waits for the next day's.

What the properties of the new modules leave out, and why: `DebriefRuns` excuses a defer that a death tore
(`DeferTorn`); `CatchesUp` covers the missions that the code catches up (a prompt of their own, or weekly); `FreshMeansServed`
excuses the line of a degraded tick that failed (`hollow`); `ImplementsContract` and `DrainsDry` of KanbanQueue excuse `late` lines;
`NothingLost` excuses commits on an open rebase (`loose`), and counts a stash that nobody pops any more (`shelf`) as a place;
`FilesStay` excuses what a kill left between the pull and the repair; `LandsOrSticks` excuses
conflicts, markers and a wedged entry below an unpushed commit (`Stuck`). Each excuse is a state the code really gets into and does not leave by itself; they
are the divergences of section 4.

## 6. Not modelled, and what is left

The parts in which several processes share files with real-world effect are modelled. What is left, in the order in which it would
be worth adding:

1. `AgentMessage`: queueing by id, the consumer's renames, unknown receipts.
2. `Onboarding`: validated steps, activation, cancellation and retirement and their partial failures.
3. git-guard: check, mint and push with lease against a moving remote, in place of the push of GitSync.
4. Of modelled components: cron and every-N cadences and active hours in DayCycle, the Hermes harness in
   DueDispatch, signatures and the verdicts modify, defer and choose in GateDecision, delivery over GitHub.
5. Compositions: DayCycle with GateDecision through the pending ids, BackupFloor with DayCycle through what a headless
   tick commits.

The console's views, the session and eclosion launchers, notifications, hooks, wiki tools, schemas, deploy and vendoring scripts are projections, templates and one-shot
scripts without a protocol; `components` in `PROJECT.json` has the reason for each.
