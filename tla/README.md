# Holophyte in TLA+

Holophyte takes tickets from a board, has agents work each of them in a run of its own, and merges
what passes its reviews and its gate. Several processes act on one SQLite store, one git checkout,
one board and one GitHub without knowing of each other: the loop's workers and their scheduler, the
supervisor, the reconcile passes, the operator's commands, and the factories of other hosts. This
directory specifies what they do to one another, model-checks it with TLC on small instances, and
proves the core of each part with TLAPS for all instances.

Paths below are relative to the repository's root.

## 1. Inventory

### Modelled, in whole or in part

| Part | State it keeps | Operations | What makes it correct |
|---|---|---|---|
| Store rows (`store/enums.py`, `tickets.py`, `__init__.py`, `operate.py`, `run_reads.py`) | `tickets` (status, activeRunId, lastRunId, board state, interventions), `runs` (phase, endedAt, outcome, resumePhase, park kind, stopRequested, approval) | `claim`, `set_phase`, `park`, `release`, `requeue`, `approve`, `pause`, `abort`, `walk_ticket`; each one `BEGIN IMMEDIATE` transaction | a lease names one run at work; an ending is written once; a walk takes a shortest path of the status graph |
| Loop: claim, dispatch, close-out (`holophyte/loop/claim.py`, `dispatch.py`, `escalation.py`, `failure_triage.py`, `contradiction.py`, `steer_cap.py`) | nothing durable; between transactions, what it read of the ticket | admit, claim, label the board, start; fail, escalate, park a steered cap, rerun on the default profile, triage | a stale admission does not steal a ticket; two failures block it |
| Loop: stages and the gate, `mode = "local"` (`pipeline.py`, `review_round.py`, `merge_gate.py`, `run.py`, `gate_build.py`, `stop.py`) | the phase of its run; in the process, the round count, whether a human must be asked | work, verify, review, address, approve, gate, merge, land, park, hand off | nothing lands unapproved; nothing lands twice; a stop that was asked for is honoured |
| Supervisor sweep (`holophyte/host/supervisor.py`) | the samples of a pass | sample, re-check under the write lock, fail, escalate | a run that nobody works ends; one that went on is left alone |
| Operator commands (`store/operate.py`, `holophyte/loop/stop.py`, `store/board.py`) | `interventions`, `runs.stopRequested` | requeue, approve, babysit, repoint, pause, resume, abort, cancel | a request is never weakened by a later one |
| Board projection and reconcile (`holophyte/board/projection.py`, `board_sync.py`, `holophyte/host/reconcile.py`) | the mirrored board state | mirror a listing, retire, wait on blockers, mirror a close, abort a cancelled run, ask after parked and failed pull requests | a ticket reads merged only if it landed or the board says Done |
| Merge lock (`holophyte/loop/gates.py`, `merge_lock.py`, `host/sweep_report.py`) and the checkout under it (`merge_gate.py`, `claim.py`, `story/story_close.py`, `pool_handoff.py`) | a file with a stamp, its flock, an arbiter flock; main's tip | take, stamp, wait, extend, give up, remove, sweep a dead one; fetch, sync, land, commit findings, close a story | one process has the turn; main does not move between a gate's verify and its landing |
| Worker pool (`pool.py`, `pool_handoff.py`, `gate_build.py`, `cli/operator.py`) | `_PoolState`, the children, `pool.json`, the checkout's and the store's build | spawn, reap, stop, prepare and carry out a re-exec, stay behind, return | no slot is lost, none exceeded; a stop is not forgotten; a restart happens |
| Board lease between hosts (`claim.py`, `board/projection.py`, `linear_provider.py`) | each store's lease, a label of each host on the issue, a flock per store | claim under the turn, label, read back, back off, close out, take the label off | one run works a ticket, and it is labelled |
| Pull requests, `mode = "pr"` (`pr/pullrequest.py`, `babysit/babysitter.py`, `covering_fix.py`, `host/reconcile.py`, `host/ci_wake.py`, `loop/branch_sync.py`) | the pull request, the local branch, the row's candidate, approval, mark and verdicts | babysit passes, fixes, covering reviews, refreshes from main, the merge call, parks, wakes, close-outs | the factory merges what was approved; nothing reads merged that is not; every merge is written down |

Workers, supervisor and commands interact through the store alone: a worker learns of a stop or of a
sweep when it next writes a phase or beats its heartbeat. Workers of one project share a checkout
and take turns by the merge lock. Hosts share nothing but the board's labels. Under `mode = "pr"`
the branch has a second copy, at GitHub, that anybody may move. No process holds the write lock over
a turn, a git command or a call of the board or of GitHub: whatever it read before is stale after.

### Hard behaviours

- **Stale reads between transactions.** The claim acts on an admission, the sweep on a sample, the
  close-out on a count of failures, a reconcile pass on an answer of GitHub, a lock's sweep on a stamp.
- **Two close-outs of one run.** Worker, sweep, abort command and reconcile may all `release()` it.
- **Half-done pairs.** A park blocks the ticket, then parks the run; a landing merges, then releases
  the run, then mirrors the status. A worker may die between any two, or the merge's answer be lost.
- **Zombies.** A swept worker is not killed: it goes on until it meets its run's end.
- **Files as locks.** A path may lead to another file by the time it is unlinked.
- **A process that replaces itself.** The scheduler's memory survives an exec only as `pool.json`.
- **Labels without compare-and-swap**, set and taken off by calls that may land though they failed.
- **An approval is of a sha**, and the sha moves on: by fixes, merges of main, and other people's pushes.
- **Counters with caps.** Failed runs, relaunches, review rounds, waits, each reset by other acts.

### Not modelled

Each is a component in `PROJECT.json` with its reason.

- *Of the modelled parts:* comments, events, criteria, findings as text, worktrees, the order in
  which a loop prefers one candidate to another, `reject`, `answer`, `kill`, the serial loop
  (`workers = 1`, which the pool's scheduler does not enter). Under `mode = "pr"`: draft pull
  requests and their hold, the merge queue, failing checks and their reruns, a pause inside a fix
  turn and its continuation, the adjudicator's outages, maintainer notes and media. All of these end in a park or in another pass, which the model has; what they add is when.
- *Supervisor lock and startup:* one flock held for a process's life; the merge lock is the hard
  case of the same mechanism and is modelled.
- *Stories, automations, scouts:* lifecycles of their own beside the ticket's. Only a story's close,
  which moves main, is modelled.
- *Steering notes, agents, reviews, prompts:* text in and verdicts out; verdicts are choices here.
- *Console, HTTP server, CLIs, configuration, isolation:* front ends and parsing. They make up
  most of the repository's lines and keep no state of the lifecycle.

## 2. Modules

| Module | What it is |
|---|---|
| `RunTables` | the two graphs: run phases and ticket statuses, with the legal edges, the shortest walk's reach and the phase an outcome ends in |
| `RunRows` | rows of `tickets` and `runs`, and what one store write does to a row (`EndRun` is `release()` on the run, `GiveBack` its part on the ticket) |
| `TicketLifecycle` | the tickets' system: one action per transaction of worker, loop, supervisor, command and board pass |
| `TicketLease` | the abstract promise: a free lease is granted to a new run, and is given back and recorded; with fairness, every lease is given back. `TicketLifecycle` and `PullRequests` both implement it |
| `TicketWalk` | `_status_path()`'s breadth-first search and `walk_ticket()`'s steps, one at a time |
| `MergeTurn` | the abstract promise of the merge lock: one live process at a time has the turn |
| `MergeLock` | the lock file, its arbiter, stamps, waits and sweeps, one system call or flocked section an action |
| `SharedCheckout` | composes `MergeLock` with what is done to main under it and beside it; refines `MergeTurn` |
| `WorkerPool` | the scheduler, its children, their exits and its re-execs over a growing main |
| `BoardLease` | claims of one ticket by several hosts, each with a store, over one set of labels |
| `PullRequests` | one ticket's candidate on its pull request, through any number of runs |
| `MC_Lifecycle`, `MC_Checkout`, `MC_Pool`, `MC_BoardLease`, `MC_Pull` | the roots of the model-checking runs; the `.cfg` files instantiate their constants |
| `LifecycleLease` | proofs about the lifecycle: types, lease, endings, the refinement of `TicketLease` |
| `LifecycleLanding` | proofs about the lifecycle: close-outs, stops, approvals, landings, statuses, parks, the cap on failures |
| `TicketWalkSafety` | proofs about the search and the walk along its path |
| `CheckoutSafety` | proofs about the lock and the checkout, and the refinement of `MergeTurn` |
| `PoolSafety`, `BoardLeaseSafety` | proofs about the pool and the labels |
| `PullRequestSafety`, `PullApprovals` | proofs about pull requests: types, work, merges and the refinement of `TicketLease`; approvals |

### State and code

**`TicketLifecycle`.** `ticket` and `run` are rows. `active`, `last` are `activeRunId`, `lastRunId`;
`strikes` is what `failed_attempts_since()` counts; `relaunches` what `requeue()` counts; `helped`
the factory's own requeues, each allowed once; `stop` is the intervention `stopRequested` names,
where a `cancel` is an abort whose trigger is the board's. `worker`, `trip`, `admitted` and
`commanded` are no columns: they hold exactly what a process read in one transaction and uses in a
later one, so every interleaving of transactions is a behaviour. `admitted` holds, of each ticket,
which of the four reads of an admission some loop has made and not yet acted on: it saw no lease
(`"idle"`), then two counted failures (`"struck"`) or a ticket that may be worked (`"pickable"`), and
before the claim once more that the ticket is not parked (`"unparked"`). `landed` are the runs whose
candidate `git merge --no-ff` has put on main.

**`MergeLock`, `SharedCheckout`.** A process creates one file at a time, so it stands for the inode
it created: `path` is the creator of the file the path leads to, `stamped` the creators whose file has
its stamp. `waited` measures a wait against `MERGE_LOCK_WAIT_SEC` and the extensions' ceiling. main is
kept as what each reader of its tip would see of its moves: `drift[p]` is who moved it since `p` read.

**`WorkerPool`.** A build is its place on the factory's main; of a schema it counts breaking and
additive changes, which is what `open()` tells apart. `sched` is `_PoolState` with the place in the
tick; `file` is `pool.json`; `head`, `tracking`, `origin` are the three mains. `stopSeen` is history.

**`BoardLease`.** `labels` is the issue's, `late` a removal that raised and may land later, `lease`
each store's `activeRunId`, `closer` where a run's close-out of its label is.

**`PullRequests`.** A sha is the set of the commits its branch holds, so being an ancestor is being a
subset; `MainCommits` are clean merges of main, which leave `_diff_identity()` as it was. `pull` is
GitHub's view, `local` the worktree's head. `run` has the row's `candidateSha`, `approvedSha`,
`prUrl`, the mark (`seen`), the wait for checks (`ci`), the approval parked with the candidate
(`waits`) and the one a wake carried (`carried`), and the last independent verdict. `worker` holds
the locals of the babysitter, `sweep` what a reconcile pass has read and not acted on. `said` and
`judged` are history: the shas a human said merge on, and those a review approved.

### Abstractions

- **Verdicts are choices.** A turn ends in any of its outcomes: approval, findings, a contradiction, a
  failure of class `work` or `infra`; a thread is fixed, declined or left to a human.
- **Time is a choice.** A heartbeat's age, a time box, a wait past its limit, a quiet period and the
  checks being green are nondeterministic. A beat or a phase write takes back a stale sample, as the
  re-check under the lock does; it does not take back a spent box.
- **`Events`** names what may happen from outside in a configuration.
- **Atomic here, two steps there.** `block_ticket()` writes the status and the question in two
  transactions on a mirrored board; a fix for a main that came in broken is pushed in one step
  with the merge of that main; the
  creation of a lock file, its flock and the arbiter's are one step, as nobody else opens the file
  before the arbiter is free; `Redo` is a whole attempt up to its opened pull request, for which the
  lifecycle has the steps.
- **A walk is one step** of the lifecycle, as it is one transaction. `TicketWalk` checks the path
  inside it, so `CanWalk` and `WalkClearsPark` are justified rather than assumed.
- **Separate systems.** The lock, the pool, the labels and the pull requests are each composed with
  an outline of the rows they touch rather than with `TicketLifecycle` itself. What they take from
  it is the lease (`LeaseAgreement`, proved) and that an ending is final (`EndingsAreFinal`, proved).
  The pull requests keep that lease themselves: `PullRequests` is proved to move its ticket's lease
  by steps of `TicketLease`, the module `TicketLifecycle` is proved to implement (`LeaseIsKept`). It
  starts with its first run claimed, so its initial state is one of `TicketLease` after a grant.

## 3. Runs

`CHECK_DEADLOCK FALSE` stands where the system does stop: run ids, builds or claims are used up, a
ticket is closed, a scheduler has returned.

| Run | Configuration | Properties | What it shows | Distinct states |
|---|---|---|---|---|
| `operator` | `TicketLifecycle`: pool, the store's own board, `approve = "human"`, crashes, and every command but the human's requeue, `FairSpec` | `LeaseAgreement`, `LandNeedsApproval`, `MergedMeansLanded`, `ParkedCanBeReleased`, `StopsOnlyHarden`, `LeaseIsFreed` | commands, deaths and a board that moves at every point of two runs keep the lease, the approval, the parks and the stops right, and nothing reads `merged` that is not; every lease comes back | 1,024,832 |
| `sweep` | pool, sweeps of anything, requeues | `TypeOK`, `LeaseAgreement`, `CloseOutIsLegal`, `LandsOnce`, `EndingsAreFinal`, `ImplementsLease` | zombie workers, hand-offs and double close-outs never break a lease or rewrite an ending | 1,689,440 |
| `retries` | three runs of one ticket, the store's own board, crashes and requeues | `StatusIsTheHolders`, `TriageBelowCap` | failures counted in one transaction and acted on in a later one take no ticket from a newer run but where two runs before it failed, and triage grants no attempt past the cap | 2,135,361 |
| `walk` | all pairs of statuses | `TypeOK`, `WalksAsTabled`, `PathIsShortest`, `WalkSettles` | the search and the transitions do what the lifecycle takes them to do | 219 |
| `checkout` | two workers, one resumed at its gate, a story's close, a sweep | `CheckoutTypeOK`, `LandsOnVerifiedMain`, `TurnTaken` | the lock file is a turn, and nothing lands on a main it was not verified with | 1,789,763 |
| `lock_live` | two workers and a sweep, `FairSpec` | `EveryWaitEnds`, `DeadLockCleared` | every wait ends, a dead worker's lock is cleared | 47,116 |
| `pool` | ceiling 2, three process ids, three builds, `mode = "pr"` | `TypeOK`, `ChildrenKnown`, `NeverOverstaffed`, `WaitsForItsWorkers`, `StopIsNotLost` | across any re-execs the scheduler knows exactly its children | 1,357,001 |
| `pool_live` | ceiling 2, `mode = "local"`, `FairSpec` | `RestartHappens` | a restart that is wanted is carried out or given up | 506,917 |
| `board_lease` | two hosts, two claims each | `TypeOK`, `OneRunWorks`, `LabelKept` | one run works a ticket, labelled, whichever calls fail | 1,375,125 |
| `pull_request` | `approve = "human"`, no `review_fixes`, every event | `TypeOK`, `HumanSaidMerge`, `MergedMeansLanded`, `WorkIsLeftAlone`, `LeaseIsKept` | the factory merges what a human said merge on, and takes neither run nor lease from a worker | 5,528,131 |
| `pull_auto` | `approve = "auto"`, `review_fixes`, `FairSpec` | `LandsWhatWasJudged`, `MergeIsRecorded` | what lands was reviewed as it stands, and every merge is written down | 1,187,458 |
| `fix_unapproved` | `approve = "human"` with `review_fixes` | `HumanSaidMerge` | violated: an approval outlives an automatic fix round | refuted |

### Bounds

- **Lifecycle:** one ticket. No property relates two, and a step touches the rows of one; what two
  tickets share is the sequence of run ids, which the theorems cover for any number. `MaxRounds` is 1
  in `sweep`: the cap is reached, and one round is spent before it. In the other two it is 0, as a
  further round changes nothing of how a run ends. `MaxRuns` is 2: an older run's leftovers meet a
  newer run. It is 3 in `retries`, since `MAX_FAILED_RUNS` is 2 and the third run is the one a late
  block may hit. A human's requeue is in `sweep` and `retries` and not in `operator`: with a board
  that retires tickets it could be repeated without end, and each counts as a relaunch. There the
  factory's own requeues give tickets back. No run takes `ParkUnlisted`, which only boards mirrored
  behind the claim have, with which the same would happen; the theorems include it.
- **Checkout:** a worker takes the lock up to three times (fetch, gate, findings), so two workers and
  a settler meet in every combination of uses; the sweep may judge one file and remove another.
- **Pool:** three process ids for a ceiling of two, so that an id is given again while another child
  lives; builds 0–2, with one additive and one breaking change in an order that lets a scheduler be
  behind by either. `MaxBuild` bounds merges.
- **Labels:** two hosts with two claims each, so that a host's old close-out meets its own newer run.
- **Pull requests:** three commits (the candidate, a fix, another), one merge of main, one thread or
  push by others, two runs: enough for a fix after an approval and for a wake that carries one.

The theorems have none of these bounds.

### Exceptions the code forces on properties

- `LandsOnce`: a second landing after a run of the ticket was failed or aborted. It is the run that
  landed first, swept between `git merge` and `release()`, or one after it; with hand-offs or requeues
  of drifted tickets it may also be an earlier run, whose worker the sweep left alive and which makes
  the ticket ready again after the landing.
- `StatusIsTheHolders`: a worker, a sweep or an abort command that is not done yet with an earlier run
  of the ticket, whose last write comes transactions after its read; and a loop whose admission found
  the ticket idle and struck out by two runs before. `escalate()` does not look at the lease again,
  so a requeue and another loop's claim in between have their ticket blocked under the working run.
- `TriageBelowCap`: a worker that comes late with an earlier run. It is checked, and proved, where only
  the runs of dead workers are swept: a sweep of a living worker's run counts a failure which that
  worker's own close-out triages.
- `ParkedCanBeReleased` is checked where the board is mirrored ahead of the claim and only the runs of
  dead workers are swept. TLC refutes it without either: a stale admission claims the parked ticket
  (the row on docs/loop.md:188 below), a zombie's requeue makes it ready under the park.
- `LandsOnVerifiedMain`: the forward of a self-hosted factory's own main by its scheduler, which
  takes no lock.
- `OneRunWorks`, `LabelKept`: a removal of a label that timed out and lands later.
- `WaitsForItsWorkers`: a start refused after a hand-over, and a store locked for three ticks, both
  of which leave workers to run on (`StartRefused`, `StoreLocked`, to the place `dropped`).
- `MergeIsRecorded`: a run that is paused, or a resumed run that failed before its row named the
  pull request, is not asked after.

### Fairness

Each `FairSpec` is used by the runs with liveness properties only. Nothing an operator, the board or a
person on GitHub may do is fair: no liveness property waits for help.

- `TicketLifecycle`: weak fairness of a live worker's next step (`Crash` is never fair, and disables
  it for good) and of `SampleTrip(r, "stale")` (passes go on); none of any step of an admission, as a
  pool spawns and a supervisor restarts for ready tickets only: a struck-out ticket whose closers died
  may stay in flight for ever. Strong fairness of `ActOnTrip`, since each restart of the supervisor forgets the
  sample: one that died between every sample and its act, for ever, would free nothing in the code either.
- `SharedCheckout`: the clock runs, waiters are scheduled and woken by flock(2) (strong: others take
  the arbiter in between), a dead worker's run is failed, the sweep comes round again. Nobody who holds
  the lock is assumed to let it go.
- `WorkerPool`: the scheduler goes on, workers and witness passes end, and an exit there is to reap
  is reaped though ticks keep passing (strong).
- `PullRequests`: the pool claims what is ready, the worker goes on until it parks or ends, the host
  sweeps the dead, a reconcile pass is made at every tick. In `Working` all steps share one fairness:
  which of its outcomes a turn has is not promised.

### Where the documents and the code disagree

| Said | Done |
|---|---|
| docs/reviewing.md:453 — the approval was of the sha it released; a candidate moved since parks for the human again | with `review_fixes` an approved run whose thread fix the covering review sends back is fixed and reviewed automatically, stays approved, and merges another sha (run `fix_unapproved`) |
| docs/operating.md:76 — a run parked `blocked_on_operator` refuses an abort | `store.abort()` accepts it, and the command ends the run |
| docs/operating.md:57 — a pending abort ends the run `abandoned` | `hand_off()` between the two stop checks ends it `paused`, its ticket `ready` |
| docs/loop.md:311 — after two failures only a human unblocks the ticket | the requeue on the default profile, later in the same close-out, makes it ready |
| docs/loop.md:314 — the claim path re-reads the count, so a struck-out ticket is refused | `escalate()` looks at the failures of tickets in flight only: when two workers die between the claim and the first status, the ticket stays ready and is claimed a third time |
| docs/loop.md:188 — a parked run is released with `--approve` | on a mirrored board a second loop's stale admission claims the ticket; its refused run becomes `lastRunId`, and the approval is refused |
| docs/architecture/lifecycle.md:216 — a swept run's ticket returns by `--requeue` | `hand_off()` ignores the end and makes the ticket ready |
| docs/architecture/data.md:124 — `projects.activeRunId` is the claim lease | it is `tickets.activeRunId`, as line 41 of the same document has it |
| docs/loop.md:264 — a pull request closed without a merge leaves its run parked | `_reject_pr()` releases it `rejected` |
| docs/loop.md:280 — an `updatedAt` past the mark sends the run back | only authored content newer than the mark does, or a wake's own reason |
| docs/loop.md:370 — the scheduler re-execs once the last worker is in | it hands live workers over and re-execs at once |
| docs/loop.md:366 — under `stop_on_failure` the scheduler exits nonzero | it returns 0 |
| pool_handoff.py:124 — live workers can still open the migrated store | the schema judged is origin's; under `mode = "local"` the one that arrives is the checkout's |
| docs/loop.md:33 — a fresh label cannot be stripped by an earlier removal | a removal that timed out may land after it |

The first is a run that TLC refutes; the others are recorded where the model takes the code's side.

### Mutants

For every property of every passing run, `PROJECT.json` names a change of one modelled definition
which makes TLC refute that property. Most changed forms stand just before the definitions they change,
each with a comment saying which bug it is: a claim that trusts the admission's status, a lock file
created without `O_EXCL`, labels that are not read back, children not written to `pool.json`, an
approval of whatever the branch holds when the run resumes.

## 4. Proofs

`tlapm` proves every obligation of the eight proof modules. The assumptions are the constants' only:
`RowsAssumption`, `LifecycleAssumption`, `DisjointActors`, `PoolParameters`, `LeaseParameters` and
`PullAssumption` say that sizes are natural numbers, that flags are Boolean and that sets which must
be are disjoint. The number of tickets, runs, processes, hosts, builds, commits and passes is arbitrary.
Three theorems have a setting for a hypothesis, given with them.

| Theorem | States |
|---|---|
| `LifecycleLease!TypeCorrect` | `Spec => []TypeOK` |
| `LifecycleLease!LeaseInvariant` | `Spec => []LeaseInv`, the inductive invariant of the lease |
| `LifecycleLease!LeaseCorrect` | `Spec => []LeaseAgreement`: a lease names exactly the ticket's one run at work |
| `LifecycleLease!EndingsFinal` | `Spec => EndingsAreFinal`: what a run ended as is never written again |
| `LifecycleLease!LeaseRefined` | `Spec => ImplementsLease`: the lifecycle implements `TicketLease` |
| `LifecycleLanding!RunInvariant` | `Spec => []RunInv`, the inductive invariant of a run's row, worker and landing |
| `LifecycleLanding!CloseOutLegal` | `Spec => []CloseOutIsLegal`: every run that lives may be failed and aborted |
| `LifecycleLanding!StopsHarden` | `Spec => StopsOnlyHarden` |
| `LifecycleLanding!MergedLanded` | `Spec => []MergedMeansLanded` |
| `LifecycleLanding!NewestIsLatest` | `Spec => []Numbered`: the columns of a ticket name its newest run |
| `LifecycleLanding!LandingApproved` | `Spec => []LandNeedsApproval` |
| `LifecycleLanding!LandedOnce` | `Spec => []LandsOnce` |
| `LifecycleLanding!StatusHeld` | `Spec => StatusIsTheHolders` |
| `LifecycleLanding!ParkReleasable` | with `StoreBoard` and without `"sweep"`, `Spec => []ParkedCanBeReleased` |
| `LifecycleLanding!TriageCapped` | without `"sweep"`, `Spec => TriageBelowCap` |
| `TicketWalkSafety!WalkInvariant`, `!WalkTyped` | the inductive invariant, and `Spec => []TypeOK` |
| `TicketWalkSafety!WalkAsTabled` | `Spec => []WalksAsTabled`: `CanWalk` and `WalkClearsPark` are what search and walk do |
| `TicketWalkSafety!ShortestPath` | `Spec => []PathIsShortest` |
| `CheckoutSafety!CheckoutInvariant`, `!CheckoutTyped` | the inductive invariant, and `Spec => []CheckoutTypeOK` |
| `CheckoutSafety!CheckoutCorrect` | `Spec => []LandsOnVerifiedMain` |
| `CheckoutSafety!TurnImplemented` | `Spec => TurnTaken`: the lock file implements `MergeTurn` |
| `PoolSafety!PoolInvariant`, `!PoolTyped` | the inductive invariant, and `Spec => []TypeOK` |
| `PoolSafety!KnowsItsChildren`, `!NeverAboveCeiling` | `Spec => []ChildrenKnown`, `Spec => []NeverOverstaffed` |
| `PoolSafety!LeavesNoChild`, `!StopKept` | `Spec => []WaitsForItsWorkers`, `Spec => []StopIsNotLost` |
| `BoardLeaseSafety!LeaseInvariant`, `!LabelsTyped` | the inductive invariant, and `Spec => []TypeOK` |
| `BoardLeaseSafety!LeaseCorrect`, `!LabelStays` | `Spec => []OneRunWorks`, `Spec => []LabelKept` |
| `PullRequestSafety!PullInvariant`, `!PullTyped` | the inductive invariant, and `Spec => []TypeOK` |
| `PullRequestSafety!WorkLeftAlone` | `Spec => []WorkIsLeftAlone` |
| `PullRequestSafety!MergedIsLanded` | `Spec => []MergedMeansLanded` |
| `PullRequestSafety!LeaseHandedOn` | `Spec => LeaseIsKept`: every step is one of `TicketLease`'s or none |
| `PullApprovals!ApprovalFollowed` | `Spec => []ApprovalInv`, the inductive invariant of approvals |
| `PullApprovals!JudgedLands` | `Spec => []LandsWhatWasJudged` |
| `PullApprovals!HumanSaid` | without `review_fixes`, `Spec => []HumanSaidMerge` |

**The lease.** `LeaseAgreement` is not inductive. `LeaseInv` adds that lease columns name runs of
their own ticket (else ending a run might free another ticket's lease), that an ended run is in a
terminal phase (`release()` does nothing only to a run that is both), and that no worker goes on with
a parked run (a phase write would leave it at work without a lease). The proof does not go through
some forty actions a conjunct at a time: `EffectOfStep` shows that a step has one of five effects
on the lease columns, phases and endings, `LeaseKept` that each effect keeps the invariant, and the
other two theorems reuse the effects.

**Landings.** The same is done once more, finer. `StepMoves` shows that every step moves each run in
one of fourteen ways (`RunMoves`: it starts, enters a phase, asks, parks, lands, ships, is failed, is
closed by a command, ...), each status in one of six (`StatusMoves`), and says who may have moved a
status (`Actor`); everything after it is about the moves, not the actions. Four invariants rest on it:

- `RunInv`, of one run: where its worker may be, given its row. A run that lives is in a phase that
  may end; one ended while its worker works on was failed by a sweep; a worker at the merge has the
  gate's word; a run that landed was not paused and waits for no approval. `CloseOutIsLegal`,
  `StopsOnlyHarden` and `MergedMeansLanded` follow from it and the moves.
- `Numbered`: ids are given in order, so the run the columns name, which commands and requeues ask
  about, is the ticket's newest. "An earlier run" in a property is then one with a smaller id.
- `WordInv`: a worker that no longer asks for an approval has an approved run before it. An approval
  is taken back only of a ticket's newest run, so never of a run that another has been claimed after.
- `LandingInv`: after a landing its ticket is not ready for another run, by `release()`, a park's
  block or the merge's status, unless a run failed or was aborted; and a question recorded on it is
  none that a requeue releases. Each way back to ready (a hand-back, a requeue or an approval, a
  resume) has a lemma that names the spoilt run it needs.

`StatusIsTheHolders` needs besides that the supervisor closes out only runs it has ended (`TripFits`),
and that as many failures as a ticket counts, up to the cap, are of as many failed runs (`StrikeInv`),
so that a loop that found it struck out did so by two runs that had ended. `TriageBelowCap` needs
`CapInv`: with only the dead sampled, nobody else fails a run that its worker goes on with, so between
the escalation of a ticket's newest run and the triage of that close-out no failure is counted.
`ParkedCanBeReleased` needs `ParkInv`: with only the dead sampled, nobody works on with a run that has
ended, so nobody but the run at work hands its ticket back; a run that asks finds its ticket shut, and
a shut ticket is not claimed.

**The walk.** The search is proved as any breadth-first search would be. `Pending`: each entry of the
frontier is a status with a shortest walk to it, and the entries stand in the order of their walks'
lengths, which differ by one at most. `Reached`: every status that a walk no longer than the first
entry's leads to has been seen. `Closed`: the neighbours of every expanded status have been seen, and
every seen status but the start was reached from one. A neighbour not seen yet is therefore one edge
farther than the first entry, which keeps the order, and the target, found among the neighbours of
the first, is at the end of a shortest walk. A target that is never found is not in a set that holds
all its neighbours, so `CanWalk` fails (`ClosedHasAll`). The walk keeps what is left of its path a
shortest walk. The table is looked into twice only: for which statuses reach which, and in
`FreshDeparts`, that of several shortest walks to one status either all leave `blocked_on_operator`
or none does, without which `WalkClearsPark` would depend on the order of `sorted()`.

**The checkout.** `LockInv` says which processes may be between creating a file and unlinking it
while the path leads to it, and that who is inside a flocked section has the arbiter. What looks
unsafe, the unlink by path without the arbiter, is safe because nobody can create a file while
the holder's is there, and the sweep removes only a file whose flock is free. `WorkOK` adds that what
a gate or a settle has read was read under the lock it still holds; then whoever moves main is the
holder or the scheduler, and `HolderMovesAlone` finishes.

**The pool.** `ChildrenKnown` needs that `pool.json` may lag behind while the scheduler runs, but
only by children spawned since, and is exact whenever it execs (`FileLags`); `NeverOverstaffed` follows
from the ceiling at a spawn and the count being exact (`Staffed`).

**The labels.** `Labelled` says that a run between its label and its end has it, but for a late removal;
`TurnOwns`, that under a store's turn its lease is the run's own or nobody's. `SecondSeesFirst`: of two runs that
both worked, the one that read back later saw the other's label, and would have backed off.

**Pull requests.** `PullInv` says what each process may rely on: a worker's run holds the ticket, what
the worker has seen merged is merged, and what a pass has seen merged is merged as long as the run
it asked after is still the ticket's last: after a redo opens a new pull request it no longer need
be, and that is why the passes re-read the row. Each step has one of fifteen effects, and each effect
keeps the invariant. `LeaseHandedOn` rests on the same effects: a claim is a grant, a run that ends
or parks in its worker's hands is a give-back, because `PullInv` has it hold the lease then, and a
close-out of a parked run moves no lease, because the re-read row says that nobody holds it. Without
that re-read, a pass that asked before an approval would free the ticket from the run claimed after
it; that is the mutant. `ApprovalInv` follows an approval from the row `approve()` released, to the run
that resumes it, over clean merges of main, into the park that carries it and the wake that hands
it on. Its one subtle part is that a row with an approval is never re-pointed: its run has ended, or
is not the ticket's last. A covering review resets the approval in the pass, except after an automatic
fix round; that is why `HumanSaid` assumes there are none, and what `fix_unapproved` shows.

Every invariant, action property and refinement of a passing run is a theorem.

Only model-checked: all liveness (`LeaseIsFreed`, `EveryWaitEnds`, `DeadLockCleared`,
`RestartHappens`, `MergeIsRecorded`, `WalkSettles`), which with `ENABLED` is outside the prover's
reach.

## 5. What is left

1. Under `mode = "pr"`: the merge queue and the draft hold, each a park with a wake of its own.
2. The supervisor's lock and the second confirmation of a silent worker; who sets an admission hold.
3. Stories and automations, whose tickets enter the lifecycle as any ticket does.
4. Composing `BoardLease` and `PullRequests` with the rows of `TicketLifecycle` itself; what they take
   from it is proved of each side apart, and for the pull requests' lease as one abstract promise.
