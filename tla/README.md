# Verifying faberun

faberun drives a *run*: a contract's DAG of nodes, each an attempt by a provider
CLI in its own git worktree, verified, judged, and merged onto the run's
integration ref. One controller process per run does this in a single-threaded
tick loop; a supervisor outside it restarts it when it dies. A *campaign* chains
runs: a planning pipeline writes and freezes their contracts, a coordinator
launches one after the other and promotes each onto a landing branch, a watcher
tells the operator. Everything that must survive is a file: locks, records, node
snapshots, ledgers, journals, a git ref. The hard part is what happens between
two writes, two awaits or two processes, and that is what this project models.

Source paths below are under `src/src/`.

## Inventory

| Component | State it keeps | Operations | Hard behaviour | What makes it correct | Module |
|---|---|---|---|---|---|
| Controller lock, `run/lock.mjs` | `controller.lock`: pid and start token | `acquire`, `assert`, `release` | takeover races, pid reuse, death at any system call | a dead record is taken over once; no live holder is taken over; believers come down to one | `ControllerLock` |
| Integration, `repo/integrate.mjs`, `engine/settle.mjs`, `engine/state.mjs` | journal, run ref, snapshots, events | `integrateAttempt`, `recoverIntegrations`, `settleDone` | a crash between durable writes, a ref moved by others, records of earlier attempts | nothing unverified is accepted; done means integrated; the ref fast-forwards; an acceptance is not lost | `Integration` implements `RunRef` |
| Controller loop, `engine/scheduler.mjs`, `capacity.mjs`, `aux-admission.mjs`, `assignment.mjs` | node statuses, `running`, `settling` | the tick: settle closed jobs, stalls, retries, blocking, dispatch | tick and settlements interleave at awaits; settlements start jobs themselves | ceilings hold; nothing is left behind; the loop ends | `RunLoop` |
| Settlements, `engine/settlement-overlap.mjs`, `lifecycle.mjs`, `review.mjs`, `settle-judge.mjs`, `verify.mjs` | one slot, FIFO; re-ask, re-dispatch and retry bounds | outcome, proof, gate, judge round, integration | the slot is given back during a proof | one automatic retry for each record kept of one; bounded judge rounds | `RunLoop` |
| Provider calls, `engine/dispatch.mjs`, `process.mjs`, `result-file.mjs`, `scope.mjs`, `run/operations.mjs`, `run/usage.mjs`, `campaign/reserve.mjs` | intents and settlements, `usage.jsonl`, holds, the canonical result, the workspace | dispatch behind a gate, close, finalize, kill | six files written one after the other around a detached process that outlives its controller | one worker at a time; spend counted once; nothing repeated blindly | `Operation` |
| Resume, `engine/resume.mjs`, `retry.mjs`, `recover.mjs` | as above, read back; recovery overrides | recover integrations, adopt or restart orphans, retry parked nodes | state half written by a dead controller, recovery that dies itself | as the modules it enters | `Operation`, `RunLoop`, `Integration`, `Routing` |
| Routing, `engine/backoff.mjs`, `failover.mjs`, `judge-list.mjs`, `runtime-discovery.mjs`, `run/availability.mjs` | per-node hops, waits, overrides, tier evidence | plan a route, wait for a reset, hop, hold, give up | counters across revisions, generations, resumes; three kinds of catalogue | no hop goes back; every budget is charged; a hold ends | `Routing` |
| Supervisor, `engine/supervise.mjs`, `cli/launch.mjs`, `engine/detach.mjs`, `engine/run-identity.mjs` | `heartbeat.json`; relaunch guard, attention anchor and retry ledger in `run.json` | look, anchor, judge, kill, launch, record, park | no lock: it reads at one moment and writes at another, beside a controller that writes the same file | a bounded number of fruitless relaunches; the run is not abandoned | `Supervise` |
| Campaign chain, `campaign/chain.mjs`, `index.mjs`, `unpark.mjs`, `repo/integrate.mjs` (`promoteRun`) | `campaign.json`, coordinator lock and heartbeat, the landing branch | take over, validate, launch, wait, recover, promote, record, park; pause, unpark, add, replace, close | overlapping coordinators, records written from copies, a death between promotion and record | runs are launched in order, on their predecessors; the record names what landed (both but for a branch that its second creation rewinds); the loop ends | `Campaign` |
| Plan pipeline, `plan/pipeline.mjs`, `rounds.mjs`, `progress.mjs`, `freeze.mjs`, `contest.mjs`, `resolve.mjs` | `draft.json`, the liveness record, `contract.json`, `plan.json`; the open findings | draft, check, review, revise, freeze, contest, resolve | findings carried between rounds, retries, deaths between records, a stage's run that nobody looks after | only a graded, clean plan freezes; silence forgets nothing; its rounds end; attempts that die pay for one draft | `PlanPipeline` |
| Campaign watch, `campaign/watch.mjs`, `notify/index.mjs` | watch lock, inbox, idle episode, progress anchor | poll, announce, deliver, edit | deaths between record and delivery, restarts, a lock file without a record | alerts once; no lock left behind blocks; the operator learns | `Watch` |
| Cancel command, `engine/cancel.mjs` | `cancel.request.json` | `cancelRun` | against a relaunch | a cancel that returned stands | `Supervise`; its outcome in `Campaign` and `RunLoop` |
| Journal, briefs, contract validation, harness adapters, host, seat, reports, web, command line | none that a run's correctness rests on | validation, parsing, rendering, installation | none concurrent | tests | not modelled |

How they interact. The supervisor starts a controller as a detached `resume`,
waits for its readiness file, and reads the lock and the heartbeat; a controller
takes the lock (`ControllerLock`), recovers the journal (`Integration`) and the
calls of its dead predecessor (`Operation`), gives each node a status to resume
from, and runs the tick loop (`RunLoop`). The loop dispatches calls (`Operation`)
on runtimes `Routing` chooses, and starts settlements whose last step is an
integration. A coordinator (`Campaign`) launches such runs, resumes the dead and
promotes the succeeded, on contracts a `PlanPipeline` froze, under the eye of a
`Watch`. Every module treats the neighbour it does not own as a step or as an
environment action: `Supervise` takes a dead lock in one step (`ControllerLock`
shows when that is sound), `RunLoop` has integration and a call as one awaited
step each, `Operation` has verification and routing as a choice of outcomes,
`Campaign` has a run as a small automaton whose ends `RunLoop` and `Supervise`
justify.

## Modules

**ControllerLock.** One action per system call of `acquire`: link, read, judge,
rename aside, inspect, link back, unlink. `lock` is the directory entry, `aside`
a contender's private capture. Two history variables say what the code cannot
see: `takeovers`, and `displaced`, the holders whose entry was lost in one of
three windows (a hand-back that met EEXIST, a contender that died holding a
live capture, an unlink by name after the check). `Crash` may fall anywhere and
`Restart` gives a pid to a new process.

**Integration**, and **RunRef** which it implements. A commit is the set of
commits in its history, so `merge-base --is-ancestor` is `\subseteq`. Each
durable write is an action: the journal line, the conditional ref update, the
snapshot, the event. `tx` is the transaction in hand, whether `settleDone` or
recovery holds it (`live`), with the callbacks the two give it. `ExternalMove`
is any other writer of the ref. `RunRef` has no journal, no controller and no
crash: a candidate is verified, the ref fast-forwards to a verified candidate
or under someone else's hand, a node lands once. `Promise` maps the ref, the
candidates that passed and the heads of the done nodes onto it.

**RunLoop.** A step runs from one await to the next. `pc` is the tick,
`section` the settlement slot with its FIFO waiters, `step[n]` where node n's
settlement stands, `held[n]` the runtime its settle window counts against. The
four parked statuses are one, told apart by `code`: what an automatic retry, a
resume or a dependant make of it. A worker or a judge out of quota, or cut off,
goes back to pending uncharged (`Reroute`): on the runtime it waits for, whose
reset then holds that runtime against every node (`QuotaHeld`), or on another
after a delay. Which runtime, and how often, is `Routing`'s; here it is any, and
`MaxRoute` times. A supervisor reads `run.json` and, once its launch is up, writes
it back over what the child has recorded since (`SupervisorReads`,
`PersistRelaunch`; `erased` counts the retries that loses). The contract (dependencies, runtimes, gates,
ceilings) is a variable that never changes, so that one run covers several.

**Operation.** One node's worker calls, each file write a step: scope boundary,
hold, spawn, snapshot, intent, gate, close, charge, settlement, scope gate,
usage line, result. A dispatch may fail at its spawn, at its intent (written or
not) or at its gate, and is then undone step by step: the gate killed, the hold
given back, the last recorded operation settled, the node failed; the killed gate
closes later. A child that never was reports an `error` event instead
(`unstarted`: both kinds). The provider is a process of its own that works, answers,
exits or hangs with or without a controller. `work` is what it left in the
workspace (nothing, declared files, stray files), `file` the canonical result.
Recovery goes classification, evidence, usage, decision, settlement, override,
and dies between any two like everything else.

**Routing.** One node's roles over a catalogue (declared fallbacks, discovered
tiers, or a judge list). `override` is the runtime a hop chose, `along` and
`hops` what has been tried, `waits` the network waits, `reset` a quota wait,
`held` the tier-exhaustion hold with the resets its evidence names. The ends of
an attempt that routing reads (refused, lost network, failed, malformed, done)
are free; what follows is the code's.

**Supervise.** Controllers walk through start-up (`boot`, `locked`, `resumed`,
`ready`, `up`), may die or freeze, and write `run.json` and the heartbeat; the
supervisor's tick is cut wherever it reads or writes a shared file. `cancel` is
a third party that writes its request, kills the lock's holder, takes the lock
itself and ends with the run ref gone. The run's nodes are one abstract `work`
status (`parked`: settled for good until another resume); a dead process's lock
counts as none.

**Campaign.** Coordinators take the lock as the code does (a read, perhaps a
kill, a write), then walk the manifest from its start: `copy` is the campaign as
last read, `index` the entry in hand. A run is `none`, active, waiting, dead, or
ended in one of the ways `reduceRunOutcome` tells apart; `branch` is the landing
branch as a sequence of promoted runs, and a promotion three git commands: it
reads the branch, creates it at the run's base when there is none, without a
condition, and moves it if it is still where it was read. `rewound` is what a
creation took off it. `based` says whether a tick found a branch to cut from, and `passed` (a history variable) the
entries an invocation has seen through. Writers of `campaign.json` read and write
in two steps, and the operator's commands fall between.

**PlanPipeline.** A plan is what its nodes hold, a finding an id, a severity and
a node; whatever a worker may validly answer is possible: a review may give one id
twice (`Reviews`: what is raised, and what the merge keeps of it) and name a node
that is not there, or none (`"plan"`). One thing is left out: no reviewer takes an
id the pipeline gives its own findings. `current` says that the saved draft is of
the spec as it is now and still validates. Steps that wait for a stage (`Stage`)
are apart from the process's own (`Work`). Three history variables: the plan the
last review `graded`, the criticals still `owed` an answer (`Taken`, once another
finding has the id), the drafts `paid` for since an attempt returned or the spec
changed.

**Watch.** A watcher is a process with its own memory; what it shares is four
files. Time is counted in idle windows; the campaign has one run, one node that
may block and one state its progress line is of.

The `MC...` modules only name model values and constant functions.

## Runs

| Run | Bounds | Properties | Shows |
|---|---|---|---|
| `lock` | 3 pids, 2 turns, one pid given away once | `TypeOK`, `AtMostOneTakeover`, `HolderAccounted`, `OneControllerAgain` | three contenders are what a displaced hand-back needs; two turns let a contender come round again |
| `integration` | 2 nodes, 2 attempts, 1 move, 1 crash | `AcceptedWasVerified`, `DoneIsIntegrated`, `DoneHasEvent`, `RefFastForwards`, `ImplementsRunRef` | an attempt meets its predecessor's record, and one node moves the ref under the other |
| `integration_crashes` | 1 node, 2 attempts, 2 moves, 3 crashes | `DoneIsFinal`, `AcceptedBecomesDone` | crashes during recovery from crashes |
| `loop` | 2 nodes: side by side with a slot each (one gated, 1 revision), on one slot in all with 1 hop or wait, or a chain over 2 controllers | `StopsClean`, `RunCeiling`, `BlockedForGood`, `OneRetryARecord`, `RunEnds` | two settlements and the tick; a settlement's own spawns against the dispatch pass; a runtime waited for against the other node; retries against blocking, over a restart and what a relaunch writes back |
| `loop_runtime` | 2 nodes, two runtimes with one slot each | `RuntimeCeiling`, violated | finding 1 |
| `supervise` | 2 controllers, 2 troubles (deaths, freezes, restarts, resumes, cancels) | `RelaunchBound`, `CancelStands`, `RunAttended` | the guard at its limit, over restarts; nobody is left unattended; a cancel between a relaunch's steps |
| `campaign` | 2 coordinators, 1 contract and 1 that may be added or put in its place, 1 recovery, 1 progress, 1 crash, 1 command | `TypeOK`, `RecordedHasLanded`, `LaunchesInOrder`, `CoordinatorEnds` | overlapping coordinators, two of them creating the branch, a promotion replayed after a crash, a manifest edited under a launch |
| `routing` | 4 runtimes of 3 vendors in 3 catalogues, 1 revision, 1 network wait, 1 crash or trouble, 1 hold | `NoWayBack`, `LeavesRouting`, `HeldIsRetried` | every pair of a routing decision and what happens before the next |
| `operation` | 2 calls, 2 dead controllers, 1 operator resume, policy `safe` | `TypeOK`, `OneWorker`, `SpendSettles`, `ResolvedStaysResolved`, `NoBlindReplay`, `CallEnds` | a recovery that dies, and the recovery of that recovery; a dispatch that fails half-way, and a death while it is undone |
| `operation_replay` | the same, policies `safe` and `never` | `PolicyDecides`, violated | finding 2 |
| `plan` | 2 nodes, 1 finding id, 2 findings a review, 3 rounds, 2 launches, 1 death | `FrozenIsGraded`, `NothingForgotten`, `DraftPaidOnce`, `PlanEnds` | a finding carried over two revises; an id given twice in a review; a draft adopted |
| `watch` | 1 watcher, 2 starts, 1 death, 3 moves, 2 idle windows | `AnnouncedOnce`, `RestartNotBlocked`, `DecisionReachesOperator`, `ProgressCatchesUp` | a watcher that restarts around every write |

Constants that the code fixes are parameters. TAKEOVER_ATTEMPTS (20) is 2,
MAX_CONSECUTIVE_RELAUNCHES (2) is 1, MAX_CONSECUTIVE_LAUNCH_FAILURES (3) is 2,
MAX_RUN_RECOVERY_ATTEMPTS is 1, NETWORK_MAX_ATTEMPTS is 1, maxRevisions is 1
or 0 (a contract's own), `--review-rounds` 3: each is compared in one place, and the runs go up
to the limit and past it. Constants named `Max...` that are not of the code
(`MaxProcess`, `MaxMove`, `MaxCrash`, `MaxAttempt`, `MaxLife`, `MaxProgress`,
`MaxTrouble`, `MaxOperator`, `MaxCycle`, `MaxCall`, `MaxStart`, `MaxTime`,
`MaxRoute`, `MaxSaid`) and
`Horizon` bound the environment. `loop` gives a second controller to the chain
only, where one node's failure reaches the other, and a hop or wait to one node
of the one slot only, where the other needs its runtime; elsewhere each would
multiply the states by what it left behind. `MaxRoute` stands for a bound the code
has: hops and waits run out (`LeavesRouting`). `operation` gives every node the
policy `safe`: the policy is read at one place, where `never` only takes the
restart away; `ReplayIsNotBlind` is proved for both, and `operation_replay` has both. In `plan`, the findings of a
review are drawn from `Said`: of either severity about a node, and a critical
one about no node of the plan. A coordinator's heartbeat goes stale, in `campaign`,
only while an invocation is left to see it (`Breach`): nobody else reads it. The watch lock's 20 turns
are not counted: a contender that gives up is one that is refused. Deadlock is
not checked: a run ends, a lock is refused, a supervisor stops, a budget is
spent.

Symmetry is used in `integration` (nodes), where no liveness is checked. Every
property of a passing run has a mutant, a plausible slip in the code it is about
(the operators commented *Mutant*), that breaks it under the same configuration.
Each module's type invariant, and a few properties that hold and are not worth a
run of their own (`NoOwnRecord`, `OneDeclaredHop`, `HopsToAnotherVendor`,
`EpisodeIsOne`), stay in the modules; the type invariants are proved, but for
`Routing`'s.

### Fairness

- `ControllerLock`: `acquire` is synchronous code and runs on; the controller
  asserts its lock on every tick.
- `Integration`: a transaction and a recovery are sequential code; the
  supervisor starts a dead controller again (`Supervise`, `RunAttended`). Crashes
  are bounded, so recovery gets its turn.
- `RunLoop`: the event loop runs every ready continuation; every provider
  process exits, because `detectStalls` kills one that outlives its wall clock;
  time passes, so a reset or a delay is over. No signal, crash, relaunch or resume
  is assumed to come.
- `Operation`: the controller takes its next step, every provider ends (the same
  deadline, or recovery's), and a dead controller of an unsettled run is
  relaunched (`Supervise`). No operator is assumed.
- `Routing`: a dispatch, an attempt's outcome, time and the supervisor's look at
  a waiting run come; which outcome is free, and no provider is assumed to
  recover.
- `Supervise`: the supervisor's loop and live controllers run on, and time
  passes (`Overdue`). Nothing is assumed of progress, of operators, or of a
  `cancel` that has begun.
- `Campaign`: the coordinator's loop runs on, and a run that is being driven
  ends, waits or dies (`RunEnds`, `RunAttended`).
- `PlanPipeline`: the planning process takes its own steps. Nothing makes a stage
  end: it is a detached run without a supervisor, and `plan` polls it while it is
  unfinished or waiting, without a deadline or a look at its controller
  (`cli/plan.mjs:287`). `PlanEnds` says what is left: the pipeline ends, or waits
  for ever for one stage.
- `Watch`: a live watcher goes on polling; a transport asked again and again
  takes a message in the end (strong fairness, used by `ProgressCatchesUp` only).

## Findings

1. **A runtime's `maxConcurrent` can be exceeded** (`engine/dispatch.mjs:548`).
   A judge is admitted, then its gate's proofs are awaited, then it starts; a
   tick between them fills the runtime. A judge's re-dispatch and a result
   continuation ask for no admission.
2. **A recovery that dies forgets the replay policy** (`engine/resume.mjs:491`).
   An operation of unknown effect is settled `reconciled`, then the override
   that records the decision is written. A death between them leaves an
   operation that no longer needs recovery and a node without an override: the
   next recovery skips `resolveUnknownEffect` and restarts the call over a clean
   workspace, although the node's `replayPolicy` is `never`.

### Seen while modelling

Statements of the documentation or of a comment that the models contradict.
TLC violates each of the named definitions; they have no run.

- `StaleRecordInert` (Integration): recovery's callbacks for a red, conflicting
  or concurrently moved candidate (`engine/resume.mjs:755`) do not compare the
  record's attempt with the node's, as `onAccepted` does, so an older attempt's
  open record parks a newer attempt.
- `EveryNodeEnds` (RunLoop): "every node ends in exactly one terminal state"
  (`docs/CONCEPTS.md:106-108`), but a dependant of a cancelled node is neither
  ready nor blocked (`engine/assignment.mjs:163`), and the loop ticks on.
  `RunEnds` sets the case apart (`Orphaned`).
- `RetryStaysSpent` (Supervise), `OneAutoRetry` (RunLoop): `persistRelaunch`
  (`engine/supervise.mjs:617`) writes back a `run.json` read before the launch and
  drops an automatic retry the child recorded meanwhile, so the node is granted
  another; "a restarted controller cannot grant a fresh one"
  (`engine/lifecycle.mjs:191`). `OneRetryARecord` counts the records lost. One
  consequence: a retry granted after dependants were blocked reopens, and
  may finish, the dependency they stay blocked behind; `BlockedForGood` sets it
  apart.
- `EveryPromotionRecorded` (Campaign): "a re-invocation after a crash between
  the branch move and this write repairs the record" (`campaign/index.mjs:514`),
  but the re-invocation gets `already_promoted`, which `promotionMovedBranch`
  (`campaign/index.mjs:567`) does not record.
- `BranchNeverRewinds` (Campaign): a promotion "never force-updates"
  (`repo/integrate.mjs:524`), but one that read no branch creates it by an
  `update-ref` without a condition (`repo/integrate.mjs:570`). When an overlapping
  coordinator has created, promoted and recorded in between, that takes its runs
  off the branch again. `RecordedHasLanded` and `LaunchesInOrder` set such runs
  apart (`rewound`).
- `OneCoordinator`: "two coordinators never overlap" (`campaign/chain.mjs:174`),
  but `acquireCoordinator` reads and writes without exclusive creation.
  `LaunchesInOrder` holds all the same, of the entries each invocation saw
  through. `LaunchesAsRecorded`, the same of the manifest as recorded, does not:
  `index` counts entries (`campaign/chain.mjs:441`) of a manifest that is read
  again on every tick (`campaign/chain.mjs:550`). While an operator replaces `b`
  by `z` in `<<b, a>>` after one launch of `b` failed, an overlapping
  coordinator launches and promotes `b` from its older copy; its index then
  counts `b`, and it launches `a` although `z`, now first, never ran. It takes
  three invocations, so the run's two do not show it. `PauseIsDurable`, `ClosedIsFinal`: every
  writer of `campaign.json` writes a whole copy it read before, so a pause or a
  close between the two is undone.
- `JudgeOfAnotherVendor` (Routing): a judge "must resolve to a different vendor
  from the worker that actually ran the attempt" (`docs/CONCEPTS.md:153-154`);
  a judge's own hop is checked (`HopsToAnotherVendor`), a worker that hops to
  the judge's vendor is not. `HoldIsCapped`: "the longest a tier-exhausted node
  may be held" (`engine/retry.mjs:113`) is compared only on a resume, and a
  supervisor that sees no reset resumes nothing. Network waits are counted per
  role and revision, and an ordinary failure between two hops clears the resets
  recorded before it.
- `OneLinePerCall` (Operation): "one line per invocation"
  (`docs/ARCHITECTURE.md:91`), but a call failed by the scope gate, or by its
  child's `error` event, leaves `finalizeClosedJobs` before `appendUsageRecord`
  (`engine/lifecycle.mjs:386`, `342`), and one whose intent or gate failed in
  `startWorker` (`engine/dispatch.mjs:409`) never gets there. The second kind is
  taken for unstarted, and `SpendSettles` says that none of them ever answered.
  The settlement in that
  `catch` is of the last recorded call, which after a failed spawn is the
  one before.
  `CompletedStaysCompleted`: a completed operation may be settled again, as
  stalled, exhausted or of unknown effect resolved. A hold whose controller died
  is never settled (`campaign/reserve.mjs:17`). A worker that finishes while no
  controller lives has no recorded close time, so its answer is not adopted.
- `FrozenAnswersAll` (PlanPipeline): a finding against an unchanged node "stays
  open" (`plan/rounds.mjs:85-90`), but ids are the reviewers' own, and one given
  to another finding, in a later review or further down in the same one, replaces
  the first (`plan/rounds.mjs:69-73`); and one that names no node of the plan,
  which `validateFindings` lets through, is dropped at the next revise
  (`plan/rounds.mjs:107`). `NothingForgotten` sets the two apart. A finding is also cleared by any change of
  its node, and the proof scan runs on the draft only. `ContestedHasNoContract`:
  "a contract.json no contested result may have" (`plan/pipeline.mjs:472-475`)
  survives when the process died after writing it and the next attempt contests
  without a freeze. A death inside `--resolve`, between the two writes of
  `plan.json`, loses the contested record.
- `OneWatcher` (Watch): "a live holder is never taken over"
  (`campaign/watch.mjs:415`), but a lock file whose record is not written yet is
  stale, and unlinking goes by name; two watchers that overlap so may announce a
  line twice, and `AnnouncedOnce` is about one at a time. `DeadRunIsTold`: the stale alert's key is
  the run's (`campaign/watch.mjs:279`), so a second death of the same run's
  controller is not announced (`docs/COMMANDS.md:772-774`), nor is a node's
  second blocking. A transport that answers ok without a message id is sent the
  progress message at every poll. A watcher that dies between a progress
  delivery and its anchor leaves the old anchor; `ProgressCatchesUp` sets that
  apart (`torn`).
- `ControllerLock`: a contender that captured a live holder discards it when a
  third one installed itself meanwhile (`run/lock.mjs:184`, the window
  `displaced` records).
- `RunLoop`: the stall handler integrates an advisory review on the tick while a
  settlement may be integrating (`engine/scheduler.mjs:610`; the candidate lock
  keeps the verifications apart, the later transaction ends as a concurrent
  move).
- `Supervise`: a controller between its lock and its first heartbeat may be
  killed on its predecessor's stale heartbeat (`engine/supervise.mjs:706`); a
  controller that a breach's SIGTERM still reaches within the grace takes it for
  an operator's and cancels the run's nodes (`engine/scheduler.mjs:472`); the
  resume that follows retries them (`engine/retry.mjs:32`). The same kill meets a
  `cancel` that holds the lock. A cancel request ends the supervisor
  (`engine/supervise.mjs:426`) even when a resume on its way consumes it
  (`engine/resume.mjs:136`): that run goes on unwatched, and `RunAttended`
  excepts it. A dispatch counts as progress, so a run that
  dispatches and dies at every start is relaunched without limit: `RelaunchBound`
  counts relaunches between two advances of `lastProgressAt`.

## Proofs

TLAPS checks these for every value of the constants, from the `ASSUME`s of the
modules: every set of nodes, calls, contracts or processes, every limit, every
number of crashes. The assumptions say that sets are finite where the code
counts them, that limits are naturals, and that the values standing for
"nothing" are none of the things they stand beside. Every proof has one shape:
an inductive invariant `IInv`, a lemma that `Init` implies it, a lemma that each
action keeps it, and the properties from it.

- `ControllerLockProofs`: `TypeCorrect`, `OneTakeover`, `HoldersAreAccounted`.
  Neither property is inductive. The inductive invariant says that a record
  that can still be judged is in one place (the entry, or one contender's
  capture: `SingleCopy`), that a record judged dead can be judged no more
  (`TakenIsGone`), and that a process still competing has its own record nowhere
  (`Unwritten`). The first makes the capture exclusive, the second a takeover
  final, the third keeps `link` from adding a second copy.
- `IntegrationProofs`: `TypeCorrect`, `AcceptedVerified`, `DoneIntegrated`,
  `FastForward`, `DoneFinal`. The invariant ties the transaction in hand to the
  journal: a transaction past verification has its candidate in `passed`, one past the
  update has it in the ref's history, and a candidate always contains the tip
  it was built on. `FastForward` then follows step by step, because every
  action that moves the ref moves it to a superset, and the done node's
  integrated head stays in it.
  `RefinesRunRef` is the refinement: initial states map to initial states, and
  each action, under the invariant, to a verification, an advance, a landing, an
  outside move or a stutter of `RunRef` (a crash, a journal line and a recovery's
  walk all stutter). `DoneEventWritten` is about two writes a crash may come
  between. Its own invariant (`EInv`) says who will still write a missing event:
  the transaction in hand or, after a death, the recovery's walk, which has yet
  to meet the record in the journal's listing (`Listing`, `Walk`). A
  record that is driven on ends that walk, so the invariant also says that at
  most one can be, and that the journal lists it after every record that owes
  an event (`Kept`).
- `OperationProofs`: `TypeCorrect`, `WorkersAreOne`, `SpendIsSettled`,
  `ResolvedForGood`, `ReplayIsNotBlind`. The invariant says for each place of
  the controller what the current call has by then. A death may come at each of
  them and the next controller goes by the snapshot alone, so `Providers` and
  `Lines` speak of the snapshot (`Open`) as well as of the place. A call taken for
  unstarted is over without a line, so `Unstarted` says that it never answered and
  that nobody is left who could.
  `WorkersAreOne` is then that a running provider is the current call's and
  somebody still looks for it.
- `RunLoopProofs`: `TypeCorrect`, `RunCeilingHolds`, `OneRetry`, `StopsCleanly`,
  `BlockedStays`. The ceiling is not inductive: a settlement starts jobs without
  admission. `Hands` says that a node is in one hand at a time (a live job, an
  undecided settlement, the stall handler, the tick), so what a settlement
  starts takes the place its own node held; only the dispatch pass adds a node,
  and it counts before it does.
  `Hands` also says that the dependencies of a node in hand are done; done is
  for good, so nothing blocks a node in hand. `BlockedStays` needs more than its
  statement: a node is blocked behind a dependency that the automatic retry has
  already passed over, or the next tick could reopen it, unless a relaunch has
  erased that dependency's record (`Stays`). `OneRetry` rests on `Ledger`: the
  retries granted are those recorded and those erased, and a copy in the
  supervisor's hand holds no more than was recorded. `Queue` gives the FIFO
  distinct entries, none of them in a proof, which is what makes the slot's
  release remove the right one.
- `SuperviseProofs`: `TypeCorrect`, `RelaunchesAreBounded`, `CanceledStays`.
  `run.json` is read and written at different moments. `Guard` says what the
  copy in the supervisor's hand is worth at each of its places: the count it
  will write is one more than the file grants, unless `lastProgressAt` has moved
  since it looked, and then the file's own count is of before the move. The
  cancel rests on `Locks`, that the lock is one.
- `CampaignProofs`: `TypeCorrect`, `RecordedLanded`, `LaunchesFollow`. No writer
  of `campaign.json` holds anything while it writes, so the invariant is about
  copies: every copy of the record, every entry in hand between promotion and
  record and every entry an invocation saw through names runs that are on the
  branch or were rewound, and these two together (`Held`) only grow: what a
  creation takes off the one it adds to the other. Nothing is said about the lock, and two
  coordinators that overlap make no difference to these properties.
- `PlanPipelineProofs`: `TypeCorrect`, `FrozenAsGraded`, `SilenceForgetsNothing`,
  `DraftIsPaidOnce`. A critical that is owed an answer is open, under its own id
  and at its own node, or its id was taken, or it names no node. For this to survive the merge
  of a round's findings, the findings the pipeline raises itself must own their
  ids (`Known`), or one of them could replace a reviewer's. Type correctness is
  not immediate: `history` counts findings, and a count is a number only
  because finitely many findings can be told apart. The draft's invariant is
  about the files of an attempt that died.
- `WatchProofs`: `TypeCorrect`, `LockIsTaken`, `ToldOnce`. `LockIsTaken` holds
  for any set of terminals: the lock names a watcher only while that watcher
  runs. `ToldOnce` is of one terminal, with any number of deaths and restarts,
  as the run is: two that overlap may both find a key missing from the inbox
  (`OneWatcher`, above), and the hypothesis is the theorem's own, not the
  module's. Type correctness needs that a window an idle line names lies in
  the past, since its instant is a difference.

Only model-checked: liveness (`OneControllerAgain`, `AcceptedBecomesDone`,
`RunEnds`, `RunAttended`, `CoordinatorEnds`, `LeavesRouting`, `HeldIsRetried`,
`CallEnds`, `PlanEnds`, `DecisionReachesOperator`, `ProgressCatchesUp`), since
the prover has no rules for fairness and ENABLED; and the one safety property of
`Routing`, `NoWayBack`. What a recursive definition computes for every input is
out of the prover's reach as well; the modules use recursive functions
and set operators only.

## Not modelled, and why

Contract validation, harness adapters, rendering and installation keep no state
that a run's correctness depends on: they are functions of their input, most of
the repository's lines, and covered by its tests. Atomic file replacement
(`run/store.mjs`) is taken as one step. In `RunLoop`: human-step nodes, the exit
on a lost lock, a crash inside a batch of several retries, the choice of a hop's
runtime, a supervisor that relaunches over a controller still alive (frozen) and
a controller's own read and write of `run.json` as two steps (the first is in
`Supervise`). In `Operation`: a gate that saw the release file and is killed within
the tenth of a second after writes nothing; a
judge's calls, the result-only turn, a seal before a kill, sums of money. In
`Routing`: several nodes at once, and how an error text is classified. In
`Supervise`: unreadable snapshots, the split of a controller's own read and
write of `run.json`, and the kill of each recorded provider by `cancelRun` (one
step with its marks). In `Campaign`: final verification as a step of
its own, the journal. In `PlanPipeline`: two `plan` commands on one phase at a
time, a reviewer that uses the pipeline's own finding ids, sizing and the mechanical repairs. In `Watch`: a delivery's retries.
Re-authoring of a refused packet is not modelled.

## Plan

Every safety property that a run checks is proved, but for one. What is left:

1. `Integration`: `NoOwnRecord`, which justifies the guard of `SettleDone`. It
   needs of an open record of a running node's own attempt what `Kept` says of
   an owed event: in hand, or still ahead of recovery's walk, and the same as
   the one record that can be driven on.
2. `Routing`: type correctness and `NoWayBack`. The invariant has to say where
   `override` lies on `along`, over the three kinds of catalogue; then
   `OneDeclaredHop` and `HopsToAnotherVendor`.
3. `Watch`: `EpisodeIsOne`.
4. A refinement of the campaign: a landing branch that grows by succeeded runs,
   and a record that follows it.
