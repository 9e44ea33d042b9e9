----------------------------- MODULE Supervise -----------------------------
(***************************************************************************)
(* The watchdog of one run, the controllers it launches, and the record    *)
(* they share:                                                             *)
(*   src/src/engine/supervise.mjs     the tick, heartbeats, the relaunch   *)
(*                                    guard, the park,                     *)
(*   src/src/engine/scheduler.mjs     driveRun's start,                    *)
(*   src/src/engine/run-identity.mjs  what run.json carries over,          *)
(*   src/src/cli/launch.mjs, engine/detach.mjs   the bootstrap handshake,  *)
(*   src/src/engine/cancel.mjs        cancelRun.                           *)
(*                                                                         *)
(* The supervisor takes no lock. It reads run.json, the lock and the       *)
(* heartbeat at one moment and acts on them at a later one; a controller   *)
(* (its own child, or an operator's `resume') runs between, and so does a  *)
(* `cancel', which kills the controller and takes the lock itself. Taking  *)
(* over a dead holder's lock is module ControllerLock's; here it is a step.*)
(***************************************************************************)
EXTENDS Naturals, FiniteSets

CONSTANTS
  Ctl,             \* controller processes; one that is gone may come again
  MaxRelaunches,   \* MAX_CONSECUTIVE_RELAUNCHES (2)
  MaxFailures,     \* MAX_CONSECUTIVE_LAUNCH_FAILURES (3)
  MaxProgress,     \* bound: advances of lastProgressAt
  MaxTrouble,      \* bound: crashes, freezes, supervisor restarts, and commands
                   \* (`resume', `cancel') an operator types
  Canceler,        \* the `cancel' command's process, as the lock names it
  NoCtl

ASSUME GuardAssumption == MaxRelaunches \in Nat \ {0} /\ MaxFailures \in Nat \ {0}
ASSUME BoundAssumption == {MaxProgress, MaxTrouble} \subseteq Nat
ASSUME NoCtlAssumption == {NoCtl, Canceler} \cap Ctl = {} /\ NoCtl # Canceler

VARIABLES
  \* durable
  work,      \* the run's nodes, as one: what is left to do
  meta,      \* run.json: relaunch guard, attention anchor, auto retry spent
  lock,      \* controller.lock: its live holder (a dead one's record is as none)
  beat,      \* heartbeat.json: lastProgressAt, and whether it is in breach
  request,   \* cancel.request.json exists
  \* processes
  at,        \* where each controller stands
  changed,   \* the controller's resume changed node states
  sup,       \* where the supervisor's tick stands
  seen,      \* run.json and the guard's decision, as the tick read them
  child,     \* the controller the supervisor launched and waits for
  fails,     \* consecutiveFailures
  cancel,    \* where the `cancel' command stands
  \* bounds and history
  trouble,
  unrecorded,\* supervisor restarts between a launch and its record
  fruitless  \* launches that came up since lastProgressAt last moved

vars == <<work, meta, lock, beat, request, at, changed, sup, seen, child, fails, cancel,
          trouble, unrecorded, fruitless>>

Work == {"ready", "running", "failed", "parked", "canceled", "done"}
At   == {"gone", "boot", "locked", "resumed", "ready", "up", "frozen"}
Sup  == {"look", "judge", "anchorread", "anchor", "park", "kill", "launch",
         "wait", "persist", "done", "stopped"}
Cancel == {"none", "signal", "acquire", "mark", "release", "over"}
Meta == [count : 0..MaxRelaunches, mark : 0..MaxProgress + 1,
         attention : BOOLEAN, spent : BOOLEAN]

\* lastRelaunchProgressAt before any relaunch; MaxProgress + 1 reads as `null'.
Unmarked == MaxProgress + 1

Blank == [count |-> 0, mark |-> Unmarked, attention |-> FALSE, spent |-> FALSE]

Settled == work \in {"failed", "parked", "canceled", "done"}
LockAlive == lock # NoCtl

TypeOK ==
  /\ work \in Work /\ meta \in Meta /\ seen \in Meta
  /\ lock \in Ctl \cup {NoCtl, Canceler} /\ request \in BOOLEAN /\ cancel \in Cancel
  /\ beat \in [progress : 0..MaxProgress, breach : BOOLEAN]
  /\ at \in [Ctl -> At] /\ changed \in [Ctl -> BOOLEAN]
  /\ sup \in Sup /\ child \in Ctl \cup {NoCtl}
  /\ fails \in 0..MaxFailures
  /\ trouble \in 0..MaxTrouble
  /\ unrecorded \in 0..MaxTrouble /\ fruitless \in Nat

\* A run whose controller has just died, and a supervisor that has just come.
Init ==
  /\ work \in {"ready", "running"}
  /\ meta = Blank /\ seen = Blank
  /\ lock = NoCtl /\ request = FALSE /\ cancel = "none"
  /\ beat = [progress |-> 0, breach |-> FALSE]
  /\ at = [c \in Ctl |-> "gone"] /\ changed = [c \in Ctl |-> FALSE]
  /\ sup = "look" /\ child = NoCtl /\ fails = 0
  /\ trouble = 0 /\ unrecorded = 0 /\ fruitless = 0
-----------------------------------------------------------------------------
Becomes(c, label) == at' = [at EXCEPT ![c] = label]
Goes(label) == sup' = label
\* The supervisor exits, and its memory and its history with it.
Ends(label) ==
  /\ Goes(label)
  /\ fails' = 0 /\ unrecorded' = 0 /\ fruitless' = 0
Released(p) == lock' = IF lock = p THEN NoCtl ELSE lock
UNCHANGED_Sup == UNCHANGED <<sup, seen, child, fails, unrecorded, fruitless>>
UNCHANGED_Cancel == UNCHANGED <<request, cancel>>
UNCHANGED_Run ==
  UNCHANGED <<work, lock, beat, at, changed, trouble>> /\ UNCHANGED_Cancel

\* A new process; which of the names that are free it gets is immaterial.
Free == {c \in Ctl : at[c] = "gone" /\ c # child}
Spawn(c) ==
  /\ Free # {} /\ c = CHOOSE d \in Free : TRUE
  /\ Becomes(c, "boot")

\* An operator types `resume'.
OperatorResume(c) ==
  /\ trouble < MaxTrouble
  /\ Spawn(c)
  /\ trouble' = trouble + 1
  /\ UNCHANGED <<work, meta, lock, beat, changed>> /\ UNCHANGED_Sup /\ UNCHANGED_Cancel

\* resumeRun: acquireLock takes a free or a dead entry, or refuses.
Boot(c) ==
  /\ at[c] = "boot"
  /\ IF LockAlive THEN Becomes(c, "gone") /\ UNCHANGED lock
                  ELSE Becomes(c, "locked") /\ lock' = c
  /\ UNCHANGED <<work, meta, beat, changed>>
  /\ UNCHANGED trouble /\ UNCHANGED_Sup /\ UNCHANGED_Cancel

\* cancelRun deletes the run ref last of all, and nothing makes it again.
RunRefExists == cancel # "over"

\* resumeRun of a run whose integration ref is gone throws.
RefuseResume(c) ==
  /\ at[c] = "locked" /\ ~RunRefExists
  /\ Becomes(c, "gone") /\ lock' = NoCtl
  /\ UNCHANGED <<work, meta, beat, changed>>
  /\ UNCHANGED trouble /\ UNCHANGED_Sup /\ UNCHANGED_Cancel

\* resumeRun consumes a cancel request. Its pass over the nodes: a node found
\* running is put back, one that failed, was cancelled or is parked may be; a
\* failed one held back is this controller's no more (parkedBefore). Adopting an
\* orphan (markRecovering) refreshes the heartbeat.
ResumeNodes(c) ==
  /\ at[c] = "locked" /\ RunRefExists
  /\ request' = FALSE
  /\ work' \in CASE work = "running" -> {"ready", "parked"}
                 [] work = "failed" -> {"parked", "ready"}
                 [] work \in {"parked", "canceled"} -> {work, "ready"}
                 [] OTHER -> {work}
  /\ changed' = [changed EXCEPT ![c] =
                  work' # work /\ (work = "running" \/ work' = "ready")]
  /\ beat' \in {beat, [beat EXCEPT !.breach = FALSE]}
  /\ Becomes(c, "resumed")
  /\ UNCHANGED <<meta, lock, cancel>> /\ UNCHANGED trouble /\ UNCHANGED_Sup

\* driveRun's start: the live preflight refuses, or run.json is rewritten with
\* the guard and the retry ledger carried over and the attention anchor dropped
\* if this resume changed nodes.
WriteMetadata(c) ==
  /\ at[c] = "resumed"
  /\ \/ /\ Becomes(c, "ready")
        /\ meta' = [meta EXCEPT !.attention = @ /\ ~changed[c]]
        /\ UNCHANGED lock
     \/ Becomes(c, "gone") /\ lock' = NoCtl /\ UNCHANGED meta
  /\ changed' = [changed EXCEPT ![c] = FALSE]
  /\ UNCHANGED <<work, beat>> /\ UNCHANGED trouble /\ UNCHANGED_Sup /\ UNCHANGED_Cancel

\* createHeartbeat: a fresh `at', lastProgressAt kept. (A child that is never
\* acknowledged goes on after five seconds.)
BeatStarts(c) ==
  /\ at[c] = "ready"
  /\ beat' = [beat EXCEPT !.breach = FALSE]
  /\ Becomes(c, "up")
  /\ UNCHANGED <<work, meta, lock, changed>>
  /\ UNCHANGED trouble /\ UNCHANGED_Sup /\ UNCHANGED_Cancel

\* heartbeat.progress(), after provider output or a state change since the last
\* report: a later write than the change, which a death in between never makes.
Progress(c) ==
  /\ at[c] = "up" /\ work # "ready" /\ beat.progress < MaxProgress
  /\ beat' = [beat EXCEPT !.progress = @ + 1, !.breach = FALSE]
  /\ fruitless' = 0
  /\ UNCHANGED <<work, meta, lock, at, changed, sup, seen, child, fails, unrecorded>>
  /\ UNCHANGED trouble /\ UNCHANGED_Cancel

\* The tick: a ready node is dispatched, a running one ends, a failed one gets
\* its automatic retry (read and spent in run.json) or is parked for good. A
\* tick that finds the request cancels what is not settled instead.
Tick(c) ==
  /\ at[c] = "up"
  /\ \/ work = "ready" /\ ~request /\ work' = "running" /\ UNCHANGED meta
     \/ /\ work = "running" /\ work' \in {"failed", "parked", "done"}
        /\ UNCHANGED meta
     \/ /\ work = "failed" /\ ~request /\ ~meta.spent
        /\ work' = "ready"
        /\ meta' = [meta EXCEPT !.spent = TRUE]
     \/ work = "failed" /\ meta.spent /\ work' = "parked" /\ UNCHANGED meta
     \/ request /\ ~Settled /\ work' = "canceled" /\ UNCHANGED meta
  /\ UNCHANGED <<lock, beat, at, changed>>
  /\ UNCHANGED trouble /\ UNCHANGED_Sup /\ UNCHANGED_Cancel

\* Every node is settled: the loop ends, the lock is released.
RunOver(c) ==
  /\ at[c] = "up"
  /\ work \in {"parked", "canceled", "done"} \/ (work = "failed" /\ request)
  /\ Becomes(c, "gone")
  /\ lock' = NoCtl
  /\ UNCHANGED <<work, meta, beat, changed>>
  /\ UNCHANGED trouble /\ UNCHANGED_Sup /\ UNCHANGED_Cancel
-----------------------------------------------------------------------------
\* Process death; the lock entry it leaves counts for nothing.
Die(c) ==
  /\ at[c] # "gone" /\ trouble < MaxTrouble
  /\ Becomes(c, "gone") /\ changed' = [changed EXCEPT ![c] = FALSE]
  /\ Released(c)
  /\ trouble' = trouble + 1
  /\ UNCHANGED <<work, meta, beat>> /\ UNCHANGED_Sup /\ UNCHANGED_Cancel

\* The event loop stops (a suspended host, a blocked thread), or a node outlives
\* its budget: alive, not working.
Freeze(c) ==
  /\ at[c] = "up" /\ trouble < MaxTrouble
  /\ Becomes(c, "frozen")
  /\ trouble' = trouble + 1
  /\ UNCHANGED <<work, meta, lock, beat, changed>>
  /\ UNCHANGED_Sup /\ UNCHANGED_Cancel

\* heartbeatBreach, as time passes: the record is overdue unless a working
\* controller keeps refreshing it. (It is read beside a live holder only.)
Overdue ==
  /\ LockAlive /\ ~beat.breach /\ \A c \in Ctl : at[c] # "up"
  /\ beat' = [beat EXCEPT !.breach = TRUE]
  /\ UNCHANGED <<work, meta, lock, at, changed>>
  /\ UNCHANGED trouble /\ UNCHANGED_Sup /\ UNCHANGED_Cancel
-----------------------------------------------------------------------------
(* cancelRun *)

UNCHANGED_CancelEnv == UNCHANGED <<meta, beat>> /\ UNCHANGED_Sup

\* The request is written first.
CancelRequest ==
  /\ cancel = "none" /\ trouble < MaxTrouble
  /\ trouble' = trouble + 1
  /\ request' = TRUE
  /\ cancel' = "signal"
  /\ UNCHANGED <<work, lock, at, changed>> /\ UNCHANGED_CancelEnv

\* A live holder gets SIGTERM, then SIGKILL. One past driveRun's handlers that
\* runs within the grace cancels the run and leaves; else nothing is marked.
Killed(c) ==
  /\ Becomes(c, "gone") /\ changed' = [changed EXCEPT ![c] = FALSE]
  /\ lock' = NoCtl
  /\ work' \in {work} \cup (IF at[c] \in {"up", "frozen"} /\ ~Settled
                           THEN {"canceled"} ELSE {})

CancelSignal ==
  /\ cancel = "signal"
  /\ IF LockAlive THEN Killed(lock) ELSE UNCHANGED <<work, lock, at, changed>>
  /\ cancel' = "acquire"
  /\ UNCHANGED <<request, trouble>> /\ UNCHANGED_CancelEnv

\* Mutant: the lock of whoever came meanwhile is taken too.
CancelAcquireAny ==
  /\ cancel = "acquire"
  /\ lock' = Canceler /\ cancel' = "mark"
  /\ UNCHANGED <<request, work, at, changed, trouble>> /\ UNCHANGED_CancelEnv

\* acquireStaleLock: a controller that came meanwhile fails the command.
CancelAcquire ==
  /\ cancel = "acquire"
  /\ IF LockAlive THEN cancel' = "none" /\ UNCHANGED lock
                  ELSE cancel' = "mark" /\ lock' = Canceler
  /\ UNCHANGED <<request, work, at, changed, trouble>> /\ UNCHANGED_CancelEnv

\* The recorded providers are killed and the nodes that are not settled marked;
\* a provider that outlives it fails the command, and the lock is released.
CancelNodes ==
  /\ cancel = "mark"
  /\ \/ /\ work' = (IF Settled THEN work ELSE "canceled")
        /\ cancel' = "release" /\ UNCHANGED lock
     \/ cancel' = "none" /\ Released(Canceler) /\ UNCHANGED work
  /\ UNCHANGED <<request, at, changed, trouble>> /\ UNCHANGED_CancelEnv

\* The attempts' branches and the run ref are deleted, the lock released.
CancelRelease ==
  /\ cancel = "release"
  /\ cancel' = "over"
  /\ Released(Canceler)
  /\ UNCHANGED <<request, work, at, changed, trouble>> /\ UNCHANGED_CancelEnv

\* The command dies; the request stays.
CancelDies ==
  /\ cancel \notin {"none", "over"} /\ trouble < MaxTrouble
  /\ cancel' = "none"
  /\ Released(Canceler)
  /\ trouble' = trouble + 1
  /\ UNCHANGED <<request, work, at, changed>> /\ UNCHANGED_CancelEnv
-----------------------------------------------------------------------------
\* runProgress: a succeeded run and a cancel request end the supervisor, a
\* parked run is announced.
SupLook ==
  /\ sup = "look"
  /\ \/ /\ request \/ work = "done"
        /\ Ends("done")
     \/ /\ ~request /\ work # "done"
        /\ Goes(IF Settled THEN "anchorread" ELSE "judge")
        /\ UNCHANGED <<fails, unrecorded, fruitless>>
  /\ UNCHANGED <<meta, seen, child>> /\ UNCHANGED_Run

\* reportParkedAttention: run.json is read, and, without an anchor, written.
AnchorRead ==
  /\ sup = "anchorread"
  /\ IF meta.attention THEN Goes("look") /\ UNCHANGED seen
                       ELSE Goes("anchor") /\ seen' = meta
  /\ UNCHANGED <<meta, child, fails, unrecorded, fruitless>> /\ UNCHANGED_Run

AnchorWrite ==
  /\ sup = "anchor"
  /\ meta' = [seen EXCEPT !.attention = TRUE]
  /\ seen' = Blank
  /\ Goes("look")
  /\ UNCHANGED <<child, fails, unrecorded, fruitless>> /\ UNCHANGED_Run

\* nextRelaunch: run.json as read, with the count the next launch would leave;
\* the count starts again when lastProgressAt moved since the last relaunch.
RelaunchCount ==
  IF meta.mark # Unmarked /\ beat.progress > meta.mark THEN 0 ELSE meta.count

NextRelaunch == [meta EXCEPT !.count = RelaunchCount + 1, !.mark = beat.progress]

\* Mutant: a live lock holder is healthy, whatever its heartbeat says.
SupJudgeLockOnly ==
  /\ sup = "judge"
  /\ IF LockAlive
     THEN Goes("look") /\ UNCHANGED seen
     ELSE IF RelaunchCount >= MaxRelaunches
          THEN Goes("park") /\ UNCHANGED seen
          ELSE Goes("launch") /\ seen' = NextRelaunch
  /\ UNCHANGED <<meta, child, fails, unrecorded, fruitless>> /\ UNCHANGED_Run

\* Lock and heartbeat: a live holder in breach is killed first, a dead one is
\* replaced, but not a third time without progress.
SupJudge ==
  /\ sup = "judge"
  /\ \/ /\ LockAlive /\ ~beat.breach
        /\ Goes("look") /\ UNCHANGED seen
     \/ /\ ~LockAlive \/ beat.breach
        /\ IF RelaunchCount >= MaxRelaunches
           THEN Goes("park") /\ UNCHANGED seen
           ELSE Goes(IF LockAlive THEN "kill" ELSE "launch") /\ seen' = NextRelaunch
  /\ UNCHANGED <<meta, child, fails, unrecorded, fruitless>> /\ UNCHANGED_Run

\* parkRun, and the supervisor gives up.
ParkRun ==
  /\ sup = "park"
  /\ meta' = [meta EXCEPT !.attention = TRUE]
  /\ Ends("stopped")
  /\ UNCHANGED <<seen, child>> /\ UNCHANGED_Run

\* terminateControllerGroup reads the lock again and kills whoever holds it,
\* a `cancel' that took it meanwhile included. A controller may take the SIGTERM
\* as a cancellation of the run.
Terminate ==
  /\ sup = "kill"
  /\ \/ lock \in Ctl /\ Killed(lock) /\ UNCHANGED cancel
     \/ lock = Canceler /\ cancel' = "none" /\ lock' = NoCtl /\ UNCHANGED <<work, at, changed>>
     \/ ~LockAlive /\ UNCHANGED <<work, lock, at, changed, cancel>>
  /\ Goes("launch")
  /\ UNCHANGED <<meta, beat, request, seen, child, fails, unrecorded, fruitless>>
  /\ UNCHANGED trouble

\* launch: a detached `resume', whose readiness is awaited.
LaunchChild(c) ==
  /\ sup = "launch"
  /\ Spawn(c)
  /\ child' = c
  /\ Goes("wait")
  /\ UNCHANGED <<work, meta, lock, beat, changed, seen, fails, unrecorded, fruitless>>
  /\ UNCHANGED trouble /\ UNCHANGED_Cancel

\* waitForBootstrap: the child is ready, holds the lock, and the run has nodes
\* to run.
ChildReady ==
  /\ sup = "wait" /\ at[child] \in {"ready", "up", "frozen"} /\ lock = child /\ ~Settled
  /\ Goes("persist")
  /\ child' = NoCtl /\ fails' = 0
  /\ fruitless' = IF beat.progress = seen.mark THEN fruitless + 1 ELSE fruitless
  /\ UNCHANGED <<meta, seen, unrecorded>> /\ UNCHANGED_Run

\* It exited, or the wait timed out on a child that is still starting.
ChildFailed ==
  /\ sup = "wait"
  /\ at[child] \in {"gone", "boot", "locked", "resumed"} \/ Settled
  /\ \/ fails + 1 >= MaxFailures /\ Ends("stopped")
     \/ /\ fails + 1 < MaxFailures
        /\ Goes("look") /\ fails' = fails + 1
        /\ UNCHANGED <<unrecorded, fruitless>>
  /\ child' = NoCtl /\ seen' = Blank
  /\ UNCHANGED meta /\ UNCHANGED_Run

\* Mutant: the guard is kept in memory only.
PersistNothing ==
  /\ sup = "persist"
  /\ seen' = Blank
  /\ Goes("look")
  /\ UNCHANGED <<meta, child, fails, unrecorded, fruitless>> /\ UNCHANGED_Run

\* persistRelaunch: run.json as it was read before the launch, and the guard.
PersistRelaunch ==
  /\ sup = "persist"
  /\ meta' = seen
  /\ seen' = Blank
  /\ Goes("look")
  /\ UNCHANGED <<child, fails, unrecorded, fruitless>> /\ UNCHANGED_Run

\* The supervisor dies and the host starts another.
SupRestart ==
  /\ sup \notin {"done", "stopped"} /\ trouble < MaxTrouble
  /\ Goes("look")
  /\ child' = NoCtl /\ fails' = 0 /\ seen' = Blank
  /\ trouble' = trouble + 1
  /\ unrecorded' = IF sup = "persist" THEN unrecorded + 1 ELSE unrecorded
  /\ UNCHANGED <<work, meta, lock, beat, at, changed, fruitless>>
  /\ UNCHANGED_Cancel

SupStep ==
  \/ SupLook \/ AnchorRead \/ AnchorWrite \/ SupJudge \/ ParkRun \/ Terminate
  \/ (\E c \in Ctl : LaunchChild(c)) \/ ChildReady \/ ChildFailed \/ PersistRelaunch

CtlStep(c) ==
  \/ Boot(c) \/ RefuseResume(c) \/ ResumeNodes(c) \/ WriteMetadata(c)
  \/ BeatStarts(c) \/ Tick(c) \/ RunOver(c)

CancelStep == CancelSignal \/ CancelAcquire \/ CancelNodes \/ CancelRelease

Next ==
  \/ SupStep \/ SupRestart \/ Overdue
  \/ CancelRequest \/ CancelStep \/ CancelDies
  \/ \E c \in Ctl :
       CtlStep(c) \/ Progress(c) \/ OperatorResume(c) \/ Die(c) \/ Freeze(c)

Spec == Init /\ [][Next]_vars

\* The supervisor's loop runs on, controllers and the command run on, time passes.
Fairness ==
  /\ WF_vars(SupStep) /\ WF_vars(Overdue)
  /\ \A c \in Ctl : WF_vars(CtlStep(c))

FairSpec == Spec /\ Fairness
-----------------------------------------------------------------------------
\* `two relaunches without progress park' (supervise.test.mjs:574), a
\* restarted supervisor included: at most MAX_CONSECUTIVE_RELAUNCHES controllers
\* come up between two advances of lastProgressAt, one more for each restart
\* that fell between a launch and its record.
RelaunchBound == fruitless <= MaxRelaunches + unrecorded

\* A run with work left is never abandoned: it gets settled, or the supervisor
\* stopped and said so, or it met an operator's cancel request, which ends it.
\* A frozen controller, a dead one, a launch that times out are all replaced; a
\* kill that cancelled the nodes is followed by a resume that retries them.
RunAttended == ~Settled ~> (Settled \/ sup \in {"stopped", "done"})

\* A `cancel' that returned stands: nothing of the run is left to do, and no
\* controller works on it again, however a relaunch, a resume, a kill of the
\* supervisor or a death fell between its steps (cancel.mjs:1-10).
CancelStands ==
  cancel = "over" => Settled /\ \A c \in Ctl : at[c] \in {"gone", "boot", "locked"}

\* `The record lives in run.json ... so a restarted controller cannot grant a
\* fresh one' (lifecycle.mjs:191): an automatic retry once spent stays spent.
\* The code does not keep it: README, "Seen while modelling".
RetryStaysSpent == [][meta.spent => meta'.spent]_vars
=============================================================================
