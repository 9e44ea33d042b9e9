------------------------------ MODULE Operation ------------------------------
(***************************************************************************)
(* One node's worker calls, from the dispatch to the answer that stands:   *)
(*   src/src/engine/dispatch.mjs   startWorker, persistInvocation,         *)
(*   src/src/engine/process.mjs    startProcess and its gate,              *)
(*   src/src/run/operations.mjs    intents and settlements,                *)
(*   src/src/run/usage.mjs         the usage ledger,                       *)
(*   src/src/campaign/reserve.mjs, engine/reserve-admission.mjs   holds,   *)
(*   src/src/engine/lifecycle.mjs  finalizeClosedJobs,                     *)
(*   src/src/engine/recover.mjs, resume.mjs, scope.mjs   what the next     *)
(*   controller makes of a call whose controller died.                     *)
(*                                                                         *)
(* Every write of a file is a step of its own, and the controller may die  *)
(* between any two. The provider is a detached process: it works on, ends  *)
(* or hangs while no controller lives. Call i is the node's i-th.          *)
(***************************************************************************)
EXTENDS Naturals, FiniteSets

CONSTANTS
  MaxCall,     \* bound: calls of the node
  MaxCrash,    \* bound: controllers that die
  MaxOperator, \* bound: resumes an operator types
  Policies     \* replayPolicy values a node may declare

ASSUME OperationBounds == {MaxCall, MaxCrash, MaxOperator} \subseteq Nat
ASSUME PolicyAssumption == Policies \subseteq {"safe", "reconcile", "never"}

VARIABLES
  policy,    \* of the contract: it never changes
  \* the node's snapshot
  status,    \* "starting" is pending with phase worker
  n,         \* invocations recorded
  closed,    \* those recorded as closed
  override,  \* the last recovery decision recorded for each
  \* operations/, usage.jsonl, the campaign's reserve
  intent, settled, lines, hold,
  \* the workspace since the last snapshot, and the canonical result file
  work, file,
  \* the providers
  provider,  \* none, running or gone
  answer,    \* what the transcript's terminal event says
  \* the controller
  pc,
  killed,    \* why it is killing the provider
  outcome,   \* recoverOrphan's result
  replayed,  \* the override was there before this recovery
  \* bounds and history
  crashes, operators,
  strayed,   \* calls failed by the scope gate
  unstarted, \* calls failed as spawn_error
  orphaned,  \* calls whose controller died while their hold was held
  doubtful   \* calls recorded as of unknown effect

snapshot == <<status, n, closed, override>>
ledger == <<intent, settled, lines, hold>>
tree == <<work, file>>
world == <<provider, answer>>
local == <<killed, outcome, replayed>>
bounds == <<crashes, operators, strayed, unstarted, orphaned, doubtful>>
vars == <<policy, snapshot, ledger, tree, world, pc, local, bounds>>

Call == 1..MaxCall
Unresolved == {"closed", "unknown_effect"}
Resolved == {"done", "failed", "exhausted", "stalled", "canceled", "adopted", "restarted",
             "safe_replay", "reconciled"}
Status == {"pending", "starting", "running", "done", "failed", "stalled", "exhausted",
           "canceled", "blocked", "reconciled"}
Settled == Status \ {"pending", "starting", "running"}
Dispatching == {"admit", "spawn", "intent", "release", "mark", "undo", "undone", "unspawn"}
Closing == {"watch", "money", "settle"}
Finalizing == {"final", "scoped", "log", "adopt", "verify"}
Killing == {"count", "marking", "finish"}
Recovering == {"classify", "examine", "relog", "decide", "accept", "accepted", "restart",
               "reconciled", "replay", "again", "renew"}
PC == {"down", "idle"} \cup Dispatching \cup Closing \cup Finalizing \cup Killing
      \cup Recovering

TypeOK ==
  /\ policy \in Policies /\ status \in Status /\ n \in 0..MaxCall
  /\ closed \subseteq Call /\ intent \subseteq Call
  /\ override \in [Call -> {"none", "adopted", "restart", "safe_replay", "reconciled"}]
  /\ settled \in [Call -> {"none"} \cup Unresolved \cup Resolved]
  /\ lines \in [Call -> 0..1]
  /\ hold \in [Call -> {"none", "held", "released", "charged"}]
  /\ work \in {"clean", "declared", "stray"} /\ file \in BOOLEAN
  /\ provider \in [Call -> {"none", "running", "gone"}]
  /\ answer \in [Call -> {"none", "done", "exhausted", "failed"}]
  /\ pc \in PC /\ killed \in {"no", "stall", "cancel"}
  /\ outcome \in {"none", "adopted", "exhausted", "restart"} /\ replayed \in BOOLEAN
  /\ crashes \in 0..MaxCrash /\ operators \in 0..MaxOperator
  /\ strayed \subseteq Call /\ unstarted \subseteq Call /\ orphaned \subseteq Call /\ doubtful \subseteq Call

Init ==
  /\ policy \in Policies
  /\ status = "pending" /\ n = 0 /\ closed = {}
  /\ override = [i \in Call |-> "none"]
  /\ intent = {} /\ settled = [i \in Call |-> "none"]
  /\ lines = [i \in Call |-> 0] /\ hold = [i \in Call |-> "none"]
  /\ work = "clean" /\ file = FALSE
  /\ provider = [i \in Call |-> "none"] /\ answer = [i \in Call |-> "none"]
  /\ pc = "idle" /\ killed = "no" /\ outcome = "none" /\ replayed = FALSE
  /\ crashes = 0 /\ operators = 0
  /\ strayed = {} /\ unstarted = {} /\ orphaned = {} /\ doubtful = {}
-----------------------------------------------------------------------------
Step(from, to) == pc = from /\ pc' = to
Becomes(s) == status' = s
\* operationNeedsRecovery.
NeedsRecovery == settled[n] \in {"none"} \cup Unresolved
\* settleInvocation: three outcomes do not replace a resolved one.
Settles(s) ==
  settled' = [settled EXCEPT ![n] =
                IF @ \in Resolved /\ s \in {"adopted", "restarted"} THEN @ ELSE s]
\* Mutant: The ledger appends without looking for the call's line.
CountsAgain == lines' = [lines EXCEPT ![n] = @ + 1]
\* appendUsageRecord: idempotent by the invocation's id.
Counts == lines' = [lines EXCEPT ![n] = 1]
\* What the transcript normalizes to: a cut stream fails, or does not parse.
Envelope == IF answer[n] = "none" THEN {"failed", "closed"} ELSE {answer[n]}
-----------------------------------------------------------------------------
(* startWorker *)

\* The boundary and the snapshot; a valid result file stays where it is.
Begin ==
  /\ Step("idle", "admit")
  /\ status \in {"pending", "starting"} /\ n < MaxCall
  /\ Becomes("starting")
  /\ work' = "clean"
  /\ UNCHANGED <<policy, n, closed, override, ledger, file, world, local, bounds>>

\* reserveAdmission: the hold is taken before the provider starts. A balance
\* that is short refuses; a first call has no estimate.
Admit ==
  /\ Step("admit", "spawn")
  /\ hold' = [hold EXCEPT ![n + 1] = "held"]
  /\ UNCHANGED <<policy, snapshot, intent, settled, lines, tree, world, local, bounds>>

RefuseAdmission ==
  /\ Step("admit", "idle")
  /\ \E i \in 1..n : hold[i] \in {"held", "charged"}
  /\ Becomes("blocked")
  /\ UNCHANGED <<policy, n, closed, override, ledger, tree, world, local, bounds>>

\* The process is spawned behind its gate, and persistInvocation records it.
Spawn ==
  /\ Step("spawn", "intent")
  /\ n' = n + 1
  /\ UNCHANGED <<policy, status, closed, override, ledger, tree, world, local, bounds>>

\* persistInvocationIntent, before the gate opens.
WriteIntent ==
  /\ Step("intent", "release")
  /\ intent' = intent \cup {n}
  /\ UNCHANGED <<policy, snapshot, settled, lines, hold, tree, world, local, bounds>>

\* signalGate. A gate whose parent is gone does not open, and one that was
\* never spawned (the child's `error' event is still to come) opens nothing.
ReleaseGate ==
  /\ Step("release", "mark")
  /\ \E p \in {"none", "running"} : provider' = [provider EXCEPT ![n] = p]
  /\ UNCHANGED <<policy, snapshot, ledger, tree, answer, local, bounds>>

MarkRunning ==
  /\ Step("mark", "watch")
  /\ Becomes("running")
  /\ UNCHANGED <<policy, n, closed, override, ledger, tree, world, local, bounds>>
-----------------------------------------------------------------------------
(* startWorker's catch: spawn_error *)

UNCHANGED_Bounds == UNCHANGED <<crashes, operators, strayed, orphaned, doubtful>>

\* The call is recorded, and its intent cannot be written; what throws may be
\* the write or the sync that follows it.
IntentFails ==
  /\ Step("intent", "undo")
  /\ intent' \in {intent, intent \cup {n}}
  /\ unstarted' = unstarted \cup {n}
  /\ UNCHANGED <<policy, snapshot, settled, lines, hold, tree, world, local>> /\ UNCHANGED_Bounds

\* Or the gate cannot be signalled. It is killed, and its provider with it if it
\* had seen the release file.
GateFails ==
  /\ Step("release", "undo")
  /\ provider' = [provider EXCEPT ![n] = "gone"]
  /\ unstarted' = unstarted \cup {n}
  /\ UNCHANGED <<policy, snapshot, ledger, tree, answer, local>> /\ UNCHANGED_Bounds

\* The hold goes back, of a call that was recorded and of one that was not.
GiveBack ==
  /\ pc \in {"spawn", "undo"} /\ pc' = "undone"
  /\ hold' = [hold EXCEPT ![IF pc = "spawn" THEN n + 1 ELSE n] = "released"]
  /\ UNCHANGED <<policy, snapshot, intent, settled, lines, tree, world, local, bounds>>
\* The last recorded call is settled, though it be the one before.
SettleUnstarted ==
  /\ Step("undone", "unspawn")
  /\ IF n \in intent /\ NeedsRecovery THEN Settles("failed") ELSE UNCHANGED settled
  /\ UNCHANGED <<policy, snapshot, intent, lines, hold, tree, world, local, bounds>>
SpawnFails ==
  /\ Step("unspawn", "idle")
  /\ Becomes("failed")
  /\ UNCHANGED <<policy, n, closed, override, ledger, tree, world, local, bounds>>

\* The killed gate closes later: onClose, over a node that has failed.
GateCloses ==
  /\ pc = "idle" /\ status = "failed" /\ n \in unstarted \ closed
  /\ closed' = closed \cup {n}
  /\ Settles("failed")
  /\ UNCHANGED <<policy, status, n, override, intent, lines, hold, tree, world, pc, local, bounds>>
-----------------------------------------------------------------------------
(* The provider *)

UNCHANGED_Controller == UNCHANGED <<policy, snapshot, ledger, pc, local, bounds>>

Works ==
  /\ \E i \in Call : provider[i] = "running"
  /\ \/ work' \in {"declared", "stray"} /\ work = "clean" /\ UNCHANGED file
     \/ file' = TRUE /\ ~file /\ UNCHANGED work
  /\ UNCHANGED world /\ UNCHANGED_Controller

Answers(i) ==
  /\ provider[i] = "running" /\ answer[i] = "none"
  /\ \E a \in {"done", "exhausted", "failed"} : answer' = [answer EXCEPT ![i] = a]
  /\ UNCHANGED <<tree, provider>> /\ UNCHANGED_Controller

Exits(i) ==
  /\ provider[i] = "running"
  /\ provider' = [provider EXCEPT ![i] = "gone"]
  /\ UNCHANGED <<tree, answer>> /\ UNCHANGED_Controller
-----------------------------------------------------------------------------
(* The close of a call: persistInvocation's onClose *)

UNCHANGED_Env == UNCHANGED <<policy, tree, world, bounds>>

\* detectStalls, or a cancel request: the provider is killed first.
Kill ==
  /\ pc = "watch" /\ provider[n] = "running"
  /\ killed' \in {"stall", "cancel"}
  /\ provider' = [provider EXCEPT ![n] = "gone"]
  /\ UNCHANGED <<policy, snapshot, ledger, tree, answer, pc, outcome, replayed, bounds>>

Close ==
  /\ Step("watch", "money")
  /\ provider[n] # "running"
  /\ closed' = closed \cup {n}
  /\ UNCHANGED <<status, n, override, ledger, local>> /\ UNCHANGED_Env

\* Reconciled with the charge, or released where the envelope has no price.
SettleHold ==
  /\ Step("money", "settle")
  /\ hold' = [hold EXCEPT ![n] = IF @ # "held" THEN @
                                 ELSE IF answer[n] = "none" THEN "released" ELSE "charged"]
  /\ UNCHANGED <<snapshot, intent, settled, lines, local>> /\ UNCHANGED_Env

SettleClose ==
  /\ Step("settle", IF killed = "no" THEN "final" ELSE "count")
  /\ \E s \in Envelope : Settles(s)
  /\ UNCHANGED <<snapshot, intent, lines, hold, local>> /\ UNCHANGED_Env
-----------------------------------------------------------------------------
(* finalizeClosedJobs *)

\* The child's `error' event: settled, then failed, and no usage line.
SpawnErrors ==
  /\ Step("final", "unspawn")
  /\ provider[n] = "none"
  /\ Settles("failed")
  /\ unstarted' = unstarted \cup {n}
  /\ UNCHANGED <<policy, snapshot, intent, lines, hold, tree, world, local>> /\ UNCHANGED_Bounds

\* checkWorkerScope: a stray write fails what is not completed, and completed
\* work as well when it touched what proves it.
ScopeFails ==
  /\ Step("final", "scoped")
  /\ provider[n] = "gone" /\ work = "stray"
  /\ Becomes("failed")
  /\ strayed' = strayed \cup {n}
  /\ UNCHANGED <<policy, n, closed, override, ledger, tree, world, local,
                 crashes, operators, unstarted, orphaned, doubtful>>
SettleScope ==
  /\ Step("scoped", "idle")
  /\ Settles("failed")
  /\ UNCHANGED <<snapshot, intent, lines, hold, local>> /\ UNCHANGED_Env

SettleFinal ==
  /\ Step("final", "log")
  /\ provider[n] = "gone" /\ (work = "stray" => file)
  /\ \E s \in Envelope \ {"closed"} : Settles(s)
  /\ UNCHANGED <<snapshot, intent, lines, hold, local>> /\ UNCHANGED_Env

AppendUsage ==
  /\ Step("log", "adopt")
  /\ Counts
  /\ UNCHANGED <<snapshot, intent, settled, hold, local>> /\ UNCHANGED_Env

\* A valid result file is completed work, whatever the envelope says.
AdoptFile ==
  /\ Step("adopt", "verify")
  /\ file
  /\ Settles("done")
  /\ UNCHANGED <<snapshot, intent, lines, hold, local>> /\ UNCHANGED_Env

\* No file, but a message that is a result: resolveWorkerResult persists it.
PersistResult ==
  /\ Step("adopt", "verify")
  /\ ~file /\ answer[n] = "done"
  /\ file' = TRUE
  /\ UNCHANGED <<policy, snapshot, ledger, work, world, local, bounds>>

\* What module Routing makes of the rest: the node is tried again, or parks.
Reroute ==
  /\ Step("adopt", "idle")
  /\ ~file
  /\ Becomes("pending") \/ Becomes(IF answer[n] = "exhausted" THEN "exhausted" ELSE "failed")
  /\ UNCHANGED <<n, closed, override, ledger, local>> /\ UNCHANGED_Env

\* executeControllerVerification, and settleDone or applyRejection.
Verify ==
  /\ Step("verify", "idle")
  /\ status' \in {"done", "pending", "blocked"}
  /\ UNCHANGED <<n, closed, override, ledger, local>> /\ UNCHANGED_Env
-----------------------------------------------------------------------------
(* detectStalls' handler, and the cancelled loop *)

CountKilled ==
  /\ Step("count", "marking")
  /\ Counts
  /\ UNCHANGED <<snapshot, intent, settled, hold, local>> /\ UNCHANGED_Env

\* Both run the scope gate before they settle.
ScopeFailsKilled ==
  /\ Step("marking", "scoped")
  /\ work = "stray"
  /\ Becomes("failed")
  /\ killed' = "no"
  /\ UNCHANGED <<n, closed, override, ledger, outcome, replayed>> /\ UNCHANGED_Env
SettleKilled ==
  /\ Step("marking", "finish")
  /\ work # "stray"
  /\ Settles(IF killed = "stall" THEN "stalled" ELSE "canceled")
  /\ UNCHANGED <<snapshot, intent, lines, hold, local>> /\ UNCHANGED_Env
EndKilled ==
  /\ Step("finish", "idle")
  /\ status' \in IF killed = "stall" THEN {"stalled", "pending"} ELSE {"canceled"}
  /\ killed' = "no"
  /\ UNCHANGED <<n, closed, override, ledger, outcome, replayed>> /\ UNCHANGED_Env
-----------------------------------------------------------------------------
(* A controller dies; the next one resumes *)

Crash ==
  /\ crashes < MaxCrash /\ pc # "down"
  /\ crashes' = crashes + 1
  /\ pc' = "down" /\ killed' = "no" /\ outcome' = "none" /\ replayed' = FALSE
  /\ orphaned' = orphaned \cup {i \in Call : hold[i] = "held"}
  /\ UNCHANGED <<policy, snapshot, ledger, tree, world, operators, strayed, unstarted,
                 doubtful>>

\* The supervisor resumes what is not settled. A call still open is recovered.
Open == status = "running" \/ (status = "starting" /\ n > 0 /\ n \notin closed)
ResumeOpen ==
  /\ Step("down", IF Open THEN "classify" ELSE "idle")
  /\ status \notin Settled
  /\ UNCHANGED <<snapshot, ledger, local>> /\ UNCHANGED_Env

\* An operator's resume retries what is parked; what was reconciled needs
\* `--reconcile'. The run's controller may have ended by itself.
ResumeParked ==
  /\ pc \in {"down", "idle"} /\ pc' = "idle"
  /\ operators < MaxOperator /\ operators' = operators + 1
  /\ status \in Settled \ {"done"}
  /\ Becomes("pending")
  /\ UNCHANGED <<policy, n, closed, override, ledger, tree, world, local,
                 crashes, strayed, unstarted, orphaned, doubtful>>

\* recoverOrphan: the classification is persisted before any evidence is read.
\* A decision already recorded is taken again.
FromOverride ==
  CASE override[n] = "adopted" -> "adopted"
    [] override[n] \in {"restart", "safe_replay"} -> "restart"
    [] OTHER -> "none"
\* Mutant: Every intent of a dead controller is classified, settled or not.
ClassifyAll ==
  /\ pc = "classify" /\ override[n] = "none"
  /\ pc' = "examine"
  /\ IF n \in intent
     THEN Settles("unknown_effect") /\ doubtful' = doubtful \cup {n}
     ELSE UNCHANGED <<settled, doubtful>>
  /\ UNCHANGED <<policy, snapshot, intent, lines, hold, tree, world, local,
                 crashes, operators, strayed, unstarted, orphaned>>
Classify ==
  /\ pc = "classify" /\ override[n] = "none"
  /\ pc' = "examine"
  /\ IF n \in intent /\ NeedsRecovery
     THEN Settles("unknown_effect") /\ doubtful' = doubtful \cup {n}
     ELSE UNCHANGED <<settled, doubtful>>
  /\ UNCHANGED <<policy, snapshot, intent, lines, hold, tree, world, local,
                 crashes, operators, strayed, unstarted, orphaned>>
DecidedBefore ==
  /\ pc = "classify" /\ override[n] # "none"
  /\ pc' = "relog"
  /\ outcome' = FromOverride /\ replayed' = TRUE
  /\ UNCHANGED <<snapshot, ledger, killed>> /\ UNCHANGED_Env

Finds(o) == Step("examine", "relog") /\ outcome' = o
ExamineEnv == UNCHANGED <<policy, snapshot, ledger, tree, answer, killed, replayed, bounds>>

\* Mutant: The orphan that is past its deadline is given up, not terminated.
ExamineLiveLeft ==
  /\ pc = "examine" /\ provider[n] = "running"
  /\ Finds("restart") \/ (answer[n] = "done" /\ Finds("adopted"))
  /\ UNCHANGED provider /\ ExamineEnv
\* A live provider is waited for until it answers, and terminated then or at
\* its deadline.
ExamineLive ==
  /\ pc = "examine" /\ provider[n] = "running"
  /\ provider' = [provider EXCEPT ![n] = "gone"]
  /\ Finds("restart") \/ (answer[n] = "done" /\ Finds("adopted"))
  /\ ExamineEnv
\* It exits while it is waited for: what it left is all there is.
ExamineExit ==
  /\ pc = "examine" /\ provider[n] = "running" /\ n \notin closed
  /\ provider' = [provider EXCEPT ![n] = "gone"]
  /\ IF file THEN Finds("adopted") ELSE Finds("restart")
  /\ ExamineEnv
\* It was gone before. Without a close time nothing proves it was in time, and
\* with one it may turn out late.
ExamineGone ==
  /\ pc = "examine" /\ provider[n] # "running"
  /\ \/ Finds("restart")
     \/ n \in closed /\ answer[n] = "done" /\ Finds("adopted")
     \/ n \in closed /\ answer[n] = "exhausted" /\ Finds("exhausted")
     \/ n \in closed /\ answer[n] \in {"none", "failed"} /\ file /\ Finds("adopted")
  /\ UNCHANGED provider
  /\ ExamineEnv

\* Mutant: Recovered calls are not counted.
RelogNothing ==
  /\ Step("relog", "decide")
  /\ UNCHANGED <<snapshot, ledger, local>> /\ UNCHANGED_Env
\* persistRecoveryUsage.
Relog ==
  /\ Step("relog", "decide")
  /\ Counts
  /\ UNCHANGED <<snapshot, intent, settled, hold, local>> /\ UNCHANGED_Env

\* Mutant: A reconciled call found again keeps its status.
RecoverReconciledLeft ==
  /\ Step("decide", "idle")
  /\ outcome = "none" /\ replayed' = FALSE
  /\ UNCHANGED <<snapshot, ledger, killed, outcome>> /\ UNCHANGED_Env
RecoverReconciled ==
  /\ Step("decide", "idle")
  /\ outcome = "none"
  /\ Becomes("reconciled") /\ replayed' = FALSE
  /\ UNCHANGED <<n, closed, override, ledger, killed, outcome>> /\ UNCHANGED_Env

RecoverExhausted ==
  /\ Step("decide", "again")
  /\ outcome = "exhausted"
  /\ Settles("exhausted")
  /\ UNCHANGED <<snapshot, intent, lines, hold, local>> /\ UNCHANGED_Env
RerouteRecovered ==
  /\ Step("again", "idle")
  /\ status' \in {"pending", "exhausted"} /\ outcome' = "none"
  /\ UNCHANGED <<n, closed, override, ledger, killed, replayed>> /\ UNCHANGED_Env

\* Adoption: the scope gate, the result, the verification. A rejection leaves
\* the settlement as it is.
AdoptRecovered ==
  /\ pc = "decide" /\ outcome = "adopted"
  /\ \/ work # "stray" /\ pc' = "accept" /\ file' = TRUE /\ UNCHANGED <<status, outcome, replayed>>
     \/ /\ pc' = "idle" /\ outcome' = "none" /\ replayed' = FALSE /\ UNCHANGED file
        /\ status' \in IF work = "stray" THEN {"failed"} ELSE {"pending", "blocked", "failed"}
  /\ UNCHANGED <<policy, n, closed, override, ledger, work, world, killed, bounds>>
SettleAdopted ==
  /\ Step("accept", "accepted")
  /\ Settles("adopted")
  /\ UNCHANGED <<snapshot, intent, lines, hold, local>> /\ UNCHANGED_Env
RecordAdopted ==
  /\ Step("accepted", "verify")
  /\ closed' = closed \cup {n}
  /\ override' = IF replayed THEN override ELSE [override EXCEPT ![n] = "adopted"]
  /\ outcome' = "none" /\ replayed' = FALSE
  /\ UNCHANGED <<status, n, ledger, killed>> /\ UNCHANGED_Env

\* A restart of what is of unknown effect: resolveUnknownEffect replays only a
\* clean workspace that verifies, under a policy that allows it.
DecideRestart ==
  /\ pc = "decide" /\ outcome = "restart"
  /\ IF n \in intent /\ NeedsRecovery
     THEN \/ /\ policy = "safe" /\ work = "clean"
             /\ Settles("safe_replay") /\ pc' = "replay"
          \/ Settles("reconciled") /\ pc' = "reconciled"
     ELSE pc' = "restart" /\ UNCHANGED settled
  /\ UNCHANGED <<snapshot, intent, lines, hold, local>> /\ UNCHANGED_Env
RecordReplay ==
  /\ Step("replay", "restart")
  /\ override' = IF replayed THEN override ELSE [override EXCEPT ![n] = "safe_replay"]
  /\ UNCHANGED <<status, n, closed, ledger, local>> /\ UNCHANGED_Env

\* reconcileAmbiguousWorkerRestart: the same scope, strictly.
RestartDirty ==
  /\ Step("restart", "reconciled")
  /\ work # "clean"
  /\ Settles("reconciled")
  /\ UNCHANGED <<snapshot, intent, lines, hold, local>> /\ UNCHANGED_Env
RecordReconciled ==
  /\ Step("reconciled", "decide")
  /\ override' = IF replayed THEN override ELSE [override EXCEPT ![n] = "reconciled"]
  /\ outcome' = "none"
  /\ UNCHANGED <<status, n, closed, ledger, killed, replayed>> /\ UNCHANGED_Env

\* Mutant: The workspace is not looked at again before a restart.
RestartAnyway ==
  /\ Step("restart", "renew")
  /\ IF settled[n] = "none" THEN Settles("restarted") ELSE UNCHANGED settled
  /\ UNCHANGED <<snapshot, intent, lines, hold, local>> /\ UNCHANGED_Env
RestartClean ==
  /\ Step("restart", "renew")
  /\ work = "clean"
  /\ IF settled[n] = "none" THEN Settles("restarted") ELSE UNCHANGED settled
  /\ UNCHANGED <<snapshot, intent, lines, hold, local>> /\ UNCHANGED_Env
RecordRestart ==
  /\ Step("renew", "idle")
  /\ closed' = closed \cup {n}
  /\ override' = IF replayed THEN override ELSE [override EXCEPT ![n] = "restart"]
  /\ Becomes("pending") /\ outcome' = "none" /\ replayed' = FALSE
  /\ UNCHANGED <<n, ledger, killed>> /\ UNCHANGED_Env
-----------------------------------------------------------------------------
Dispatches ==
  Begin \/ Admit \/ RefuseAdmission \/ Spawn \/ WriteIntent \/ ReleaseGate \/ MarkRunning
Unstarts ==
  IntentFails \/ GateFails \/ GiveBack \/ SettleUnstarted \/ SpawnFails \/ GateCloses
  \/ SpawnErrors
Closes == Close \/ SettleHold \/ SettleClose
Finalizes ==
  ScopeFails \/ SettleScope \/ SettleFinal \/ AppendUsage \/ AdoptFile \/ PersistResult
  \/ Reroute \/ Verify
EndsKilled == CountKilled \/ ScopeFailsKilled \/ SettleKilled \/ EndKilled
Recovers ==
  Classify \/ DecidedBefore \/ ExamineLive \/ ExamineExit \/ ExamineGone \/ Relog
  \/ RecoverReconciled \/ RecoverExhausted \/ RerouteRecovered
  \/ AdoptRecovered \/ SettleAdopted \/ RecordAdopted
  \/ DecideRestart \/ RecordReplay \/ RestartDirty \/ RecordReconciled
  \/ RestartClean \/ RecordRestart
Controller == Dispatches \/ Unstarts \/ Closes \/ Finalizes \/ EndsKilled \/ Recovers

Next ==
  \/ Controller \/ Kill \/ Crash \/ ResumeOpen \/ ResumeParked
  \/ Works \/ \E i \in Call : Answers(i) \/ Exits(i)

\* The controller takes its steps, a deadline ends every provider, and a
\* supervisor resumes the run.
Fairness ==
  WF_vars(Controller) /\ WF_vars(ResumeOpen) /\ \A i \in Call : WF_vars(Exits(i))

Spec == Init /\ [][Next]_vars
FairSpec == Spec /\ Fairness
-----------------------------------------------------------------------------
(* Properties *)

\* recover.mjs:4: adoption "never by re-dispatching hopefully": whatever
\* controllers died meanwhile, two workers never live in one node.
OneWorker == Cardinality({i \in Call : provider[i] = "running"}) <= 1

\* operations.mjs:99: a resolved outcome is never again taken for an open one.
ResolvedStaysResolved ==
  [][\A i \in Call : (settled[i] \in Resolved => settled'[i] \in Resolved)]_vars

\* ARCHITECTURE.md:91: "one line per invocation". A call that is over has one,
\* however often its controller died - but for those the scope gate failed, and
\* those the code takes for unstarted, which it never heard an answer of.
Over(i) == i < n \/ (i = n /\ pc = "idle" /\ status \notin {"running", "starting"})
SpendIsCounted ==
  \A i \in 1..n : Over(i) /\ lines[i] = 0 =>
    i \in strayed \/ (i \in unstarted /\ answer[i] = "none")

\* reserve.mjs:17: holds "settle to released or charged". One that is still
\* held when its call is over is of a call whose controller died.
HoldsSettle ==
  \A i \in Call : hold[i] = "held" /\ Over(i) => i \in orphaned

\* What a call that is over spent is in the ledger once, and no longer held
\* against the ceiling: a crash between the two writes loses neither.
SpendSettles == SpendIsCounted /\ HoldsSettle

\* operations.mjs:6: an unknown effect is "NOT permission to retry": a recovery
\* re-dispatches nothing while the workspace holds changes of the lost call.
NoBlindReplay ==
  [][(pc \in {"restart", "renew"} /\ status' = "pending") =>
       (work = "clean" /\ (\A i \in Call : provider[i] # "running"))]_vars

\* A running call gets an answer, a kill or a recovery, however many
\* controllers die.
CallEnds == status = "running" ~> status # "running"

\* operations.mjs:7: "replayPolicy and a clean persisted scope decide that": a
\* call of unknown effect is not repeated under another policy than safe.
PolicyDecides ==
  [][(pc \in Recovering /\ n \in doubtful /\ outcome = "restart" /\ status' = "pending")
       => policy = "safe"]_vars

\* lifecycle.mjs:437: completed work "no matter what the provider envelope or
\* the exit code said", for the next controller too.
\* The code does not keep it: README, "Seen while modelling".
CompletedStaysCompleted ==
  [][\A i \in Call : (settled[i] = "done" => settled'[i] = "done")]_vars

\* ARCHITECTURE.md:91, without the exceptions.
\* The code does not keep it: README, "Seen while modelling".
OneLinePerCall == \A i \in 1..n : Over(i) => lines[i] = 1
=============================================================================
