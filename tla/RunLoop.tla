------------------------------ MODULE RunLoop ------------------------------
(***************************************************************************)
(* The controller's loop over one run, and the settlements it runs beside: *)
(*   src/src/engine/scheduler.mjs           driveRun, the tick,            *)
(*   src/src/engine/settlement-overlap.mjs  the one settlement slot,       *)
(*   src/src/engine/capacity.mjs, aux-admission.mjs   who may start,       *)
(*   src/src/engine/lifecycle.mjs, settle.mjs, settle-judge.mjs,           *)
(*   review.mjs, dispatch.mjs, assignment.mjs   what a closed job becomes, *)
(*   src/src/engine/retry.mjs, resume.mjs   what the next controller does, *)
(*   src/src/engine/supervise.mjs           what its relaunch writes back. *)
(*                                                                         *)
(* One thread, cooperative: a step runs from one I/O await to the next, so *)
(* the tick and the settlements interleave at awaits only. A settlement is *)
(* serialized sections (holding the slot) around one parked proof. The     *)
(* integration itself is module Integration; here it is one await. Which   *)
(* runtime a closed job is routed to, and how often, is module Routing;    *)
(* here it is any runtime, and a bounded number of times.                  *)
(***************************************************************************)
EXTENDS Naturals, Sequences, FiniteSets, SequencesExt

CONSTANTS
  Node,           \* nodes
  Runtime,        \* provider runtimes
  Contract,       \* the contracts, with their profiles, a run may be given
  MaxLife,        \* bound: controllers a run of each contract sees
  MaxRoute,       \* bound: hops and waits of each node, by contract
  NoRt, NoNode

\* What the loop reads of a contract: <<n, d>> \in dep when n depends on d; the
\* runtime each role of a node is routed to; the nodes with an enabled gate;
\* maxParallel, each runtime's own maxConcurrent, and the gates' maxRevisions.
ContractType ==
  [dep : SUBSET (Node \X Node), worker : [Node -> Runtime], judge : [Node -> Runtime],
   gated : SUBSET Node, parallel : Nat \ {0}, concurrent : [Runtime -> Nat],
   revisions : Nat]

ASSUME ContractAssumption == Contract \subseteq ContractType
ASSUME BoundAssumption ==
  MaxLife \in [Contract -> Nat \ {0}] /\ MaxRoute \in [Contract -> [Node -> Nat]]
ASSUME NoneAssumption == NoRt \notin Runtime /\ NoNode \notin Node
ASSUME FiniteAssumption == IsFiniteSet(Node)

VARIABLES
  contract,   \* frozen in the run directory: it never changes
  \* node snapshots and run.json, durable
  status,     \* the PARKED statuses are one, told apart by code
  stage,      \* state.phase: the role a pending or running node is in
  code,       \* of a parked node: retryable, dependency (failed) or final
  revisions,  \* gate and verification rejections spent
  reask,      \* a judge re-ask is outstanding
  jfail,      \* judgeFailures: one judge re-dispatch is spent
  route,      \* the runtime each role of a node is routed to
  wait,       \* currentOverride.backoffUntil ahead: whose it is, and what it waits for
  autoRetries,\* run.json's record of automatic retries
  \* the controller
  pc,         \* where the tick stands
  canceled,   \* a signal or a cancel request was seen
  parkedBefore, \* parked when this controller started
  running,    \* nodes with a job in `running'
  closed,     \* those whose process has exited
  held,       \* settling: the runtime a settlement still holds, or NoRt
  section,    \* the settlement slot: its holder, then its FIFO waiters
  step,       \* where each settlement stands
  inline,     \* a node the stall handler itself is integrating, or NoNode
  continued,  \* nodes whose job is the one result-only continuation
  \* the supervisor
  copy,       \* {}, or what it read of autoRetries for the relaunch it makes
  \* bounds and history
  lives, routes,
  autos,      \* automatic retries granted
  erased      \* records of one that a relaunch wrote over

retries == <<autoRetries, autos, copy, erased>>
routing == <<route, wait, routes>>
durable == <<status, stage, code, revisions, reask, jfail, routing, retries>>
volatile == <<pc, canceled, parkedBefore, running, closed, held, section, step, inline, continued>>
vars == <<contract, durable, volatile, lives>>

Status == {"pending", "running", "done", "parked", "canceled"}
Code   == {"none", "retryable", "final", "dependency"}
Step   == {"none", "outcome", "proof", "green", "red", "start", "gate", "integrate", "end"}
PC     == {"top", "sweep", "stalls", "notify", "cancelwait", "drain", "stopped", "down"}

Role   == {"worker", "judge"}
Ready  == [kind |-> "none", role |-> "worker"]
\* A provider's reset is waited for on its runtime; any other delay holds none.
Wait   == {Ready} \cup [kind : {"reset", "delay"}, role : Role]

Settled(n)  == status[n] \in {"done", "parked", "canceled"}
Settling    == {n \in Node : held[n] # NoRt}
DepsOf(n)   == {d \in Node : <<n, d>> \in contract.dep}
Rt(n, role) == route[n][role]
Assigned(n) == [worker |-> contract.worker[n], judge |-> contract.judge[n]]
Gated       == contract.gated
MaxParallel == contract.parallel
MaxConcurrent == contract.concurrent
MaxRevisions == contract.revisions
JobsOn(r)   == {n \in running : Rt(n, stage[n]) = r}
Waiting(n)  == wait[n] # Ready /\ wait[n].role = stage[n]
QuotaHeld   == {Rt(n, wait[n].role) : n \in {m \in Node : wait[m].kind = "reset"}}

TypeOK ==
  /\ contract \in Contract
  /\ status \in [Node -> Status]
  /\ stage \in [Node -> Role]
  /\ code \in [Node -> Code]
  /\ revisions \in [Node -> 0..MaxRevisions]
  /\ reask \in [Node -> BOOLEAN] /\ jfail \in [Node -> BOOLEAN]
  /\ route \in [Node -> [Role -> Runtime]] /\ wait \in [Node -> Wait]
  /\ autoRetries \subseteq Node /\ parkedBefore \subseteq Node
  /\ copy \subseteq SUBSET Node
  /\ pc \in PC /\ canceled \in BOOLEAN
  /\ running \subseteq Node /\ closed \subseteq running
  /\ held \in [Node -> Runtime \cup {NoRt}]
  /\ section \in Seq(Node)
  /\ step \in [Node -> Step]
  /\ inline \in Node \cup {NoNode} /\ continued \subseteq Node
  /\ lives \in 1..MaxLife[contract] /\ routes \in [Node -> Nat]
  /\ autos \in [Node -> Nat] /\ erased \in [Node -> Nat]

Init ==
  /\ contract \in Contract
  /\ status = [n \in Node |-> "pending"] /\ stage = [n \in Node |-> "worker"]
  /\ code = [n \in Node |-> "none"] /\ revisions = [n \in Node |-> 0]
  /\ reask = [n \in Node |-> FALSE] /\ jfail = [n \in Node |-> FALSE]
  /\ route = [n \in Node |-> Assigned(n)] /\ wait = [n \in Node |-> Ready]
  /\ autoRetries = {} /\ parkedBefore = {} /\ copy = {}
  /\ pc = "top" /\ canceled = FALSE
  /\ running = {} /\ closed = {} /\ section = <<>> /\ inline = NoNode /\ continued = {}
  /\ held = [n \in Node |-> NoRt] /\ step = [n \in Node |-> "none"]
  /\ lives = 1 /\ routes = [n \in Node |-> 0]
  /\ autos = [n \in Node |-> 0] /\ erased = [n \in Node |-> 0]
-----------------------------------------------------------------------------
\* transition: a node's status, phase and error are written together.
Transition(n, s, g, c) ==
  /\ status' = [status EXCEPT ![n] = s]
  /\ stage' = [stage EXCEPT ![n] = g]
  /\ code' = [code EXCEPT ![n] = c]

Park(n, c) == Transition(n, "parked", stage[n], c)
Launch(n, role) ==
  /\ Transition(n, "running", role, "none")
  /\ running' = running \cup {n}

\* auxSpawnAdmission, for the spawns a settlement makes itself: the live jobs
\* are judged, not the settle windows.
AuxAdmits(jobs, r) ==
  /\ Cardinality(jobs) < MaxParallel
  /\ r \notin QuotaHeld
  /\ Cardinality(jobs \cap JobsOn(r)) < MaxConcurrent[r]

\* autoRetryNode: the retry is consumed in run.json before the node reopens.
AutoRetry(n) ==
  /\ n \notin autoRetries
  /\ autoRetries' = autoRetries \cup {n}
  /\ autos' = [autos EXCEPT ![n] = @ + 1]
  /\ Transition(n, "pending", stage[n], "none")
  /\ UNCHANGED <<copy, erased>>

\* A worker or judge failure: retried once if its code allows, else parked.
FailJob(n) ==
  \/ AutoRetry(n)
  \/ /\ n \in autoRetries /\ Park(n, "retryable")
     /\ UNCHANGED retries
  \/ Park(n, "final") /\ UNCHANGED retries

\* handleProviderExhaustion, with a way left: pending again in the same role,
\* uncharged, on the runtime it waits for or on another after a delay.
Reroute(n) ==
  /\ routes[n] < MaxRoute[contract][n]
  /\ routes' = [routes EXCEPT ![n] = @ + 1]
  /\ Transition(n, "pending", stage[n], "none")
  /\ \/ /\ \E kind \in {"reset", "delay"} :
             wait' = [wait EXCEPT ![n] = [kind |-> kind, role |-> stage[n]]]
        /\ UNCHANGED route
     \/ /\ \E r \in Runtime : route' = [route EXCEPT ![n][stage[n]] = r]
        /\ wait' = [wait EXCEPT ![n] = [kind |-> "delay", role |-> stage[n]]]

\* resetPhaseRouting drops the override; the next attempt goes to the runtime
\* the last one ran on, or to the one assigned.
RouteReset(n) ==
  /\ wait' = [wait EXCEPT ![n] = Ready]
  /\ \E r \in {Rt(n, "worker"), Assigned(n).worker} :
       route' = [route EXCEPT ![n].worker = r]
  /\ UNCHANGED routes

\* applyRejection: a revision is dispatched if a slot is free (and there is a
\* loop to dispatch into), else left pending; without revisions it parks.
Reject(n, dispatch) ==
  \/ /\ revisions[n] < MaxRevisions
     /\ revisions' = [revisions EXCEPT ![n] = @ + 1]
     /\ RouteReset(n)
     /\ IF dispatch /\ AuxAdmits(running, route'[n].worker)
        THEN Launch(n, "worker") \/ (Park(n, "final") /\ UNCHANGED running)
        ELSE Transition(n, "pending", "worker", "none") /\ UNCHANGED running
  \/ /\ revisions[n] = MaxRevisions
     /\ Park(n, "final")
     /\ UNCHANGED <<revisions, running, routing>>

\* A bounded re-ask, admitted or left pending with its result. It skips the
\* mechanical proofs, so check and launch are one step.
Reask(n) ==
  /\ reask' = [reask EXCEPT ![n] = TRUE]
  /\ IF AuxAdmits(running, Rt(n, "judge"))
     THEN Launch(n, "judge") \/ (Park(n, "final") /\ UNCHANGED running)
     ELSE Transition(n, "pending", "judge", "none") /\ UNCHANGED running

\* integrateAttempt's outcomes for the node: done, a red candidate (settled
\* with no loop to dispatch into), or a conflict or concurrent move.
Integrated(n) ==
  \/ Transition(n, "done", stage[n], "none") /\ UNCHANGED <<revisions, running, routing>>
  \/ Reject(n, FALSE)
  \/ Park(n, "final") /\ UNCHANGED <<revisions, running, routing>>
-----------------------------------------------------------------------------
\* The provider process of a job exits, on its own or on its wall clock.
Exit(n) ==
  /\ n \in running \ closed
  /\ closed' = closed \cup {n}
  /\ UNCHANGED <<durable, pc, canceled, parkedBefore, running, held, section, step, inline, continued, lives>>

\* SIGINT, SIGTERM, SIGHUP or cancel.request.json.
Signal ==
  /\ pc \notin {"stopped", "down"} /\ ~canceled
  /\ canceled' = TRUE
  /\ UNCHANGED <<durable, pc, parkedBefore, running, closed, held, section, step, inline, continued, lives>>

\* The top of a tick. emitNodeAdvisories, the first await, follows.
TickTop ==
  /\ pc = "top"
  /\ pc' = IF canceled THEN "cancelwait" ELSE "sweep"
  /\ UNCHANGED <<durable, canceled, parkedBefore, running, closed, held, section, step, inline, continued, lives>>

\* Every closed job moves from `running' into a settlement of its own, which
\* takes the slot or queues for it at once.
SettleClosed ==
  /\ pc = "sweep"
  /\ LET S == {n \in closed : held[n] = NoRt} IN
       /\ running' = running \ S
       /\ closed' = closed \ S
       /\ held' = [n \in Node |-> IF n \in S THEN Rt(n, stage[n]) ELSE held[n]]
       /\ step' = [n \in Node |-> IF n \in S THEN "outcome" ELSE step[n]]
       /\ \E q \in SetToSeqs(S) : section' = section \o q
  /\ pc' = "stalls"
  /\ UNCHANGED <<durable, canceled, parkedBefore, inline, continued, lives>>

\* detectStalls kills a job over its budget, one that has just exited too; what
\* becomes of the node is decided here, on the tick, outside every section. A
\* judge on its wall clock earns the one re-ask; a second one ends a blocking
\* review in attention and an advisory one in an integration of its own.
StallTimeout(n) ==
  /\ pc = "stalls" /\ inline = NoNode
  /\ n \in running
  /\ LET others == running \ {n} IN
     \/ /\ FailJob(n)
        /\ running' = others
        /\ UNCHANGED <<reask, inline>>
     \/ /\ stage[n] = "judge" /\ ~reask[n]
        /\ reask' = [reask EXCEPT ![n] = TRUE]
        /\ \/ /\ AuxAdmits(others, Rt(n, "judge"))
              /\ \/ Transition(n, "running", "judge", "none") /\ UNCHANGED running
                 \/ Park(n, "final") /\ running' = others
           \/ /\ ~AuxAdmits(others, Rt(n, "judge"))
              /\ Transition(n, "pending", "judge", "none") /\ running' = others
        /\ UNCHANGED <<retries, inline>>
     \/ /\ stage[n] = "judge" /\ reask[n]
        /\ Park(n, "retryable")
        /\ running' = others
        /\ UNCHANGED <<reask, retries, inline>>
     \/ /\ stage[n] = "judge" /\ reask[n]
        /\ reask' = [reask EXCEPT ![n] = FALSE]
        /\ inline' = n
        /\ running' = others
        /\ UNCHANGED <<status, stage, code, retries>>
  /\ closed' = closed \ {n} /\ continued' = continued \ {n}
  /\ UNCHANGED <<revisions, jfail, routing, pc, canceled, parkedBefore, held, section, step, lives>>

\* settleAdvisoryReview's settleDone, awaited by the stall handler.
StallIntegrated ==
  /\ pc = "stalls" /\ inline # NoNode
  /\ Integrated(inline)
  /\ inline' = NoNode
  /\ UNCHANGED <<reask, jfail, retries, pc, canceled, parkedBefore, closed, held, section, step, continued, lives>>
-----------------------------------------------------------------------------
\* autoRetryParkedNodes: nodes parked by this controller with a retry left.
Retriable(st) ==
  {n \in Node : /\ st[n] = "parked" /\ code[n] = "retryable"
                /\ n \notin parkedBefore /\ n \notin autoRetries}
Reopened(st, R) == [n \in Node |-> IF n \in R THEN "pending" ELSE st[n]]

\* Mutant: a node that waits on nothing left to run is not blocked.
BlockedSetsNone(st) == {{}}
\* Mutant: the parked dependencies are read before the automatic retries.
BlockedSetsStale(st) ==
  {{n \in Node : st[n] = "pending" /\ \E d \in DepsOf(n) : status[d] = "parked"}}
\* blockDependents walks contract.nodes once, in their order: at least the
\* direct dependants of a parked node, at most all behind them.
BlockedSets(st) ==
  LET waiting == {n \in Node : st[n] = "pending"}
      parked  == {d \in Node : st[d] = "parked"} IN
  {B \in SUBSET waiting :
     /\ \A n \in waiting : DepsOf(n) \cap parked # {} => n \in B
     /\ \A n \in B : DepsOf(n) \cap (parked \cup (B \ {n})) # {}}

\* Mutant: the settle window holds no slot.
HoldingSlotRunningOnly == Cardinality(running)
\* admissionHold counts jobs and settle windows, a node in both twice.
HoldingSlot == Cardinality(running) + Cardinality(Settling)

\* admissionPass and take, for a set dispatched in one pass in any order: it
\* fits, on runtimes nobody waits for, and what was left out no longer fitted.
Admits(D, ready) ==
  LET on(r) == Cardinality(JobsOn(r)) + Cardinality({n \in Node : held[n] = r})
               + Cardinality({n \in D : Rt(n, stage[n]) = r})
      full(n) == \/ Rt(n, stage[n]) \in QuotaHeld
                 \/ on(Rt(n, stage[n])) >= MaxConcurrent[Rt(n, stage[n])]
      spent == HoldingSlot + Cardinality(D) >= MaxParallel IN
  /\ D \subseteq ready
  /\ D # {} => HoldingSlot + Cardinality(D) <= MaxParallel
  /\ \A n \in D : /\ Rt(n, stage[n]) \notin QuotaHeld
                  /\ on(Rt(n, stage[n])) <= MaxConcurrent[Rt(n, stage[n])]
  /\ \A n \in ready \ D : spent \/ full(n)

\* The tick between detectStalls and notifyStateChanges, with no await:
\* enforceRunningInvariant, autoRetryParkedNodes, blockDependents, dispatch.
\* A worker may fail to start (F); a pending judge becomes a settlement.
Dispatch ==
  /\ pc = "stalls" /\ inline = NoNode
  /\ LET lost == {n \in Node : status[n] = "running" /\ n \notin running \cup Settling}
         st1 == [n \in Node |-> IF n \in lost THEN "parked" ELSE status[n]]
         R == Retriable(st1) \ lost
         st2 == Reopened(st1, R) IN
     \E B \in BlockedSets(st2) :
       LET st3 == [n \in Node |-> IF n \in B THEN "parked" ELSE st2[n]]
           ready == {n \in Node : /\ st3[n] = "pending" /\ n \notin Settling /\ ~Waiting(n)
                                  /\ \A d \in DepsOf(n) : st3[d] = "done"} IN
       \E D \in SUBSET ready : \E F \in SUBSET {n \in D : stage[n] = "worker"} :
         LET J == {n \in D : stage[n] = "judge"}
             W == D \ (J \cup F) IN
         /\ Admits(D, ready)
         /\ status' = [n \in Node |-> IF n \in F THEN "parked"
                                      ELSE IF n \in W THEN "running" ELSE st3[n]]
         /\ code' = [n \in Node |-> IF n \in lost \cup F THEN "final"
                                    ELSE IF n \in R THEN "none"
                                    ELSE IF n \in B THEN "dependency" ELSE code[n]]
         /\ running' = running \cup W
         /\ held' = [n \in Node |-> IF n \in J THEN Rt(n, "judge") ELSE held[n]]
         /\ step' = [n \in Node |-> IF n \in J THEN "start" ELSE step[n]]
         /\ \E q \in SetToSeqs(J) : section' = section \o q
         /\ autoRetries' = autoRetries \cup R
         /\ autos' = [n \in Node |-> IF n \in R THEN autos[n] + 1 ELSE autos[n]]
  /\ pc' = "notify"
  /\ UNCHANGED <<stage, revisions, reask, jfail, routing, copy, erased, canceled, parkedBefore, closed, inline, continued, lives>>

\* The bottom of a tick: one more automatic retry pass, then the loop ends if
\* every node is settled.
ExitCheck ==
  /\ pc = "notify"
  /\ LET R == Retriable(status)
         st == Reopened(status, R) IN
       /\ status' = st
       /\ code' = [n \in Node |-> IF n \in R THEN "none" ELSE code[n]]
       /\ autoRetries' = autoRetries \cup R
       /\ autos' = [n \in Node |-> IF n \in R THEN autos[n] + 1 ELSE autos[n]]
       /\ pc' = IF \A n \in Node : st[n] \in {"done", "parked", "canceled"}
                THEN "drain" ELSE "top"
  /\ UNCHANGED <<stage, revisions, reask, jfail, routing, copy, erased, canceled, parkedBefore, running, closed, held, section, step, inline, continued, lives>>

\* A cancelled run waits for the settlements in flight, kills what runs and
\* marks what is left.
CancelAll ==
  /\ pc = "cancelwait" /\ Settling = {}
  /\ running' = {} /\ closed' = {} /\ continued' = {}
  /\ status' = [n \in Node |-> IF Settled(n) THEN status[n] ELSE "canceled"]
  /\ pc' = "drain"
  /\ UNCHANGED <<stage, code, revisions, reask, jfail, routing, retries, canceled, parkedBefore, held, section, step, inline, lives>>

\* Mutant: the loop's exit does not wait for the settlements.
StopUndrained ==
  /\ pc = "drain"
  /\ pc' = "stopped"
  /\ UNCHANGED <<durable, canceled, parkedBefore, running, closed, held, section, step, inline, continued, lives>>

\* The settlements' trailing work is awaited, then the lock is released.
Stop ==
  /\ pc = "drain" /\ Settling = {}
  /\ pc' = "stopped"
  /\ UNCHANGED <<durable, canceled, parkedBefore, running, closed, held, section, step, inline, continued, lives>>
-----------------------------------------------------------------------------
\* n's settlement holds the slot and stands at s.
Holds(n, s) == section # <<>> /\ Head(section) = n /\ step[n] = s
StepTo(n, s) == step' = [step EXCEPT ![n] = s]
UNCHANGED_Loop == UNCHANGED <<pc, canceled, parkedBefore, closed, held, inline, continued, lives>>

\* finalizeClosedJobs, a worker: it gave no result (its session is continued
\* for one turn, with no admission asked), or it failed, was killed by a signal,
\* was out of quota, lost its connection or broke the protocol (and is routed),
\* returned an unusable result, stopped on missing context, or did its work -
\* then the slot is parked for the length of the proof, unless the continuation
\* of an ungated node brings the result of work already proved.
WorkerClosed(n) ==
  /\ Holds(n, "outcome") /\ stage[n] = "worker"
  /\ \/ /\ n \notin continued /\ continued' = continued \cup {n}
        /\ Launch(n, "worker") /\ StepTo(n, "end")
        /\ UNCHANGED <<revisions, section, routing, retries>>
     \/ /\ continued' = continued \ {n}
        /\ \/ FailJob(n) /\ StepTo(n, "end") /\ UNCHANGED <<running, revisions, section, routing>>
           \/ Reroute(n) /\ StepTo(n, "end") /\ UNCHANGED <<running, revisions, section, retries>>
           \/ /\ Transition(n, "canceled", "worker", "none") /\ StepTo(n, "end")
              /\ UNCHANGED <<running, revisions, section, routing, retries>>
           \/ Reject(n, TRUE) /\ StepTo(n, "end") /\ UNCHANGED <<section, retries>>
           \/ /\ section' = Tail(section) /\ StepTo(n, "proof")
              /\ UNCHANGED <<status, stage, code, running, revisions, routing, retries>>
           \/ /\ n \in continued /\ n \notin Gated /\ StepTo(n, "integrate")
              /\ UNCHANGED <<status, stage, code, running, revisions, section, routing, retries>>
  /\ UNCHANGED <<reask, jfail, pc, canceled, parkedBefore, closed, held, inline, lives>>

\* The proof's children exit: the settlement queues for the slot again.
ProofEnds(n) ==
  /\ step[n] = "proof"
  /\ \E verdict \in {"green", "red"} : StepTo(n, verdict)
  /\ section' = Append(section, n)
  /\ UNCHANGED <<durable, running>> /\ UNCHANGED_Loop

\* After a proof: a red one is rejected; a green one goes to the gate, and a
\* judge is asked for admission before the gate's own proofs are awaited.
ProofSettled(n) ==
  /\ \/ Holds(n, "red") /\ Reject(n, TRUE) /\ StepTo(n, "end")
     \/ /\ Holds(n, "green") /\ (n \in Gated => AuxAdmits(running, Rt(n, "judge")))
        /\ StepTo(n, "gate")
        /\ UNCHANGED <<status, stage, code, running, revisions, routing>>
     \/ /\ Holds(n, "green") /\ n \in Gated /\ ~AuxAdmits(running, Rt(n, "judge"))
        /\ Transition(n, "pending", "judge", "none") /\ StepTo(n, "end")
        /\ UNCHANGED <<running, revisions, routing>>
  /\ UNCHANGED <<reask, jfail, retries, section>> /\ UNCHANGED_Loop

\* A judge the dispatch pass admitted reaches the slot.
JudgeStarts(n) ==
  /\ Holds(n, "start")
  /\ StepTo(n, "gate")
  /\ UNCHANGED <<durable, running, section>> /\ UNCHANGED_Loop

\* startJudge / startMechanicalGate after deterministicGate: rejected, settled
\* without a judge, or (gated) a judge is launched or refused a reservation.
GateDecides(n) ==
  /\ Holds(n, "gate")
  /\ \/ Reject(n, TRUE) /\ StepTo(n, "end")
     \/ /\ StepTo(n, "integrate")
        /\ UNCHANGED <<status, stage, code, running, revisions, routing>>
     \/ n \in Gated /\ Launch(n, "judge") /\ StepTo(n, "end") /\ UNCHANGED <<revisions, routing>>
     \/ /\ n \in Gated /\ Transition(n, "parked", "judge", "final") /\ StepTo(n, "end")
        /\ UNCHANGED <<running, revisions, routing>>
  /\ UNCHANGED <<reask, jfail, retries, section>> /\ UNCHANGED_Loop

\* applyJudgeResult: a verdict passes or rejects, and clears both bounds.
JudgeVerdict(n) ==
  /\ \/ /\ StepTo(n, "integrate")
        /\ UNCHANGED <<status, stage, code, running, revisions, routing>>
     \/ Reject(n, TRUE) /\ StepTo(n, "end")
  /\ reask' = [reask EXCEPT ![n] = FALSE]
  /\ jfail' = [jfail EXCEPT ![n] = FALSE]

\* A judge that gave no verdict to act on: the one re-ask, then attention or,
\* advisory, done. A rejection that cites no item is one, on a provider that works.
JudgeUnusable(n, c) ==
  \/ ~reask[n] /\ Reask(n) /\ StepTo(n, "end")
  \/ reask[n] /\ Park(n, c) /\ StepTo(n, "end") /\ UNCHANGED <<reask, running>>
  \/ /\ reask[n] /\ reask' = [reask EXCEPT ![n] = FALSE]
     /\ StepTo(n, "integrate") /\ UNCHANGED <<status, stage, code, running>>

\* A judge whose provider failed: one re-dispatch (with no admission asked)
\* unless it was the re-ask, then attention or, advisory, done.
JudgeFailed(n) ==
  /\ \/ /\ ~reask[n] /\ ~jfail[n] /\ StepTo(n, "gate")
        /\ UNCHANGED <<status, stage, code, reask>>
     \/ (reask[n] \/ jfail[n]) /\ Park(n, "retryable") /\ StepTo(n, "end") /\ UNCHANGED reask
     \/ /\ reask[n] \/ jfail[n]
        /\ reask' = [reask EXCEPT ![n] = FALSE]
        /\ StepTo(n, "integrate") /\ UNCHANGED <<status, stage, code>>
  /\ jfail' = [jfail EXCEPT ![n] = @ \/ ~reask[n]]
  /\ UNCHANGED running

\* settleJudgeRound; before it a judge out of quota or cut off is routed, and one
\* that wrote into the workspace, or has nowhere left to go, is blocked.
JudgeClosed(n) ==
  /\ Holds(n, "outcome") /\ stage[n] = "judge"
  /\ \/ JudgeVerdict(n)
     \/ JudgeUnusable(n, "retryable") /\ UNCHANGED <<jfail, revisions, routing>>
     \/ /\ JudgeUnusable(n, "final") /\ jfail' = [jfail EXCEPT ![n] = FALSE]
        /\ UNCHANGED <<revisions, routing>>
     \/ JudgeFailed(n) /\ UNCHANGED <<revisions, routing>>
     \/ Reroute(n) /\ StepTo(n, "end") /\ UNCHANGED <<reask, jfail, running, revisions>>
     \/ /\ Park(n, "final") /\ StepTo(n, "end")
        /\ UNCHANGED <<reask, jfail, running, revisions, routing>>
  /\ UNCHANGED <<retries, section>> /\ UNCHANGED_Loop

\* settleDone, awaited inside the section.
Integrate(n) ==
  /\ Holds(n, "integrate")
  /\ Integrated(n)
  /\ StepTo(n, "end")
  /\ UNCHANGED <<reask, jfail, retries, section>> /\ UNCHANGED_Loop

\* The settlement's finally: the slot goes to the next waiter, the settle
\* window closes.
SettlementEnds(n) ==
  /\ Holds(n, "end")
  /\ section' = Tail(section)
  /\ StepTo(n, "none")
  /\ held' = [held EXCEPT ![n] = NoRt]
  /\ UNCHANGED <<durable, pc, canceled, parkedBefore, running, closed, inline, continued, lives>>
-----------------------------------------------------------------------------
\* What a process lost at any instant leaves: only what it had written.
Lost ==
  /\ pc \notin {"stopped", "down"}
  /\ pc' = "down" /\ canceled' = FALSE
  /\ running' = {} /\ closed' = {} /\ section' = <<>> /\ inline' = NoNode /\ continued' = {}
  /\ held' = [n \in Node |-> NoRt] /\ step' = [n \in Node |-> "none"]
  /\ UNCHANGED <<revisions, reask, jfail, routing, copy, erased, parkedBefore, lives>>

Crash == Lost /\ UNCHANGED <<status, stage, code, autoRetries, autos>>

\* Mutant: the node reopens before its retry is consumed.
CrashReopenedFirst(n) ==
  /\ Lost /\ Holds(n, "outcome") /\ n \notin autoRetries
  /\ autos' = [autos EXCEPT ![n] = @ + 1]
  /\ Transition(n, "pending", stage[n], "none")
  /\ UNCHANGED autoRetries

\* The crash falls between the two writes of a settlement's autoRetryNode:
\* run.json holds the retry, the node is not open yet.
CrashInAutoRetry(n) ==
  /\ Lost /\ Holds(n, "outcome") /\ n \notin autoRetries
  /\ autoRetries' = autoRetries \cup {n}
  /\ UNCHANGED <<status, stage, code, autos>>

\* Time passes: a reset comes, a delay is over.
Due(n) ==
  /\ wait[n] # Ready
  /\ wait' = [wait EXCEPT ![n] = Ready]
  /\ UNCHANGED <<status, stage, code, revisions, reask, jfail, route, routes, retries, volatile, lives>>

\* A supervisor finds the run unfinished and nobody on it: nextRelaunch reads
\* run.json, then the launch is awaited.
SupervisorReads ==
  /\ pc = "down" /\ copy = {} /\ lives < MaxLife[contract]
  /\ copy' = {autoRetries}
  /\ UNCHANGED <<status, stage, code, revisions, reask, jfail, routing, autoRetries, autos, erased, volatile, lives>>

\* Once the child is up, persistRelaunch writes back what was read, over what the
\* child has recorded since; a launch that failed writes nothing.
PersistRelaunch ==
  /\ copy # {} /\ copy' = {}
  /\ \/ /\ pc # "down" /\ autoRetries' \in copy
        /\ erased' = [n \in Node |-> IF n \in autoRetries \ autoRetries' THEN erased[n] + 1 ELSE erased[n]]
     \/ UNCHANGED <<autoRetries, erased>>
  /\ UNCHANGED <<status, stage, code, revisions, reask, jfail, routing, autos, volatile, lives>>
-----------------------------------------------------------------------------
Snapshot(n) ==
  [status |-> status[n], stage |-> stage[n], code |-> code[n], revisions |-> revisions[n],
   reask |-> reask[n], jfail |-> jfail[n], route |-> route[n], wait |-> wait[n], routes |-> routes[n]]
Become(n, s, g, c) == [Snapshot(n) EXCEPT !.status = s, !.stage = g, !.code = c]

\* recoverOrphan: a node found running is restarted or parked; its finished work
\* is judged, rejected or (with a verdict, which clears both bounds, or with no
\* gate) done; its unusable verdict is asked for again; its exhausted call routed.
OrphanTo(n) ==
  LET parked(c) == Become(n, "parked", stage[n], c)
      rejected ==
        IF revisions[n] = MaxRevisions THEN {parked("final")}
        ELSE {[Become(n, "pending", "worker", "none") EXCEPT
                 !.revisions = @ + 1, !.wait = Ready, !.route.worker = r] :
                r \in {Rt(n, "worker"), Assigned(n).worker}}
      done == IF stage[n] = "judge" \/ n \notin Gated THEN {Become(n, "done", stage[n], "none")} ELSE {}
      clear(o) == [o EXCEPT !.reask = FALSE, !.jfail = FALSE]
      asked == {[Become(n, "pending", "judge", "none") EXCEPT !.reask = TRUE, !.jfail = f] :
                  f \in {jfail[n], FALSE}}
      again == Become(n, "pending", stage[n], "none")
      hop == [again EXCEPT !.routes = @ + 1]
      rerouted ==
        {[hop EXCEPT !.wait = [kind |-> k, role |-> stage[n]]] : k \in {"reset", "delay"}}
        \cup {[hop EXCEPT !.wait = [kind |-> "delay", role |-> stage[n]], !.route[stage[n]] = r] :
                r \in Runtime} IN
  {Become(n, "pending", "worker", "none"), parked("retryable"), parked("final")}
  \cup done \cup rejected
  \cup (IF n \in Gated THEN {Become(n, "pending", "judge", "none")} ELSE {})
  \cup (IF stage[n] = "judge" THEN {clear(o) : o \in done \cup rejected} ELSE {})
  \cup (IF stage[n] = "judge" /\ ~reask[n] THEN asked ELSE {})
  \cup (IF stage[n] = "judge" /\ reask[n] THEN {[parked("final") EXCEPT !.jfail = FALSE]} ELSE {})
  \cup (IF routes[n] < MaxRoute[contract][n] THEN rerouted ELSE {})

\* What resume may make of a node. planResumeRetry: a parked one is retried,
\* re-judged or held; a cancelled one is retried only if the resume names it.
ResumedTo(n, targets) ==
  LET keep == Snapshot(n)
      fresh(g) == Become(n, "pending", g, "none") IN
  CASE status[n] \in {"done", "pending"} -> {keep}
    [] status[n] = "running" -> OrphanTo(n)
    [] status[n] = "canceled" -> {IF n \in targets THEN fresh("worker") ELSE keep}
    [] status[n] = "parked" /\ code[n] = "dependency" ->
         {keep} \cup (IF n \in targets THEN {fresh("worker")} ELSE {})
    [] OTHER -> {keep, fresh("worker"), fresh("judge")}

\* The node `resume --node' names and everything behind it.
Behind(n) ==
  LET grow(S) == S \cup {m \in Node : DepsOf(m) \cap S # {}}
      f[i \in 0..Cardinality(Node)] == IF i = 0 THEN {n} ELSE grow(f[i - 1]) IN
  f[Cardinality(Node)]

\* resumeRun, with or without `--node', up to driveRun. A dependant reopens
\* only with every dependency that held it.
Resume(targets) ==
  /\ pc \in {"stopped", "down"} /\ lives < MaxLife[contract]
  /\ \E to \in [Node -> UNION {ResumedTo(n, targets) : n \in Node}] :
       /\ \A n \in Node : to[n] \in ResumedTo(n, targets)
       /\ \A n \in Node : code[n] = "dependency" /\ to[n].status = "pending"
                            => \A d \in DepsOf(n) : to[d].status # "parked"
       /\ status' = [n \in Node |-> to[n].status]
       /\ stage' = [n \in Node |-> to[n].stage]
       /\ code' = [n \in Node |-> to[n].code]
       /\ revisions' = [n \in Node |-> to[n].revisions]
       /\ reask' = [n \in Node |-> to[n].reask]
       /\ jfail' = [n \in Node |-> to[n].jfail]
       /\ route' = [n \in Node |-> to[n].route]
       /\ wait' = [n \in Node |-> to[n].wait]
       /\ routes' = [n \in Node |-> to[n].routes]
       /\ parkedBefore' = {n \in Node : to[n].status = "parked"}
       /\ pc' = IF \A n \in Node : to[n].status \in {"done", "parked", "canceled"}
                THEN "drain" ELSE "top"
  /\ canceled' = FALSE
  /\ lives' = lives + 1
  /\ UNCHANGED <<retries, running, closed, held, section, step, inline, continued>>

Tick == \/ TickTop \/ SettleClosed \/ StallIntegrated \/ Dispatch
        \/ ExitCheck \/ CancelAll \/ Stop

Settlement(n) ==
  \/ WorkerClosed(n) \/ ProofEnds(n) \/ ProofSettled(n) \/ JudgeStarts(n)
  \/ GateDecides(n) \/ JudgeClosed(n) \/ Integrate(n) \/ SettlementEnds(n)

\* Resume reads the contract's own snapshot, never the file it came from.
Frozen == UNCHANGED contract

Next ==
  /\ Frozen
  /\ \/ Tick
     \/ \E n \in Node : \/ Settlement(n) \/ Exit(n) \/ StallTimeout(n) \/ Due(n)
                        \/ CrashInAutoRetry(n)
     \/ Signal \/ Crash \/ SupervisorReads \/ PersistRelaunch
     \/ \E targets \in {Node} \cup {Behind(n) : n \in Node} : Resume(targets)

Spec == Init /\ [][Next]_vars

\* The event loop runs every ready continuation; every provider process ends,
\* because detectStalls kills the one that outlives its wall clock; time passes.
Fairness ==
  /\ WF_vars(Frozen /\ Tick)
  /\ \A n \in Node : /\ WF_vars(Frozen /\ Settlement(n)) /\ WF_vars(Frozen /\ Exit(n))
                     /\ WF_vars(Frozen /\ Due(n))

FairSpec == Spec /\ Fairness
-----------------------------------------------------------------------------
\* No more than maxParallel processes live at once, although settlements start
\* judges and revisions the dispatch pass never sees.
RunCeiling == Cardinality(running) <= MaxParallel

\* `a runtime's maxConcurrent bounds that runtime below it' (CONCEPTS.md:295).
\* What a settlement starts is judged against live jobs only, or not at all.
RuntimeCeiling == \A r \in Runtime : Cardinality(JobsOn(r)) <= MaxConcurrent[r]

\* A node gets one automatic retry, whoever grants it - a settlement, the stall
\* handler, either pass of the tick, the next controller - and one more for each
\* time a relaunch wrote over the record of it: no other step gives one back.
OneRetryARecord == \A n \in Node : autos[n] <= 1 + erased[n]

\* `a restarted controller cannot grant a fresh one' (lifecycle.mjs:191).
\* The code does not keep it: README, "Seen while modelling".
OneAutoRetry == \A n \in Node : autos[n] <= 1

\* A controller that has stopped left nothing behind: no job, no settlement,
\* no node undecided.
StopsClean ==
  pc = "stopped" =>
    running = {} /\ section = <<>> /\ inline = NoNode /\ \A n \in Node : Settled(n)

\* A node this controller blocked still has a parked dependency: blocking never
\* overtakes an automatic retry of the node it blocks behind, unless it is one
\* that a relaunch gave back.
BlockedForGood ==
  pc \notin {"stopped", "down"} =>
    \A n \in Node \ parkedBefore : status[n] = "parked" /\ code[n] = "dependency" =>
      \E d \in DepsOf(n) : status[d] = "parked" \/ erased[d] > 0

\* A pending node behind a cancelled one: never ready, never blocked.
Orphaned == \E n \in Node : status[n] = "pending" /\ \E d \in DepsOf(n) : status[d] = "canceled"

\* Every controller comes to its end, unless a node is orphaned.
RunEnds == pc = "top" ~> (pc \in {"stopped", "down"} \/ Orphaned)

\* `a failed terminal dependency makes it blocked, and every node ends in
\* exactly one terminal state' (CONCEPTS.md:106-109).
\* The code does not keep it: README, "Seen while modelling".
EveryNodeEnds == \A n \in Node : status[n] = "pending" ~> (Settled(n) \/ pc = "down")
=============================================================================
