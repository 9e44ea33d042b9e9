------------------------------- MODULE Routing -------------------------------
(***************************************************************************)
(* Which runtime a node's worker and judge run on, and what a refusal, a   *)
(* dropped connection or an unusable answer buys them:                     *)
(*   src/src/engine/backoff.mjs    classifyTransition, planRoute,          *)
(*   src/src/engine/failover.mjs   nextHop, routeRuntimeForState,          *)
(*   src/src/engine/lifecycle.mjs  handleProviderExhaustion, autoRetryNode,*)
(*   src/src/engine/judge-list.mjs, runtime-discovery.mjs   the next judge *)
(*   and the next runtime of a tier,                                       *)
(*   src/src/engine/retry.mjs, resume.mjs, supervise.mjs   the hold of an  *)
(*   exhausted tier and its next generation.                               *)
(*                                                                         *)
(* One node. What the decisions read - the routing history, the override,  *)
(* the invocations - is in the node's snapshot and survives a controller;  *)
(* a snapshot is written whole, so a decision is one step. The provider,   *)
(* the clock, the operator and the supervisor move in between. Instants    *)
(* are natural numbers; the node's first dispatch is instant 0.            *)
(***************************************************************************)
EXTENDS Naturals, Sequences, FiniteSets, SequencesExt

CONSTANTS
  Runtime,      \* the contract's runtimes
  Catalogue,    \* the catalogues and assignments a node may be given
  NetworkMax,   \* NETWORK_MAX_ATTEMPTS (3)
  Deadline,     \* the node's wall-clock deadline
  HoldCap,      \* TIER_EXHAUSTION_HOLD_CAP_MS
  MaxRevisions, \* gate.maxRevisions
  Horizon,      \* bound: the last instant a provider names, and then some
  MaxCycle,     \* bound: tier-exhaustion generations
  MaxTrouble,   \* bound: controllers that die, and resumes an operator types
  NoRt, Unnamed \* no runtime; no instant

\* worker and judge are the assignment; `composed' has the roles the contract
\* left to discovery; `list' is the ordered judge list, or empty; `order' is
\* every runtime by cost, `rested' those known to be available.
CatalogueType ==
  [vendor : [Runtime -> STRING], fallback : [Runtime -> Runtime \cup {NoRt}],
   tier : [Runtime -> Nat], order : Seq(Runtime), rested : SUBSET Runtime,
   worker : Runtime, judge : Runtime, composed : SUBSET {"worker", "judge"},
   list : Seq(Runtime)]

ASSUME CatalogueAssumption == Catalogue \subseteq CatalogueType
ASSUME RoutingBounds ==
  {NetworkMax, Deadline, HoldCap, MaxRevisions, Horizon, MaxCycle, MaxTrouble} \subseteq Nat
ASSUME NoneAssumption == NoRt \notin Runtime /\ Unnamed \notin Nat

VARIABLES
  catalogue,  \* of the contract: it never changes
  now,        \* the clock
  \* the node's snapshot
  status,     \* the statuses routing tells apart
  role,       \* state.phase
  revision,   \* state.revisions
  cycle,      \* routing.tierExhaustionCycle
  override,   \* routing.currentOverride
  waits,      \* network waits in the history, per role and revision
  hops,       \* the highest hop in the history, per role and revision
  spent,      \* roles that once took a declared fallback
  evidence,   \* routing.tierExhaustion
  chosen,     \* routing.judgeList: the entry it is at ...
  tried,      \* ... and those "already attempted this run"
  ran,        \* the invocations, as planRoute reads them
  last,       \* the runtime of each role's last invocation
  since,      \* when it was held, if it is
  autoRetried, jfail,  \* one automatic retry; one judge re-dispatch
  \* bound and history
  trouble,
  refused,    \* judges a list moved away from
  along       \* declared fallbacks taken: <<role, revision, from>>

choice == <<revision, cycle, override, waits, hops, spent, evidence, chosen, tried>>
vars == <<catalogue, now, status, role, choice, ran, last, since, autoRetried, jfail,
          trouble, refused, along>>

Role == {"worker", "judge"}
Instant == 0..Horizon
Revision == 0..MaxRevisions
Status == {"pending", "running", "done", "held", "exhausted", "failed", "blocked", "unreviewed"}
Settled == Status \ {"pending", "running"}
NoOverride == [role |-> "none", rt |-> NoRt, revision |-> 0, hop |-> 0, until |-> 0]
NoEvidence == [role |-> "none", at |-> {}]

TypeOK ==
  /\ catalogue \in Catalogue /\ now \in Instant
  /\ status \in Status /\ role \in Role /\ revision \in Revision /\ cycle \in 0..MaxCycle
  /\ override.rt \in Runtime \cup {NoRt}
  /\ override.until <= Horizon
  /\ waits \in [Role \X Revision -> 0..NetworkMax]
  /\ hops \in [Role \X Revision -> Nat]
  /\ spent \subseteq Role
  /\ evidence.at \subseteq Runtime \X (Instant \cup {Unnamed})
  /\ chosen \in Runtime \cup {NoRt} /\ tried \subseteq Runtime
  /\ ran \subseteq Role \X Revision \X (0..MaxCycle) \X Runtime
  /\ last \in [Role -> Runtime \cup {NoRt}]
  /\ since \in Instant /\ autoRetried \in BOOLEAN /\ jfail \in BOOLEAN
  /\ trouble \in 0..MaxTrouble /\ refused \subseteq Runtime

Init ==
  /\ catalogue \in Catalogue
  /\ now = 0 /\ status = "pending" /\ role = "worker" /\ revision = 0 /\ cycle = 0
  /\ override = NoOverride /\ evidence = NoEvidence
  /\ waits = [x \in Role \X Revision |-> 0] /\ hops = [x \in Role \X Revision |-> 0]
  /\ spent = {} /\ tried = {}
  /\ chosen = IF catalogue.list = <<>> THEN NoRt ELSE catalogue.judge
  /\ ran = {} /\ last = [r \in Role |-> NoRt] /\ since = 0
  /\ autoRetried = FALSE /\ jfail = FALSE
  /\ trouble = 0 /\ refused = {} /\ along = {}
-----------------------------------------------------------------------------
Vendor(rt) == catalogue.vendor[rt]
Fallback(rt) == catalogue.fallback[rt]
Assigned(r) == IF r = "worker" THEN catalogue.worker ELSE catalogue.judge
\* The worker that ran, or the one that would.
WorkerRan == IF last["worker"] # NoRt THEN last["worker"] ELSE catalogue.worker

\* admitsAffinity: the runtime that ran last keeps the node, unless it is known
\* to be exhausted or is a judge of the worker's own vendor.
AdmitsAffinity(r, rt) ==
  rt \in catalogue.rested /\ (r = "judge" => Vendor(rt) # Vendor(WorkerRan))

\* routeRuntimeForState: the override, the last attempt, the assignment.
RouteFor(r) ==
  IF override.role = r THEN override.rt
  ELSE IF last[r] # NoRt /\ AdmitsAffinity(r, last[r]) THEN last[r]
  ELSE Assigned(r)

Attempted(r) == {rt \in Runtime : <<r, revision, cycle, rt>> \in ran}

\* The tier decides only for a role left to discovery whose runtime declares no
\* fallback, and that never took one.
Dynamic(r, cur) == r \in catalogue.composed /\ Fallback(cur) = NoRt /\ r \notin spent

\* Mutant: only the current runtime is excluded.
SameTierAgain(r, cur) ==
  {rt \in catalogue.rested \ {cur} :
     catalogue.tier[rt] = catalogue.tier[cur]
     /\ (r = "judge" => Vendor(rt) # Vendor(WorkerRan))}

\* nextSameTierRuntime: the cheapest one not attempted.
SameTier(r, cur) ==
  {rt \in catalogue.rested \ (Attempted(r) \cup {cur}) :
     catalogue.tier[rt] = catalogue.tier[cur]
     /\ (r = "judge" => Vendor(rt) # Vendor(WorkerRan))}
FirstOf(seq, S) ==
  LET fit == SelectSeq(seq, LAMBDA rt : rt \in S)
  IN  IF fit = <<>> THEN NoRt ELSE Head(fit)

Governed(r) == r = "judge" /\ catalogue.list # <<>>
\* reachableWorkerProviders: the worker and its chain of declared fallbacks.
Chain(rt) ==
  LET f[i \in 0..Cardinality(Runtime)] ==
        IF i = 0 THEN {rt} ELSE f[i - 1] \cup ({Fallback(x) : x \in f[i - 1]} \ {NoRt})
  IN  f[Cardinality(Runtime)]
\* selectListJudge; `barred' are those with a recorded refusal, or a usage
\* window about to close, which other runs of the machine decide.
Eligible(barred) ==
  {rt \in Runtime \ (tried \cup {chosen} \cup barred) :
     Vendor(rt) \notin {Vendor(w) : w \in Chain(WorkerRan)}}

\* The next runtime, or NoRt: an attempted fallback is a cycle, not an edge.
Edge(r, cur, barred) ==
  IF Governed(r) THEN FirstOf(catalogue.list, Eligible(barred))
  ELSE IF Fallback(cur) # NoRt
       THEN IF Fallback(cur) \in Attempted(r) THEN NoRt ELSE Fallback(cur)
  ELSE IF Dynamic(r, cur) THEN FirstOf(catalogue.order, SameTier(r, cur))
  ELSE NoRt

\* nextHop, before the edge is charged.
Hop(r) ==
  IF override.role = r /\ override.revision = revision THEN override.hop
  ELSE hops[<<r, revision>>]

\* upsertTierExhaustionCandidate.
Upsert(r, rt, at) ==
  [role |-> r,
   at |-> {e \in (IF evidence.role = r THEN evidence.at ELSE {}) : e[1] # rt} \cup {<<rt, at>>}]
Evidence(r, cur, at) == IF Dynamic(r, cur) THEN Upsert(r, cur, at) ELSE NoEvidence
-----------------------------------------------------------------------------
Job == last[role]
\* What a step about the running job leaves alone.
UNCHANGED_Record == UNCHANGED <<catalogue, now, ran, last, trouble>>
UNCHANGED_Choice ==
  UNCHANGED <<revision, cycle, override, waits, hops, spent, chosen, tried, refused, along>>
UNCHANGED_Counters == UNCHANGED <<autoRetried, jfail, since>>
Becomes(s) == status' = s /\ UNCHANGED role

\* A reset: the runtime is kept, no hop is charged. buildRouting tags a network
\* wait in the history, where a later controller counts it.
WaitOn(r, cur, until, named, net) ==
  /\ Becomes("pending")
  /\ override' = [role |-> r, rt |-> cur, revision |-> revision, hop |-> Hop(r), until |-> until]
  /\ hops' = [hops EXCEPT ![<<r, revision>>] = IF @ > Hop(r) THEN @ ELSE Hop(r)]
  /\ waits' = [waits EXCEPT ![<<r, revision>>] = IF net THEN @ + 1 ELSE @]
  /\ evidence' = Evidence(r, cur, named)
  /\ UNCHANGED <<revision, cycle, spent, chosen, tried, refused, along>>

Capped(r, cur) == Hop(r) + 1 > 1 /\ ~Dynamic(r, cur) /\ ~Governed(r)
\* judgeFallbackVendorConflict.
Conflict(r, rt) == r = "judge" /\ Vendor(rt) = Vendor(WorkerRan)

\* applyRoute of an edge: the next runtime, at once.
HopTo(r, cur, next, named) ==
  /\ Becomes("pending")
  /\ override' = [role |-> r, rt |-> next, revision |-> revision, hop |-> Hop(r) + 1,
                  until |-> now]
  /\ hops' = [hops EXCEPT ![<<r, revision>>] = IF @ > Hop(r) + 1 THEN @ ELSE Hop(r) + 1]
  /\ spent' = IF Fallback(cur) = next THEN spent \cup {r} ELSE spent
  /\ along' = IF Fallback(cur) = next /\ ~Governed(r)
              THEN along \cup {<<r, revision, cur>>} ELSE along
  /\ evidence' = Evidence(r, cur, named)
  /\ chosen' = IF Governed(r) THEN next ELSE chosen
  /\ tried' = IF Governed(r) THEN tried \cup ({chosen} \ {NoRt}) ELSE tried
  /\ refused' = IF Governed(r) THEN refused \cup {cur} ELSE refused
  /\ UNCHANGED <<revision, cycle, waits>>

\* planRoute found an edge, and nothing forbids it.
Routes(r, cur, next) == next # NoRt /\ ~Capped(r, cur) /\ ~Conflict(r, next)
-----------------------------------------------------------------------------
\* startWorker, startJudge: not while the role's own backoff lasts.
Dispatch ==
  /\ status = "pending"
  /\ override.role = role => override.until <= now
  /\ status' = "running" /\ UNCHANGED role
  /\ LET rt == RouteFor(role)
     IN  /\ last' = [last EXCEPT ![role] = rt]
         /\ ran' = ran \cup {<<role, revision, cycle, rt>>}
  /\ UNCHANGED <<catalogue, now, choice, since, autoRetried, jfail, trouble, refused, along>>

Running(r) == status = "running" /\ role = r

\* An exhausted envelope, with the reset the provider named, or none: a reset
\* ahead and before the deadline is waited for; otherwise the edge.
Waitable(at) == at # Unnamed /\ at > now /\ at < Deadline
Refused(at) ==
  /\ status = "running"
  /\ Waitable(at)
  /\ WaitOn(role, Job, at, at, FALSE)
  /\ UNCHANGED_Record /\ UNCHANGED_Counters

\* A named reset that is in the past by now is kept as evidence all the same.
RefusedAway(at, barred) ==
  /\ status = "running" /\ ~Waitable(at)
  /\ LET next == Edge(role, Job, barred)
     IN  \/ /\ Routes(role, Job, next) /\ HopTo(role, Job, next, at) /\ UNCHANGED since
         \/ /\ next = NoRt /\ Dynamic(role, Job) /\ ~Governed(role)
            /\ Becomes("held")
            /\ evidence' = Upsert(role, Job, at)
            /\ since' = now
            /\ UNCHANGED_Choice
         \/ /\ next = NoRt /\ Governed(role)
            /\ Becomes("exhausted")
            /\ chosen' = NoRt /\ tried' = tried \cup ({chosen} \ {NoRt})
            /\ refused' = refused \cup {Job}
            /\ evidence' = NoEvidence
            /\ UNCHANGED <<revision, cycle, override, waits, hops, spent, along, since>>
         \/ /\ IF next = NoRt THEN ~Dynamic(role, Job) /\ ~Governed(role) ELSE Capped(role, Job)
            /\ Becomes("exhausted")
            /\ evidence' = NoEvidence
            /\ UNCHANGED_Choice /\ UNCHANGED since
         \/ /\ next # NoRt /\ ~Capped(role, Job) /\ Conflict(role, next)
            /\ Becomes("blocked")
            /\ evidence' = NoEvidence
            /\ UNCHANGED_Choice /\ UNCHANGED since
  /\ UNCHANGED_Record /\ UNCHANGED <<autoRetried, jfail>>

\* A code the run owns: budget, scope, permission.
RefusedForGood ==
  /\ status = "running"
  /\ Becomes("exhausted")
  /\ evidence' = NoEvidence
  /\ UNCHANGED_Choice /\ UNCHANGED_Record /\ UNCHANGED_Counters

\* carriesQuotaReset: a reset in the evidence is cheaper than the one retry.
CarriesReset == \E e \in evidence.at : e[2] # Unnamed

\* autoRetryNode: once, on the runtime it ran on, routing untouched.
AutoRetry ==
  /\ Running("worker") /\ ~autoRetried /\ ~CarriesReset
  /\ autoRetried' = TRUE
  /\ Becomes("pending")
  /\ UNCHANGED_Choice /\ UNCHANGED_Record /\ UNCHANGED <<evidence, jfail, since>>

\* classifyTransition of a transport failure: a wait of one instant while
\* attempts are left and the deadline is further away than that.
NetworkWait ==
  /\ status = "running"
  /\ waits[<<role, revision>>] < NetworkMax /\ now + 1 < Deadline
  /\ WaitOn(role, Job, now + 1, Unnamed, TRUE)
  /\ UNCHANGED_Record /\ UNCHANGED_Counters
NetworkSpent == waits[<<role, revision>>] >= NetworkMax \/ now + 1 >= Deadline

\* Past that, the edge - if there is one.
NetworkHop(barred) ==
  /\ status = "running" /\ NetworkSpent
  /\ LET next == Edge(role, Job, barred)
     IN  Routes(role, Job, next) /\ HopTo(role, Job, next, Unnamed)
  /\ UNCHANGED_Record /\ UNCHANGED_Counters

\* No route, or a failure of the work itself: the worker's node fails, ...
WorkerFails ==
  /\ Running("worker")
  /\ Becomes("failed")
  /\ evidence' = NoEvidence
  /\ UNCHANGED_Choice /\ UNCHANGED_Record /\ UNCHANGED_Counters

\* Mutant: the re-dispatch is not recorded.
JudgeFailsUncounted ==
  /\ Running("judge")
  /\ UNCHANGED jfail
  /\ Becomes(IF jfail THEN "unreviewed" ELSE "pending")
  /\ evidence' = NoEvidence
  /\ UNCHANGED_Choice /\ UNCHANGED_Record /\ UNCHANGED <<autoRetried, since>>

\* ... the judge is asked once more, and then is unavailable.
JudgeFails ==
  /\ Running("judge")
  /\ jfail' = TRUE
  /\ Becomes(IF jfail THEN "unreviewed" ELSE "pending")
  /\ evidence' = NoEvidence
  /\ UNCHANGED_Choice /\ UNCHANGED_Record /\ UNCHANGED <<autoRetried, since>>

\* applyRejection, of a verdict, a verification or a result that does not
\* parse: resetPhaseRouting, and the next revision, while any are left.
Reject ==
  /\ status = "running" /\ revision < MaxRevisions
  /\ revision' = revision + 1
  /\ override' = NoOverride
  /\ status' = "pending" /\ role' = "worker"
  /\ evidence' = NoEvidence
  /\ jfail' = FALSE
  /\ UNCHANGED <<cycle, waits, hops, spent, chosen, tried, refused, along>>
  /\ UNCHANGED_Record /\ UNCHANGED <<autoRetried, since>>

RejectForGood ==
  /\ status = "running" /\ revision = MaxRevisions
  /\ Becomes("blocked")
  /\ evidence' = NoEvidence
  /\ UNCHANGED_Choice /\ UNCHANGED_Record /\ UNCHANGED_Counters

\* applyInvalidWorkerResult past its repairs: the edge, or attention.
ProtocolHop ==
  /\ Running("worker") /\ revision = MaxRevisions
  /\ LET next == Edge("worker", Job, {})
     IN  Routes("worker", Job, next) /\ HopTo("worker", Job, next, Unnamed)
  /\ UNCHANGED_Record /\ UNCHANGED_Counters

WorkerDone ==
  /\ Running("worker")
  /\ status' = "pending" /\ role' = "judge"
  /\ evidence' = NoEvidence
  /\ UNCHANGED_Choice /\ UNCHANGED_Record /\ UNCHANGED_Counters

JudgePasses ==
  /\ Running("judge")
  /\ Becomes("done")
  /\ evidence' = NoEvidence
  /\ UNCHANGED_Choice /\ UNCHANGED_Record /\ UNCHANGED_Counters
-----------------------------------------------------------------------------
Troubles == trouble < MaxTrouble /\ trouble' = trouble + 1
UNCHANGED_Env == UNCHANGED <<catalogue, now, ran, last, autoRetried, jfail>>

\* The controller dies and the next one finds nothing to adopt: the role is
\* dispatched again from what the snapshot says.
Crash ==
  /\ Troubles
  /\ status = "running"
  /\ Becomes("pending")
  /\ UNCHANGED_Choice /\ UNCHANGED <<evidence, since>> /\ UNCHANGED_Env

\* planResumeRetry of an ordinary failure, or of a review never given: routing
\* is left as it is.
Resume ==
  /\ Troubles
  /\ status \in {"exhausted", "failed", "unreviewed"}
  /\ status' = "pending"
  /\ role' = IF status = "unreviewed" THEN "judge" ELSE "worker"
  /\ UNCHANGED_Choice /\ UNCHANGED <<evidence, since>> /\ UNCHANGED_Env

\* earliestTierReset.
Named == {e[2] : e \in {x \in evidence.at : x[2] # Unnamed}}

\* Mutant: the reset of the runtime refused last decides.
ResetArrivedLast == \E e \in evidence.at : e[1] = Job /\ e[2] # Unnamed /\ e[2] <= now

ResetArrived == \E at \in Named : at <= now

\* tierExhaustionRestart: the next generation, its evidence empty.
Restart ==
  /\ status = "held" /\ cycle < MaxCycle
  /\ Becomes("pending")
  /\ cycle' = cycle + 1
  /\ evidence' = [role |-> role, at |-> {}] /\ since' = 0
  /\ UNCHANGED <<revision, override, waits, hops, spent, chosen, tried, refused, along>>

\* superviseRun: a held node is waited for, and resumed when a reset arrives.
SuperviseHeld ==
  /\ ResetArrived /\ Restart
  /\ UNCHANGED_Env /\ UNCHANGED trouble

\* An operator's resume honours the cap as well.
ResumeHeld ==
  /\ Troubles
  /\ ResetArrived \/ now - since >= HoldCap
  /\ Restart
  /\ UNCHANGED_Env

Tick ==
  /\ now < Horizon
  /\ ran # {}
  /\ now' = now + 1
  /\ UNCHANGED <<catalogue, status, role, choice, ran, last, since, autoRetried, jfail,
                 trouble, refused, along>>
-----------------------------------------------------------------------------
\* A reset a provider names: none, ahead, or stale.
Announced == (now..Horizon) \cup {Unnamed}

\* The judges other runs of the machine have barred; only a list asks.
Bars == IF Governed(role) THEN SUBSET ToSet(catalogue.list) ELSE {{}}

\* What becomes of a running job.
Outcome ==
  \/ \E at \in Announced : Refused(at)
  \/ \E at \in Announced, barred \in Bars : RefusedAway(at, barred)
  \/ RefusedForGood \/ AutoRetry \/ NetworkWait
  \/ \E barred \in Bars : NetworkHop(barred)
  \/ WorkerFails \/ JudgeFails \/ Reject \/ RejectForGood \/ ProtocolHop
  \/ WorkerDone \/ JudgePasses

Next ==
  Dispatch \/ Outcome \/ Crash \/ Resume \/ SuperviseHeld \/ ResumeHeld \/ Tick

\* The loop dispatches what it may, every job ends, time goes on, and a
\* supervisor watches the run.
Fairness ==
  WF_vars(Dispatch) /\ WF_vars(Outcome) /\ WF_vars(Tick) /\ WF_vars(SuperviseHeld)

Spec == Init /\ [][Next]_vars
FairSpec == Spec /\ Fairness
-----------------------------------------------------------------------------
(* Properties *)

\* planRoute (backoff.mjs:368): a hop never goes back to a runtime its role has
\* run on in this revision and generation, nor (judge-list.mjs:149) a list back
\* to a judge it has left - whoever crashed, resumed or revised in between.
NoWayBack ==
  [][override' # override /\ override'.rt # NoRt /\ override'.rt # Job =>
       /\ override'.rt \notin Attempted(role)
       /\ Governed(role) => override'.rt \notin refused]_vars

\* CONCEPTS.md:229-230: "`fallback' names at most one other runtime for a single
\* hop": one declared fallback per role and revision, across controllers,
\* resumes and generations.
OneDeclaredHop ==
  \A a, b \in along : a[1] = b[1] /\ a[2] = b[2] => a = b

\* A judge a hop chose is not of the vendor whose work it reviews.
HopsToAnotherVendor ==
  [][role = "judge" /\ override' # override /\ override'.rt # NoRt /\ override'.rt # Job =>
       Vendor(override'.rt) # Vendor(WorkerRan)]_vars

\* However waits, hops, repairs, re-asks and crashes follow each other, a node
\* in routing comes to an answer: every budget is charged by every path.
LeavesRouting == status \in {"pending", "running"} ~> status \in Settled

\* A held node whose evidence names a reset is restarted once it has come -
\* also when it had passed by the time of the hold, or another candidate of the
\* tier named none (retry.mjs earliestTierReset, supervise.mjs runProgress).
HeldIsRetried ==
  status = "held" /\ Named # {} /\ cycle < MaxCycle ~> status # "held"

\* CONCEPTS.md:153: a judge "must resolve to a different vendor from the worker
\* that actually ran the attempt".
\* The code does not keep it: README, "Seen while modelling".
JudgeOfAnotherVendor == Running("judge") => Vendor(Job) # Vendor(WorkerRan)

\* retry.mjs:113: "The longest a tier-exhausted node may be held ... before the
\* controller stops waiting".
\* The code does not keep it: README, "Seen while modelling".
HoldIsCapped == status = "held" /\ cycle < MaxCycle ~> status # "held"
=============================================================================
