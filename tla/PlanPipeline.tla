---------------------------- MODULE PlanPipeline ----------------------------
(***************************************************************************)
(* One phase's planning pipeline: the draft, the deterministic check, the  *)
(* review and revise rounds, the freeze, the contested end, and            *)
(* `faberun plan --resolve`, over the files they leave behind              *)
(* (src/src/plan/pipeline.mjs, rounds.mjs, progress.mjs, freeze.mjs,       *)
(* contest.mjs, resolve.mjs).                                              *)
(*                                                                         *)
(* A plan is what its nodes hold: a node is "gone", declares no file       *)
(* ("bare"), or declares the one repository file ("full").  A finding is   *)
(* an id, a severity and the node it names ("plan" when it names none);    *)
(* the workers that draft, review and revise are free to answer anything   *)
(* their validators accept, but that a reviewer gives no finding an id the *)
(* pipeline gives its own.  A step ends at an await or at a durable write, *)
(* which is where a process can die.  One planning process works on a      *)
(* phase at a time; each stage it waits for is a run of its own, which     *)
(* nobody supervises.                                                      *)
(***************************************************************************)
EXTENDS Naturals, FiniteSets

CONSTANTS
  Node,        \* node ids a plan may use
  Id,          \* ids the reviewers give their findings
  MaxRounds,   \* --review-rounds
  Said,        \* bound: the findings a reviewer may give
  MaxSaid,     \* bound: findings of one review
  Refused,     \* the plans freezePreflight refuses
  MaxAttempt,  \* bound: launches of `plan` and of `plan --resolve`
  MaxCrash     \* bound: deaths of the planning process

Content == {"gone", "bare", "full"}
Plans == {p \in [Node -> Content] : \E n \in Node : p[n] # "gone"}
NoPlan == [n \in Node |-> "gone"]

ASSUME RoundsAssumption == MaxRounds \in Nat \ {0}
ASSUME BoundAssumption == {MaxSaid, MaxAttempt, MaxCrash} \subseteq Nat
ASSUME RefusedAssumption == Refused \subseteq Plans
ASSUME SaidAssumption ==
  Said \subseteq [id : {"review"} \X Id, critical : BOOLEAN, at : Node \cup {"plan"}]
ASSUME NodeAssumption == IsFiniteSet(Node) /\ "plan" \notin Node
ASSUME IdAssumption == IsFiniteSet(Id)

VARIABLES
  pc,        \* where the planning process stands, "idle" when none runs
  mode,      \* "plan" or "resolve"
  plan,      \* the plan in hand, NoPlan when its output never validated
  findings,  \* everything still open against it
  dropped,   \* droppedWrites of the last revise
  round,     \* the review round, 0 before the first
  history,   \* criticalHistory's last entry, as a set: {} or {count}
  carried,   \* carriedCritical > 0
  first,     \* the first revise attempt's structurally valid output
  adopt,     \* `abandoned`, sampled at the launch, FALSE past the draft
  current,   \* draft.json is of the spec this attempt reads, and validates still
  draftRec,  \* draft.json, NoPlan once there is a plan.json and nothing reads it
  progress,  \* the liveness record: "none", "live" or "dead"
  contract,  \* contract.json
  record,    \* plan.json
  attempts, crashes,
  graded,    \* history: the plan the last review read, until a revise is accepted
  owed,      \* history: criticals whose node no revise has changed since
  paid       \* history: validated drafts paid for since an attempt last returned
             \* or found draft.json not current

disk == <<draftRec, progress, contract, record>>
held == <<plan, findings, dropped, round, history, carried, first, adopt, current>>
bounds == <<attempts, crashes>>
seen == <<graded, owed, paid>>
vars == <<pc, mode, held, disk, bounds, seen>>

FindingId == ({"review"} \X Id) \cup ({"drop", "proof"} \X Node)
               \cup ({"shape"} \X {"draft", "review", "freeze"})
Finding == [id : FindingId, critical : BOOLEAN, at : Node \cup {"plan"}]
Shape(kind) == [id |-> <<"shape", kind>>, critical |-> TRUE, at |-> "plan"]
AtNode(kind, n) == [id |-> <<kind, n>>, critical |-> TRUE, at |-> n]
Critical(fs) == {f \in fs : f.critical}
Ids(fs) == {f.id : f \in fs}
Taken == <<"taken">>   \* in owed, the id of a finding whose own id another has

NoRecord == [status |-> "none", plan |-> NoPlan]
Record == [status : {"none", "contested", "bare", "frozen"}, plan : Plans \cup {NoPlan}]

Init ==
  /\ pc = "idle" /\ mode = "plan"
  /\ plan = NoPlan /\ findings = {} /\ dropped = {} /\ round = 0
  /\ history = {} /\ carried = FALSE /\ first = NoPlan /\ adopt = FALSE
  /\ current = TRUE
  /\ draftRec = NoPlan /\ progress = "none" /\ contract = NoPlan /\ record = NoRecord
  /\ attempts = 0 /\ crashes = 0
  /\ graded = NoPlan /\ owed = {} /\ paid = 0

-----------------------------------------------------------------------------
(* What a round computes.                                                  *)

\* Mutant: a round's findings stand for everything still open.
MergedSubstituted(carriedSet, incoming) ==
  IF incoming = {} THEN carriedSet ELSE incoming

\* mergeFindings: the incoming finding replaces the carried one of its id.
Merged(carriedSet, incoming) ==
  {f \in carriedSet : f.id \notin Ids(incoming)} \cup incoming

\* unresolvedFindings: open against a node both plans hold alike.
Unresolved(fs, before, after) ==
  {f \in fs : f.at \in Node /\ after[f.at] # "gone" /\ before[f.at] = after[f.at]}

\* droppedWriteFindings: the file a surviving node declared and no node of the
\* revised plan declares.  A draft that never validated has dropped nothing.
DroppedWrites(before, after) ==
  {AtNode("drop", n) : n \in {m \in Node :
     before[m] = "full" /\ after[m] = "bare" /\ \A k \in Node : after[k] # "full"}}

\* The end of a round: freeze, contest or revise.
Decision(fs, reviewed, r) ==
  LET count == Cardinality(Critical(fs)) IN
  IF count = 0 THEN "assemble"
  ELSE IF reviewed /\ carried /\ \E c \in history : count >= c THEN "contest"
  ELSE IF r = MaxRounds THEN "contest" ELSE "revise"

\* The node of the plan a finding names, or "plan".
Names(f) == IF f.at \in Node /\ plan[f.at] # "gone" THEN f.at ELSE "plan"

\* The criticals the round leaves owed, of all that was raised, whether the
\* merge kept it or not: a reviewer that repeats an id at its node has judged
\* it again; one that gives the id away, in a later review or further down in
\* the same one, has not.
Owed(raised, kept) ==
  {[o EXCEPT !.id = IF @ \in Ids(raised) THEN Taken ELSE @] :
     o \in {p \in owed : ~ \E f \in raised : f.id = p.id /\ Names(f) = p.at}}
  \cup {[id |-> IF f \in kept THEN f.id ELSE Taken, at |-> Names(f)] :
          f \in Critical(raised) \cup dropped}

-----------------------------------------------------------------------------
(* Launch and draft.                                                       *)

\* The pipeline's own variables, once nothing reads them again.
Done ==
  /\ plan' = NoPlan /\ findings' = {} /\ dropped' = {} /\ round' = 0
  /\ history' = {} /\ carried' = FALSE /\ first' = NoPlan /\ adopt' = FALSE
  /\ current' = TRUE
  /\ graded' = NoPlan /\ owed' = {}

Return ==
  /\ pc' = "idle"
  /\ progress' = IF mode = "plan" THEN "none" ELSE progress
  /\ paid' = IF mode = "plan" THEN 0 ELSE paid
  /\ Done

\* runPlanningPipeline: a check before the first stage refuses, and `finally`
\* clears the record all the same.
StartRefused ==
  /\ pc = "idle" /\ attempts < MaxAttempt
  /\ attempts' = attempts + 1 /\ progress' = "none" /\ paid' = 0
  /\ UNCHANGED <<pc, mode, held, draftRec, contract, record, crashes, graded, owed>>

\* Mutant: `abandoned` is read after the first stage line.
AbandonedLate == FALSE /\ progress = "dead"

\* `abandoned` is read before the first stage line overwrites the record.
Abandoned == progress = "dead"

\* The operator may have edited the spec since draft.json was written.
Start ==
  /\ pc = "idle" /\ attempts < MaxAttempt
  /\ attempts' = attempts + 1 /\ mode' = "plan" /\ pc' = "draft"
  /\ adopt' = Abandoned /\ progress' = "live"
  /\ current' \in IF draftRec = NoPlan THEN {TRUE} ELSE BOOLEAN
  /\ paid' = IF current' THEN paid ELSE 0
  /\ UNCHANGED <<plan, findings, dropped, round, history, carried, first,
                 draftRec, contract, record, crashes, graded, owed>>

\* resumablePlanDraft: a phase that ever finished has a plan.json, and a draft
\* of another spec, or one that no longer validates, is drafted again.
Resumable == adopt /\ record.status = "none" /\ draftRec # NoPlan /\ current

AdoptDraft ==
  /\ pc = "draft" /\ Resumable
  /\ plan' = draftRec /\ pc' = "check" /\ adopt' = FALSE
  /\ UNCHANGED <<mode, findings, dropped, round, history, carried, first,
                 current, disk, bounds, seen>>

\* The draft validates and draft.json is written before its stage line.
DraftValid ==
  /\ pc = "draft" /\ ~Resumable
  /\ \E p \in Plans :
       plan' = p /\ draftRec' = IF record.status = "none" THEN p ELSE NoPlan
  /\ paid' = paid + 1 /\ pc' = "check" /\ current' = TRUE /\ adopt' = FALSE
  /\ UNCHANGED <<mode, findings, dropped, round, history, carried, first,
                 progress, contract, record, bounds, graded, owed>>

\* A draft that does not validate skips review: its round revises or contests.
DraftInvalid ==
  /\ pc = "draft" /\ ~Resumable
  /\ findings' = {Shape("draft")} /\ round' = 1
  /\ pc' = Decision(findings', FALSE, 1) /\ current' = TRUE /\ adopt' = FALSE
  /\ UNCHANGED <<mode, plan, dropped, history, carried, first, disk, bounds, seen>>

\* checkPlanBeforeReview: the proof scan's findings, on the draft only.
Check ==
  /\ pc = "check" /\ round' = 1 /\ pc' = "review"
  /\ \E bad \in SUBSET {n \in Node : plan[n] # "gone"} :
       /\ findings' = {AtNode("proof", n) : n \in bad}
       /\ owed' = {[id |-> <<"proof", n>>, at |-> n] : n \in bad}
  /\ UNCHANGED <<mode, plan, dropped, history, carried, first, adopt, current,
                 disk, bounds, graded, paid>>

\* A stage whose run fails or records no output throws out of the pipeline.
StageThrows ==
  /\ pc \in {"draft", "review", "revise", "retry"}
  /\ pc = "draft" => ~Resumable
  /\ Return
  /\ UNCHANGED <<mode, draftRec, contract, record, bounds>>

-----------------------------------------------------------------------------
(* A review round.                                                         *)

\* What a reviewer may say, ids given twice and nodes that are not there
\* included, and what a merge by id keeps of it: the last finding of each id.
Reviews == {r \in [raised : SUBSET Said, kept : SUBSET Said] :
              /\ Cardinality(r.raised) <= MaxSaid
              /\ r.kept \subseteq r.raised /\ Ids(r.kept) = Ids(r.raised)
              /\ \A f, g \in r.kept : f.id = g.id => f = g}

\* Mutant: the write-drops join after the round's decision.
RoundEndsDropsLate(raised, kept, open) ==
  LET fs == open \cup (IF plan \in Refused THEN {Shape("freeze")} ELSE {}) IN
  /\ findings' = Merged(fs, dropped) /\ graded' = plan
  /\ owed' = Owed(raised, kept \cup dropped)
  /\ pc' = Decision(fs, TRUE, round)
  /\ history' = IF Critical(fs) = {} THEN history ELSE {Cardinality(Critical(fs))}
  /\ UNCHANGED <<mode, plan, dropped, round, carried, first, adopt, current, disk, bounds,
                 paid>>

\* The review's findings, the freeze check's failure, then the write-drops.
RoundEnds(raised, kept, open) ==
  LET fs == Merged(open \cup (IF plan \in Refused THEN {Shape("freeze")} ELSE {}), dropped) IN
  /\ findings' = fs /\ graded' = plan
  /\ owed' = Owed(raised, kept \cup dropped)
  /\ pc' = Decision(fs, TRUE, round)
  /\ history' = IF Critical(fs) = {} THEN history ELSE {Cardinality(Critical(fs))}
  /\ UNCHANGED <<mode, plan, dropped, round, carried, first, adopt, current, disk, bounds,
                 paid>>

Review ==
  /\ pc = "review"
  /\ \E r \in Reviews : RoundEnds(r.raised, r.kept, Merged(findings, r.kept))

\* Findings that do not validate leave what is open as it is, and one more.
ReviewMalformed ==
  /\ pc = "review" /\ RoundEnds({}, {}, findings \cup {Shape("review")})

\* A critical that names no node is answered by any change of the plan.
Answered(o, before, after) ==
  IF o.at \in Node THEN after[o.at] = "gone" \/ after[o.at] # before[o.at]
                   ELSE after # before

\* Mutant: the round counter is left where it was.
AcceptSameRound(p) ==
  /\ plan' = p /\ dropped' = DroppedWrites(plan, p)
  /\ findings' = Unresolved(findings, plan, p)
  /\ carried' = FALSE
  /\ owed' = {o \in owed : ~Answered(o, plan, p)}
  /\ round' = round /\ first' = NoPlan /\ graded' = NoPlan
  /\ pc' = "review"

\* The plan a round goes on with, whichever attempt produced it.
Accept(p) ==
  /\ plan' = p /\ dropped' = DroppedWrites(plan, p)
  /\ findings' = Unresolved(findings, plan, p)
  /\ carried' = (Critical(findings') # {})
  /\ owed' = {o \in owed : ~Answered(o, plan, p)}
  /\ round' = round + 1 /\ first' = NoPlan /\ graded' = NoPlan
  /\ pc' = "review"

unrevised == <<mode, history, adopt, current, disk, bounds, paid>>

\* A revise the pre-flight passes is the round's; one it refuses is kept and
\* tried again with the check's message, as is an output that does not validate.
Revise ==
  /\ pc = "revise"
  /\ \/ \E p \in Plans \ Refused : Accept(p)
     \/ /\ first' \in Refused \cup {NoPlan} /\ pc' = "retry"
        /\ UNCHANGED <<plan, findings, dropped, round, carried, graded, owed>>
  /\ UNCHANGED unrevised

\* The context over its budget contests the round.
ReviseOverBudget ==
  /\ pc = "revise" /\ plan # NoPlan /\ pc' = "contest"
  /\ UNCHANGED <<mode, held, disk, bounds, seen>>

\* The second attempt is taken if it validates, refused by the pre-flight or
\* not; otherwise (or over budget) the first is, if that one validated.
Retry ==
  /\ pc = "retry"
  /\ \/ \E p \in Plans : Accept(p)
     \/ first # NoPlan /\ Accept(first)
     \/ /\ first = NoPlan /\ pc' = "contest"
        /\ UNCHANGED <<plan, findings, dropped, round, carried, first, graded, owed>>
  /\ UNCHANGED unrevised

-----------------------------------------------------------------------------
(* The two ends, and the resolve of a contested one.                       *)

unmoved == <<mode, held, draftRec, progress, bounds, seen>>

\* freezePlan writes contract.json before it validates it.
WriteContract ==
  /\ pc = "assemble" /\ contract' = plan /\ pc' = "written"
  /\ UNCHANGED <<record, unmoved>>

\* Sizing, routing or the validation throws: no contract, and a contest.
FreezeThrows ==
  /\ pc \in {"assemble", "written"} /\ contract' = NoPlan /\ pc' = "contest"
  /\ UNCHANGED <<record, unmoved>>

WriteBare ==
  /\ pc = "written" /\ record' = [status |-> "bare", plan |-> plan] /\ pc' = "bare"
  /\ draftRec' = NoPlan
  /\ UNCHANGED <<mode, held, contract, progress, bounds, seen>>

\* writeFrozenPlan: the final bytes (the sidecar over them is not kept apart).
WriteFrozen ==
  /\ pc = "bare" /\ record' = [status |-> "frozen", plan |-> plan] /\ pc' = "end" /\ Done
  /\ UNCHANGED <<mode, draftRec, progress, contract, bounds, paid>>

\* contestPlan: the record, then the open question.
Contest ==
  /\ pc = "contest" /\ record' = [status |-> "contested", plan |-> plan] /\ pc' = "end"
  /\ Done /\ draftRec' = NoPlan
  /\ UNCHANGED <<mode, progress, contract, bounds, paid>>

End ==
  /\ pc = "end" /\ Return
  /\ UNCHANGED <<mode, draftRec, contract, record, bounds>>

\* resolvePlanningPipeline: every critical answered, the recorded plan frozen.
Resolve ==
  /\ pc = "idle" /\ attempts < MaxAttempt
  /\ record.status = "contested" /\ record.plan # NoPlan
  /\ attempts' = attempts + 1 /\ mode' = "resolve" /\ plan' = record.plan
  /\ pc' = "assemble"
  /\ UNCHANGED <<findings, dropped, round, history, carried, first, adopt, current,
                 disk, crashes, seen>>

Crash ==
  /\ pc # "idle" /\ crashes < MaxCrash /\ crashes' = crashes + 1
  /\ pc' = "idle"
  /\ progress' = IF progress = "live" THEN "dead" ELSE progress
  /\ paid' = IF record.status = "none" THEN paid ELSE 0
  /\ Done
  /\ UNCHANGED <<mode, draftRec, contract, record, attempts>>

\* The steps of the planning process alone.
Work ==
  \/ AdoptDraft \/ Check \/ WriteContract \/ FreezeThrows \/ WriteBare \/ WriteFrozen
  \/ Contest \/ End

\* The steps that wait for a stage, a run of its own. Its controller may die or
\* park waiting: the poll has no deadline and no look at the controller.
Stage ==
  DraftValid \/ DraftInvalid \/ StageThrows
    \/ Review \/ ReviewMalformed \/ Revise \/ ReviseOverBudget \/ Retry

Next == Start \/ StartRefused \/ Resolve \/ Crash \/ Work \/ Stage

Spec == Init /\ [][Next]_vars

\* A planning process that runs goes on; nothing makes a stage end.
FairSpec == Spec /\ WF_vars(Work)

-----------------------------------------------------------------------------
(* Properties.                                                             *)

\* The plan, the findings and the files keep the shapes their validators give
\* them, and no round is entered past --review-rounds.
TypeOK ==
  /\ pc \in {"idle", "draft", "check", "review", "revise", "retry", "assemble",
             "written", "bare", "contest", "end"}
  /\ mode \in {"plan", "resolve"}
  /\ {plan, first, draftRec, contract, graded} \subseteq Plans \cup {NoPlan}
  /\ findings \subseteq Finding /\ dropped \subseteq Finding
  /\ Cardinality(Ids(findings)) = Cardinality(findings)
  /\ round \in 0 .. MaxRounds
  /\ history \subseteq Nat /\ Cardinality(history) <= 1
  /\ carried \in BOOLEAN /\ {adopt, current} \subseteq BOOLEAN
  /\ progress \in {"none", "live", "dead"}
  /\ record \in Record
  /\ owed \subseteq [id : FindingId \cup {Taken}, at : Node \cup {"plan"}]
  /\ attempts \in 0 .. MaxAttempt /\ crashes \in 0 .. MaxCrash /\ paid \in Nat

Freezing == mode = "plan" /\ pc \in {"assemble", "written", "bare"}

\* A plan freezes out of the rounds only as the reviewer graded it, with no
\* critical open and past the freeze's own checks (rounds.mjs: runReviewRounds
\* breaks only after a review of the plan in hand).
FrozenIsGraded ==
  Freezing => plan = graded /\ plan \notin Refused /\ Critical(findings) = {}

\* No critical is forgotten because a later reviewer was silent about it: at a
\* freeze each one had its node changed or removed, or was judged again, but for
\* two the code loses, one whose id another finding took and one that names no
\* node of the plan (rounds.mjs: mergeFindings, unresolvedFindings).
NothingForgotten == Freezing => \A o \in owed : o.id = Taken \/ o.at = "plan"

\* Attempts that die one after another pay for one validated draft between
\* them: the next adopts it, unless the spec was edited or the draft no longer
\* validates. One that returns or throws ends the row
\* (progress.mjs: abandonedPlanProgress, resumablePlanDraft).
DraftPaidOnce == paid <= 1

\* A planning process that keeps running reaches a freeze, a contest or a
\* throw, or waits for ever for one stage, which the poll of cli/plan.mjs allows:
\* rounds, retries and resolves do not go round for ever (rounds.mjs:
\* runReviewRounds, reviseRound).
PlanEnds ==
  []<>(pc = "idle")
    \/ \E stage \in {"draft", "review", "revise", "retry"} : <>[](pc = stage)

\* Claimed at rounds.mjs:85-90, a finding against a node the revise left
\* identical "was not addressed, and stays open": the plan that freezes has had
\* every critical's node changed, or the critical judged again.
\* The code does not keep it: README, "Seen while modelling".
FrozenAnswersAll == Freezing => owed = {}

\* Claimed at pipeline.mjs:474, a contested result has no contract.json.
\* The code does not keep it: README, "Seen while modelling".
ContestedHasNoContract == (pc = "idle" /\ record.status = "contested") => contract = NoPlan
=============================================================================
