---------------------------- MODULE Integration ----------------------------
(***************************************************************************)
(* How an accepted attempt reaches the run's integration ref, and what a   *)
(* controller restart makes of a transaction it finds half done:           *)
(*   src/src/repo/integrate.mjs   the journal and the conditional update,  *)
(*   src/src/engine/settle.mjs    settleDone and its callbacks,            *)
(*   src/src/engine/resume.mjs    recoverIntegrationTransactions,          *)
(*   src/src/engine/state.mjs     snapshot then event, two writes.         *)
(*                                                                         *)
(* Every durable write (a journal line, the ref, a node snapshot, an       *)
(* event) is a step of its own, so a crash may fall between any two. The   *)
(* settlement section (module RunLoop) serialises integrations, so the     *)
(* controller has one transaction in hand; an integration the stall        *)
(* handler makes beside it is seen here as a move of the ref.              *)
(*                                                                         *)
(* A commit is the set of commit names in its history, itself included:    *)
(* `merge-base --is-ancestor' is the subset relation. A merge commit is    *)
(* named by its parents.                                                   *)
(***************************************************************************)
EXTENDS Naturals, Sequences, FiniteSets, SequencesExt

CONSTANTS
  Node,         \* the run's nodes
  MaxAttempt,   \* bound: attempts per node
  MaxMove,      \* bound: moves of the run ref by someone else
  MaxCrash      \* bound: controller losses

ASSUME AttemptAssumption == MaxAttempt \in Nat \ {0}
ASSUME MoveAssumption == MaxMove \in Nat
ASSUME CrashAssumption == MaxCrash \in Nat

Attempt == 1..MaxAttempt
Key     == Node \X Attempt          \* integrationKey(nodeId, attempt)
SETTLED == {"done", "blocked", "failed"}
Status  == {"pending", "running"} \cup SETTLED
TERMINAL == {"accepted", "failed", "conflict"}
\* Where a transaction in hand stands.
PC == {"conflict", "block", "verify", "reject", "advance", "cas", "accept", "finish", "event"}
NoTx == [pc |-> "none"]             \* no transaction in hand
JournalStatus == {"none", "prepared", "verified"} \cup TERMINAL

VARIABLES
  \* durable
  ref,        \* the run ref's tip
  jrn,        \* jrn[k]: the latest journal record of transaction k
  order,      \* keys in the order the journal first names them
  status, attempt, head,   \* node snapshots (head: integratedHead)
  base, work, \* the attempt worktree: the commit it was cut at, its head
  doneEvents, \* keys with a `done' event in events.jsonl
  \* the controller
  phase,      \* "down", "recovering" or "up"
  todo,       \* recovery: journal keys not looked at yet
  tx,         \* the transaction in hand, or NoTx
  \* environment bounds and history
  moves, crashes,
  passed      \* history: <<key, candidate>> whose verification passed

durable == <<ref, jrn, order, status, attempt, head, base, work, doneEvents>>
vars == <<durable, phase, todo, tx, moves, crashes, passed>>

Root == {<<"root">>}
NoCommit == {}
WorkId(n, a) == <<"work", n, a>>
IsAncestor(c, d) == c # NoCommit /\ c \subseteq d
\* The tree of a commit: merges add no content of their own.
Content(c) == {i \in c : i[1] # "merge"}

NoRec == [status |-> "none", prev |-> NoCommit, cand |-> NoCommit]
KeyOf(t) == <<t.node, t.attempt>>

TypeOK ==
  /\ DOMAIN jrn = Key /\ \A k \in Key : jrn[k].status \in JournalStatus
  /\ order \in Seq(Key)
  /\ status \in [Node -> Status]
  /\ attempt \in [Node -> 0..MaxAttempt]
  /\ doneEvents \subseteq Key
  /\ phase \in {"down", "recovering", "up"}
  /\ todo \in Seq(Key)
  /\ tx # NoTx => KeyOf(tx) \in Key /\ tx.pc \in PC /\ tx.live \in BOOLEAN
  /\ moves \in 0..MaxMove
  /\ crashes \in 0..MaxCrash

Init ==
  /\ ref = Root
  /\ jrn = [k \in Key |-> NoRec]
  /\ order = <<>>
  /\ status = [n \in Node |-> "pending"]
  /\ attempt = [n \in Node |-> 0]
  /\ head = [n \in Node |-> NoCommit]
  /\ base = [n \in Node |-> NoCommit]
  /\ work = [n \in Node |-> NoCommit]
  /\ doneEvents = {}
  /\ phase = "up"
  /\ todo = <<>>
  /\ tx = NoTx
  /\ moves = 0
  /\ crashes = 0
  /\ passed = {}
-----------------------------------------------------------------------------
\* appendRecord: the key's latest record is replaced; a new key is listed.
Append2Journal(k, rec) ==
  /\ jrn' = [jrn EXCEPT ![k] = rec]
  /\ order' = IF jrn[k].status = "none" THEN Append(order, k) ELSE order

Mark(t, s) ==
  Append2Journal(KeyOf(t), [status |-> s, prev |-> t.prev, cand |-> t.cand])

SetStatus(n, s) == status' = [status EXCEPT ![n] = s]
UNCHANGED_Nodes == UNCHANGED <<status, attempt, head, base, work, doneEvents>>
UNCHANGED_Journal == UNCHANGED <<jrn, order>>
UNCHANGED_Env == UNCHANGED <<phase, moves, crashes>>

At(pcs) == tx # NoTx /\ tx.pc \in pcs
Goto(label) == tx' = [tx EXCEPT !.pc = label]

\* prepareTransaction: an attempt with no diff against the tip integrates as
\* the tip, a descendant of the tip as itself, anything else as a merge -
\* which may conflict, and then there is no candidate.
Candidates(prev, sha) ==
  IF Content(prev) = Content(sha) THEN {prev}
  ELSE IF IsAncestor(prev, sha) THEN {sha}
  ELSE {prev \cup sha \cup {<<"merge", prev, sha>>}}
       \cup (IF IsAncestor(sha, prev) THEN {} ELSE {NoCommit})
-----------------------------------------------------------------------------
\* sealAttempt: the attempt's head, with one more commit if the worktree holds
\* something to commit.
Sealed(n) == {work[n], work[n] \cup {WorkId(n, attempt[n])}}

\* startWorker: a fresh attempt. Its worktree continues from the previous
\* attempt's sealed commit when that carries work, else from the run ref.
StartWorker(n) ==
  /\ phase = "up" /\ status[n] = "pending" /\ attempt[n] < MaxAttempt
  /\ \E sealed \in Sealed(n) :
       LET cut == IF work[n] # NoCommit /\ sealed # base[n] THEN sealed ELSE ref
       IN  /\ base' = [base EXCEPT ![n] = cut]
           /\ work' = [work EXCEPT ![n] = cut]
  /\ attempt' = [attempt EXCEPT ![n] = @ + 1]
  /\ SetStatus(n, "running")
  /\ UNCHANGED <<ref, head, doneEvents, todo, tx, passed>>
  /\ UNCHANGED_Journal /\ UNCHANGED_Env

\* An attempt that does not get as far as settleDone: its own verification,
\* its judge or its provider rejected it. It is retried or parked.
AttemptRejected(n) ==
  /\ phase = "up" /\ status[n] = "running"
  /\ tx # NoTx => tx.node # n
  /\ \E s \in {"pending", "failed"} : SetStatus(n, s)
  /\ UNCHANGED <<ref, attempt, head, base, work, doneEvents, todo, tx, passed>>
  /\ UNCHANGED_Journal /\ UNCHANGED_Env

\* settleDone up to the journal's `prepared' line: sealAttempt commits what
\* the attempt changed (perhaps nothing), integrateAttempt reads the tip and
\* builds the candidate. NoOwnRecord shows that the journal never holds an
\* open or accepted record of this very attempt here.
SettleDone(n) ==
  LET k == <<n, attempt[n]>> IN
  /\ phase = "up" /\ status[n] = "running" /\ tx = NoTx
  /\ jrn[k].status \in {"none", "failed", "conflict"}
  /\ \E sha \in Sealed(n) :
     \E c \in Candidates(ref, sha) :
       /\ work' = [work EXCEPT ![n] = sha]
       /\ Append2Journal(k, [status |-> "prepared", prev |-> ref, cand |-> c])
       /\ tx' = [node |-> n, attempt |-> attempt[n], prev |-> ref, cand |-> c,
                 pc |-> IF c = NoCommit THEN "conflict" ELSE "verify", live |-> TRUE]
  /\ UNCHANGED <<ref, status, attempt, head, base, doneEvents, todo, passed>>
  /\ UNCHANGED_Env

\* The conflict line, then onConflict: the node is blocked.
AppendConflict ==
  /\ At({"conflict"})
  /\ Mark(tx, "conflict")
  /\ Goto("block")
  /\ UNCHANGED <<ref, todo, passed>> /\ UNCHANGED_Nodes /\ UNCHANGED_Env

\* Mutant: recovery's callbacks act on a node whatever its status.
BlockNodeAlways ==
  /\ At({"block"})
  /\ SetStatus(tx.node, "blocked")
  /\ tx' = NoTx
  /\ UNCHANGED <<ref, attempt, head, base, work, doneEvents, todo, passed>>
  /\ UNCHANGED_Journal /\ UNCHANGED_Env

\* onConflict and onConcurrentMove. Recovery's leave a settled node alone;
\* settleDone's own act on the node being settled.
BlockNode ==
  /\ At({"block"})
  /\ IF tx.live \/ status[tx.node] \notin SETTLED
     THEN SetStatus(tx.node, "blocked")
     ELSE UNCHANGED status
  /\ tx' = NoTx
  /\ UNCHANGED <<ref, attempt, head, base, work, doneEvents, todo, passed>>
  /\ UNCHANGED_Journal /\ UNCHANGED_Env

\* Mutant: a red candidate is journalled as verified.
VerifyCandidateAnyway ==
  /\ At({"verify"})
  /\ \E green \in BOOLEAN :
       passed' = IF green THEN passed \cup {<<KeyOf(tx), tx.cand>>} ELSE passed
  /\ Mark(tx, "verified")
  /\ Goto("advance")
  /\ UNCHANGED <<ref, todo>> /\ UNCHANGED_Nodes /\ UNCHANGED_Env

\* verifyAndAdvance: the candidate is verified in its own worktree; the
\* verdict (or the throw, which counts as red) is journalled.
VerifyCandidate ==
  /\ At({"verify"})
  /\ \/ /\ passed' = passed \cup {<<KeyOf(tx), tx.cand>>}
        /\ Mark(tx, "verified")
        /\ Goto("advance")
     \/ /\ Mark(tx, "failed")
        /\ Goto("reject")
        /\ UNCHANGED passed
  /\ UNCHANGED <<ref, todo>> /\ UNCHANGED_Nodes /\ UNCHANGED_Env

\* onVerificationFailure: applyRejection hands the node a fresh attempt or
\* parks it. Recovery's callback leaves a settled node alone.
RejectCandidate ==
  /\ At({"reject"})
  /\ IF tx.live \/ status[tx.node] \notin SETTLED
     THEN \E s \in {"pending", "failed"} : SetStatus(tx.node, s)
     ELSE UNCHANGED status
  /\ tx' = NoTx
  /\ UNCHANGED <<ref, attempt, head, base, work, doneEvents, todo, passed>>
  /\ UNCHANGED_Journal /\ UNCHANGED_Env

\* Mutant: the acceptance is journalled before the ref moves.
AdvanceWithoutRef ==
  /\ At({"advance"})
  /\ Goto("accept")
  /\ UNCHANGED <<ref, todo, passed>> /\ UNCHANGED_Nodes
  /\ UNCHANGED_Journal /\ UNCHANGED_Env

\* advanceVerified up to the conditional update: the ref is read; a tip that
\* already contains the candidate is an acceptance, one that moved otherwise
\* is a concurrent move, an unmoved one goes on to the update.
AdvanceVerified ==
  /\ At({"advance"})
  /\ Goto(IF ref = tx.prev THEN "cas"
          ELSE IF IsAncestor(tx.cand, ref) THEN "accept" ELSE "block")
  /\ UNCHANGED <<ref, todo, passed>> /\ UNCHANGED_Nodes
  /\ UNCHANGED_Journal /\ UNCHANGED_Env

\* Mutant: git update-ref without the expected old value.
UpdateRefUnconditional ==
  /\ At({"cas"})
  /\ ref' = tx.cand
  /\ Goto("accept")
  /\ UNCHANGED <<todo, passed>> /\ UNCHANGED_Nodes
  /\ UNCHANGED_Journal /\ UNCHANGED_Env

\* updateRefConditional: git moves the ref only if it still is the tip the
\* transaction was prepared on; a refusal is a concurrent move.
UpdateRefConditional ==
  /\ At({"cas"})
  /\ \/ ref = tx.prev /\ ref' = tx.cand /\ Goto("accept")
     \/ ref # tx.prev /\ Goto("block") /\ UNCHANGED ref
  /\ UNCHANGED <<todo, passed>> /\ UNCHANGED_Nodes
  /\ UNCHANGED_Journal /\ UNCHANGED_Env

\* appendAccepted.
AppendAccepted ==
  /\ At({"accept"})
  /\ Mark(tx, "accepted")
  /\ Goto("finish")
  /\ UNCHANGED <<ref, todo, passed>> /\ UNCHANGED_Nodes /\ UNCHANGED_Env

\* onAccepted, first write: the node's snapshot becomes done, if the node is
\* still on this attempt. Recovery does nothing when a done event of this
\* attempt is on record: everything the transaction owns was applied.
WriteDone ==
  LET n == tx.node
      applies == attempt[n] = tx.attempt /\ (tx.live \/ KeyOf(tx) \notin doneEvents) IN
  /\ At({"finish"})
  /\ \/ /\ applies /\ status[n] # "done"
        /\ SetStatus(n, "done")
        /\ head' = [head EXCEPT ![n] = tx.cand]
        /\ Goto("event")
     \/ /\ applies /\ status[n] = "done"
        /\ Goto("event")
        /\ UNCHANGED <<status, head>>
     \/ /\ ~applies
        /\ tx' = NoTx
        /\ UNCHANGED <<status, head>>
  /\ UNCHANGED <<ref, attempt, base, work, doneEvents, todo, passed>>
  /\ UNCHANGED_Journal /\ UNCHANGED_Env

\* onAccepted, second write: the done event (by transition itself or by
\* ensureTerminalEvent), then the attempt worktree is removed.
WriteDoneEvent ==
  /\ At({"event"})
  /\ doneEvents' = doneEvents \cup {KeyOf(tx)}
  /\ work' = [work EXCEPT ![tx.node] = NoCommit]
  /\ tx' = NoTx
  /\ UNCHANGED <<ref, status, attempt, head, base, todo, passed>>
  /\ UNCHANGED_Journal /\ UNCHANGED_Env
-----------------------------------------------------------------------------
\* The controller dies: what it had in hand is gone, what it wrote is not.
Crash ==
  /\ phase # "down" /\ crashes < MaxCrash
  /\ phase' = "down"
  /\ crashes' = crashes + 1
  /\ tx' = NoTx
  /\ todo' = <<>>
  /\ UNCHANGED <<durable, moves, passed>>

\* resumeRun takes the lock and starts recoverIntegrations over the journal.
Resume ==
  /\ phase = "down"
  /\ phase' = "recovering"
  /\ todo' = order
  /\ UNCHANGED <<durable, tx, moves, crashes, passed>>

\* The record recovery looks at, as a transaction in recovery's hands.
Recovered(k, label) ==
  [node |-> k[1], attempt |-> k[2], prev |-> jrn[k].prev, cand |-> jrn[k].cand,
   pc |-> label, live |-> FALSE]

Recovering(s) ==
  /\ phase = "recovering" /\ tx = NoTx /\ todo # <<>>
  /\ jrn[Head(todo)].status = s

\* Mutant: recovery does not replay an acceptance already journalled.
RecoverAcceptedSkips ==
  /\ Recovering("accepted")
  /\ todo' = Tail(todo)
  /\ UNCHANGED <<durable, tx, passed>> /\ UNCHANGED_Env

\* An accepted record: finishAccepted replays onAccepted.
RecoverAccepted ==
  /\ Recovering("accepted")
  /\ tx' = Recovered(Head(todo), "finish")
  /\ todo' = Tail(todo)
  /\ UNCHANGED <<durable, passed>> /\ UNCHANGED_Env

\* A failed or conflicting record only has its candidate cleaned up.
RecoverDead ==
  /\ \E s \in {"failed", "conflict"} : Recovering(s)
  /\ todo' = Tail(todo)
  /\ UNCHANGED <<durable, tx, passed>> /\ UNCHANGED_Env

\* A prepared record proves nothing. Without a candidate it was a conflict;
\* with the ref moved it is a concurrent move, wherever the ref went; a merge
\* candidate whose object git no longer has is a conflict; otherwise it is
\* verified again, and recovery returns with that transaction's outcome.
RecoverPrepared ==
  /\ Recovering("prepared")
  /\ LET k == Head(todo) IN
     \/ /\ jrn[k].cand = NoCommit
        /\ tx' = Recovered(k, "conflict") /\ todo' = Tail(todo)
     \/ /\ jrn[k].cand # NoCommit /\ ref # jrn[k].prev
        /\ tx' = Recovered(k, "block") /\ todo' = Tail(todo)
     \/ /\ \E i \in jrn[k].cand \ ref : i[1] = "merge"
        /\ ref = jrn[k].prev
        /\ tx' = Recovered(k, "conflict") /\ todo' = Tail(todo)
     \/ /\ jrn[k].cand # NoCommit /\ ref = jrn[k].prev
        /\ tx' = Recovered(k, "verify") /\ todo' = <<>>
  /\ UNCHANGED <<durable, passed>> /\ UNCHANGED_Env

\* A verified record: accepted if the ref already contains its candidate, a
\* concurrent move if it went elsewhere, else the update is made now, and
\* recovery returns with its outcome.
RecoverVerified ==
  /\ Recovering("verified")
  /\ LET k == Head(todo) IN
     \/ /\ ref # jrn[k].prev /\ IsAncestor(jrn[k].cand, ref)
        /\ tx' = Recovered(k, "accept") /\ todo' = Tail(todo)
     \/ /\ ref # jrn[k].prev /\ ~IsAncestor(jrn[k].cand, ref)
        /\ tx' = Recovered(k, "block") /\ todo' = Tail(todo)
     \/ /\ ref = jrn[k].prev
        /\ tx' = Recovered(k, "advance") /\ todo' = <<>>
  /\ UNCHANGED <<durable, passed>> /\ UNCHANGED_Env

\* Recovery is over; the rest of resumeRun hands parked nodes back to the
\* scheduler (all of them, or the ones `--node' names), then driveRun runs.
RecoverNodes ==
  /\ phase = "recovering" /\ tx = NoTx /\ todo = <<>>
  /\ phase' = "up"
  /\ \E retried \in SUBSET {n \in Node : status[n] \in {"blocked", "failed"}} :
       status' = [n \in Node |-> IF n \in retried THEN "pending" ELSE status[n]]
  /\ UNCHANGED <<ref, attempt, head, base, work, doneEvents, todo, tx, moves, crashes, passed>>
  /\ UNCHANGED_Journal

\* Someone else fast-forwards the run ref: to a commit of their own on top of
\* the tip, or to a candidate they found in the repository.
ExternalMove ==
  /\ moves < MaxMove
  /\ moves' = moves + 1
  /\ ref' \in {ref \cup {<<"external", moves>>}} \cup {jrn[k].cand : k \in Key}
  /\ ref \subseteq ref' /\ ref' # ref
  /\ UNCHANGED <<jrn, order, status, attempt, head, base, work, doneEvents>>
  /\ UNCHANGED <<phase, todo, tx, crashes, passed>>

\* One step of the transaction in hand.
TxStep ==
  \/ AppendConflict \/ BlockNode \/ VerifyCandidate \/ RejectCandidate
  \/ AdvanceVerified \/ UpdateRefConditional \/ AppendAccepted
  \/ WriteDone \/ WriteDoneEvent

\* One step of recovery between transactions.
RecoverStep ==
  \/ RecoverAccepted \/ RecoverDead \/ RecoverPrepared \/ RecoverVerified
  \/ RecoverNodes

Next ==
  \/ \E n \in Node : StartWorker(n) \/ AttemptRejected(n) \/ SettleDone(n)
  \/ TxStep
  \/ Crash \/ Resume \/ RecoverStep
  \/ ExternalMove

Spec == Init /\ [][Next]_vars

\* A transaction in hand and a recovery under way are sequential code that
\* runs on; the supervisor relaunches a dead controller.
Fairness == WF_vars(TxStep) /\ WF_vars(Resume) /\ WF_vars(RecoverStep)
FairSpec == Spec /\ Fairness
-----------------------------------------------------------------------------
\* Nothing is accepted that was not verified: an accepted record's candidate
\* passed verification as this transaction's candidate. Recovery never takes
\* ancestry alone for a proof (integrate.mjs, recoverIntegrations).
AcceptedWasVerified ==
  \A k \in Key : jrn[k].status = "accepted" => <<k, jrn[k].cand>> \in passed

\* `Never write done before the ref has moved': a done node's integrated head
\* is in the run ref's history, and the journal says so - at every crash point
\* and whatever others commit on top.
DoneIsIntegrated ==
  \A n \in Node : status[n] = "done" =>
    /\ IsAncestor(head[n], ref)
    /\ jrn[<<n, attempt[n]>>].status = "accepted"
    /\ jrn[<<n, attempt[n]>>].cand = head[n]

\* When settleDone starts on an attempt, the journal holds no open and no
\* accepted record of that attempt: integrateAttempt's branches for those
\* (which would hand the whole journal to one node's callbacks) stay dead.
NoOwnRecord ==
  \A n \in Node :
    phase = "up" /\ status[n] = "running" /\ (tx # NoTx => tx.node # n)
      => jrn[<<n, attempt[n]>>].status \in {"none", "failed", "conflict"}

\* The snapshot and the event log agree once recovery is over: a done node has
\* its done event, although the two are written one after the other.
DoneHasEvent ==
  \A n \in Node :
    phase = "up" /\ status[n] = "done" /\ (tx # NoTx => tx.node # n)
      => <<n, attempt[n]>> \in doneEvents

\* The run ref only fast-forwards: no transaction, stale or recovered, ever
\* takes a commit out of it.
RefFastForwards == [][ref \subseteq ref']_vars

\* done is final: no later transaction, no recovery of an older attempt's
\* record, takes a node out of done or changes what it integrated.
DoneIsFinal ==
  [][\A n \in Node : status[n] = "done" => status'[n] = "done" /\ head'[n] = head[n]]_vars

\* An acceptance is never lost: once the journal accepts the attempt a node is
\* on, the node becomes done, through any crash.
AcceptedBecomesDone ==
  \A k \in Key :
    jrn[k].status = "accepted" /\ attempt[k[1]] = k[2] ~> status[k[1]] = "done"

\* The durable state as a reader of the ref and the snapshots sees it.
Promise == INSTANCE RunRef WITH
  tip <- ref,
  verified <- {p[2] : p \in passed},
  landed <- [n \in Node |-> IF status[n] = "done" THEN head[n] ELSE NoCommit]

\* The integration implements what the run promises of its ref (module RunRef):
\* through that mapping it only ever takes RunRef's steps, whichever controller
\* takes them and wherever one dies (integrate.mjs: verifyAndAdvance,
\* updateRefConditional, recoverIntegrations).
ImplementsRunRef == Promise!Spec

\* Resume's own promise (resume.mjs, header): a node found running is adopted,
\* re-judged or retried on its own evidence - so a record of an EARLIER
\* attempt does not change the node's status.
\* The code does not keep it: README, "Seen while modelling".
StaleRecordInert ==
  [][tx # NoTx /\ tx.attempt # attempt[tx.node] => status'[tx.node] = status[tx.node]]_vars
=============================================================================
