---------------------------- MODULE RunLoopProofs ---------------------------
(***************************************************************************)
(* What RunLoop guarantees for every contract, every number of nodes and   *)
(* controllers, and every order of the tick's and the settlements' steps.  *)
(*                                                                         *)
(* A node is in one hand at a time: a live job, a settlement that has not  *)
(* decided yet, the stall handler, or the tick.  So a slot is never taken  *)
(* twice: what a settlement starts takes the place its own node held, and  *)
(* only the dispatch pass adds a node to those that hold one.  A node that *)
(* is in hand has all its dependencies done, and done is for good, so      *)
(* nothing blocks it; and a node is blocked behind one the automatic retry *)
(* has already passed over, as long as run.json keeps what that retry      *)
(* wrote: a relaunch of the supervisor may write over it.                  *)
(***************************************************************************)
EXTENDS RunLoop, FiniteSetTheorems, SequenceTheorems, TLAPS

\* Where a settlement has not decided on its node.
Undecided == Step \ {"none", "end"}

\* The nodes that take a slot: a live job, or a settle window.
Slots == running \cup Settling
Ceiling == Cardinality(Slots) <= MaxParallel

DepsDone(n) == \A d \in DepsOf(n) : status[d] = "done"

Hands ==
  \A n \in Node :
    /\ n \in running => status[n] = "running" /\ step[n] \in {"none", "end"}
    /\ step[n] \in Undecided => status[n] \in {"running", "pending"}
    /\ status[n] = "running" \/ step[n] \in Undecided => DepsDone(n)
    /\ step[n] # "none" => n \in Settling

\* The node the stall handler integrates itself.
Inline ==
  inline # NoNode =>
    /\ pc = "stalls" /\ inline \notin running
    /\ status[inline] = "running" /\ step[inline] \in {"none", "end"}

\* The slot and its waiters: each settlement once, and none of them proving.
Queue ==
  /\ \A i \in 1..Len(section) : step[section[i]] \notin {"none", "proof"}
  /\ \A i, j \in 1..Len(section) : section[i] = section[j] => i = j

\* No automatic retry that run.json does not hold, or held and lost.
Ledger == \A n \in Node : autos[n] <= erased[n] + (IF n \in autoRetries THEN 1 ELSE 0)

\* A loop that ended decided everything; one that is gone holds nothing.
Ended ==
  /\ pc \in {"drain", "stopped"} =>
       /\ running = {}
       /\ \A n \in Node : Settled(n) /\ step[n] \in {"none", "end"}
  /\ pc \in {"stopped", "down"} => running = {} /\ Settling = {} /\ section = <<>>

\* A node is blocked behind one that no automatic retry reopens, or whose record
\* of one was written over.
PassedOver(d) ==
  status[d] = "parked" /\ ~(code[d] = "retryable" /\ d \notin parkedBefore \cup autoRetries)
Stays(d) == PassedOver(d) \/ erased[d] > 0

Blocked ==
  \A n \in Node \ parkedBefore : status[n] = "parked" /\ code[n] = "dependency" =>
    \E d \in DepsOf(n) : Stays(d)

IInv ==
  TypeOK /\ Ceiling /\ Hands /\ Inline /\ Queue /\ Ledger /\ Ended /\ Blocked

\* What a node carries from step to step beside its state, and run.json.
Carried ==
  /\ revisions \in [Node -> 0..MaxRevisions]
  /\ reask \in [Node -> BOOLEAN] /\ jfail \in [Node -> BOOLEAN]
  /\ route \in [Node -> [Role -> Runtime]] /\ wait \in [Node -> Wait] /\ routes \in [Node -> Nat]
Recorded ==
  /\ autoRetries \subseteq Node /\ copy \subseteq SUBSET Node
  /\ autos \in [Node -> Nat] /\ erased \in [Node -> Nat]

USE ContractAssumption, BoundAssumption, NoneAssumption, FiniteAssumption
    DEF Role, retries, routing
-----------------------------------------------------------------------------
(* The queue of the one slot.                                              *)

LEMMA SeqOfSet ==
  ASSUME NEW S \in SUBSET Node, NEW q \in SetToSeqs(S)
  PROVE  /\ q \in Seq(Node) /\ Len(q) \in Nat
         /\ \A i \in 1..Len(q) : q[i] \in S
         /\ \A i, j \in 1..Len(q) : q[i] = q[j] => i = j
<1>1. Cardinality(S) \in Nat
  BY FS_Subset, FS_CardinalityType
<1>2. q \in [1..Cardinality(S) -> S] /\ \A i, j \in 1..Cardinality(S) : i # j => q[i] # q[j]
  BY Zenon DEF SetToSeqs
<1>3. q \in Seq(S)
  BY <1>1, <1>2
<1>4. Len(q) = Cardinality(S)
  BY <1>1, <1>2
<1>5. q \in Seq(Node)
  BY <1>3, SeqMonotonic
<1> QED
  BY <1>1, <1>2, <1>3, <1>4, <1>5, ElementOfSeq

Distinct(s) == \A i, j \in 1..Len(s) : s[i] = s[j] => i = j
Avoids(s, S) == \A i \in 1..Len(s) : s[i] \notin S
\* Whatever t lists is in S or listed by s.
From(t, S, s) == \A i \in 1..Len(t) : t[i] \in S \/ \E j \in 1..Len(s) : t[i] = s[j]

\* Settlements that queue behind those that already do.
LEMMA Enqueue ==
  ASSUME NEW s \in Seq(Node), NEW S \in SUBSET Node, NEW q \in SetToSeqs(S),
         Distinct(s), Avoids(s, S)
  PROVE  s \o q \in Seq(Node) /\ Distinct(s \o q) /\ From(s \o q, S, s)
<1> USE DEF Distinct, Avoids, From
<1> DEFINE t == s \o q
<1>1. /\ q \in Seq(Node) /\ Len(q) \in Nat
      /\ \A i \in 1..Len(q) : q[i] \in S
      /\ \A i, j \in 1..Len(q) : q[i] = q[j] => i = j
  BY SeqOfSet
<1>2. Len(s) \in Nat
  BY LenProperties
<1>3. /\ t \in Seq(Node) /\ Len(t) = Len(s) + Len(q)
      /\ \A i \in 1..Len(s) + Len(q) : t[i] = IF i <= Len(s) THEN s[i] ELSE q[i - Len(s)]
  BY <1>1, ConcatProperties
<1> HIDE DEF t
<1>4. ASSUME NEW i \in 1..Len(t)
      PROVE  \/ /\ i \in 1..Len(s) /\ t[i] = s[i]
             \/ /\ i > Len(s) /\ i - Len(s) \in 1..Len(q) /\ t[i] = q[i - Len(s)]
  BY <1>1, <1>2, <1>3
<1>5. ASSUME NEW i \in 1..Len(t), NEW j \in 1..Len(t), t[i] = t[j] PROVE i = j
  <2>1. CASE i <= Len(s)
    <3>1. i \in 1..Len(s) /\ t[i] = s[i] /\ s[i] \notin S
      BY <1>2, <1>4, <2>1
    <3>2. j \in 1..Len(s) /\ t[j] = s[j]
      BY <1>1, <1>4, <1>5, <3>1
    <3> QED
      BY <1>5, <3>1, <3>2
  <2>2. CASE i > Len(s)
    <3>1. i - Len(s) \in 1..Len(q) /\ t[i] = q[i - Len(s)] /\ t[i] \in S
      BY <1>1, <1>2, <1>4, <2>2
    <3>2. j - Len(s) \in 1..Len(q) /\ t[j] = q[j - Len(s)]
      BY <1>4, <1>5, <3>1
    <3>3. i - Len(s) = j - Len(s)
      BY <1>1, <1>5, <3>1, <3>2
    <3> QED
      BY <1>2, <3>3
  <2> QED
    BY <1>2, <2>1, <2>2
<1>6. \A i \in 1..Len(t) : t[i] \in S \/ \E j \in 1..Len(s) : t[i] = s[j]
  BY <1>1, <1>4
<1> QED
  BY <1>3, <1>5, <1>6 DEF t

\* The settlement at the head leaves; the others keep their order.
LEMMA Dequeue ==
  ASSUME NEW s \in Seq(Node), s # <<>>,
         \A i, j \in 1..Len(s) : s[i] = s[j] => i = j
  PROVE  /\ Tail(s) \in Seq(Node) /\ Head(s) \in Node /\ Head(s) = s[1] /\ 1 \in 1..Len(s)
         /\ \A i, j \in 1..Len(Tail(s)) : Tail(s)[i] = Tail(s)[j] => i = j
         /\ \A i \in 1..Len(Tail(s)) : /\ Tail(s)[i] # Head(s)
                                       /\ \E j \in 1..Len(s) : Tail(s)[i] = s[j]
<1> DEFINE t == Tail(s)
<1>1. /\ Head(s) \in Node /\ t \in Seq(Node) /\ Len(t) = Len(s) - 1
      /\ \A i \in 1..Len(t) : t[i] = s[i + 1]
  BY HeadTailProperties
<1>2. Len(s) \in Nat /\ Len(s) # 0
  BY EmptySeq, LenProperties
<1>3. Head(s) = s[1]
  OBVIOUS
<1> HIDE DEF t
<1>4. ASSUME NEW i \in 1..Len(t) PROVE i + 1 \in 1..Len(s) /\ i + 1 # 1
  BY <1>1, <1>2
<1>5. 1 \in 1..Len(s)
  BY <1>2
<1>6. ASSUME NEW i \in 1..Len(t), NEW j \in 1..Len(t), t[i] = t[j] PROVE i = j
  <2>1. i + 1 = j + 1
    BY <1>1, <1>4, <1>6
  <2> QED
    BY <1>1, <1>2, <2>1
<1>7. ASSUME NEW i \in 1..Len(t) PROVE t[i] # s[1]
  BY <1>1, <1>4, <1>5
<1> QED
  BY <1>1, <1>3, <1>4, <1>5, <1>6, <1>7 DEF t

\* One settlement queues again after its proof.
LEMMA AppendOne ==
  ASSUME NEW s \in Seq(Node), NEW n \in Node,
         \A i, j \in 1..Len(s) : s[i] = s[j] => i = j,
         \A i \in 1..Len(s) : s[i] # n
  PROVE  /\ Append(s, n) \in Seq(Node)
         /\ \A i, j \in 1..Len(Append(s, n)) : Append(s, n)[i] = Append(s, n)[j] => i = j
         /\ \A i \in 1..Len(Append(s, n)) :
              Append(s, n)[i] = n \/ \E j \in 1..Len(s) : Append(s, n)[i] = s[j]
<1> DEFINE t == Append(s, n)
<1>1. /\ t \in Seq(Node) /\ Len(t) = Len(s) + 1
      /\ \A i \in 1..Len(s) : t[i] = s[i]
      /\ t[Len(s) + 1] = n
  BY AppendProperties
<1>2. Len(s) \in Nat
  BY LenProperties
<1> HIDE DEF t
<1>3. ASSUME NEW i \in 1..Len(t)
      PROVE  \/ i \in 1..Len(s) /\ t[i] = s[i]
             \/ i = Len(s) + 1 /\ t[i] = n
  BY <1>1, <1>2
<1>4. ASSUME NEW i \in 1..Len(t), NEW j \in 1..Len(t), t[i] = t[j] PROVE i = j
  BY <1>3, <1>4
<1> QED
  BY <1>1, <1>3, <1>4 DEF t
-----------------------------------------------------------------------------
(* What a step makes of the node it has in hand.                           *)

\* It gives the node its state, and the node's job lives on or is over with it.
Decides(n) ==
  \E s \in Status, g \in Role, c \in Code \ {"dependency"} :
    /\ Transition(n, s, g, c)
    /\ running' = IF s = "running" THEN running \cup {n} ELSE running \ {n}

\* It may take the node's automatic retry.
Retries(n) ==
  \/ UNCHANGED retries
  \/ /\ n \notin autoRetries /\ autoRetries' = autoRetries \cup {n}
     /\ autos' = [autos EXCEPT ![n] = @ + 1]
     /\ UNCHANGED <<copy, erased>>

\* Or a settlement goes on to its next await.
Advances(n) ==
  /\ UNCHANGED <<status, stage, code, running>>
  /\ \E t \in Undecided :
       /\ step' = [step EXCEPT ![n] = t]
       /\ \/ t = "proof" /\ section # <<>> /\ Head(section) = n /\ section' = Tail(section)
          \/ t # "proof" /\ step[n] # "proof" /\ UNCHANGED section
          \/ t # "proof" /\ step[n] = "proof" /\ section' = Append(section, n)

Settles(n) ==
  /\ step[n] \in Undecided
  /\ \/ Decides(n) /\ step' = [step EXCEPT ![n] = "end"] /\ UNCHANGED section
     \/ Advances(n)
  /\ Retries(n)
  /\ Carried' /\ continued' \subseteq Node
  /\ UNCHANGED <<pc, canceled, parkedBefore, closed, held, inline, lives>>

LEMMA DecidesTo ==
  ASSUME NEW n, NEW s \in Status, NEW g \in Role, NEW c \in Code \ {"dependency"},
         Transition(n, s, g, c),
         running' = IF s = "running" THEN running \cup {n} ELSE running \ {n}
  PROVE  Decides(n)
  BY Zenon DEF Decides

LEMMA ParkDecides ==
  ASSUME TypeOK, NEW n \in Node, NEW c \in {"retryable", "final"}, Park(n, c),
         running' = running \ {n}
  PROVE  Decides(n)
<1>1. stage[n] \in Role /\ "parked" \in Status /\ c \in Code \ {"dependency"}
  BY DEF TypeOK, Status, Code
<1>2. Transition(n, "parked", stage[n], c)
  BY Zenon DEF Park
<1> QED
  BY <1>1, <1>2, DecidesTo

LEMMA ReopenDecides ==
  ASSUME NEW n, NEW g \in Role, Transition(n, "pending", g, "none"),
         running' = running \ {n}
  PROVE  Decides(n)
<1>1. "pending" \in Status /\ "none" \in Code \ {"dependency"}
  BY DEF Status, Code
<1> QED
  BY <1>1, DecidesTo

LEMMA LaunchDecides ==
  ASSUME NEW n, NEW g \in Role, Launch(n, g)
  PROVE  Decides(n)
<1>1. "running" \in Status /\ "none" \in Code \ {"dependency"}
  BY DEF Status, Code
<1>2. Transition(n, "running", g, "none") /\ running' = running \cup {n}
  BY Zenon DEF Launch
<1> QED
  BY <1>1, <1>2, DecidesTo

LEMMA FailDecides ==
  ASSUME TypeOK, NEW n \in Node, FailJob(n), running' = running \ {n}
  PROVE  Decides(n) /\ Retries(n)
<1>1. CASE AutoRetry(n)
  <2>1. stage[n] \in Role
    BY DEF TypeOK
  <2>2. Transition(n, "pending", stage[n], "none") /\ Retries(n)
    BY <1>1, Zenon DEF AutoRetry, Retries
  <2> QED
    BY <2>1, <2>2, ReopenDecides
<1>2. CASE Park(n, "retryable") /\ UNCHANGED retries
  BY <1>2, ParkDecides DEF Retries
<1>3. CASE Park(n, "final") /\ UNCHANGED retries
  BY <1>3, ParkDecides DEF Retries
<1> QED
  BY <1>1, <1>2, <1>3, Zenon DEF FailJob

\* Where a node goes next, and what it waits for, is always a runtime's.
LEMMA ResetCarries ==
  ASSUME TypeOK, NEW n \in Node, RouteReset(n)
  PROVE  /\ route' \in [Node -> [Role -> Runtime]] /\ wait' \in [Node -> Wait]
         /\ routes' \in [Node -> Nat]
<1>1. PICK r \in {Rt(n, "worker"), Assigned(n).worker} :
        route' = [route EXCEPT ![n].worker = r]
  BY DEF RouteReset
<1>2. /\ route \in [Node -> [Role -> Runtime]] /\ wait \in [Node -> Wait]
      /\ routes \in [Node -> Nat] /\ contract \in ContractType
  BY DEF TypeOK
<1>3. r \in Runtime
  BY <1>2 DEF Rt, Assigned, ContractType
<1>4. route' \in [Node -> [Role -> Runtime]]
  BY <1>1, <1>2, <1>3
<1>5. wait' = [wait EXCEPT ![n] = Ready] /\ routes' = routes /\ Ready \in Wait
  BY DEF RouteReset, Wait
<1> QED
  BY <1>2, <1>4, <1>5

LEMMA RerouteDecides ==
  ASSUME TypeOK, NEW n \in Node, n \notin running, Reroute(n), UNCHANGED running
  PROVE  /\ Decides(n)
         /\ route' \in [Node -> [Role -> Runtime]] /\ wait' \in [Node -> Wait]
         /\ routes' \in [Node -> Nat]
<1>1. stage[n] \in Role /\ running' = running \ {n}
  BY DEF TypeOK
<1>2. Decides(n)
  BY <1>1, ReopenDecides DEF Reroute
<1>3. /\ route \in [Node -> [Role -> Runtime]] /\ wait \in [Node -> Wait]
      /\ routes \in [Node -> Nat]
  BY DEF TypeOK
<1>4. routes' \in [Node -> Nat]
  BY <1>3 DEF Reroute
<1>5. \A kind \in {"reset", "delay"} : [kind |-> kind, role |-> stage[n]] \in Wait
  BY <1>1 DEF Wait
<1>6. wait' \in [Node -> Wait]
  <2>1. PICK kind \in {"reset", "delay"} :
          wait' = [wait EXCEPT ![n] = [kind |-> kind, role |-> stage[n]]]
    BY DEF Reroute
  <2> QED
    BY <1>3, <1>5, <2>1
<1>7. route' \in [Node -> [Role -> Runtime]]
  <2>1. CASE UNCHANGED route
    BY <1>3, <2>1
  <2>2. ASSUME NEW r \in Runtime, route' = [route EXCEPT ![n][stage[n]] = r]
        PROVE  route' \in [Node -> [Role -> Runtime]]
    BY <1>1, <1>3, <2>2
  <2> QED
    BY <2>1, <2>2 DEF Reroute
<1> QED
  BY <1>2, <1>4, <1>6, <1>7

\* What a decision that leaves the bounds or the route alone carries on.
LEMMA CarriedOn ==
  ASSUME TypeOK, UNCHANGED contract,
         revisions' \in [Node -> 0..MaxRevisions],
         reask' \in [Node -> BOOLEAN], jfail' \in [Node -> BOOLEAN],
         \/ UNCHANGED routing
         \/ /\ route' \in [Node -> [Role -> Runtime]] /\ wait' \in [Node -> Wait]
            /\ routes' \in [Node -> Nat]
  PROVE  Carried'
<1>1. MaxRevisions' = MaxRevisions
  BY DEF MaxRevisions
<1>2. /\ route \in [Node -> [Role -> Runtime]] /\ wait \in [Node -> Wait]
      /\ routes \in [Node -> Nat]
  BY DEF TypeOK
<1>3. /\ route' \in [Node -> [Role -> Runtime]] /\ wait' \in [Node -> Wait]
      /\ routes' \in [Node -> Nat]
  BY <1>2
<1> QED
  BY <1>1, <1>3, Zenon DEF Carried

LEMMA RejectDecides ==
  ASSUME TypeOK, NEW n \in Node, n \notin running, NEW dispatch \in BOOLEAN, Reject(n, dispatch)
  PROVE  /\ Decides(n) /\ revisions' \in [Node -> 0..MaxRevisions]
         /\ \/ UNCHANGED routing
            \/ /\ route' \in [Node -> [Role -> Runtime]] /\ wait' \in [Node -> Wait]
               /\ routes' \in [Node -> Nat]
         /\ ~dispatch => n \notin running'
<1>1. running \ {n} = running
  OBVIOUS
<1>2. CASE /\ revisions[n] < MaxRevisions
           /\ revisions' = [revisions EXCEPT ![n] = @ + 1]
           /\ RouteReset(n)
           /\ IF dispatch /\ AuxAdmits(running, route'[n].worker)
              THEN Launch(n, "worker") \/ (Park(n, "final") /\ UNCHANGED running)
              ELSE Transition(n, "pending", "worker", "none") /\ UNCHANGED running
  <2>1. revisions' \in [Node -> 0..MaxRevisions]
    <3>1. revisions \in [Node -> 0..MaxRevisions] /\ MaxRevisions \in Nat
      BY DEF TypeOK, MaxRevisions, ContractType
    <3>2. revisions[n] + 1 \in 0..MaxRevisions
      BY <1>2, <3>1
    <3> QED
      BY <1>2, <3>1, <3>2
  <2>2. /\ route' \in [Node -> [Role -> Runtime]] /\ wait' \in [Node -> Wait]
        /\ routes' \in [Node -> Nat]
    BY <1>2, ResetCarries
  <2>3. CASE dispatch /\ Launch(n, "worker")
    BY <2>1, <2>2, <2>3, LaunchDecides
  <2>4. CASE Park(n, "final") /\ UNCHANGED running
    BY <1>1, <2>1, <2>2, <2>4, ParkDecides
  <2>5. CASE Transition(n, "pending", "worker", "none") /\ UNCHANGED running
    BY <1>1, <2>1, <2>2, <2>5, ReopenDecides
  <2> QED
    BY <1>2, <2>3, <2>4, <2>5, Zenon
<1>3. CASE Park(n, "final") /\ UNCHANGED <<revisions, running, routing>>
  BY <1>1, <1>3, ParkDecides DEF TypeOK
<1> QED
  BY <1>2, <1>3, Zenon DEF Reject

LEMMA IntegratedDecides ==
  ASSUME TypeOK, NEW n \in Node, n \notin running, Integrated(n)
  PROVE  /\ Decides(n) /\ revisions' \in [Node -> 0..MaxRevisions]
         /\ \/ UNCHANGED routing
            \/ /\ route' \in [Node -> [Role -> Runtime]] /\ wait' \in [Node -> Wait]
               /\ routes' \in [Node -> Nat]
         /\ n \notin running'
<1>1. running \ {n} = running
  OBVIOUS
<1>2. CASE Transition(n, "done", stage[n], "none") /\ UNCHANGED <<revisions, running, routing>>
  <2>1. "done" \in Status /\ "none" \in Code \ {"dependency"} /\ stage[n] \in Role
        /\ revisions \in [Node -> 0..MaxRevisions]
    BY DEF Status, Code, TypeOK
  <2> QED
    BY <1>1, <1>2, <2>1, DecidesTo
<1>3. CASE Reject(n, FALSE)
  BY <1>3, RejectDecides
<1>4. CASE Park(n, "final") /\ UNCHANGED <<revisions, running, routing>>
  BY <1>1, <1>4, ParkDecides DEF TypeOK
<1> QED
  BY <1>2, <1>3, <1>4, Zenon DEF Integrated

LEMMA SettlementTurns ==
  ASSUME IInv, NEW n \in Node, Settlement(n), UNCHANGED contract
  PROVE  Settles(n) \/ SettlementEnds(n)
<1> SUFFICES ASSUME ~SettlementEnds(n) PROVE Settles(n)
  OBVIOUS
<1> USE DEF UNCHANGED_Loop
<1>1. TypeOK /\ Hands
  BY DEF IInv
<1>2. /\ reask \in [Node -> BOOLEAN] /\ jfail \in [Node -> BOOLEAN]
      /\ revisions \in [Node -> 0..MaxRevisions] /\ continued \subseteq Node
      /\ stage[n] \in Role
  BY <1>1 DEF TypeOK
<1>3. {"outcome", "proof", "green", "red", "start", "gate", "integrate"} = Undecided
  BY DEF Undecided, Step
<1>4. step[n] \in Undecided
  BY <1>3 DEF Settlement, WorkerClosed, ProofEnds, ProofSettled, JudgeStarts, GateDecides,
              JudgeClosed, Integrate, Holds
<1>5. n \notin running /\ running \ {n} = running
  BY <1>1, <1>4 DEF Hands, Undecided
<1>6. ASSUME Decides(n), StepTo(n, "end"), UNCHANGED section, Retries(n), Carried',
             continued' \subseteq Node,
             UNCHANGED <<pc, canceled, parkedBefore, closed, held, inline, lives>>
      PROVE  Settles(n)
  BY <1>4, <1>6, Zenon DEF Settles, StepTo
<1>7. ASSUME NEW t \in Undecided \ {"proof"}, StepTo(n, t), step[n] # "proof",
             UNCHANGED <<status, stage, code, running, section>>, Retries(n), Carried',
             continued' \subseteq Node,
             UNCHANGED <<pc, canceled, parkedBefore, closed, held, inline, lives>>
      PROVE  Settles(n)
  <2>1. Advances(n)
    BY <1>7, Zenon DEF Advances, StepTo
  <2> QED
    BY <1>4, <1>7, <2>1 DEF Settles
<1>8. CASE WorkerClosed(n)
  <2> USE <1>8 DEF WorkerClosed
  <2>0. reask' = reask /\ jfail' = jfail
        /\ UNCHANGED <<pc, canceled, parkedBefore, closed, held, inline, lives>>
    BY Zenon
  <2>1. CASE /\ n \notin continued /\ continued' = continued \cup {n}
             /\ Launch(n, "worker") /\ StepTo(n, "end")
             /\ UNCHANGED <<revisions, section, routing, retries>>
    <3>1. Decides(n) /\ Retries(n)
      BY <2>1, LaunchDecides DEF Retries
    <3>2. Carried' /\ continued' \subseteq Node
      BY <1>1, <1>2, <2>0, <2>1, CarriedOn
    <3> QED
      BY <1>6, <2>0, <2>1, <3>1, <3>2
  <2>2. CASE continued' = continued \ {n} /\ FailJob(n) /\ StepTo(n, "end")
             /\ UNCHANGED <<running, revisions, section, routing>>
    <3>1. Decides(n) /\ Retries(n)
      BY <1>1, <1>5, <2>2, FailDecides
    <3>2. Carried' /\ continued' \subseteq Node
      BY <1>1, <1>2, <2>0, <2>2, CarriedOn
    <3> QED
      BY <1>6, <2>0, <2>2, <3>1, <3>2
  <2>3. CASE continued' = continued \ {n} /\ Reroute(n) /\ StepTo(n, "end")
             /\ UNCHANGED <<running, revisions, section, retries>>
    <3>1. /\ Decides(n) /\ Retries(n)
          /\ route' \in [Node -> [Role -> Runtime]] /\ wait' \in [Node -> Wait]
          /\ routes' \in [Node -> Nat]
      BY <1>1, <1>5, <2>3, RerouteDecides DEF Retries
    <3>2. Carried' /\ continued' \subseteq Node
      BY <1>1, <1>2, <2>0, <2>3, <3>1, CarriedOn
    <3> QED
      BY <1>6, <2>0, <2>3, <3>1, <3>2
  <2>4. CASE continued' = continued \ {n} /\ Transition(n, "canceled", "worker", "none")
             /\ StepTo(n, "end") /\ UNCHANGED <<running, revisions, section, routing, retries>>
    <3>1. "canceled" \in Status /\ "none" \in Code \ {"dependency"}
      BY DEF Status, Code
    <3>2. Decides(n) /\ Retries(n)
      BY <1>5, <2>4, <3>1, DecidesTo DEF Retries
    <3>3. Carried' /\ continued' \subseteq Node
      BY <1>1, <1>2, <2>0, <2>4, CarriedOn
    <3> QED
      BY <1>6, <2>0, <2>4, <3>2, <3>3
  <2>5. CASE continued' = continued \ {n} /\ Reject(n, TRUE) /\ StepTo(n, "end")
             /\ UNCHANGED <<section, retries>>
    <3>1. Decides(n) /\ Retries(n)
      BY <1>1, <1>5, <2>5, RejectDecides DEF Retries
    <3>2. Carried' /\ continued' \subseteq Node
      BY <1>1, <1>2, <1>5, <2>0, <2>5, RejectDecides, CarriedOn
    <3> QED
      BY <1>6, <2>0, <2>5, <3>1, <3>2
  <2>6. CASE continued' = continued \ {n} /\ section' = Tail(section) /\ StepTo(n, "proof")
             /\ UNCHANGED <<status, stage, code, running, revisions, routing, retries>>
    <3>1. "proof" \in Undecided /\ section # <<>> /\ Head(section) = n
      BY <1>3 DEF Holds
    <3>2. Advances(n) /\ Retries(n)
      BY <2>6, <3>1, Zenon DEF Advances, StepTo, Retries
    <3>3. Carried' /\ continued' \subseteq Node
      BY <1>1, <1>2, <2>0, <2>6, CarriedOn
    <3> QED
      BY <1>4, <2>0, <3>2, <3>3 DEF Settles
  <2>7. CASE continued' = continued \ {n} /\ StepTo(n, "integrate")
             /\ UNCHANGED <<status, stage, code, running, revisions, section, routing, retries>>
    <3>1. Carried' /\ continued' \subseteq Node
      BY <1>1, <1>2, <2>0, <2>7, CarriedOn
    <3>2. Retries(n) /\ "integrate" \in Undecided \ {"proof"} /\ step[n] # "proof"
      BY <1>3, <2>7 DEF Retries, Holds
    <3> QED
      BY <1>7, <2>0, <2>7, <3>1, <3>2
  <2> QED
    BY <2>1, <2>2, <2>3, <2>4, <2>5, <2>6, <2>7, Zenon
<1>9. CASE ProofEnds(n)
  <2>0. UNCHANGED <<status, stage, code, running, reask, jfail, revisions, routing, retries, continued,
                    pc, canceled, parkedBefore, closed, held, inline, lives>>
    BY <1>9 DEF ProofEnds, durable
  <2>1. PICK verdict \in {"green", "red"} : StepTo(n, verdict)
    BY <1>9 DEF ProofEnds
  <2>2. verdict \in Undecided /\ verdict # "proof"
    BY <1>3
  <2>3. step[n] = "proof" /\ section' = Append(section, n)
    BY <1>9 DEF ProofEnds
  <2>4. Advances(n) /\ Retries(n)
    BY <2>0, <2>1, <2>2, <2>3 DEF Advances, StepTo, Retries
  <2>5. Carried'
    BY <1>1, <1>2, <2>0, CarriedOn
  <2> QED
    BY <1>2, <1>4, <2>0, <2>4, <2>5 DEF Settles
<1>10. CASE ProofSettled(n)
  <2> USE <1>10 DEF ProofSettled
  <2>0. reask' = reask /\ jfail' = jfail /\ continued' = continued /\ UNCHANGED retries
        /\ UNCHANGED <<section, pc, canceled, parkedBefore, closed, held, inline, lives>>
    BY Zenon
  <2>00. Retries(n)
    BY <2>0 DEF Retries
  <2>1. CASE Reject(n, TRUE) /\ StepTo(n, "end")
    <3>1. Decides(n)
      BY <1>1, <1>5, <2>1, RejectDecides
    <3>2. Carried'
      BY <1>1, <1>2, <1>5, <2>0, <2>1, RejectDecides, CarriedOn
    <3> QED
      BY <1>2, <1>6, <2>0, <2>00, <2>1, <3>1, <3>2
  <2>2. CASE /\ Holds(n, "green") /\ StepTo(n, "gate")
             /\ UNCHANGED <<status, stage, code, running, revisions, routing>>
    <3>1. Carried'
      BY <1>1, <1>2, <2>0, <2>2, CarriedOn
    <3>2. "gate" \in Undecided \ {"proof"} /\ step[n] # "proof"
      BY <1>3, <2>2 DEF Holds
    <3> QED
      BY <1>2, <1>7, <2>0, <2>00, <2>2, <3>1, <3>2
  <2>3. CASE Transition(n, "pending", "judge", "none") /\ StepTo(n, "end")
             /\ UNCHANGED <<running, revisions, routing>>
    <3>1. Decides(n)
      BY <1>5, <2>3, ReopenDecides
    <3>2. Carried'
      BY <1>1, <1>2, <2>0, <2>3, CarriedOn
    <3> QED
      BY <1>2, <1>6, <2>0, <2>00, <2>3, <3>1, <3>2
  <2> QED
    BY <2>1, <2>2, <2>3, Zenon
<1>11. CASE JudgeStarts(n)
  <2>0. UNCHANGED <<status, stage, code, running, reask, jfail, revisions, routing, retries, continued,
                    section, pc, canceled, parkedBefore, closed, held, inline, lives>>
    BY <1>11 DEF JudgeStarts, durable
  <2>1. StepTo(n, "gate") /\ "gate" \in Undecided \ {"proof"} /\ step[n] # "proof" /\ Retries(n)
    BY <1>3, <1>11, <2>0 DEF JudgeStarts, Holds, Retries
  <2>2. Carried'
    BY <1>1, <1>2, <2>0, CarriedOn
  <2> QED
    BY <1>2, <1>7, <2>0, <2>1, <2>2
<1>12. CASE GateDecides(n)
  <2> USE <1>12 DEF GateDecides
  <2>0. reask' = reask /\ jfail' = jfail /\ continued' = continued /\ UNCHANGED retries
        /\ UNCHANGED <<section, pc, canceled, parkedBefore, closed, held, inline, lives>>
    BY Zenon
  <2>00. Retries(n)
    BY <2>0 DEF Retries
  <2>1. CASE Reject(n, TRUE) /\ StepTo(n, "end")
    <3>1. Decides(n)
      BY <1>1, <1>5, <2>1, RejectDecides
    <3>2. Carried'
      BY <1>1, <1>2, <1>5, <2>0, <2>1, RejectDecides, CarriedOn
    <3> QED
      BY <1>2, <1>6, <2>0, <2>00, <2>1, <3>1, <3>2
  <2>2. CASE StepTo(n, "integrate") /\ UNCHANGED <<status, stage, code, running, revisions, routing>>
    <3>1. Carried'
      BY <1>1, <1>2, <2>0, <2>2, CarriedOn
    <3>2. "integrate" \in Undecided \ {"proof"} /\ step[n] # "proof"
      BY <1>3 DEF Holds
    <3> QED
      BY <1>2, <1>7, <2>0, <2>00, <2>2, <3>1, <3>2
  <2>3. CASE Launch(n, "judge") /\ StepTo(n, "end") /\ UNCHANGED <<revisions, routing>>
    <3>1. Decides(n)
      BY <2>3, LaunchDecides
    <3>2. Carried'
      BY <1>1, <1>2, <2>0, <2>3, CarriedOn
    <3> QED
      BY <1>2, <1>6, <2>0, <2>00, <2>3, <3>1, <3>2
  <2>4. CASE Transition(n, "parked", "judge", "final") /\ StepTo(n, "end")
             /\ UNCHANGED <<running, revisions, routing>>
    <3>1. "parked" \in Status /\ "final" \in Code \ {"dependency"}
      BY DEF Status, Code
    <3>2. Decides(n)
      BY <1>5, <2>4, <3>1, DecidesTo
    <3>3. Carried'
      BY <1>1, <1>2, <2>0, <2>4, CarriedOn
    <3> QED
      BY <1>2, <1>6, <2>0, <2>00, <2>4, <3>2, <3>3
  <2> QED
    BY <2>1, <2>2, <2>3, <2>4, Zenon
<1>13. CASE JudgeClosed(n)
  <2> USE <1>13 DEF JudgeClosed
  <2>0. continued' = continued /\ UNCHANGED retries
        /\ UNCHANGED <<section, pc, canceled, parkedBefore, closed, held, inline, lives>>
    BY Zenon
  <2>00. Retries(n)
    BY <2>0 DEF Retries
  <2>000. step[n] # "proof" /\ {"integrate", "gate"} \subseteq Undecided \ {"proof"}
    BY <1>3 DEF Holds
  <2>1. CASE JudgeVerdict(n)
    <3>1. reask' \in [Node -> BOOLEAN] /\ jfail' \in [Node -> BOOLEAN]
      BY <1>2, <2>1, Zenon DEF JudgeVerdict
    <3>2. CASE StepTo(n, "integrate") /\ UNCHANGED <<status, stage, code, running, revisions, routing>>
      <4>1. Carried'
        BY <1>1, <1>2, <3>1, <3>2, CarriedOn
      <4> QED
        BY <1>2, <1>7, <2>0, <2>00, <2>000, <3>2, <4>1
    <3>3. CASE Reject(n, TRUE) /\ StepTo(n, "end")
      <4>1. Decides(n)
        BY <1>1, <1>5, <3>3, RejectDecides
      <4>2. Carried'
        BY <1>1, <1>5, <3>1, <3>3, RejectDecides, CarriedOn
      <4> QED
        BY <1>2, <1>6, <2>0, <2>00, <3>3, <4>1, <4>2
    <3> QED
      BY <2>1, <3>2, <3>3, Zenon DEF JudgeVerdict
  <2>2. ASSUME NEW c \in {"retryable", "final"}, JudgeUnusable(n, c),
               jfail' \in [Node -> BOOLEAN], UNCHANGED <<revisions, routing>>
        PROVE  Settles(n)
    <3>1. CASE ~reask[n] /\ Reask(n) /\ StepTo(n, "end")
      <4>1. reask' \in [Node -> BOOLEAN]
        BY <1>2, <3>1, Zenon DEF Reask
      <4>2. Carried'
        BY <1>1, <1>2, <2>2, <4>1, CarriedOn
      <4>3. CASE Launch(n, "judge")
        <5>1. Decides(n)
          BY <4>3, LaunchDecides
        <5> QED
          BY <1>2, <1>6, <2>0, <2>00, <3>1, <4>2, <5>1
      <4>4. CASE Park(n, "final") /\ UNCHANGED running
        <5>1. Decides(n)
          BY <1>1, <1>5, <4>4, ParkDecides
        <5> QED
          BY <1>2, <1>6, <2>0, <2>00, <3>1, <4>2, <5>1
      <4>5. CASE Transition(n, "pending", "judge", "none") /\ UNCHANGED running
        <5>1. Decides(n)
          BY <1>5, <4>5, ReopenDecides
        <5> QED
          BY <1>2, <1>6, <2>0, <2>00, <3>1, <4>2, <5>1
      <4> QED
        BY <3>1, <4>3, <4>4, <4>5, Zenon DEF Reask
    <3>2. CASE Park(n, c) /\ StepTo(n, "end") /\ UNCHANGED <<reask, running>>
      <4>1. Decides(n)
        BY <1>1, <1>5, <3>2, ParkDecides
      <4>2. Carried'
        BY <1>1, <1>2, <2>2, <3>2, CarriedOn
      <4> QED
        BY <1>2, <1>6, <2>0, <2>00, <3>2, <4>1, <4>2
    <3>3. CASE /\ reask' = [reask EXCEPT ![n] = FALSE]
               /\ StepTo(n, "integrate") /\ UNCHANGED <<status, stage, code, running>>
      <4>1. reask' \in [Node -> BOOLEAN]
        BY <1>2, <3>3, Zenon
      <4>2. Carried'
        BY <1>1, <1>2, <2>2, <4>1, CarriedOn
      <4> QED
        BY <1>2, <1>7, <2>0, <2>00, <2>000, <3>3, <4>2
    <3> QED
      BY <2>2, <3>1, <3>2, <3>3, Zenon DEF JudgeUnusable
  <2>3. CASE JudgeUnusable(n, "retryable") /\ UNCHANGED <<jfail, revisions, routing>>
    BY <1>2, <2>2, <2>3
  <2>4. CASE /\ JudgeUnusable(n, "final") /\ jfail' = [jfail EXCEPT ![n] = FALSE]
             /\ UNCHANGED <<revisions, routing>>
    <3>1. jfail' \in [Node -> BOOLEAN]
      BY <1>2, <2>4, Zenon
    <3> QED
      BY <2>2, <2>4, <3>1
  <2>5. CASE JudgeFailed(n) /\ UNCHANGED <<revisions, routing>>
    <3>1. jfail' = [jfail EXCEPT ![n] = @ \/ ~reask[n]] /\ UNCHANGED running
      BY <2>5, Zenon DEF JudgeFailed
    <3>2. jfail' \in [Node -> BOOLEAN]
      BY <1>2, <3>1, Zenon
    <3>3. CASE StepTo(n, "gate") /\ UNCHANGED <<status, stage, code, reask>>
      <4>1. Carried'
        BY <1>1, <1>2, <2>5, <3>2, <3>3, CarriedOn
      <4> QED
        BY <1>2, <1>7, <2>0, <2>00, <2>000, <3>1, <3>3, <4>1
    <3>4. CASE Park(n, "retryable") /\ StepTo(n, "end") /\ UNCHANGED reask
      <4>1. Decides(n)
        BY <1>1, <1>5, <3>1, <3>4, ParkDecides
      <4>2. Carried'
        BY <1>1, <1>2, <2>5, <3>2, <3>4, CarriedOn
      <4> QED
        BY <1>2, <1>6, <2>0, <2>00, <3>4, <4>1, <4>2
    <3>5. CASE /\ reask' = [reask EXCEPT ![n] = FALSE]
               /\ StepTo(n, "integrate") /\ UNCHANGED <<status, stage, code>>
      <4>1. reask' \in [Node -> BOOLEAN]
        BY <1>2, <3>5, Zenon
      <4>2. Carried'
        BY <1>1, <1>2, <2>5, <3>2, <4>1, CarriedOn
      <4> QED
        BY <1>2, <1>7, <2>0, <2>00, <2>000, <3>1, <3>5, <4>2
    <3> QED
      BY <2>5, <3>3, <3>4, <3>5, Zenon DEF JudgeFailed
  <2>6. CASE Reroute(n) /\ StepTo(n, "end") /\ UNCHANGED <<reask, jfail, running, revisions>>
    <3>1. /\ Decides(n)
          /\ route' \in [Node -> [Role -> Runtime]] /\ wait' \in [Node -> Wait]
          /\ routes' \in [Node -> Nat]
      BY <1>1, <1>5, <2>6, RerouteDecides
    <3>2. Carried'
      BY <1>1, <1>2, <2>6, <3>1, CarriedOn
    <3> QED
      BY <1>2, <1>6, <2>0, <2>00, <2>6, <3>1, <3>2
  <2>7. CASE /\ Park(n, "final") /\ StepTo(n, "end")
             /\ UNCHANGED <<reask, jfail, running, revisions, routing>>
    <3>1. Decides(n)
      BY <1>1, <1>5, <2>7, ParkDecides
    <3>2. Carried'
      BY <1>1, <1>2, <2>7, CarriedOn
    <3> QED
      BY <1>2, <1>6, <2>0, <2>00, <2>7, <3>1, <3>2
  <2> QED
    BY <2>1, <2>3, <2>4, <2>5, <2>6, <2>7, Zenon
<1>14. CASE Integrate(n)
  <2>0. reask' = reask /\ jfail' = jfail /\ continued' = continued /\ UNCHANGED retries
        /\ UNCHANGED <<section, pc, canceled, parkedBefore, closed, held, inline, lives>>
    BY <1>14, Zenon DEF Integrate
  <2>1. Decides(n)
    BY <1>1, <1>5, <1>14, IntegratedDecides DEF Integrate
  <2>2. Carried'
    BY <1>1, <1>2, <1>5, <1>14, <2>0, IntegratedDecides, CarriedOn DEF Integrate
  <2>3. Retries(n) /\ StepTo(n, "end")
    BY <1>14, <2>0 DEF Integrate, Retries
  <2> QED
    BY <1>2, <1>6, <2>0, <2>1, <2>2, <2>3
<1> QED
  BY <1>8, <1>9, <1>10, <1>11, <1>12, <1>13, <1>14, Zenon DEF Settlement
-----------------------------------------------------------------------------
(* What the steps preserve.                                                *)

LEMMA InitInv == Init => IInv
<1> SUFFICES ASSUME Init PROVE IInv
  OBVIOUS
<1>1. Settling = {} /\ Slots = {}
  BY DEF Init, Settling, Slots
<1>2. contract \in ContractType /\ MaxParallel \in Nat
  BY DEF Init, ContractType, MaxParallel
<1>3. Ceiling
  BY <1>1, <1>2, FS_EmptySet DEF Ceiling
<1>4. section \in Seq(Node) /\ Len(section) = 0
  BY EmptySeq DEF Init
<1>5. TypeOK
  <2>1. /\ status \in [Node -> Status] /\ stage \in [Node -> Role]
        /\ code \in [Node -> Code] /\ step \in [Node -> Step]
        /\ held \in [Node -> Runtime \cup {NoRt}]
    BY DEF Init, Status, Code, Step
  <2>2. revisions \in [Node -> 0..MaxRevisions] /\ routes \in [Node -> Nat]
        /\ autos \in [Node -> Nat] /\ erased \in [Node -> Nat]
    BY <1>2 DEF Init, MaxRevisions, ContractType
  <2>3. reask \in [Node -> BOOLEAN] /\ jfail \in [Node -> BOOLEAN]
    BY Zenon DEF Init
  <2>4. lives \in 1..MaxLife[contract] /\ copy \subseteq SUBSET Node
    BY DEF Init
  <2>6. route \in [Node -> [Role -> Runtime]] /\ wait \in [Node -> Wait]
    BY <1>2 DEF Init, Wait, Assigned, ContractType
  <2>5. /\ contract \in Contract /\ pc \in PC /\ canceled \in BOOLEAN
        /\ autoRetries \subseteq Node /\ parkedBefore \subseteq Node
        /\ running \subseteq Node /\ closed \subseteq running
        /\ inline \in Node \cup {NoNode} /\ continued \subseteq Node
    BY DEF Init, PC
  <2> QED
    BY <1>4, <2>1, <2>2, <2>3, <2>4, <2>5, <2>6, Zenon DEF TypeOK
<1>6. Hands /\ Inline /\ Queue /\ Ledger /\ Ended /\ Blocked
  BY <1>4 DEF Init, Hands, Inline, Queue, Ledger, Ended, Blocked, Undecided
<1> QED
  BY <1>3, <1>5, <1>6 DEF IInv

\* Only the dispatch pass lets a node take a slot that it did not have.
LEMMA CeilingKept ==
  ASSUME TypeOK, Ceiling, UNCHANGED contract, running' \subseteq Slots, Settling' \subseteq Slots
  PROVE  Ceiling'
<1>1. Slots \subseteq Node /\ Slots' \subseteq Slots /\ MaxParallel' = MaxParallel
  BY DEF TypeOK, Slots, Settling, MaxParallel
<1>2. IsFiniteSet(Slots) /\ Cardinality(Slots') <= Cardinality(Slots)
  BY <1>1, FS_Subset
<1>3. IsFiniteSet(Slots')
  BY <1>1, <1>2, FS_Subset
<1>4. Cardinality(Slots) \in Nat /\ Cardinality(Slots') \in Nat /\ MaxParallel \in Nat
  BY <1>2, <1>3, FS_CardinalityType DEF TypeOK, ContractType, MaxParallel
<1> QED
  BY <1>1, <1>2, <1>4 DEF Ceiling

\* A node in hand is open, with nothing before it left to do, and the loop runs.
LEMMA InHand ==
  ASSUME IInv, NEW n \in Node, n \in running \/ step[n] \in Undecided \/ n = inline
  PROVE  /\ status[n] \in {"running", "pending"} /\ DepsDone(n)
         /\ pc \notin {"drain", "stopped", "down"}
<1>1. n # NoNode
  OBVIOUS
<1>2. CASE n \in running
  BY <1>2 DEF IInv, Hands, Ended
<1>3. CASE step[n] \in Undecided
  BY <1>3 DEF IInv, Hands, Ended, Undecided
<1>4. CASE n = inline
  BY <1>1, <1>4 DEF IInv, Hands, Inline
<1> QED
  BY <1>2, <1>3, <1>4

\* An automatic retry is recorded before it counts.
LEMMA RetriesKeep ==
  ASSUME IInv, NEW n \in Node, Retries(n)
  PROVE  Ledger' /\ Recorded' /\ autoRetries \subseteq autoRetries' /\ erased' = erased
<1>1. TypeOK /\ Ledger
  BY DEF IInv
<1>2. CASE UNCHANGED retries
  BY <1>1, <1>2 DEF Ledger, TypeOK, Recorded
<1>3. CASE /\ n \notin autoRetries /\ autoRetries' = autoRetries \cup {n}
           /\ autos' = [autos EXCEPT ![n] = @ + 1]
           /\ UNCHANGED <<copy, erased>>
  <2>1. /\ autos \in [Node -> Nat] /\ erased \in [Node -> Nat]
        /\ autoRetries \subseteq Node /\ copy \subseteq SUBSET Node
    BY <1>1 DEF TypeOK
  <2>2. /\ autos' \in [Node -> Nat] /\ autos'[n] = autos[n] + 1
        /\ \A m \in Node : m # n => autos'[m] = autos[m]
    <3>1. autos \in [Node -> Nat] /\ autos' = [autos EXCEPT ![n] = @ + 1]
      BY <1>3, <2>1
    <3> QED
      BY <3>1
  <2>3. Recorded'
    <3>1. autoRetries' \subseteq Node
      BY <1>3, <2>1
    <3>2. copy' \subseteq SUBSET Node /\ erased' \in [Node -> Nat]
      BY <1>3, <2>1, Zenon
    <3> QED
      BY <2>2, <3>1, <3>2, Zenon DEF Recorded
  <2>4. autos[n] <= erased[n]
    <3>1. autos[n] <= erased[n] + (IF n \in autoRetries THEN 1 ELSE 0)
      BY <1>1 DEF Ledger
    <3> QED
      BY <1>3, <2>1, <3>1
  <2>5. ASSUME NEW m \in Node
        PROVE  autos'[m] <= erased'[m] + (IF m \in autoRetries' THEN 1 ELSE 0)
    <3>1. CASE m = n
      BY <1>3, <2>1, <2>2, <2>4, <3>1
    <3>2. CASE m # n
      BY <1>1, <1>3, <2>2, <3>2 DEF Ledger
    <3> QED
      BY <3>1, <3>2
  <2> QED
    BY <1>3, <2>3, <2>5 DEF Ledger
<1> QED
  BY <1>2, <1>3 DEF Retries

\* Deciding on a node in hand.
LEMMA DecideKeeps ==
  ASSUME IInv, NEW n \in Node, Decides(n), Retries(n),
         n \in running \/ step[n] \in Undecided \/ n = inline,
         \/ step[n] \in Undecided /\ step' = [step EXCEPT ![n] = "end"]
         \/ step[n] \in {"none", "end"} /\ step' = step,
         n = inline => inline' = NoNode /\ n \notin running',
         inline' \in {inline, NoNode},
         UNCHANGED <<contract, held, pc, parkedBefore>>
  PROVE  /\ Ceiling' /\ Hands' /\ Inline' /\ Ledger' /\ Ended' /\ Blocked'
         /\ status' \in [Node -> Status] /\ stage' \in [Node -> Role]
         /\ code' \in [Node -> Code] /\ running' \subseteq Node /\ running \ {n} \subseteq running'
         /\ step' \in [Node -> Step]
         /\ Recorded'
<1>1. TypeOK /\ Hands
  BY DEF IInv
<1>2. status[n] \in {"running", "pending"} /\ DepsDone(n) /\ pc \notin {"drain", "stopped", "down"}
  BY InHand
<1>3. PICK s \in Status, g \in Role, c \in Code \ {"dependency"} :
        /\ Transition(n, s, g, c)
        /\ running' = IF s = "running" THEN running \cup {n} ELSE running \ {n}
  BY Zenon DEF Decides
<1>4. /\ status' \in [Node -> Status] /\ stage' \in [Node -> Role]
      /\ code' \in [Node -> Code]
      /\ status'[n] = s /\ code'[n] = c
      /\ \A m \in Node : m # n => status'[m] = status[m] /\ code'[m] = code[m]
  BY <1>1, <1>3 DEF Transition, TypeOK
<1>5. /\ running' \subseteq running \cup {n} /\ running \ {n} \subseteq running'
      /\ n \in running' => s = "running"
  BY <1>3
<1>6. Settling' = Settling
  BY DEF Settling
<1>7. n \in running' => n \in Slots
  BY <1>1 DEF Hands, Slots, Undecided
<1>8. Ceiling'
  BY <1>1, <1>5, <1>6, <1>7, CeilingKept DEF IInv, Slots
<1>9. step' \in [Node -> Step] /\ (\A m \in Node : m # n => step'[m] = step[m])
      /\ step'[n] \in {"none", "end"} /\ (step'[n] # "none" => step[n] # "none")
  <2>1. step \in [Node -> Step] /\ "end" \in Step /\ "none" \notin Undecided
    BY <1>1 DEF TypeOK, Step, Undecided
  <2>2. CASE step[n] \in Undecided /\ step' = [step EXCEPT ![n] = "end"]
    BY <2>1, <2>2
  <2>3. CASE step[n] \in {"none", "end"} /\ step' = step
    BY <2>1, <2>3
  <2> QED
    BY <2>2, <2>3
<1>10. \A m \in Node : DepsDone(m) => DepsDone(m)'
  BY <1>2, <1>4 DEF DepsDone, DepsOf
<1>11. Hands'
  <2>1. ASSUME NEW m \in Node
        PROVE  /\ m \in running' => status'[m] = "running" /\ step'[m] \in {"none", "end"}
               /\ step'[m] \in Undecided => status'[m] \in {"running", "pending"}
               /\ status'[m] = "running" \/ step'[m] \in Undecided => DepsDone(m)'
               /\ step'[m] # "none" => m \in Settling'
    <3>1. CASE m = n
      BY <1>1, <1>2, <1>4, <1>5, <1>6, <1>9, <1>10, <3>1 DEF Hands, Undecided
    <3>2. CASE m # n
      BY <1>1, <1>4, <1>5, <1>6, <1>9, <1>10, <3>2 DEF Hands
    <3> QED
      BY <3>1, <3>2
  <2> QED
    BY <2>1 DEF Hands
<1>12. Inline'
  <2> SUFFICES ASSUME inline' # NoNode
               PROVE  /\ pc' = "stalls" /\ inline' \notin running'
                      /\ status'[inline'] = "running" /\ step'[inline'] \in {"none", "end"}
    BY DEF Inline
  <2>1. inline' = inline /\ inline # n /\ inline \in Node
    BY <1>1 DEF TypeOK
  <2> QED
    BY <1>4, <1>5, <1>9, <2>1 DEF IInv, Inline
<1>13. Ledger' /\ Recorded'
  BY RetriesKeep
<1>14. Ended'
  BY <1>2 DEF Ended
<1>15. Blocked'
  <2>1. autoRetries \subseteq autoRetries' /\ erased' = erased
    BY RetriesKeep
  <2>2. ASSUME NEW m \in Node \ parkedBefore', status'[m] = "parked", code'[m] = "dependency"
        PROVE  \E d \in DepsOf(m)' : Stays(d)'
    <3>1. m # n /\ status[m] = "parked" /\ code[m] = "dependency"
      BY <1>4, <2>2
    <3>2. PICK d \in DepsOf(m) : Stays(d)
      BY <2>2, <3>1 DEF IInv, Blocked
    <3>3. d \in Node /\ (PassedOver(d) => d # n)
      BY <1>2, <3>2 DEF DepsOf, PassedOver
    <3>4. Stays(d)'
      BY <1>4, <2>1, <3>2, <3>3 DEF Stays, PassedOver
    <3>5. DepsOf(m)' = DepsOf(m)
      BY DEF DepsOf
    <3> QED
      BY <3>2, <3>4, <3>5
  <2> QED
    BY <2>2 DEF Blocked
<1>16. running' \subseteq Node /\ running \ {n} \subseteq running'
  BY <1>1, <1>5 DEF TypeOK
<1> QED
  BY <1>4, <1>8, <1>9, <1>11, <1>12, <1>13, <1>14, <1>15, <1>16, Zenon

\* The parts a step's types are proved in.
LEMMA TypedAgain ==
  ASSUME TypeOK, UNCHANGED <<contract, lives>>,
         status' \in [Node -> Status], stage' \in [Node -> Role], code' \in [Node -> Code],
         Carried', Recorded', parkedBefore' \subseteq Node, pc' \in PC, canceled' \in BOOLEAN,
         running' \subseteq Node, closed' \subseteq running',
         held' \in [Node -> Runtime \cup {NoRt}], section' \in Seq(Node),
         step' \in [Node -> Step], inline' \in Node \cup {NoNode}, continued' \subseteq Node
  PROVE  TypeOK'
<1>1. contract \in Contract /\ lives \in 1..MaxLife[contract]
  BY DEF TypeOK
<1>2. contract' \in Contract /\ lives' \in 1..MaxLife[contract]'
  BY <1>1
<1> QED
  BY <1>2, Zenon DEF TypeOK, Carried, Recorded

LEMMA NodesTyped ==
  ASSUME TypeOK
  PROVE  /\ status \in [Node -> Status] /\ stage \in [Node -> Role] /\ code \in [Node -> Code]
         /\ Carried /\ Recorded /\ parkedBefore \subseteq Node /\ pc \in PC /\ canceled \in BOOLEAN
         /\ running \subseteq Node /\ closed \subseteq running
         /\ held \in [Node -> Runtime \cup {NoRt}] /\ section \in Seq(Node)
         /\ step \in [Node -> Step] /\ inline \in Node \cup {NoNode} /\ continued \subseteq Node
  BY Zenon DEF TypeOK, Carried, Recorded

LEMMA DurableKept ==
  ASSUME TypeOK, UNCHANGED <<durable, contract>>
  PROVE  /\ Carried' /\ Recorded'
         /\ status' \in [Node -> Status] /\ stage' \in [Node -> Role] /\ code' \in [Node -> Code]
<1>1. UNCHANGED <<status, stage, code, revisions, reask, jfail, routing, retries>>
  BY Zenon DEF durable
<1>2. MaxRevisions' = MaxRevisions
  BY DEF MaxRevisions
<1>3. Carried'
  BY <1>1, <1>2, Zenon DEF TypeOK, Carried
<1> QED
  BY <1>1, <1>3 DEF TypeOK, Recorded

\* A settlement's step.
LEMMA SettleKeeps ==
  ASSUME IInv, NEW n \in Node, Settles(n), UNCHANGED contract
  PROVE  IInv'
<1>1. TypeOK /\ Hands /\ Queue
  BY DEF IInv
<1>2. step[n] \in Undecided /\ n \notin running
  BY <1>1 DEF Settles, Hands, Undecided
<1>3. /\ UNCHANGED <<contract, pc, canceled, parkedBefore, closed, held, inline, lives>>
      /\ Carried' /\ continued' \subseteq Node
      /\ Retries(n)
  BY DEF Settles
<1>4. n # inline
  BY <1>1, <1>2 DEF IInv, Inline, Undecided
<1>5. CASE Decides(n) /\ step' = [step EXCEPT ![n] = "end"] /\ UNCHANGED section
  <2>1. /\ Ceiling' /\ Hands' /\ Inline' /\ Ledger' /\ Ended' /\ Blocked'
        /\ status' \in [Node -> Status] /\ stage' \in [Node -> Role]
        /\ code' \in [Node -> Code] /\ running' \subseteq Node /\ running \ {n} \subseteq running'
        /\ step' \in [Node -> Step]
        /\ Recorded'
    BY <1>2, <1>3, <1>4, <1>5, DecideKeeps
  <2>2. closed' \subseteq running'
    BY <1>1, <1>2, <1>3, <2>1 DEF TypeOK
  <2>3. TypeOK'
    BY <1>1, <1>3, <1>5, <2>1, <2>2, NodesTyped, TypedAgain
  <2>4. Queue'
    <3>1. step \in [Node -> Step] /\ \A i \in 1..Len(section) : section[i] \in Node
      BY <1>1, ElementOfSeq DEF TypeOK
    <3>2. \A i \in 1..Len(section) : step'[section[i]] \notin {"none", "proof"}
      BY <1>1, <1>5, <3>1 DEF Queue
    <3> QED
      BY <1>1, <1>5, <3>2 DEF Queue
  <2> QED
    BY <2>1, <2>3, <2>4 DEF IInv
<1>6. CASE Advances(n)
  <2>1. PICK t \in Undecided :
          /\ step' = [step EXCEPT ![n] = t]
          /\ \/ t = "proof" /\ section # <<>> /\ Head(section) = n /\ section' = Tail(section)
             \/ t # "proof" /\ step[n] # "proof" /\ UNCHANGED section
             \/ t # "proof" /\ step[n] = "proof" /\ section' = Append(section, n)
    BY <1>6 DEF Advances
  <2>2. UNCHANGED <<status, stage, code, running>>
    BY <1>6 DEF Advances
  <2>3. t \in Step /\ t # "none" /\ t # "end"
    BY DEF Undecided
  <2>4. step' \in [Node -> Step] /\ step'[n] = t /\ \A m \in Node : m # n => step'[m] = step[m]
    BY <1>1, <2>1, <2>3 DEF TypeOK
  <2>5. Settling' = Settling /\ (\A m : DepsOf(m)' = DepsOf(m)) /\ (\A m : DepsDone(m)' <=> DepsDone(m))
    BY <1>3, <2>2 DEF Settling, DepsOf, DepsDone
  <2>6. Ceiling'
    BY <1>1, <1>3, <2>2, <2>5, CeilingKept DEF IInv, Slots
  <2>7. Hands'
    <3>1. ASSUME NEW m \in Node
          PROVE  /\ m \in running' => status'[m] = "running" /\ step'[m] \in {"none", "end"}
                 /\ step'[m] \in Undecided => status'[m] \in {"running", "pending"}
                 /\ status'[m] = "running" \/ step'[m] \in Undecided => DepsDone(m)'
                 /\ step'[m] # "none" => m \in Settling'
      <4>1. CASE m = n
        BY <1>1, <1>2, <2>2, <2>4, <2>5, <4>1 DEF Hands, Undecided
      <4>2. CASE m # n
        BY <1>1, <2>2, <2>4, <2>5, <4>2 DEF Hands
      <4> QED
        BY <4>1, <4>2
    <3> QED
      BY <3>1 DEF Hands
  <2>8. pc \notin {"drain", "stopped", "down"}
    BY <1>2, InHand
  <2>9. Inline' /\ Ended'
    BY <1>1, <1>2, <1>3, <1>4, <2>2, <2>4, <2>8 DEF IInv, Inline, Ended, TypeOK
  <2>10. Ledger' /\ Recorded' /\ autoRetries \subseteq autoRetries' /\ erased' = erased
    BY <1>3, RetriesKeep
  <2>11. Blocked'
    BY <1>3, <2>2, <2>5, <2>10 DEF IInv, Blocked, Stays, PassedOver
  <2>12. section \in Seq(Node) /\ (\A i, j \in 1..Len(section) : section[i] = section[j] => i = j)
         /\ \A i \in 1..Len(section) : section[i] \in Node /\ step[section[i]] \notin {"none", "proof"}
    BY <1>1, ElementOfSeq DEF TypeOK, Queue
  <2>13. section' \in Seq(Node) /\ Queue'
    <3>1. CASE t = "proof" /\ section # <<>> /\ Head(section) = n /\ section' = Tail(section)
      <4>1. /\ Tail(section) \in Seq(Node)
            /\ \A i, j \in 1..Len(Tail(section)) : Tail(section)[i] = Tail(section)[j] => i = j
            /\ \A i \in 1..Len(Tail(section)) : /\ Tail(section)[i] # Head(section)
                                                /\ \E j \in 1..Len(section) : Tail(section)[i] = section[j]
        BY <2>12, <3>1, Dequeue
      <4>2. \A i \in 1..Len(Tail(section)) : step'[Tail(section)[i]] \notin {"none", "proof"}
        BY <2>4, <2>12, <3>1, <4>1
      <4> QED
        BY <3>1, <4>1, <4>2 DEF Queue
    <3>2. CASE t # "proof" /\ step[n] # "proof" /\ UNCHANGED section
      BY <2>3, <2>4, <2>12, <3>2 DEF Queue
    <3>3. CASE t # "proof" /\ step[n] = "proof" /\ section' = Append(section, n)
      <4>1. \A i \in 1..Len(section) : section[i] # n
        BY <2>12, <3>3
      <4>2. /\ Append(section, n) \in Seq(Node)
            /\ \A i, j \in 1..Len(Append(section, n)) : Append(section, n)[i] = Append(section, n)[j] => i = j
            /\ \A i \in 1..Len(Append(section, n)) :
                 Append(section, n)[i] = n \/ \E j \in 1..Len(section) : Append(section, n)[i] = section[j]
        BY <2>12, <4>1, AppendOne
      <4>3. ASSUME NEW i \in 1..Len(Append(section, n))
            PROVE  step'[Append(section, n)[i]] \notin {"none", "proof"}
        <5>1. Append(section, n)[i] = n \/ \E j \in 1..Len(section) : Append(section, n)[i] = section[j]
          BY <4>2
        <5>2. step'[n] \notin {"none", "proof"}
          BY <2>3, <2>4, <3>3
        <5>3. \A j \in 1..Len(section) : step'[section[j]] \notin {"none", "proof"}
          BY <2>4, <2>12, <4>1
        <5> QED
          BY <5>1, <5>2, <5>3
      <4> QED
        BY <3>3, <4>2, <4>3 DEF Queue
    <3> QED
      BY <2>1, <3>1, <3>2, <3>3
  <2>14. TypeOK'
    BY <1>1, <1>3, <2>2, <2>4, <2>10, <2>13, NodesTyped, TypedAgain
  <2> QED
    BY <2>6, <2>7, <2>9, <2>10, <2>11, <2>13, <2>14 DEF IInv
<1> QED
  BY <1>5, <1>6 DEF Settles

LEMMA SettlementEndsKeeps ==
  ASSUME IInv, NEW n \in Node, SettlementEnds(n), UNCHANGED contract
  PROVE  IInv'
<1>1. TypeOK /\ Hands /\ Queue
  BY DEF IInv
<1>2. /\ section # <<>> /\ Head(section) = n /\ step[n] = "end"
      /\ section' = Tail(section)
      /\ step' = [step EXCEPT ![n] = "none"]
      /\ held' = [held EXCEPT ![n] = NoRt]
      /\ UNCHANGED <<durable, pc, canceled, parkedBefore, running, closed, inline, continued, lives>>
  BY Zenon DEF SettlementEnds, Holds, StepTo
<1>3. /\ step' \in [Node -> Step] /\ step'[n] = "none"
      /\ \A m \in Node : m # n => step'[m] = step[m]
  BY <1>1, <1>2 DEF TypeOK, Step
<1>4. /\ held' \in [Node -> Runtime \cup {NoRt}]
      /\ Settling' = Settling \ {n}
  BY <1>1, <1>2 DEF TypeOK, Settling
<1>5. Ceiling'
  BY <1>1, <1>2, <1>4, CeilingKept DEF IInv, Slots
<1>6. (\A m : DepsOf(m)' = DepsOf(m)) /\ (\A m : DepsDone(m)' <=> DepsDone(m))
  BY <1>2 DEF DepsOf, DepsDone, durable
<1>7. Hands'
  BY <1>1, <1>2, <1>3, <1>4, <1>6 DEF Hands, durable, Undecided
<1>8. section \in Seq(Node) /\ (\A i, j \in 1..Len(section) : section[i] = section[j] => i = j)
       /\ \A i \in 1..Len(section) : section[i] \in Node /\ step[section[i]] \notin {"none", "proof"}
  BY <1>1, ElementOfSeq DEF TypeOK, Queue
<1>9. /\ Tail(section) \in Seq(Node)
      /\ \A i, j \in 1..Len(Tail(section)) : Tail(section)[i] = Tail(section)[j] => i = j
      /\ \A i \in 1..Len(Tail(section)) : /\ Tail(section)[i] # Head(section)
                                          /\ \E j \in 1..Len(section) : Tail(section)[i] = section[j]
  BY <1>2, <1>8, Dequeue
<1>10. Queue' /\ section' \in Seq(Node)
  BY <1>2, <1>3, <1>8, <1>9 DEF Queue
<1>11. TypeOK'
  BY <1>1, <1>2, <1>3, <1>4, <1>10, DurableKept, NodesTyped, TypedAgain
<1>12. Inline' /\ Ledger'
  BY <1>1, <1>2, <1>3 DEF IInv, Inline, Ledger, durable, TypeOK
<1>13. Ended'
  BY <1>1, <1>2, <1>3, <1>4 DEF IInv, Ended, durable, Settled
<1>14. Blocked'
  BY <1>2, <1>6 DEF IInv, Blocked, Stays, PassedOver, durable
<1> QED
  BY <1>5, <1>7, <1>10, <1>11, <1>12, <1>13, <1>14 DEF IInv

\* Steps that touch neither a node's state nor the slot.
LEMMA NodesKept ==
  ASSUME IInv,
         UNCHANGED <<contract, status, code, autoRetries, autos, erased, parkedBefore,
                     running, held, section, step, inline>>
  PROVE  /\ Ceiling' /\ Hands' /\ Queue' /\ Ledger' /\ Blocked'
         /\ Settling' = Settling /\ \A n \in Node : Settled(n)' <=> Settled(n)
<1>1. Settling' = Settling /\ (\A n : DepsOf(n)' = DepsOf(n)) /\ (\A n : DepsDone(n)' <=> DepsDone(n))
  BY DEF Settling, DepsOf, DepsDone
<1>2. Ceiling' /\ Queue' /\ Ledger'
  BY <1>1 DEF IInv, Ceiling, Slots, Queue, Ledger, MaxParallel
<1>3. Hands'
  BY <1>1 DEF IInv, Hands
<1>4. Blocked'
  BY <1>1 DEF IInv, Blocked, Stays, PassedOver
<1> QED
  BY <1>1, <1>2, <1>3, <1>4 DEF Settled

LEMMA ExitKeeps ==
  ASSUME IInv, NEW n \in Node, Exit(n), UNCHANGED contract
  PROVE  IInv'
<1> USE DEF Exit
<1>0. UNCHANGED <<durable, contract>>
  BY Zenon
<1>1. Ceiling' /\ Hands' /\ Queue' /\ Ledger' /\ Blocked' /\ Settling' = Settling
      /\ \A m \in Node : Settled(m)' <=> Settled(m)
  BY <1>0, NodesKept DEF durable
<1>2. TypeOK'
  BY <1>0, DurableKept, NodesTyped, TypedAgain DEF IInv
<1>3. Inline' /\ Ended'
  BY <1>1 DEF IInv, Inline, Ended, durable
<1> QED
  BY <1>1, <1>2, <1>3 DEF IInv

LEMMA SignalKeeps ==
  ASSUME IInv, Signal, UNCHANGED contract
  PROVE  IInv'
<1> USE DEF Signal
<1>0. UNCHANGED <<durable, contract>>
  BY Zenon
<1>1. Ceiling' /\ Hands' /\ Queue' /\ Ledger' /\ Blocked' /\ Settling' = Settling
      /\ \A m \in Node : Settled(m)' <=> Settled(m)
  BY <1>0, NodesKept DEF durable
<1>2. TypeOK'
  BY <1>0, DurableKept, NodesTyped, TypedAgain DEF IInv
<1>3. Inline' /\ Ended'
  BY <1>1 DEF IInv, Inline, Ended, durable
<1> QED
  BY <1>1, <1>2, <1>3 DEF IInv

LEMMA TickTopKeeps ==
  ASSUME IInv, TickTop, UNCHANGED contract
  PROVE  IInv'
<1> USE DEF TickTop
<1>0. UNCHANGED <<durable, contract>>
  BY Zenon
<1>1. Ceiling' /\ Hands' /\ Queue' /\ Ledger' /\ Blocked'
  BY <1>0, NodesKept DEF durable
<1>2. pc' \in {"cancelwait", "sweep"}
  OBVIOUS
<1>3. TypeOK'
  BY <1>0, <1>2, DurableKept, NodesTyped, TypedAgain DEF IInv, PC
<1>4. Inline' /\ Ended'
  BY <1>2 DEF IInv, Inline, Ended
<1> QED
  BY <1>1, <1>3, <1>4 DEF IInv

\* Without a settle window nothing holds the slot, and nothing waits for it.
LEMMA NoneSettling ==
  ASSUME IInv, Settling = {}
  PROVE  section = <<>> /\ \A n \in Node : step[n] = "none"
<1>1. TypeOK /\ Hands /\ Queue
  BY DEF IInv
<1>2. \A n \in Node : step[n] = "none"
  BY <1>1 DEF Hands
<1>3. section \in Seq(Node)
  BY <1>1 DEF TypeOK
<1>4. Len(section) \in Nat /\ \A i \in 1..Len(section) : section[i] \in Node
  BY <1>3, LenProperties, ElementOfSeq
<1>5. Len(section) = 0
  <2> SUFFICES ASSUME Len(section) # 0 PROVE FALSE
    OBVIOUS
  <2>1. 1 \in 1..Len(section)
    BY <1>4
  <2> QED
    BY <1>1, <1>2, <1>4, <2>1 DEF Queue
<1> QED
  BY <1>2, <1>3, <1>5, EmptySeq

LEMMA StopKeeps ==
  ASSUME IInv, Stop, UNCHANGED contract
  PROVE  IInv'
<1> USE DEF Stop
<1>0. UNCHANGED <<durable, contract>>
  BY Zenon
<1>1. Ceiling' /\ Hands' /\ Queue' /\ Ledger' /\ Blocked' /\ Settling' = Settling
      /\ \A m \in Node : Settled(m)' <=> Settled(m)
  BY <1>0, NodesKept DEF durable
<1>2. section = <<>> /\ pc' = "stopped"
  BY NoneSettling
<1>3. TypeOK'
  BY <1>0, <1>2, DurableKept, NodesTyped, TypedAgain DEF IInv, PC
<1>4. Inline' /\ Ended'
  BY <1>1, <1>2 DEF IInv, Inline, Ended
<1> QED
  BY <1>1, <1>3, <1>4 DEF IInv

\* Every closed job leaves `running' for a settle window of its own.
LEMMA SettleClosedKeeps ==
  ASSUME IInv, SettleClosed, UNCHANGED contract
  PROVE  IInv'
<1>1. TypeOK /\ Hands /\ Queue
  BY DEF IInv
<1> DEFINE S == {n \in closed : held[n] = NoRt}
<1>2. PICK q \in SetToSeqs(S) : section' = section \o q
  BY DEF SettleClosed
<1>3. /\ pc = "sweep" /\ pc' = "stalls"
      /\ running' = running \ S /\ closed' = closed \ S
      /\ held' = [n \in Node |-> IF n \in S THEN Rt(n, stage[n]) ELSE held[n]]
      /\ step' = [n \in Node |-> IF n \in S THEN "outcome" ELSE step[n]]
      /\ UNCHANGED <<durable, canceled, parkedBefore, inline, continued, lives>>
  BY Zenon DEF SettleClosed
<1>4. S \subseteq running /\ S \in SUBSET Node /\ (\A n \in S : step[n] = "none" /\ n \notin Settling)
  BY <1>1 DEF TypeOK, Hands, Settling
<1> HIDE DEF S
<1>5. contract \in ContractType
  BY <1>1 DEF TypeOK
<1>6. \A n \in Node : Rt(n, stage[n]) \in Runtime
  BY <1>1 DEF Rt, TypeOK
<1>7. /\ held' \in [Node -> Runtime \cup {NoRt}] /\ step' \in [Node -> Step]
      /\ Settling' = Settling \cup S
  BY <1>1, <1>3, <1>4, <1>6 DEF TypeOK, Settling, Step
<1>8. (\A m : DepsOf(m)' = DepsOf(m)) /\ (\A m : DepsDone(m)' <=> DepsDone(m))
  BY <1>3 DEF DepsOf, DepsDone, durable
<1>9. Ceiling'
  BY <1>1, <1>3, <1>4, <1>7, CeilingKept DEF IInv, Slots
<1>10. Hands'
  <2>1. ASSUME NEW m \in Node
        PROVE  /\ m \in running' => status'[m] = "running" /\ step'[m] \in {"none", "end"}
               /\ step'[m] \in Undecided => status'[m] \in {"running", "pending"}
               /\ status'[m] = "running" \/ step'[m] \in Undecided => DepsDone(m)'
               /\ step'[m] # "none" => m \in Settling'
    <3>1. CASE m \in S
      BY <1>1, <1>3, <1>4, <1>7, <1>8, <3>1 DEF Hands, durable
    <3>2. CASE m \notin S
      BY <1>1, <1>3, <1>7, <1>8, <3>2 DEF Hands, durable
    <3> QED
      BY <3>1, <3>2
  <2> QED
    BY <2>1 DEF Hands
<1>11. section \in Seq(Node) /\ (\A i, j \in 1..Len(section) : section[i] = section[j] => i = j)
       /\ \A i \in 1..Len(section) : section[i] \in Node /\ step[section[i]] \notin {"none", "proof"}
  BY <1>1, ElementOfSeq DEF TypeOK, Queue
<1>12. \A i \in 1..Len(section) : section[i] \notin S
  BY <1>4, <1>11
<1>13. /\ section' \in Seq(Node)
       /\ \A i, j \in 1..Len(section') : section'[i] = section'[j] => i = j
       /\ \A i \in 1..Len(section') : section'[i] \in S \/ \E j \in 1..Len(section) : section'[i] = section[j]
  <2>1. section \in Seq(Node) /\ S \in SUBSET Node /\ q \in SetToSeqs(S)
        /\ Distinct(section) /\ Avoids(section, S)
    BY <1>2, <1>4, <1>11, <1>12, Zenon DEF Distinct, Avoids
  <2>2. section' \in Seq(Node) /\ Distinct(section') /\ From(section', S, section)
    BY <1>2, <2>1, Enqueue, Zenon
  <2> QED
    BY <2>2, Zenon DEF Distinct, From
<1>14. Queue'
  <2>1. \A j \in 1..Len(section) : step'[section[j]] = step[section[j]]
    BY <1>3, <1>11, <1>12
  <2>2. \A n \in S : step'[n] \notin {"none", "proof"}
    BY <1>3, <1>4
  <2>3. ASSUME NEW i \in 1..Len(section')
        PROVE  step'[section'[i]] \notin {"none", "proof"}
    <3>1. CASE section'[i] \in S
      BY <2>2, <3>1
    <3>2. CASE \E j \in 1..Len(section) : section'[i] = section[j]
      <4>1. PICK j \in 1..Len(section) : section'[i] = section[j]
        BY <3>2
      <4>2. step[section[j]] \notin {"none", "proof"}
        BY <1>11
      <4> QED
        BY <2>1, <4>1, <4>2
    <3> QED
      BY <1>13, <3>1, <3>2
  <2> QED
    BY <1>13, <2>3 DEF Queue
<1>15. inline = NoNode
  BY <1>3 DEF IInv, Inline
<1>16. Inline' /\ Ledger' /\ Ended'
  BY <1>3, <1>15 DEF IInv, Inline, Ledger, Ended, durable
<1>17. Blocked'
  BY <1>3, <1>8 DEF IInv, Blocked, Stays, PassedOver, durable
<1>19. running' \subseteq Node /\ closed' \subseteq running' /\ pc' \in PC
  BY <1>1, <1>3 DEF TypeOK, PC
<1>18. TypeOK'
  BY <1>1, <1>3, <1>4, <1>7, <1>13, <1>19, DurableKept, NodesTyped, TypedAgain
<1> QED
  BY <1>9, <1>10, <1>14, <1>16, <1>17, <1>18 DEF IInv

\* Lost leaves nothing in hand.
LEMMA LostKeeps ==
  ASSUME IInv, Lost, UNCHANGED <<contract, status, stage, code, autos>>,
         autoRetries \subseteq autoRetries', autoRetries' \subseteq Node
  PROVE  IInv'
<1>1. TypeOK /\ Hands
  BY DEF IInv
<1>2. /\ pc' = "down" /\ canceled' = FALSE
      /\ running' = {} /\ closed' = {} /\ section' = <<>> /\ inline' = NoNode /\ continued' = {}
      /\ held' = [n \in Node |-> NoRt] /\ step' = [n \in Node |-> "none"]
      /\ UNCHANGED <<revisions, reask, jfail, routing, copy, erased, parkedBefore, lives>>
  BY Zenon DEF Lost
<1>3. Settling' = {}
  BY <1>2 DEF Settling
<1>4. (\A m : DepsOf(m)' = DepsOf(m)) /\ (\A m : DepsDone(m)' <=> DepsDone(m))
  BY DEF DepsOf, DepsDone
<1>5. Ceiling'
  BY <1>1, <1>2, <1>3, CeilingKept DEF IInv
<1>6. step' \in [Node -> Step] /\ held' \in [Node -> Runtime \cup {NoRt}]
      /\ section' \in Seq(Node) /\ Len(section') = 0
  BY <1>2, EmptySeq DEF Step
<1>7. TypeOK'
  <2>1. Carried'
    BY <1>1, <1>2, CarriedOn DEF TypeOK
  <2>2. Recorded' /\ pc' \in PC
    BY <1>1, <1>2 DEF TypeOK, Recorded, PC
  <2> QED
    BY <1>1, <1>2, <1>6, <2>1, <2>2, NodesTyped, TypedAgain
<1>8. Hands'
  BY <1>1, <1>2, <1>4 DEF Hands, Undecided
<1>9. Inline' /\ Ended' /\ Queue'
  BY <1>2, <1>3, <1>6 DEF Inline, Ended, Queue
<1>10. Ledger'
  BY <1>1, <1>2 DEF IInv, Ledger, TypeOK
<1>11. Blocked'
  BY <1>2, <1>4 DEF IInv, Blocked, Stays, PassedOver
<1> QED
  BY <1>5, <1>7, <1>8, <1>9, <1>10, <1>11 DEF IInv

\* The stall handler's own integration.
LEMMA StallIntegratedKeeps ==
  ASSUME IInv, StallIntegrated, UNCHANGED contract
  PROVE  IInv'
<1>1. TypeOK /\ Queue
  BY DEF IInv
<1>2. /\ pc = "stalls" /\ inline # NoNode /\ Integrated(inline) /\ inline' = NoNode
      /\ UNCHANGED <<reask, jfail, retries, pc, canceled, parkedBefore, closed, held,
                     section, step, continued, lives>>
  BY Zenon DEF StallIntegrated
<1>3. inline \in Node /\ inline \notin running /\ step[inline] \in {"none", "end"}
  BY <1>1, <1>2 DEF IInv, Inline, TypeOK
<1>4. Decides(inline) /\ inline \notin running'
  BY <1>1, <1>2, <1>3, IntegratedDecides
<1>10. Carried'
  BY <1>1, <1>2, <1>3, IntegratedDecides, CarriedOn DEF TypeOK
<1>5. Retries(inline)
  BY <1>2 DEF Retries
<1>6. /\ Ceiling' /\ Hands' /\ Inline' /\ Ledger' /\ Ended' /\ Blocked'
      /\ status' \in [Node -> Status] /\ stage' \in [Node -> Role]
      /\ code' \in [Node -> Code] /\ running' \subseteq Node /\ running \ {inline} \subseteq running'
      /\ step' \in [Node -> Step]
      /\ Recorded'
  BY <1>2, <1>3, <1>4, <1>5, DecideKeeps
<1>7. Queue'
  BY <1>1, <1>2 DEF Queue
<1>8. closed' \subseteq running'
  BY <1>1, <1>2, <1>3, <1>6 DEF TypeOK
<1>9. TypeOK'
  BY <1>1, <1>2, <1>6, <1>8, <1>10, NodesTyped, TypedAgain
<1> QED
  BY <1>6, <1>7, <1>9 DEF IInv

\* What the stall handler decides on a job it has killed.
LEMMA StallTurns ==
  ASSUME IInv, NEW n \in Node, StallTimeout(n)
  PROVE  /\ pc = "stalls" /\ inline = NoNode /\ n \in running /\ reask' \in [Node -> BOOLEAN]
         /\ \/ Decides(n) /\ Retries(n) /\ UNCHANGED inline
            \/ /\ inline' = n /\ running' = running \ {n}
               /\ UNCHANGED <<status, stage, code, retries>>
<1>1. TypeOK
  BY DEF IInv
<1>2. pc = "stalls" /\ inline = NoNode /\ n \in running
  BY DEF StallTimeout
<1>3. CASE FailJob(n) /\ running' = running \ {n} /\ UNCHANGED <<reask, inline>>
  BY <1>1, <1>2, <1>3, FailDecides DEF TypeOK
<1>4. CASE /\ reask' = [reask EXCEPT ![n] = TRUE]
           /\ \/ Transition(n, "running", "judge", "none") /\ UNCHANGED running
              \/ Park(n, "final") /\ running' = running \ {n}
              \/ Transition(n, "pending", "judge", "none") /\ running' = running \ {n}
           /\ UNCHANGED <<retries, inline>>
  <2>1. reask' \in [Node -> BOOLEAN]
    BY <1>1, <1>4, Zenon DEF TypeOK
  <2>2. Retries(n)
    BY <1>4 DEF Retries
  <2>3. CASE Transition(n, "running", "judge", "none") /\ UNCHANGED running
    <3>1. "running" \in Status /\ "none" \in Code \ {"dependency"} /\ running = running \cup {n}
      BY <1>2 DEF Status, Code
    <3>2. Decides(n)
      BY <2>3, <3>1, DecidesTo
    <3> QED
      BY <1>2, <1>4, <2>1, <2>2, <3>2
  <2>4. CASE Park(n, "final") /\ running' = running \ {n}
    BY <1>1, <1>2, <1>4, <2>1, <2>2, <2>4, ParkDecides
  <2>5. CASE Transition(n, "pending", "judge", "none") /\ running' = running \ {n}
    BY <1>2, <1>4, <2>1, <2>2, <2>5, ReopenDecides
  <2> QED
    BY <1>4, <2>3, <2>4, <2>5
<1>5. CASE Park(n, "retryable") /\ running' = running \ {n}
           /\ UNCHANGED <<reask, retries, inline>>
  BY <1>1, <1>2, <1>5, ParkDecides DEF Retries, TypeOK
<1>6. CASE /\ reask' = [reask EXCEPT ![n] = FALSE]
           /\ inline' = n /\ running' = running \ {n}
           /\ UNCHANGED <<status, stage, code, retries>>
  <2>1. reask' \in [Node -> BOOLEAN]
    BY <1>1, <1>6, Zenon DEF TypeOK
  <2> QED
    BY <1>2, <1>6, <2>1
<1> QED
  BY <1>3, <1>4, <1>5, <1>6, Zenon DEF StallTimeout

LEMMA StallTimeoutKeeps ==
  ASSUME IInv, NEW n \in Node, StallTimeout(n), UNCHANGED contract
  PROVE  IInv'
<1>1. TypeOK /\ Hands /\ Queue
  BY DEF IInv
<1>2. /\ closed' = closed \ {n} /\ continued' = continued \ {n}
      /\ UNCHANGED <<revisions, jfail, routing, pc, canceled, parkedBefore, held, section, step, lives>>
  BY Zenon DEF StallTimeout
<1>3. pc = "stalls" /\ inline = NoNode /\ n \in running /\ reask' \in [Node -> BOOLEAN]
  BY StallTurns
<1>4. status[n] = "running" /\ step[n] \in {"none", "end"} /\ n # inline
  BY <1>1, <1>3 DEF Hands
<1>8. Carried'
  BY <1>1, <1>2, <1>3, CarriedOn DEF TypeOK
<1>5. Queue'
  BY <1>1, <1>2 DEF Queue
<1>6. CASE Decides(n) /\ Retries(n) /\ UNCHANGED inline
  <2>1. /\ Ceiling' /\ Hands' /\ Inline' /\ Ledger' /\ Ended' /\ Blocked'
        /\ status' \in [Node -> Status] /\ stage' \in [Node -> Role]
        /\ code' \in [Node -> Code] /\ running' \subseteq Node /\ running \ {n} \subseteq running'
        /\ step' \in [Node -> Step]
        /\ Recorded'
    BY <1>2, <1>3, <1>4, <1>6, DecideKeeps
  <2>2. closed' \subseteq running' /\ continued' \subseteq Node
    BY <1>1, <1>2, <2>1 DEF TypeOK
  <2>3. TypeOK'
    BY <1>1, <1>2, <1>6, <1>8, <2>1, <2>2, NodesTyped, TypedAgain
  <2> QED
    BY <1>5, <2>1, <2>3 DEF IInv
<1>7. CASE /\ inline' = n /\ running' = running \ {n}
           /\ UNCHANGED <<status, stage, code, retries>>
  <2>1. Settling' = Settling /\ (\A m : DepsOf(m)' = DepsOf(m)) /\ (\A m : DepsDone(m)' <=> DepsDone(m))
    BY <1>2, <1>7 DEF Settling, DepsOf, DepsDone
  <2>2. Ceiling'
    BY <1>1, <1>7, <2>1, CeilingKept DEF IInv, Slots
  <2>3. Hands'
    BY <1>1, <1>2, <1>7, <2>1 DEF Hands
  <2>4. Inline' /\ Ledger' /\ Ended'
    BY <1>1, <1>2, <1>3, <1>4, <1>7 DEF IInv, Inline, Ledger, Ended
  <2>5. Blocked'
    BY <1>2, <1>7, <2>1 DEF IInv, Blocked, Stays, PassedOver
  <2>6. TypeOK'
    <3>1. Recorded'
      BY <1>1, <1>7 DEF TypeOK, Recorded
    <3>2. /\ running' \subseteq Node /\ closed' \subseteq running' /\ continued' \subseteq Node
          /\ inline' \in Node \cup {NoNode}
      BY <1>1, <1>2, <1>7 DEF TypeOK
    <3> QED
      BY <1>1, <1>2, <1>7, <1>8, <3>1, <3>2, NodesTyped, TypedAgain
  <2> QED
    BY <1>5, <2>2, <2>3, <2>4, <2>5, <2>6 DEF IInv
<1> QED
  BY <1>6, <1>7, StallTurns

\* The bottom of the tick: the parked nodes that have a retry left reopen.
LEMMA ExitCheckKeeps ==
  ASSUME IInv, ExitCheck, UNCHANGED contract
  PROVE  IInv'
<1>1. TypeOK /\ Hands /\ Queue
  BY DEF IInv
<1> DEFINE R == Retriable(status)
<1>2. /\ pc = "notify"
      /\ status' = Reopened(status, R)
      /\ code' = [n \in Node |-> IF n \in R THEN "none" ELSE code[n]]
      /\ autoRetries' = autoRetries \cup R
      /\ autos' = [n \in Node |-> IF n \in R THEN autos[n] + 1 ELSE autos[n]]
      /\ pc' = IF \A n \in Node : Reopened(status, R)[n] \in {"done", "parked", "canceled"}
               THEN "drain" ELSE "top"
      /\ UNCHANGED <<stage, revisions, reask, jfail, routing, copy, erased, canceled, parkedBefore,
                     running, closed, held, section, step, inline, continued, lives>>
  BY Zenon DEF ExitCheck
<1>3. \A n \in R : /\ n \in Node /\ status[n] = "parked" /\ code[n] = "retryable"
                  /\ n \notin parkedBefore /\ n \notin autoRetries
  BY DEF Retriable
<1> HIDE DEF R
<1>4. /\ \A n \in Node : status'[n] = IF n \in R THEN "pending" ELSE status[n]
      /\ \A n \in Node : code'[n] = IF n \in R THEN "none" ELSE code[n]
      /\ status' \in [Node -> Status] /\ code' \in [Node -> Code]
      /\ Recorded'
  <2>1. /\ \A n \in Node : status'[n] = IF n \in R THEN "pending" ELSE status[n]
        /\ \A n \in Node : code'[n] = IF n \in R THEN "none" ELSE code[n]
        /\ status' \in [Node -> Status] /\ code' \in [Node -> Code]
    BY <1>1, <1>2, <1>3 DEF Reopened, TypeOK, Status, Code
  <2>2. autos' \in [Node -> Nat]
    <3>1. autos \in [Node -> Nat]
      BY <1>1 DEF TypeOK
    <3>2. autos' = [n \in Node |-> IF n \in R THEN autos[n] + 1 ELSE autos[n]]
      BY <1>2
    <3>3. \A n \in Node : (IF n \in R THEN autos[n] + 1 ELSE autos[n]) \in Nat
      BY <3>1
    <3> QED
      BY <3>2, <3>3
  <2>3. Recorded'
    BY <1>1, <1>2, <1>3, <2>2 DEF TypeOK, Recorded
  <2> QED
    BY <2>1, <2>3
<1>5. Settling' = Settling /\ (\A m : DepsOf(m)' = DepsOf(m))
  BY <1>2 DEF Settling, DepsOf
<1>6. \A m : DepsDone(m) => DepsDone(m)'
  BY <1>3, <1>4, <1>5 DEF DepsDone, DepsOf
<1>7. Ceiling'
  BY <1>1, <1>2, <1>5, CeilingKept DEF IInv, Slots
<1>8. Hands'
  <2>1. ASSUME NEW m \in Node
        PROVE  /\ m \in running' => status'[m] = "running" /\ step'[m] \in {"none", "end"}
               /\ step'[m] \in Undecided => status'[m] \in {"running", "pending"}
               /\ status'[m] = "running" \/ step'[m] \in Undecided => DepsDone(m)'
               /\ step'[m] # "none" => m \in Settling'
    BY <1>1, <1>2, <1>3, <1>4, <1>5, <1>6 DEF Hands
  <2> QED
    BY <2>1 DEF Hands
<1>9. Queue' /\ Ledger'
  <2>1. Queue'
    BY <1>1, <1>2 DEF Queue
  <2>2. ASSUME NEW n \in Node
        PROVE  autos'[n] <= erased'[n] + (IF n \in autoRetries' THEN 1 ELSE 0)
    <3>1. /\ autos[n] <= erased[n] + (IF n \in autoRetries THEN 1 ELSE 0)
          /\ autos[n] \in Nat /\ erased[n] \in Nat /\ erased' = erased
      BY <1>1, <1>2 DEF IInv, Ledger, TypeOK
    <3>2. CASE n \in R
      BY <1>2, <1>3, <3>1, <3>2
    <3>3. CASE n \notin R
      BY <1>2, <3>1, <3>3
    <3> QED
      BY <3>2, <3>3
  <2> QED
    BY <2>1, <2>2 DEF Ledger
<1>10. pc' \in {"drain", "top"} /\ (pc' = "drain" => \A n \in Node : status'[n] \in {"done", "parked", "canceled"})
  BY <1>2, Zenon
<1>11. Inline' /\ Ended'
  <2>1. Inline'
    BY <1>2 DEF IInv, Inline
  <2>2. ASSUME pc' = "drain"
        PROVE  running' = {} /\ \A n \in Node : Settled(n)' /\ step'[n] \in {"none", "end"}
    <3>1. \A n \in Node : status'[n] \in {"done", "parked", "canceled"}
      BY <1>10, <2>2
    <3>2. running' = {}
      <4>1. running' \subseteq Node
        BY <1>1, <1>2 DEF TypeOK
      <4>2. \A n \in running' : status'[n] = "running"
        BY <1>8, <4>1 DEF Hands
      <4> QED
        BY <3>1, <4>1, <4>2
    <3>3. \A n \in Node : step'[n] \in {"none", "end"}
      BY <1>1, <1>2, <1>8, <3>1 DEF Hands, Undecided, TypeOK
    <3> QED
      BY <3>1, <3>2, <3>3 DEF Settled
  <2>3. Ended'
    BY <1>10, <2>2 DEF Ended
  <2> QED
    BY <2>1, <2>3
<1>12. Blocked'
  <2>1. ASSUME NEW m \in Node \ parkedBefore', status'[m] = "parked", code'[m] = "dependency"
        PROVE  \E d \in DepsOf(m)' : Stays(d)'
    <3>1. status[m] = "parked" /\ code[m] = "dependency" /\ m \in Node \ parkedBefore
      BY <1>2, <1>4, <2>1
    <3>2. PICK d \in DepsOf(m) : Stays(d)
      BY <3>1 DEF IInv, Blocked
    <3>3. d \in Node /\ (PassedOver(d) => d \notin R)
      BY <1>3, <3>2 DEF DepsOf, PassedOver
    <3>4. Stays(d)'
      BY <1>2, <1>4, <3>2, <3>3 DEF Stays, PassedOver
    <3> QED
      BY <1>5, <3>2, <3>4
  <2> QED
    BY <2>1 DEF Blocked
<1>13. TypeOK'
  <2>1. Carried' /\ pc' \in PC
    BY <1>1, <1>2, <1>10, CarriedOn DEF TypeOK, PC
  <2> QED
    BY <1>1, <1>2, <1>4, <2>1, NodesTyped, TypedAgain
<1> QED
  BY <1>7, <1>8, <1>9, <1>11, <1>12, <1>13 DEF IInv

\* The cancelled run marks what is left, with no settlement in flight.
LEMMA CancelAllKeeps ==
  ASSUME IInv, CancelAll, UNCHANGED contract
  PROVE  IInv'
<1>1. TypeOK /\ Hands /\ Queue
  BY DEF IInv
<1>2. /\ pc = "cancelwait" /\ Settling = {}
      /\ running' = {} /\ closed' = {} /\ continued' = {}
      /\ status' = [n \in Node |-> IF Settled(n) THEN status[n] ELSE "canceled"]
      /\ pc' = "drain"
      /\ UNCHANGED <<stage, code, revisions, reask, jfail, routing, retries, canceled, parkedBefore,
                     held, section, step, inline, lives>>
  BY Zenon DEF CancelAll
<1>3. section = <<>> /\ \A n \in Node : step[n] = "none"
  BY <1>2, NoneSettling
<1>4. /\ status' \in [Node -> Status]
      /\ \A n \in Node : status'[n] = status[n] \/ (status'[n] = "canceled" /\ ~Settled(n))
      /\ \A n \in Node : status'[n] \in {"done", "parked", "canceled"}
  <2>1. ASSUME NEW n \in Node
        PROVE  /\ status'[n] \in Status /\ status'[n] \in {"done", "parked", "canceled"}
               /\ status'[n] = status[n] \/ (status'[n] = "canceled" /\ ~Settled(n))
    <3>1. status'[n] = IF Settled(n) THEN status[n] ELSE "canceled"
      BY <1>2
    <3>2. CASE Settled(n)
      <4>1. status'[n] = status[n]
        BY <3>1, <3>2, Zenon
      <4>2. status[n] \in {"done", "parked", "canceled"}
        BY <3>2 DEF Settled
      <4> QED
        BY <4>1, <4>2 DEF Status
    <3>3. CASE ~Settled(n)
      <4>1. status'[n] = "canceled"
        BY <3>1, <3>3, Zenon
      <4> QED
        BY <3>3, <4>1 DEF Status
    <3> QED
      BY <3>2, <3>3
  <2>2. status' \in [Node -> Status]
    BY <1>2, <2>1
  <2> QED
    BY <2>1, <2>2
<1>5. Settling' = {} /\ (\A m : DepsOf(m)' = DepsOf(m))
  BY <1>2 DEF Settling, DepsOf
<1>6. Ceiling'
  BY <1>1, <1>2, <1>5, CeilingKept DEF IInv
<1>7. Hands' /\ Ended'
  BY <1>2, <1>3, <1>4, <1>5 DEF Hands, Ended, Undecided, Settled
<1>8. Queue' /\ Ledger' /\ Inline'
  BY <1>1, <1>2 DEF IInv, Queue, Ledger, Inline
<1>9. Blocked'
  <2>1. ASSUME NEW m \in Node \ parkedBefore', status'[m] = "parked", code'[m] = "dependency"
        PROVE  \E d \in DepsOf(m)' : Stays(d)'
    <3>1. status[m] = "parked" /\ code[m] = "dependency" /\ m \in Node \ parkedBefore
      BY <1>2, <1>4, <2>1
    <3>2. PICK d \in DepsOf(m) : Stays(d)
      BY <3>1 DEF IInv, Blocked
    <3>3. d \in Node /\ (PassedOver(d) => Settled(d))
      BY <3>2 DEF DepsOf, PassedOver, Settled
    <3>4. Stays(d)'
      BY <1>2, <1>4, <3>2, <3>3 DEF Stays, PassedOver
    <3> QED
      BY <1>5, <3>2, <3>4
  <2> QED
    BY <2>1 DEF Blocked
<1>10. TypeOK'
  <2>1. Carried'
    BY <1>1, <1>2, CarriedOn DEF TypeOK
  <2>2. Recorded' /\ pc' \in PC
    BY <1>1, <1>2 DEF TypeOK, Recorded, PC
  <2> QED
    BY <1>1, <1>2, <1>4, <2>1, <2>2, NodesTyped, TypedAgain
<1> QED
  BY <1>6, <1>7, <1>8, <1>9, <1>10 DEF IInv

\* What a resume leaves of a node: no job, and every part what it should be.
Left ==
  [status : {"pending", "done", "parked", "canceled"}, stage : Role, code : Code,
   revisions : 0..MaxRevisions, reask : BOOLEAN, jfail : BOOLEAN,
   route : [Role -> Runtime], wait : Wait, routes : Nat]

Snap ==
  [status : Status, stage : Role, code : Code,
   revisions : 0..MaxRevisions, reask : BOOLEAN, jfail : BOOLEAN,
   route : [Role -> Runtime], wait : Wait, routes : Nat]

LEMMA SnapshotTyped ==
  ASSUME TypeOK, NEW n \in Node
  PROVE  Snapshot(n) \in Snap /\ (status[n] # "running" => Snapshot(n) \in Left)
<1>1. /\ revisions[n] \in 0..MaxRevisions /\ route[n] \in [Role -> Runtime]
      /\ wait[n] \in Wait /\ routes[n] \in Nat
      /\ status[n] \in Status /\ stage[n] \in Role /\ code[n] \in Code
  BY DEF TypeOK
<1>2. reask[n] \in BOOLEAN /\ jfail[n] \in BOOLEAN
  BY Zenon DEF TypeOK
<1>3. Snapshot(n) \in Snap
  BY <1>1, <1>2, Zenon DEF Snapshot, Snap
<1>4. ASSUME status[n] # "running" PROVE Snapshot(n) \in Left
  <2>1. status[n] \in {"pending", "done", "parked", "canceled"}
    BY <1>1, <1>4 DEF Status
  <2> QED
    BY <1>1, <1>2, <2>1, Zenon DEF Snapshot, Left
<1> QED
  BY <1>3, <1>4

\* A snapshot rewritten in place.
LEMMA BecomeLeft ==
  ASSUME TypeOK, NEW n \in Node, NEW s \in {"pending", "done", "parked", "canceled"},
         NEW g \in Role, NEW c \in Code
  PROVE  Become(n, s, g, c) \in Left
<1>1. Snapshot(n) \in Snap
  BY SnapshotTyped
<1> QED
  BY <1>1 DEF Become, Snap, Left

\* A rejection found in the evidence is one more revision, on a runtime it has.
LEMMA RejectedLeft ==
  ASSUME TypeOK, NEW n \in Node, revisions[n] # MaxRevisions,
         NEW r \in {Rt(n, "worker"), Assigned(n).worker}
  PROVE  [Become(n, "pending", "worker", "none") EXCEPT
            !.revisions = @ + 1, !.wait = Ready, !.route.worker = r] \in Left
<1> DEFINE b == Become(n, "pending", "worker", "none")
<1>1. revisions[n] \in 0..MaxRevisions /\ route[n] \in [Role -> Runtime] /\ contract \in ContractType
  BY DEF TypeOK
<1>2. r \in Runtime /\ MaxRevisions \in Nat
  BY <1>1 DEF Rt, Assigned, MaxRevisions, ContractType
<1>8. revisions[n] + 1 \in 0..MaxRevisions
  <2>1. ASSUME NEW v \in 0..MaxRevisions, v # MaxRevisions PROVE v + 1 \in 0..MaxRevisions
    BY <1>2, <2>1
  <2> QED
    BY <1>1, <2>1
<1>3. revisions[n] + 1 \in 0..MaxRevisions /\ Ready \in Wait
  BY <1>8 DEF Wait
<1>4. [route[n] EXCEPT !.worker = r] \in [Role -> Runtime]
  BY <1>1, <1>2
<1>5. b \in Left
  BY BecomeLeft DEF Code
<1>6. b.revisions = revisions[n] /\ b.route = route[n]
  BY DEF Become, Snapshot
<1> HIDE DEF b
<1>7. [b EXCEPT !.revisions = b.revisions + 1, !.wait = Ready,
               !.route = [b.route EXCEPT !.worker = r]] \in Left
  BY <1>3, <1>4, <1>5, <1>6 DEF Left
<1> QED
  BY <1>7 DEF b

\* A call that was out of quota goes on, on what it waits for or another.
LEMMA ReroutedLeft ==
  ASSUME TypeOK, NEW n \in Node, NEW w \in Wait, NEW r \in Runtime
  PROVE  LET hop == [Become(n, "pending", stage[n], "none") EXCEPT !.routes = @ + 1] IN
         /\ [hop EXCEPT !.wait = w] \in Left
         /\ [hop EXCEPT !.wait = w, !.route[stage[n]] = r] \in Left
<1> DEFINE b == Become(n, "pending", stage[n], "none")
           hop == [b EXCEPT !.routes = @ + 1]
<1>1. stage[n] \in Role
  BY DEF TypeOK
<1>2. b \in Left
  BY <1>1, BecomeLeft DEF Code
<1> HIDE DEF b
<1>3. hop \in Left
  BY <1>2 DEF Left
<1> HIDE DEF hop
<1>4. [hop EXCEPT !.wait = w] \in Left
  BY <1>3 DEF Left
<1>5. hop.route \in [Role -> Runtime]
  BY <1>3 DEF Left
<1>6. [hop.route EXCEPT ![stage[n]] = r] \in [Role -> Runtime]
  BY <1>1, <1>5
<1>7. [hop EXCEPT !.wait = w, !.route = [hop.route EXCEPT ![stage[n]] = r]] \in Left
  BY <1>3, <1>6 DEF Left
<1> QED
  BY <1>4, <1>7 DEF hop, b

LEMMA OrphanLeft ==
  ASSUME TypeOK, NEW n \in Node
  PROVE  OrphanTo(n) \subseteq Left
<1> DEFINE parked(c) == Become(n, "parked", stage[n], c)
           rejected ==
             IF revisions[n] = MaxRevisions THEN {parked("final")}
             ELSE {[Become(n, "pending", "worker", "none") EXCEPT
                      !.revisions = @ + 1, !.wait = Ready, !.route.worker = r] :
                     r \in {Rt(n, "worker"), Assigned(n).worker}}
           done == IF stage[n] = "judge" \/ n \notin Gated
                   THEN {Become(n, "done", stage[n], "none")} ELSE {}
           clear(o) == [o EXCEPT !.reask = FALSE, !.jfail = FALSE]
           asked == {[Become(n, "pending", "judge", "none") EXCEPT !.reask = TRUE, !.jfail = f] :
                       f \in {jfail[n], FALSE}}
           again == Become(n, "pending", stage[n], "none")
           hop == [again EXCEPT !.routes = @ + 1]
           rerouted ==
             {[hop EXCEPT !.wait = [kind |-> k, role |-> stage[n]]] : k \in {"reset", "delay"}}
             \cup {[hop EXCEPT !.wait = [kind |-> "delay", role |-> stage[n]], !.route[stage[n]] = r] :
                     r \in Runtime}
<1>1. stage[n] \in Role /\ {"none", "retryable", "final"} \subseteq Code
  BY DEF TypeOK, Code
<1>2. /\ Become(n, "pending", "worker", "none") \in Left
      /\ Become(n, "pending", "judge", "none") \in Left
      /\ parked("retryable") \in Left /\ parked("final") \in Left
      /\ Become(n, "done", stage[n], "none") \in Left
  BY <1>1, BecomeLeft
<1>3. rejected \subseteq Left
  BY <1>2, RejectedLeft
<1>4. done \subseteq Left
  BY <1>2
<1>5. ASSUME NEW o \in Left, NEW a \in BOOLEAN, NEW f \in BOOLEAN
      PROVE  [o EXCEPT !.reask = a, !.jfail = f] \in Left /\ [o EXCEPT !.jfail = f] \in Left
  BY <1>5, Zenon DEF Left
<1>6. jfail[n] \in BOOLEAN
  BY Zenon DEF TypeOK
<1>7. asked \subseteq Left
  BY <1>2, <1>5, <1>6, Zenon
<1>8. {clear(o) : o \in done \cup rejected} \subseteq Left
  <2> HIDE DEF done, rejected
  <2> QED
    BY <1>3, <1>4, <1>5, Zenon
<1>9. [parked("final") EXCEPT !.jfail = FALSE] \in Left
  BY <1>2, <1>5, Zenon
<1>10. rerouted \subseteq Left
  <2>1. \A k \in {"reset", "delay"} : [kind |-> k, role |-> stage[n]] \in Wait
    BY <1>1 DEF Wait
  <2>2. Runtime # {}
    <3>1. route[n] \in [Role -> Runtime]
      BY DEF TypeOK
    <3> QED
      BY <3>1
  <2>3. \A w \in Wait, r \in Runtime : [hop EXCEPT !.wait = w] \in Left
                                     /\ [hop EXCEPT !.wait = w, !.route[stage[n]] = r] \in Left
    BY ReroutedLeft, Zenon
  <2> HIDE DEF hop
  <2>4. \A w \in Wait : [hop EXCEPT !.wait = w] \in Left
    BY <2>2, <2>3, Zenon
  <2>5. {[hop EXCEPT !.wait = [kind |-> k, role |-> stage[n]]] : k \in {"reset", "delay"}} \subseteq Left
    BY <2>1, <2>4, Zenon
  <2>6. {[hop EXCEPT !.wait = [kind |-> "delay", role |-> stage[n]], !.route[stage[n]] = r] :
           r \in Runtime} \subseteq Left
    <3>1. [kind |-> "delay", role |-> stage[n]] \in Wait
      BY <2>1
    <3>2. ASSUME NEW r \in Runtime
          PROVE  [hop EXCEPT !.wait = [kind |-> "delay", role |-> stage[n]],
                             !.route[stage[n]] = r] \in Left
      BY <2>3, <3>1, Zenon
    <3> QED
      BY <3>2, Zenon
  <2> QED
    BY <2>5, <2>6, Zenon
<1>11. OrphanTo(n) =
         {Become(n, "pending", "worker", "none"), parked("retryable"), parked("final")}
         \cup done \cup rejected
         \cup (IF n \in Gated THEN {Become(n, "pending", "judge", "none")} ELSE {})
         \cup (IF stage[n] = "judge" THEN {clear(o) : o \in done \cup rejected} ELSE {})
         \cup (IF stage[n] = "judge" /\ ~reask[n] THEN asked ELSE {})
         \cup (IF stage[n] = "judge" /\ reask[n] THEN {[parked("final") EXCEPT !.jfail = FALSE]} ELSE {})
         \cup (IF routes[n] < MaxRoute[contract][n] THEN rerouted ELSE {})
  BY Zenon DEF OrphanTo
<1> HIDE DEF done, rejected, asked, rerouted, clear, parked
<1> QED
  BY <1>2, <1>3, <1>4, <1>7, <1>8, <1>9, <1>10, <1>11

LEMMA ResumedLeft ==
  ASSUME TypeOK, NEW n \in Node, NEW targets, NEW t \in ResumedTo(n, targets)
  PROVE  t \in Left
<1>1. status[n] \in Status /\ stage[n] \in Role /\ code[n] \in Code
  BY DEF TypeOK
<1>2. ASSUME NEW s \in {"pending", "done", "parked", "canceled"}, NEW g \in Role, NEW c \in Code
      PROVE  Become(n, s, g, c) \in Left
  BY <1>2, BecomeLeft
<1>3. CASE status[n] = "running"
  BY <1>3, OrphanLeft DEF ResumedTo
<1>4. CASE status[n] # "running"
  <2>2. status[n] \in {"pending", "done", "parked", "canceled"}
    BY <1>1, <1>4 DEF Status
  <2>3. \A g \in Role : Become(n, "pending", g, "none") \in Left
    BY <1>2 DEF Code
  <2>4. Snapshot(n) \in Left
    BY <1>4, SnapshotTyped
  <2>5. t = Snapshot(n) \/ \E g \in Role : t = Become(n, "pending", g, "none")
    BY <1>4, <2>2 DEF ResumedTo
  <2> QED
    BY <2>3, <2>4, <2>5
<1> QED
  BY <1>3, <1>4

LEMMA ResumeKeeps ==
  ASSUME IInv, NEW targets, Resume(targets), UNCHANGED contract
  PROVE  IInv'
<1>1. TypeOK /\ Hands /\ Queue
  BY DEF IInv
<1>2. PICK to \in [Node -> UNION {ResumedTo(n, targets) : n \in Node}] :
        /\ \A n \in Node : to[n] \in ResumedTo(n, targets)
        /\ status' = [n \in Node |-> to[n].status]
        /\ stage' = [n \in Node |-> to[n].stage]
        /\ code' = [n \in Node |-> to[n].code]
        /\ revisions' = [n \in Node |-> to[n].revisions]
        /\ reask' = [n \in Node |-> to[n].reask]
        /\ jfail' = [n \in Node |-> to[n].jfail]
        /\ route' = [n \in Node |-> to[n].route]
        /\ wait' = [n \in Node |-> to[n].wait]
        /\ routes' = [n \in Node |-> to[n].routes]
        /\ parkedBefore' = {n \in Node : to[n].status = "parked"}
        /\ pc' = IF \A n \in Node : to[n].status \in {"done", "parked", "canceled"}
                 THEN "drain" ELSE "top"
  BY Zenon DEF Resume
<1>3. /\ pc \in {"stopped", "down"} /\ lives < MaxLife[contract]
      /\ canceled' = FALSE /\ lives' = lives + 1
      /\ UNCHANGED <<retries, running, closed, held, section, step, inline, continued>>
  BY Zenon DEF Resume
<1>4. \A n \in Node : to[n] \in Left
  BY <1>1, <1>2, ResumedLeft
<1>5. /\ status' \in [Node -> Status] /\ stage' \in [Node -> Role]
      /\ code' \in [Node -> Code] /\ parkedBefore' \subseteq Node
      /\ \A n \in Node : status'[n] # "running" /\ (status'[n] = "parked" => n \in parkedBefore')
  BY <1>2, <1>4 DEF Left, Status
<1>6. running = {} /\ Settling = {} /\ inline = NoNode
  BY <1>3 DEF IInv, Ended, Inline
<1>7. section = <<>> /\ \A n \in Node : step[n] = "none"
  BY <1>6, NoneSettling
<1>8. Settling' = {}
  BY <1>3, <1>6 DEF Settling
<1>9. Ceiling'
  BY <1>1, <1>3, <1>6, <1>8, CeilingKept DEF IInv
<1>10. Hands' /\ Blocked'
  BY <1>3, <1>5, <1>6, <1>7 DEF Hands, Undecided, Blocked
<1>11. Inline' /\ Queue' /\ Ledger'
  BY <1>1, <1>3, <1>6 DEF IInv, Inline, Queue, Ledger
<1>12. pc' \in {"drain", "top"}
       /\ (pc' = "drain" => \A n \in Node : to[n].status \in {"done", "parked", "canceled"})
  BY <1>2, Zenon
<1>13. pc' = "drain" => \A n \in Node : Settled(n)'
  BY <1>2, <1>12 DEF Settled
<1>14. Ended'
  BY <1>3, <1>6, <1>7, <1>12, <1>13 DEF Ended
<1>15. lives' \in 1..MaxLife[contract]'
  <2>1. contract \in Contract /\ lives \in 1..MaxLife[contract] /\ MaxLife[contract] \in Nat
    BY <1>1 DEF TypeOK
  <2> QED
    BY <1>3, <2>1
<1>16. Carried'
  <2>1. MaxRevisions' = MaxRevisions
    BY DEF MaxRevisions
  <2>2. revisions' \in [Node -> 0..MaxRevisions]
    BY <1>2, <1>4 DEF Left
  <2>3. reask' \in [Node -> BOOLEAN] /\ jfail' \in [Node -> BOOLEAN]
    <3>1. \A n \in Node : to[n].reask \in BOOLEAN /\ to[n].jfail \in BOOLEAN
      BY <1>4, Zenon DEF Left
    <3> QED
      BY <1>2, <3>1, Zenon
  <2>4. /\ route' \in [Node -> [Role -> Runtime]] /\ wait' \in [Node -> Wait]
        /\ routes' \in [Node -> Nat]
    BY <1>2, <1>4 DEF Left
  <2> QED
    BY <2>1, <2>2, <2>3, <2>4, Zenon DEF Carried
<1>17. TypeOK'
  <2>1. Recorded' /\ pc' \in PC
    BY <1>1, <1>3, <1>12 DEF TypeOK, Recorded, PC
  <2>2. /\ canceled' \in BOOLEAN /\ running' \subseteq Node /\ closed' \subseteq running'
        /\ held' \in [Node -> Runtime \cup {NoRt}] /\ section' \in Seq(Node)
        /\ step' \in [Node -> Step] /\ inline' \in Node \cup {NoNode} /\ continued' \subseteq Node
        /\ contract' \in Contract
    BY <1>1, <1>3 DEF TypeOK
  <2> QED
    BY <1>5, <1>15, <1>16, <2>1, <2>2, Zenon DEF TypeOK, Carried, Recorded
<1> QED
  BY <1>9, <1>10, <1>11, <1>14, <1>17 DEF IInv

\* A wait that is over, and what a supervisor reads, touch no node's state.
LEMMA DueKeeps ==
  ASSUME IInv, NEW n \in Node, Due(n), UNCHANGED contract
  PROVE  IInv'
<1>1. /\ UNCHANGED <<status, stage, code, revisions, reask, jfail, route, routes, retries, volatile, lives>>
      /\ wait' = [wait EXCEPT ![n] = Ready]
  BY Zenon DEF Due
<1>2. Ceiling' /\ Hands' /\ Queue' /\ Ledger' /\ Blocked' /\ Settling' = Settling
      /\ \A m \in Node : Settled(m)' <=> Settled(m)
  BY <1>1, NodesKept DEF volatile
<1>3. wait' \in [Node -> Wait]
  BY <1>1 DEF IInv, TypeOK, Wait
<1>4. Carried'
  BY <1>1, <1>3, CarriedOn DEF IInv, TypeOK
<1>5. TypeOK'
  <2>1. TypeOK /\ Recorded'
    BY <1>1 DEF IInv, TypeOK, Recorded
  <2>2. UNCHANGED volatile /\ UNCHANGED <<status, stage, code, lives>>
    BY <1>1
  <2> QED
    BY <1>4, <2>1, <2>2, NodesTyped, TypedAgain DEF volatile
<1>6. Inline' /\ Ended'
  BY <1>1, <1>2 DEF IInv, Inline, Ended, volatile
<1> QED
  BY <1>2, <1>5, <1>6 DEF IInv

LEMMA SupervisorReadsKeeps ==
  ASSUME IInv, SupervisorReads, UNCHANGED contract
  PROVE  IInv'
<1>1. /\ UNCHANGED <<status, stage, code, revisions, reask, jfail, routing, autoRetries, autos, erased,
                     volatile, lives>>
      /\ copy' = {autoRetries}
  BY Zenon DEF SupervisorReads
<1>2. Ceiling' /\ Hands' /\ Queue' /\ Ledger' /\ Blocked' /\ Settling' = Settling
      /\ \A m \in Node : Settled(m)' <=> Settled(m)
  BY <1>1, NodesKept DEF volatile
<1>3. Carried'
  BY <1>1, CarriedOn DEF IInv, TypeOK
<1>4. TypeOK'
  <2>1. TypeOK /\ Recorded'
    BY <1>1 DEF IInv, TypeOK, Recorded
  <2>2. UNCHANGED volatile /\ UNCHANGED <<status, stage, code, lives>>
    BY <1>1
  <2> QED
    BY <1>3, <2>1, <2>2, NodesTyped, TypedAgain DEF volatile
<1>5. Inline' /\ Ended'
  BY <1>1, <1>2 DEF IInv, Inline, Ended, volatile
<1> QED
  BY <1>2, <1>4, <1>5 DEF IInv

\* A record written over is one counted as lost.
LEMMA PersistRelaunchKeeps ==
  ASSUME IInv, PersistRelaunch, UNCHANGED contract
  PROVE  IInv'
<1>1. /\ UNCHANGED <<status, stage, code, revisions, reask, jfail, routing, autos, volatile, lives>>
      /\ copy # {} /\ copy' = {}
      /\ \/ /\ autoRetries' \in copy
            /\ erased' = [n \in Node |-> IF n \in autoRetries \ autoRetries' THEN erased[n] + 1 ELSE erased[n]]
         \/ UNCHANGED <<autoRetries, erased>>
  BY Zenon DEF PersistRelaunch
<1>2. TypeOK /\ UNCHANGED volatile
  BY <1>1 DEF IInv
<1>3. /\ autoRetries' \subseteq Node /\ erased' \in [Node -> Nat]
      /\ \A n \in Node : /\ erased'[n] >= erased[n]
                         /\ n \in autoRetries \ autoRetries' => erased'[n] = erased[n] + 1
  <2>1. /\ autoRetries \subseteq Node /\ erased \in [Node -> Nat] /\ copy \subseteq SUBSET Node
    BY <1>2 DEF TypeOK
  <2>2. CASE /\ autoRetries' \in copy
             /\ erased' = [n \in Node |-> IF n \in autoRetries \ autoRetries' THEN erased[n] + 1 ELSE erased[n]]
    <3>1. autoRetries' \subseteq Node
      BY <2>1, <2>2
    <3>2. erased' \in [Node -> Nat]
      BY <2>1, <2>2
    <3>3. \A n \in Node : /\ erased'[n] >= erased[n]
                          /\ n \in autoRetries \ autoRetries' => erased'[n] = erased[n] + 1
      BY <2>1, <2>2
    <3> QED
      BY <3>1, <3>2, <3>3
  <2>3. CASE UNCHANGED <<autoRetries, erased>>
    BY <2>1, <2>3
  <2> QED
    BY <1>1, <2>2, <2>3
<1>4. Ledger'
  <2>1. ASSUME NEW n \in Node
        PROVE  autos'[n] <= erased'[n] + (IF n \in autoRetries' THEN 1 ELSE 0)
    <3>1. /\ autos[n] <= erased[n] + (IF n \in autoRetries THEN 1 ELSE 0)
          /\ autos[n] \in Nat /\ erased[n] \in Nat /\ erased'[n] \in Nat /\ autos' = autos
      BY <1>1, <1>2, <1>3 DEF IInv, Ledger, TypeOK
    <3> QED
      BY <1>3, <3>1
  <2> QED
    BY <2>1 DEF Ledger
<1>5. Blocked'
  <2>1. ASSUME NEW d \in Node, Stays(d) PROVE Stays(d)'
    <3>1. erased[d] \in Nat /\ erased'[d] \in Nat
      BY <1>2, <1>3 DEF TypeOK
    <3>2. CASE erased'[d] > 0
      BY <3>2 DEF Stays
    <3>3. CASE ~(erased'[d] > 0)
      <4>1. ~(erased[d] > 0) /\ ~(d \in autoRetries \ autoRetries')
        BY <1>3, <3>1, <3>3
      <4>2. PassedOver(d) /\ UNCHANGED <<status, code, parkedBefore>>
        BY <1>1, <2>1, <4>1 DEF Stays, volatile
      <4> QED
        BY <4>1, <4>2 DEF Stays, PassedOver
    <3> QED
      BY <3>2, <3>3
  <2>2. UNCHANGED <<status, code, parkedBefore>> /\ \A n \in Node : DepsOf(n)' = DepsOf(n)
    BY <1>1 DEF volatile, DepsOf
  <2>3. \A n \in Node : DepsOf(n) \subseteq Node
    BY DEF DepsOf
  <2> QED
    BY <2>1, <2>2, <2>3 DEF IInv, Blocked
<1>6. Ceiling' /\ Hands' /\ Queue' /\ Settling' = Settling
      /\ \A m \in Node : Settled(m)' <=> Settled(m)
  <2>1. UNCHANGED <<status, code, parkedBefore, running, held, section, step, inline>>
    BY <1>1 DEF volatile
  <2>2. Settling' = Settling /\ (\A n : DepsOf(n)' = DepsOf(n)) /\ (\A n : DepsDone(n)' <=> DepsDone(n))
    BY <2>1 DEF Settling, DepsOf, DepsDone
  <2>3. Ceiling' /\ Queue'
    BY <2>1, <2>2 DEF IInv, Ceiling, Slots, Queue, MaxParallel
  <2>4. Hands'
    BY <2>1, <2>2 DEF IInv, Hands
  <2> QED
    BY <2>1, <2>2, <2>3, <2>4 DEF Settled
<1>7. Carried'
  BY <1>1, <1>2, CarriedOn DEF TypeOK
<1>8. TypeOK'
  <2>1. Recorded'
    BY <1>1, <1>2, <1>3 DEF TypeOK, Recorded
  <2>2. UNCHANGED <<status, stage, code, lives>>
    BY <1>1
  <2> QED
    BY <1>2, <1>7, <2>1, <2>2, NodesTyped, TypedAgain DEF volatile
<1>9. Inline' /\ Ended'
  BY <1>1, <1>6 DEF IInv, Inline, Ended, volatile
<1> QED
  BY <1>4, <1>5, <1>6, <1>8, <1>9 DEF IInv

LEMMA BlockedBehind ==
  ASSUME NEW st, NEW B \in BlockedSets(st)
  PROVE  \A n \in B : n \in Node /\ st[n] = "pending" /\ \E d \in DepsOf(n) : st[d] = "parked" \/ d \in B
<1> DEFINE waiting == {n \in Node : st[n] = "pending"}
           parked == {d \in Node : st[d] = "parked"}
<1>1. B \in SUBSET waiting /\ \A n \in B : DepsOf(n) \cap (parked \cup (B \ {n})) # {}
  BY Zenon DEF BlockedSets
<1> QED
  BY <1>1

\* The dispatch pass.  It leaves what is in hand alone; what it starts has its
\* dependencies done, and takes a slot that admissionHold says is free.
LEMMA DispatchKeeps ==
  ASSUME IInv, Dispatch, UNCHANGED contract
  PROVE  IInv'
<1>1. TypeOK /\ Hands /\ Queue /\ contract \in ContractType
  BY DEF IInv, TypeOK
<1> DEFINE lost == {n \in Node : status[n] = "running" /\ n \notin running \cup Settling}
           st1 == [n \in Node |-> IF n \in lost THEN "parked" ELSE status[n]]
           R == Retriable(st1) \ lost
           st2 == Reopened(st1, R)
<1>2. PICK B \in BlockedSets(st2) :
        LET st3 == [n \in Node |-> IF n \in B THEN "parked" ELSE st2[n]]
            ready == {n \in Node : /\ st3[n] = "pending" /\ n \notin Settling /\ ~Waiting(n)
                                   /\ \A d \in DepsOf(n) : st3[d] = "done"} IN
        \E D \in SUBSET ready : \E F \in SUBSET {n \in D : stage[n] = "worker"} :
          LET J == {n \in D : stage[n] = "judge"}
              W == D \ (J \cup F) IN
          /\ Admits(D, ready)
          /\ status' = [n \in Node |-> IF n \in F THEN "parked"
                                       ELSE IF n \in W THEN "running" ELSE st3[n]]
          /\ code' = [n \in Node |-> IF n \in lost \cup F THEN "final"
                                     ELSE IF n \in R THEN "none"
                                     ELSE IF n \in B THEN "dependency" ELSE code[n]]
          /\ running' = running \cup W
          /\ held' = [n \in Node |-> IF n \in J THEN Rt(n, "judge") ELSE held[n]]
          /\ step' = [n \in Node |-> IF n \in J THEN "start" ELSE step[n]]
          /\ \E q \in SetToSeqs(J) : section' = section \o q
          /\ autoRetries' = autoRetries \cup R
          /\ autos' = [n \in Node |-> IF n \in R THEN autos[n] + 1 ELSE autos[n]]
  BY Zenon DEF Dispatch
<1> DEFINE st3 == [n \in Node |-> IF n \in B THEN "parked" ELSE st2[n]]
           ready == {n \in Node : /\ st3[n] = "pending" /\ n \notin Settling /\ ~Waiting(n)
                                  /\ \A d \in DepsOf(n) : st3[d] = "done"}
<1>3a. PICK D \in SUBSET ready : \E F \in SUBSET {n \in D : stage[n] = "worker"} :
        LET J == {n \in D : stage[n] = "judge"}
            W == D \ (J \cup F) IN
        /\ Admits(D, ready)
        /\ status' = [n \in Node |-> IF n \in F THEN "parked"
                                     ELSE IF n \in W THEN "running" ELSE st3[n]]
        /\ code' = [n \in Node |-> IF n \in lost \cup F THEN "final"
                                   ELSE IF n \in R THEN "none"
                                   ELSE IF n \in B THEN "dependency" ELSE code[n]]
        /\ running' = running \cup W
        /\ held' = [n \in Node |-> IF n \in J THEN Rt(n, "judge") ELSE held[n]]
        /\ step' = [n \in Node |-> IF n \in J THEN "start" ELSE step[n]]
        /\ \E q \in SetToSeqs(J) : section' = section \o q
        /\ autoRetries' = autoRetries \cup R
        /\ autos' = [n \in Node |-> IF n \in R THEN autos[n] + 1 ELSE autos[n]]
  BY <1>2, Zenon
<1>3. PICK F \in SUBSET {n \in D : stage[n] = "worker"} :
        LET J == {n \in D : stage[n] = "judge"}
            W == D \ (J \cup F) IN
        /\ Admits(D, ready)
        /\ status' = [n \in Node |-> IF n \in F THEN "parked"
                                     ELSE IF n \in W THEN "running" ELSE st3[n]]
        /\ code' = [n \in Node |-> IF n \in lost \cup F THEN "final"
                                   ELSE IF n \in R THEN "none"
                                   ELSE IF n \in B THEN "dependency" ELSE code[n]]
        /\ running' = running \cup W
        /\ held' = [n \in Node |-> IF n \in J THEN Rt(n, "judge") ELSE held[n]]
        /\ step' = [n \in Node |-> IF n \in J THEN "start" ELSE step[n]]
        /\ \E q \in SetToSeqs(J) : section' = section \o q
        /\ autoRetries' = autoRetries \cup R
        /\ autos' = [n \in Node |-> IF n \in R THEN autos[n] + 1 ELSE autos[n]]
  BY <1>3a, Zenon
<1> DEFINE J == {n \in D : stage[n] = "judge"}
           W == D \ (J \cup F)
<1>4. /\ pc = "stalls" /\ inline = NoNode /\ pc' = "notify"
      /\ UNCHANGED <<stage, revisions, reask, jfail, routing, copy, erased, canceled, parkedBefore,
                     closed, inline, continued, lives>>
  BY Zenon DEF Dispatch
<1>5. PICK q \in SetToSeqs(J) : section' = section \o q
  BY <1>3
\* What the sets are.
<1>6. \A n \in lost : n \in Node /\ status[n] = "running" /\ n \notin running /\ n \notin Settling
  OBVIOUS
<1>7. \A n \in R : /\ n \in Node /\ n \notin lost /\ status[n] = "parked" /\ code[n] = "retryable"
                  /\ n \notin parkedBefore /\ n \notin autoRetries
  BY DEF Retriable
<1>8. \A n \in Node : status[n] = "parked" /\ code[n] = "retryable" /\ n \notin parkedBefore
                     /\ n \notin autoRetries /\ n \notin lost => n \in R
  BY DEF Retriable
<1>9. \A n \in Node : st2[n] = IF n \in R THEN "pending" ELSE IF n \in lost THEN "parked" ELSE status[n]
  BY DEF Reopened
<1>10. \A n \in B : n \in Node /\ st2[n] = "pending"
                  /\ \E d \in DepsOf(n) : st2[d] = "parked" \/ d \in B
  <2> HIDE DEF st2
  <2> QED
    BY BlockedBehind
<1>11. \A n \in D : n \in Node /\ st3[n] = "pending" /\ n \notin Settling
                  /\ \A d \in DepsOf(n) : st3[d] = "done"
  OBVIOUS
<1>12. \A n \in Node : st3[n] = IF n \in B THEN "parked" ELSE st2[n]
  OBVIOUS
<1>13. J \in SUBSET Node /\ J \subseteq D /\ W \subseteq D /\ F \subseteq D
       /\ (\A n \in J : n \notin F /\ n \notin W) /\ (\A n \in W : n \notin F)
       /\ D \in SUBSET Node /\ D \subseteq J \cup W \cup F
  OBVIOUS
<1>14. /\ status' = [n \in Node |-> IF n \in F THEN "parked"
                                    ELSE IF n \in W THEN "running" ELSE st3[n]]
       /\ code' = [n \in Node |-> IF n \in lost \cup F THEN "final"
                                  ELSE IF n \in R THEN "none"
                                  ELSE IF n \in B THEN "dependency" ELSE code[n]]
       /\ running' = running \cup W
       /\ held' = [n \in Node |-> IF n \in J THEN Rt(n, "judge") ELSE held[n]]
       /\ step' = [n \in Node |-> IF n \in J THEN "start" ELSE step[n]]
       /\ autoRetries' = autoRetries \cup R
       /\ autos' = [n \in Node |-> IF n \in R THEN autos[n] + 1 ELSE autos[n]]
       /\ Admits(D, ready)
  BY <1>3
<1>15. D # {} => HoldingSlot + Cardinality(D) <= MaxParallel
  BY <1>14 DEF Admits
<1> HIDE DEF lost, R, st2, st3, ready, J, W
\* Each node's new state.
<1>16. \A n \in Node :
         /\ status'[n] = IF n \in F THEN "parked" ELSE IF n \in W THEN "running"
                         ELSE IF n \in B THEN "parked" ELSE IF n \in R THEN "pending"
                         ELSE IF n \in lost THEN "parked" ELSE status[n]
         /\ code'[n] = IF n \in lost \cup F THEN "final" ELSE IF n \in R THEN "none"
                       ELSE IF n \in B THEN "dependency" ELSE code[n]
         /\ step'[n] = IF n \in J THEN "start" ELSE step[n]
  BY <1>9, <1>12, <1>14
<1>17. \A n \in Node : Rt(n, "judge") \in Runtime
  BY <1>1 DEF Rt, TypeOK
<1>18. /\ held' \in [Node -> Runtime \cup {NoRt}] /\ step' \in [Node -> Step]
       /\ Settling' = Settling \cup J
  BY <1>1, <1>13, <1>14, <1>17 DEF TypeOK, Settling, Step
<1>19. status' \in [Node -> Status] /\ code' \in [Node -> Code] /\ running' \subseteq Node
       /\ Recorded'
  <2>1. \A n \in Node : status'[n] \in Status /\ code'[n] \in Code
    BY <1>1, <1>16 DEF TypeOK, Status, Code
  <2>2. status' \in [Node -> Status] /\ code' \in [Node -> Code]
    BY <1>14, <2>1
  <2>3. running' \subseteq Node /\ Recorded'
    BY <1>1, <1>4, <1>7, <1>13, <1>14 DEF TypeOK, Recorded
  <2> QED
    BY <2>2, <2>3
<1>20. \A n \in D : /\ n \notin B /\ n \notin lost /\ (n \in R \/ status[n] = "pending")
                   /\ n \notin running /\ step[n] = "none" /\ DepsDone(n)
  <2> SUFFICES ASSUME NEW n \in D
               PROVE  /\ n \notin B /\ n \notin lost /\ (n \in R \/ status[n] = "pending")
                      /\ n \notin running /\ step[n] = "none" /\ DepsDone(n)
    OBVIOUS
  <2>1. n \in Node /\ st3[n] = "pending" /\ n \notin Settling
    BY <1>11
  <2>2. n \notin B /\ n \notin lost /\ (n \in R \/ status[n] = "pending")
    BY <1>7, <1>9, <1>12, <2>1
  <2>3. n \notin running /\ step[n] = "none"
    BY <1>1, <1>7, <2>1, <2>2 DEF Hands
  <2>4. ASSUME NEW d \in DepsOf(n) PROVE status[d] = "done"
    <3>1. d \in Node /\ st3[d] = "done"
      BY <1>11 DEF DepsOf
    <3> QED
      BY <1>9, <1>12, <3>1
  <2> QED
    BY <2>2, <2>3, <2>4 DEF DepsDone
<1>21. \A m : DepsOf(m)' = DepsOf(m)
  BY DEF DepsOf
\* What was in hand stays as it was.
<1>22. \A n \in Node : DepsDone(n) => n \notin B
  <2> SUFFICES ASSUME NEW n \in Node, n \in B, DepsDone(n) PROVE FALSE
    OBVIOUS
  <2>1. PICK d \in DepsOf(n) : st2[d] = "parked" \/ d \in B
    BY <1>10
  <2>2. d \in Node /\ status[d] = "done"
    BY DEF DepsDone, DepsOf
  <2>3. st2[d] = "done"
    BY <1>6, <1>7, <1>9, <2>2
  <2> QED
    BY <1>10, <2>1, <2>3
<1>23. ASSUME NEW n \in Node, status[n] = "done" PROVE status'[n] = "done"
  <2>1. st2[n] = "done"
    BY <1>6, <1>7, <1>9, <1>23
  <2>2. n \notin B /\ n \notin D
    BY <1>7, <1>10, <1>20, <1>23, <2>1
  <2> QED
    BY <1>6, <1>7, <1>13, <1>16, <1>23, <2>2
<1>24. \A n \in Node : DepsDone(n) => DepsDone(n)'
  BY <1>21, <1>23 DEF DepsDone, DepsOf
<1>25. ASSUME NEW n \in Node, n \in running \/ step[n] \in Undecided
       PROVE  status'[n] = status[n]
  <2>1. DepsDone(n) /\ status[n] \in {"running", "pending"} /\ n \in running \cup Settling
    BY <1>1, <1>25 DEF Hands, Undecided
  <2>2. n \notin B /\ n \notin R /\ n \notin lost
    BY <1>6, <1>7, <1>22, <2>1
  <2>3. n \notin D
    BY <1>20, <1>25 DEF Undecided
  <2> QED
    BY <1>13, <1>16, <2>2, <2>3
<1>26. Hands'
  <2>1. ASSUME NEW m \in Node
        PROVE  /\ m \in running' => status'[m] = "running" /\ step'[m] \in {"none", "end"}
               /\ step'[m] \in Undecided => status'[m] \in {"running", "pending"}
               /\ status'[m] = "running" \/ step'[m] \in Undecided => DepsDone(m)'
               /\ step'[m] # "none" => m \in Settling'
    <3>1. CASE m \in W
      <4>1. status'[m] = "running" /\ step'[m] = "none" /\ DepsDone(m)'
        BY <1>13, <1>16, <1>20, <1>24, <3>1
      <4> QED
        BY <4>1 DEF Undecided
    <3>2. CASE m \in J
      <4>1. m \in D /\ m \notin W /\ m \notin F
        BY <1>13, <3>2
      <4>2. m \notin running' /\ status'[m] = "pending" /\ m \in Settling' /\ DepsDone(m)'
        BY <1>14, <1>16, <1>18, <1>20, <1>24, <3>2, <4>1
      <4> QED
        BY <4>2
    <3>3. CASE m \notin W /\ m \notin J
      <4>1. /\ step'[m] = step[m] /\ (m \in running' <=> m \in running)
            /\ (m \in Settling' <=> m \in Settling)
        BY <1>14, <1>16, <1>18, <3>3
      <4>2. status'[m] = "running" => status[m] = "running"
        BY <1>16, <3>3
      <4>3. step[m] # "none" => m \in Settling'
        BY <1>1, <4>1 DEF Hands
      <4>4. m \in running => status'[m] = "running" /\ step[m] \in {"none", "end"}
        BY <1>1, <1>25 DEF Hands
      <4>5. step[m] \in Undecided => status'[m] \in {"running", "pending"}
        BY <1>1, <1>25 DEF Hands
      <4>6. status'[m] = "running" \/ step[m] \in Undecided => DepsDone(m)'
        BY <1>1, <1>24, <4>2 DEF Hands
      <4> QED
        BY <4>1, <4>3, <4>4, <4>5, <4>6
    <3> QED
      BY <3>1, <3>2, <3>3
  <2> QED
    BY <2>1 DEF Hands
<1>27. section \in Seq(Node) /\ (\A i, j \in 1..Len(section) : section[i] = section[j] => i = j)
       /\ \A i \in 1..Len(section) : section[i] \in Node /\ step[section[i]] \notin {"none", "proof"}
  BY <1>1, ElementOfSeq DEF TypeOK, Queue
<1>28. \A i \in 1..Len(section) : section[i] \notin J
  BY <1>13, <1>20, <1>27
<1>29. /\ section' \in Seq(Node)
       /\ \A i, j \in 1..Len(section') : section'[i] = section'[j] => i = j
       /\ \A i \in 1..Len(section') : section'[i] \in J \/ \E j \in 1..Len(section) : section'[i] = section[j]
  <2>1. section \in Seq(Node) /\ J \in SUBSET Node /\ q \in SetToSeqs(J)
        /\ Distinct(section) /\ Avoids(section, J)
    BY <1>5, <1>13, <1>27, <1>28, Zenon DEF Distinct, Avoids
  <2>2. section' \in Seq(Node) /\ Distinct(section') /\ From(section', J, section)
    BY <1>5, <2>1, Enqueue, Zenon
  <2> QED
    BY <2>2, Zenon DEF Distinct, From
<1>30. Queue'
  BY <1>13, <1>16, <1>27, <1>28, <1>29 DEF Queue
<1>31. Inline' /\ Ended'
  BY <1>4 DEF Inline, Ended
<1>32. Ledger'
  BY <1>1, <1>4, <1>7, <1>14 DEF IInv, Ledger, TypeOK
\* Blocked behind a node no automatic retry reopens.
<1>33. \A d \in Node : st2[d] = "parked" =>
         status'[d] = "parked" /\ ~(code'[d] = "retryable" /\ d \notin parkedBefore' \cup autoRetries')
  <2> SUFFICES ASSUME NEW d \in Node, st2[d] = "parked"
               PROVE  /\ status'[d] = "parked"
                      /\ ~(code'[d] = "retryable" /\ d \notin parkedBefore' \cup autoRetries')
    OBVIOUS
  <2>1. d \notin R /\ d \notin B /\ d \notin D
    BY <1>9, <1>10, <1>11, <1>12
  <2>2. status'[d] = "parked"
    BY <1>9, <1>13, <1>16, <2>1
  <2>3. CASE d \in lost
    BY <1>16, <2>2, <2>3
  <2>4. CASE d \notin lost
    <3>1. status[d] = "parked" /\ code'[d] = code[d]
      BY <1>9, <1>13, <1>16, <2>1, <2>4
    <3> QED
      BY <1>4, <1>8, <1>14, <2>1, <2>2, <2>4, <3>1
  <2> QED
    BY <2>3, <2>4
<1>34. Blocked'
  <2>1. ASSUME NEW m \in Node \ parkedBefore', status'[m] = "parked", code'[m] = "dependency"
        PROVE  \E d \in DepsOf(m)' : Stays(d)'
    <3>1. CASE m \in B
      <4>1. PICK d \in DepsOf(m) : st2[d] = "parked" \/ d \in B
        BY <1>10, <3>1
      <4>2. d \in Node
        BY DEF DepsOf
      <4>3. CASE st2[d] = "parked"
        BY <1>21, <1>33, <4>1, <4>2, <4>3 DEF Stays, PassedOver
      <4>4. CASE d \in B
        <5>1. d \notin D
          BY <1>20, <4>4
        <5>2. status'[d] = "parked" /\ (code'[d] = "retryable" => code[d] = "retryable" /\ d \notin lost)
          BY <1>13, <1>16, <4>2, <4>4, <5>1
        <5>3. code'[d] # "retryable"
          BY <1>13, <1>16, <4>2, <4>4, <5>1
        <5> QED
          BY <1>21, <4>1, <5>2, <5>3 DEF Stays, PassedOver
      <4> QED
        BY <4>1, <4>3, <4>4
    <3>2. CASE m \notin B
      <4>1. m \notin lost /\ m \notin F /\ m \notin R /\ code[m] = "dependency"
        BY <1>16, <2>1, <3>2
      <4>2. status[m] = "parked" /\ m \in Node \ parkedBefore
        BY <1>4, <1>16, <2>1, <3>2, <4>1
      <4>3. PICK d \in DepsOf(m) : Stays(d)
        BY <4>1, <4>2 DEF IInv, Blocked
      <4>4. CASE PassedOver(d)
        <5>1. d \in Node /\ d \notin R /\ d \notin lost
          BY <1>6, <1>7, <4>4 DEF DepsOf, PassedOver
        <5>2. st2[d] = "parked"
          BY <1>9, <4>4, <5>1 DEF PassedOver
        <5> QED
          BY <1>21, <1>33, <4>3, <5>1, <5>2 DEF Stays, PassedOver
      <4>5. CASE erased[d] > 0
        BY <1>4, <1>21, <4>3, <4>5 DEF Stays
      <4> QED
        BY <4>3, <4>4, <4>5 DEF Stays
    <3> QED
      BY <3>1, <3>2
  <2> QED
    BY <2>1 DEF Blocked
\* The slots.
<1>35. Ceiling'
  <2>1. Slots' \subseteq Slots \cup D
    BY <1>13, <1>14, <1>18 DEF Slots
  <2>2. CASE D = {}
    BY <1>1, <2>1, <2>2, CeilingKept DEF IInv, Slots
  <2>3. CASE D # {}
    <3>1. IsFiniteSet(running) /\ IsFiniteSet(Settling) /\ IsFiniteSet(D) /\ Slots \subseteq Node
      BY <1>1, <1>13, FS_Subset DEF TypeOK, Settling, Slots
    <3>2. IsFiniteSet(Slots) /\ IsFiniteSet(Slots \cup D) /\ IsFiniteSet(Slots')
          /\ Cardinality(Slots') <= Cardinality(Slots \cup D)
      BY <2>1, <3>1, FS_Subset, FS_Union DEF Slots
    <3>3. Cardinality(Slots) = Cardinality(running) + Cardinality(Settling) - Cardinality(running \cap Settling)
      BY <3>1, FS_Union DEF Slots
    <3>4. Cardinality(Slots \cup D) = Cardinality(Slots) + Cardinality(D) - Cardinality(Slots \cap D)
      BY <3>1, <3>2, FS_Union
    <3>5. IsFiniteSet(running \cap Settling) /\ IsFiniteSet(Slots \cap D)
      BY <3>1, <3>2, FS_Subset
    <3>6. /\ Cardinality(running) \in Nat /\ Cardinality(Settling) \in Nat /\ Cardinality(D) \in Nat
          /\ Cardinality(Slots) \in Nat /\ Cardinality(Slots \cup D) \in Nat /\ Cardinality(Slots') \in Nat
          /\ Cardinality(running \cap Settling) \in Nat /\ Cardinality(Slots \cap D) \in Nat
      BY <3>1, <3>2, <3>5, FS_CardinalityType
    <3>7. MaxParallel \in Nat /\ MaxParallel' = MaxParallel
      BY <1>1 DEF MaxParallel, ContractType
    <3> QED
      BY <1>15, <2>3, <3>2, <3>3, <3>4, <3>6, <3>7 DEF Ceiling, HoldingSlot
  <2> QED
    BY <2>2, <2>3
<1>36. closed' \subseteq running'
  BY <1>1, <1>4, <1>14 DEF TypeOK
<1>37. TypeOK'
  <2>1. Carried' /\ pc' \in PC
    BY <1>1, <1>4, CarriedOn DEF TypeOK, PC
  <2> QED
    BY <1>1, <1>4, <1>18, <1>19, <1>29, <1>36, <2>1, NodesTyped, TypedAgain
<1> QED
  BY <1>26, <1>30, <1>31, <1>32, <1>34, <1>35, <1>37 DEF IInv
-----------------------------------------------------------------------------
LEMMA Invariant == Spec => []IInv
<1>1. ASSUME IInv, Next PROVE IInv'
  <2>1. UNCHANGED contract
    BY <1>1 DEF Next, Frozen
  <2>2. CASE Tick
    BY <1>1, <2>1, <2>2, TickTopKeeps, SettleClosedKeeps, StallIntegratedKeeps, DispatchKeeps,
       ExitCheckKeeps, CancelAllKeeps, StopKeeps DEF Tick
  <2>3. ASSUME NEW n \in Node, Settlement(n) PROVE IInv'
    BY <1>1, <2>1, <2>3, SettlementTurns, SettleKeeps, SettlementEndsKeeps
  <2>4. ASSUME NEW n \in Node, Exit(n) PROVE IInv'
    BY <1>1, <2>1, <2>4, ExitKeeps
  <2>5. ASSUME NEW n \in Node, StallTimeout(n) PROVE IInv'
    BY <1>1, <2>1, <2>5, StallTimeoutKeeps
  <2>6. ASSUME NEW n \in Node, CrashInAutoRetry(n) PROVE IInv'
    <3>1. autoRetries \subseteq autoRetries' /\ autoRetries' \subseteq Node
      BY <1>1, <2>6 DEF CrashInAutoRetry, IInv, TypeOK
    <3>2. Lost /\ UNCHANGED <<contract, status, stage, code, autos>>
      BY <2>1, <2>6 DEF CrashInAutoRetry
    <3> QED
      BY <1>1, <3>1, <3>2, LostKeeps
  <2>7. CASE Signal
    BY <1>1, <2>1, <2>7, SignalKeeps
  <2>8. CASE Crash
    <3>1. autoRetries \subseteq autoRetries' /\ autoRetries' \subseteq Node
      BY <1>1, <2>8 DEF Crash, IInv, TypeOK
    <3>2. Lost /\ UNCHANGED <<contract, status, stage, code, autos>>
      BY <2>1, <2>8 DEF Crash
    <3> QED
      BY <1>1, <3>1, <3>2, LostKeeps
  <2>9. ASSUME NEW targets, Resume(targets) PROVE IInv'
    BY <1>1, <2>1, <2>9, ResumeKeeps
  <2>10. ASSUME NEW n \in Node, Due(n) PROVE IInv'
    BY <1>1, <2>1, <2>10, DueKeeps
  <2>11. CASE SupervisorReads
    BY <1>1, <2>1, <2>11, SupervisorReadsKeeps
  <2>12. CASE PersistRelaunch
    BY <1>1, <2>1, <2>12, PersistRelaunchKeeps
  <2> QED
    BY <1>1, <2>2, <2>3, <2>4, <2>5, <2>6, <2>7, <2>8, <2>9, <2>10, <2>11, <2>12, Zenon DEF Next
<1>2. ASSUME IInv, UNCHANGED vars PROVE IInv'
  <2>1. UNCHANGED <<contract, durable, volatile, lives>>
    BY <1>2, Zenon DEF vars
  <2>2. Ceiling' /\ Hands' /\ Queue' /\ Ledger' /\ Blocked' /\ Settling' = Settling
        /\ \A m \in Node : Settled(m)' <=> Settled(m)
    BY <1>2, <2>1, NodesKept DEF durable, volatile
  <2>3. TypeOK'
    BY <1>2, <2>1, DurableKept, NodesTyped, TypedAgain DEF IInv, volatile
  <2>4. Inline' /\ Ended'
    BY <1>2, <2>1, <2>2 DEF IInv, Inline, Ended, durable, volatile
  <2> QED
    BY <2>2, <2>3, <2>4 DEF IInv
<1> QED
  BY InitInv, <1>1, <1>2, PTL DEF Spec

\* Every variable stays what the code makes of it.
THEOREM TypeCorrect == Spec => []TypeOK
<1>1. IInv => TypeOK
  BY DEF IInv
<1> QED
  BY <1>1, Invariant, PTL

\* maxParallel bounds the live jobs, for every contract: what settlements start
\* without asking admissionHold takes the place their own node held.
THEOREM RunCeilingHolds == Spec => []RunCeiling
<1>1. ASSUME IInv PROVE RunCeiling
  <2>1. running \subseteq Slots /\ Slots \subseteq Node /\ MaxParallel \in Nat
    BY <1>1 DEF IInv, TypeOK, Slots, Settling, MaxParallel, ContractType
  <2>2. IsFiniteSet(Slots) /\ IsFiniteSet(running) /\ Cardinality(running) <= Cardinality(Slots)
    BY <2>1, FS_Subset
  <2>3. Cardinality(Slots) \in Nat /\ Cardinality(running) \in Nat
    BY <2>2, FS_CardinalityType
  <2> QED
    BY <1>1, <2>1, <2>2, <2>3 DEF IInv, Ceiling, RunCeiling
<1> QED
  BY <1>1, Invariant, PTL

\* Over any number of controllers, and whatever instant each is lost at, a node
\* is retried automatically once, and once more for each record of it that a
\* relaunch wrote over.
THEOREM OneRetry == Spec => []OneRetryARecord
<1>1. ASSUME IInv, NEW n \in Node PROVE autos[n] <= 1 + erased[n]
  <2>1. /\ autos[n] <= erased[n] + (IF n \in autoRetries THEN 1 ELSE 0)
        /\ autos[n] \in Nat /\ erased[n] \in Nat
    BY <1>1 DEF IInv, TypeOK, Ledger
  <2> QED
    BY <2>1
<1>2. IInv => OneRetryARecord
  BY <1>1 DEF OneRetryARecord
<1> QED
  BY <1>2, Invariant, PTL

\* A controller that stops, by its loop's end or by a cancel, left nothing
\* behind it.
THEOREM StopsCleanly == Spec => []StopsClean
<1>1. IInv => StopsClean
  BY DEF IInv, Ended, Inline, StopsClean
<1> QED
  BY <1>1, Invariant, PTL

\* No node stays blocked behind one that was retried, unless the retry is one
\* that a relaunch gave back.
THEOREM BlockedStays == Spec => []BlockedForGood
<1>1. IInv => BlockedForGood
  BY DEF IInv, Blocked, Stays, PassedOver, BlockedForGood
<1> QED
  BY <1>1, Invariant, PTL
=============================================================================
