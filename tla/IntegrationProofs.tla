------------------------- MODULE IntegrationProofs -------------------------
(***************************************************************************)
(* What Integration guarantees for every set of nodes, every number of     *)
(* attempts, crashes and outside moves of the run ref.                     *)
(*                                                                         *)
(* The argument follows a transaction: once it has a candidate, the        *)
(* candidate contains the tip it was prepared on; once it is verified, the *)
(* history says so; it is accepted only when the ref contains it; and the  *)
(* ref only ever moves to a commit that contains the one it leaves.        *)
(***************************************************************************)
EXTENDS Integration, TLAPS

\* The shape of the state the other parts speak about.
Shape ==
  /\ jrn = [k \in Key |-> jrn[k]]
  /\ status \in [Node -> Status]
  /\ attempt \in [Node -> 0..MaxAttempt]
  /\ \A n \in Node : status[n] = "running" => attempt[n] \in Attempt
  /\ head = [n \in Node |-> head[n]]
  /\ order \in Seq(Key)
  /\ todo \in Seq(Key)
  /\ <<"root">> \in ref
  /\ tx # NoTx =>
       /\ tx = [node |-> tx.node, attempt |-> tx.attempt, prev |-> tx.prev,
                cand |-> tx.cand, pc |-> tx.pc, live |-> tx.live]
       /\ tx.node \in Node
       /\ tx.attempt \in Attempt
       /\ tx.pc \in PC
       /\ tx.live \in BOOLEAN

\* A commit that extends another.
Extends(c, d) == c # NoCommit /\ d \subseteq c

\* What each journal status says of its candidate.
JournalTruth ==
  \A k \in Key :
    /\ jrn[k].status = "prepared" /\ jrn[k].cand # NoCommit => Extends(jrn[k].cand, jrn[k].prev)
    /\ jrn[k].status = "verified" => /\ Extends(jrn[k].cand, jrn[k].prev)
                                     /\ <<k, jrn[k].cand>> \in passed
    /\ jrn[k].status = "accepted" => /\ IsAncestor(jrn[k].cand, ref)
                                     /\ <<k, jrn[k].cand>> \in passed

\* What the transaction in hand knows, by where it stands.
TxTruth ==
  tx # NoTx =>
    /\ tx.cand = jrn[KeyOf(tx)].cand
    /\ tx.prev = jrn[KeyOf(tx)].prev
    /\ tx.pc \in {"conflict", "verify"} => jrn[KeyOf(tx)].status = "prepared"
    /\ tx.pc = "verify" => tx.cand # NoCommit
    /\ tx.pc \in {"advance", "cas", "accept"} => jrn[KeyOf(tx)].status = "verified"
    /\ tx.pc = "accept" => IsAncestor(tx.cand, ref)
    /\ tx.pc \in {"finish", "event"} => jrn[KeyOf(tx)].status = "accepted"
    /\ tx.live /\ tx.pc # "event" => status[tx.node] = "running"

\* What a done node can rely on, without the ref's history (JournalTruth has it).
DoneAccepted ==
  \A n \in Node : status[n] = "done" =>
    /\ attempt[n] \in Attempt
    /\ jrn[<<n, attempt[n]>>].status = "accepted"
    /\ jrn[<<n, attempt[n]>>].cand = head[n]

IInv == Shape /\ JournalTruth /\ TxTruth /\ DoneAccepted

USE AttemptAssumption DEF SETTLED, Status, TERMINAL, JournalStatus, PC, NoCommit, Key, Attempt

\* A candidate is absent or extends the tip it is built on.
LEMMA CandidateExtends ==
  ASSUME NEW prev, NEW sha, prev # NoCommit, NEW c \in Candidates(prev, sha)
  PROVE  c = NoCommit \/ Extends(c, prev)
<1>1. CASE c = prev
  BY <1>1 DEF Extends
<1>2. CASE c = sha /\ IsAncestor(prev, sha)
  BY <1>2 DEF Extends, IsAncestor
<1>3. CASE c = prev \cup sha \cup {<<"merge", prev, sha>>}
  BY <1>3 DEF Extends
<1>4. c = prev \/ (c = sha /\ IsAncestor(prev, sha)) \/ c = NoCommit
      \/ c = prev \cup sha \cup {<<"merge", prev, sha>>}
  BY DEF Candidates
<1> QED
  BY <1>1, <1>2, <1>3, <1>4

\* A journal append changes one key's record and lists only keys.
LEMMA AppendFacts ==
  ASSUME NEW k \in Key, NEW rec, Append2Journal(k, rec),
         jrn = [j \in Key |-> jrn[j]], order \in Seq(Key)
  PROVE  /\ jrn' = [j \in Key |-> IF j = k THEN rec ELSE jrn[j]]
         /\ order' \in Seq(Key)
<1>1. jrn' = [j \in Key |-> IF j = k THEN rec ELSE jrn[j]]
  BY Zenon DEF Append2Journal
<1>2. order' \in Seq(Key)
  <2>1. CASE order' = order
    BY <2>1, Zenon
  <2>2. CASE order' = Append(order, k)
    <3>1. Append(order, k) \in Seq(Key)
      OBVIOUS
    <3> QED
      BY <2>2, <3>1, Zenon
  <2> QED
    BY <2>1, <2>2, Zenon DEF Append2Journal
<1> QED
  BY <1>1, <1>2

\* The same for a line about the transaction in hand.
LEMMA MarkFacts ==
  ASSUME Shape, tx # NoTx, NEW s, Mark(tx, s)
  PROVE  /\ KeyOf(tx) \in Key
         /\ jrn' = [j \in Key |-> IF j = KeyOf(tx)
                     THEN [status |-> s, prev |-> tx.prev, cand |-> tx.cand] ELSE jrn[j]]
         /\ order' \in Seq(Key)
<1>1. KeyOf(tx) \in Key
  BY DEF Shape, KeyOf
<1> QED
  BY <1>1, AppendFacts DEF Shape, Mark

\* The key recovery looks at next, and the record it makes of it.
LEMMA RecoveredFacts ==
  ASSUME Shape, todo # <<>>
  PROVE  /\ Head(todo) \in Key
         /\ Tail(todo) \in Seq(Key)
         /\ <<>> \in Seq(Key)
         /\ \A label \in PC :
              LET r == Recovered(Head(todo), label) IN
              /\ r.node \in Node /\ r.attempt \in Attempt
              /\ KeyOf(r) = Head(todo)
              /\ r.cand = jrn[Head(todo)].cand /\ r.prev = jrn[Head(todo)].prev
              /\ r.pc = label /\ r.live = FALSE
              /\ r = [node |-> r.node, attempt |-> r.attempt, prev |-> r.prev,
                      cand |-> r.cand, pc |-> r.pc, live |-> r.live]
<1>1. Head(todo) \in Key /\ Tail(todo) \in Seq(Key) /\ <<>> \in Seq(Key)
  BY DEF Shape
<1>2. Head(todo)[1] \in Node /\ Head(todo)[2] \in Attempt
      /\ <<Head(todo)[1], Head(todo)[2]>> = Head(todo)
  BY <1>1
<1> QED
  BY <1>1, <1>2 DEF Recovered, KeyOf

\* The initial state satisfies the invariant.
LEMMA InitIInv == Init => IInv
<1> SUFFICES ASSUME Init PROVE IInv
  OBVIOUS
<1>1. Shape
  BY DEF Init, Shape, Root
<1>2. JournalTruth /\ TxTruth /\ DoneAccepted
  BY DEF Init, JournalTruth, TxTruth, DoneAccepted, NoRec
<1> QED
  BY <1>1, <1>2 DEF IInv

\* Every step preserves the invariant; in particular the ref only grows.
LEMMA NextIInv == IInv /\ [Next]_vars => IInv' /\ ref \subseteq ref'
<1> SUFFICES ASSUME IInv, [Next]_vars PROVE IInv' /\ ref \subseteq ref'
  OBVIOUS
<1>s. CASE UNCHANGED vars
  BY <1>s DEF IInv, vars, durable, Shape, JournalTruth, TxTruth, DoneAccepted, KeyOf, Extends, IsAncestor
<1>1. ASSUME NEW n \in Node, StartWorker(n) PROVE IInv' /\ ref \subseteq ref'
  <2> USE <1>1 DEF StartWorker, At, Goto, SetStatus, UNCHANGED_Nodes, UNCHANGED_Journal, UNCHANGED_Env, durable, KeyOf, IInv, Shape
  <2>0. ref \subseteq ref'
    BY DEF TxTruth, JournalTruth, Extends
  <2>1. Shape'
    BY <2>0 DEF Shape
  <2>2. JournalTruth'
    BY <2>0 DEF JournalTruth, TxTruth, Extends, IsAncestor
  <2>3. TxTruth'
    BY <2>0 DEF JournalTruth, TxTruth, IsAncestor
  <2>4. DoneAccepted'
    BY DEF DoneAccepted, TxTruth
  <2> QED
    BY <2>0, <2>1, <2>2, <2>3, <2>4 DEF IInv
<1>2. ASSUME NEW n \in Node, AttemptRejected(n) PROVE IInv' /\ ref \subseteq ref'
  <2> USE <1>2 DEF AttemptRejected, At, Goto, SetStatus, UNCHANGED_Nodes, UNCHANGED_Journal, UNCHANGED_Env, durable, KeyOf, IInv, Shape
  <2>0. ref \subseteq ref'
    BY DEF TxTruth, JournalTruth, Extends
  <2>1. Shape'
    BY <2>0 DEF Shape
  <2>2. JournalTruth'
    BY <2>0 DEF JournalTruth, TxTruth, Extends, IsAncestor
  <2>3. TxTruth'
    BY <2>0 DEF JournalTruth, TxTruth, IsAncestor
  <2>4. DoneAccepted'
    <3>1. \A m \in Node : status'[m] = "done" => status[m] = "done"
      OBVIOUS
    <3>2. DoneAccepted /\ jrn' = jrn /\ attempt' = attempt /\ head' = head
      OBVIOUS
    <3> QED
      BY <3>1, <3>2, Zenon DEF DoneAccepted
  <2> QED
    BY <2>0, <2>1, <2>2, <2>3, <2>4 DEF IInv
<1>3. ASSUME NEW n \in Node, SettleDone(n) PROVE IInv' /\ ref \subseteq ref'
  <2> DEFINE k == <<n, attempt[n]>>
  <2>a. /\ status[n] = "running" /\ tx = NoTx
        /\ jrn[k].status \in {"none", "failed", "conflict"}
        /\ ref' = ref /\ status' = status /\ attempt' = attempt /\ head' = head
        /\ todo' = todo /\ passed' = passed
    BY <1>3 DEF SettleDone
  <2>k. k \in Key
    BY <2>a, <1>3 DEF IInv, Shape, SettleDone
  <2>b. PICK sha, c :
          /\ c \in Candidates(ref, sha)
          /\ Append2Journal(k, [status |-> "prepared", prev |-> ref, cand |-> c])
          /\ tx' = [node |-> n, attempt |-> attempt[n], prev |-> ref, cand |-> c,
                    pc |-> IF c = NoCommit THEN "conflict" ELSE "verify", live |-> TRUE]
    BY <1>3 DEF SettleDone
  <2>c. c = NoCommit \/ Extends(c, ref)
    BY <2>b, CandidateExtends DEF IInv, Shape
  <2>j. /\ jrn' = [j \in Key |-> IF j = k
                   THEN [status |-> "prepared", prev |-> ref, cand |-> c] ELSE jrn[j]]
        /\ order' \in Seq(Key)
    BY <2>b, <2>k, AppendFacts DEF IInv, Shape
  <2>0. ref \subseteq ref'
    BY <2>a
  <2>1. Shape'
    BY <2>a, <2>b, <2>j, <2>k DEF IInv, Shape
  <2>2. JournalTruth'
    BY <2>a, <2>c, <2>j, <2>k DEF IInv, JournalTruth, Extends, IsAncestor
  <2>3. TxTruth'
    BY <2>a, <2>b, <2>j, <2>k DEF TxTruth, KeyOf
  <2>4. DoneAccepted'
    BY <2>a, <2>j, <2>k DEF IInv, Shape, DoneAccepted
  <2> QED
    BY <2>0, <2>1, <2>2, <2>3, <2>4 DEF IInv
<1>4. ASSUME AppendConflict PROVE IInv' /\ ref \subseteq ref'
  <2>m. /\ KeyOf(tx) \in Key
        /\ jrn' = [j \in Key |-> IF j = KeyOf(tx)
                   THEN [status |-> "conflict", prev |-> tx.prev, cand |-> tx.cand] ELSE jrn[j]]
        /\ order' \in Seq(Key)
    BY <1>4, MarkFacts DEF AppendConflict, At, IInv
  <2>a. /\ tx # NoTx /\ tx' = [tx EXCEPT !.pc = "block"]
        /\ ref' = ref /\ status' = status /\ attempt' = attempt /\ head' = head
        /\ todo' = todo /\ passed' = passed
        /\ tx.pc = "conflict"
    BY <1>4 DEF AppendConflict, At, Goto, SetStatus, UNCHANGED_Nodes, UNCHANGED_Journal, UNCHANGED_Env, durable
  <2>0. ref \subseteq ref'
    BY <2>a
  <2>1. Shape'
    BY <2>a, <2>m DEF IInv, Shape
  <2>2. JournalTruth'
    BY <2>a, <2>m DEF IInv, Shape, JournalTruth, TxTruth, Extends, IsAncestor
  <2>3. TxTruth'
    BY <2>a, <2>m DEF IInv, Shape, TxTruth, KeyOf
  <2>4. DoneAccepted'
    BY <2>a, <2>m DEF IInv, Shape, DoneAccepted, TxTruth
  <2> QED
    BY <2>0, <2>1, <2>2, <2>3, <2>4 DEF IInv
<1>5. ASSUME BlockNode PROVE IInv' /\ ref \subseteq ref'
  <2> USE <1>5 DEF BlockNode, At, Goto, SetStatus, UNCHANGED_Nodes, UNCHANGED_Journal, UNCHANGED_Env, durable, KeyOf, IInv, Shape
  <2>0. ref \subseteq ref'
    BY DEF TxTruth, JournalTruth, Extends
  <2>1. Shape'
    BY <2>0 DEF Shape
  <2>2. JournalTruth'
    BY <2>0 DEF JournalTruth, TxTruth, Extends, IsAncestor
  <2>3. TxTruth'
    BY <2>0 DEF JournalTruth, TxTruth, IsAncestor
  <2>4. DoneAccepted'
    BY DEF DoneAccepted, TxTruth
  <2> QED
    BY <2>0, <2>1, <2>2, <2>3, <2>4 DEF IInv
<1>6. ASSUME VerifyCandidate PROVE IInv' /\ ref \subseteq ref'
  <2>a. /\ tx # NoTx /\ tx.pc = "verify"
        /\ ref' = ref /\ status' = status /\ attempt' = attempt /\ head' = head
        /\ todo' = todo
    BY <1>6 DEF VerifyCandidate, At, Goto, SetStatus, UNCHANGED_Nodes, UNCHANGED_Journal, UNCHANGED_Env, durable
  <2>1. CASE /\ passed' = passed \cup {<<KeyOf(tx), tx.cand>>}
             /\ Mark(tx, "verified")
             /\ tx' = [tx EXCEPT !.pc = "advance"]
    <3>m. /\ KeyOf(tx) \in Key
          /\ jrn' = [j \in Key |-> IF j = KeyOf(tx)
                     THEN [status |-> "verified", prev |-> tx.prev, cand |-> tx.cand] ELSE jrn[j]]
          /\ order' \in Seq(Key)
      BY <2>1, <2>a, MarkFacts DEF IInv
    <3>1. Shape'
      BY <2>a, <2>1, <3>m DEF IInv, Shape
    <3>2. JournalTruth'
      BY <2>a, <2>1, <3>m DEF IInv, Shape, JournalTruth, TxTruth, Extends, IsAncestor
    <3>3. TxTruth'
      BY <2>a, <2>1, <3>m DEF IInv, Shape, TxTruth, KeyOf
    <3>4. DoneAccepted'
      BY <2>a, <2>1, <3>m DEF IInv, Shape, DoneAccepted, TxTruth
    <3> QED
      BY <2>a, <3>1, <3>2, <3>3, <3>4 DEF IInv
  <2>2. CASE /\ passed' = passed
             /\ Mark(tx, "failed")
             /\ tx' = [tx EXCEPT !.pc = "reject"]
    <3>m. /\ KeyOf(tx) \in Key
          /\ jrn' = [j \in Key |-> IF j = KeyOf(tx)
                     THEN [status |-> "failed", prev |-> tx.prev, cand |-> tx.cand] ELSE jrn[j]]
          /\ order' \in Seq(Key)
      BY <2>2, <2>a, MarkFacts DEF IInv
    <3>1. Shape'
      BY <2>a, <2>2, <3>m DEF IInv, Shape
    <3>2. JournalTruth'
      BY <2>a, <2>2, <3>m DEF IInv, Shape, JournalTruth, TxTruth, Extends, IsAncestor
    <3>3. TxTruth'
      BY <2>a, <2>2, <3>m DEF IInv, Shape, TxTruth, KeyOf
    <3>4. DoneAccepted'
      BY <2>a, <2>2, <3>m DEF IInv, Shape, DoneAccepted, TxTruth
    <3> QED
      BY <2>a, <3>1, <3>2, <3>3, <3>4 DEF IInv
  <2> QED
    BY <1>6, <2>1, <2>2 DEF VerifyCandidate, Goto
<1>7. ASSUME RejectCandidate PROVE IInv' /\ ref \subseteq ref'
  <2> USE <1>7 DEF RejectCandidate, At, Goto, SetStatus, UNCHANGED_Nodes, UNCHANGED_Journal, UNCHANGED_Env, durable, KeyOf, IInv, Shape
  <2>0. ref \subseteq ref'
    BY DEF TxTruth, JournalTruth, Extends
  <2>1. Shape'
    BY <2>0 DEF Shape
  <2>2. JournalTruth'
    BY <2>0 DEF JournalTruth, TxTruth, Extends, IsAncestor
  <2>3. TxTruth'
    BY <2>0 DEF JournalTruth, TxTruth, IsAncestor
  <2>4. DoneAccepted'
    BY DEF DoneAccepted, TxTruth
  <2> QED
    BY <2>0, <2>1, <2>2, <2>3, <2>4 DEF IInv
<1>8. ASSUME AdvanceVerified PROVE IInv' /\ ref \subseteq ref'
  <2> USE <1>8 DEF AdvanceVerified, At, Goto, SetStatus, UNCHANGED_Nodes, UNCHANGED_Journal, UNCHANGED_Env, durable, KeyOf, IInv, Shape
  <2>0. ref \subseteq ref'
    BY DEF TxTruth, JournalTruth, Extends
  <2>1. Shape'
    BY <2>0 DEF Shape
  <2>2. JournalTruth'
    BY <2>0 DEF JournalTruth, TxTruth, Extends, IsAncestor
  <2>3. TxTruth'
    BY <2>0 DEF JournalTruth, TxTruth, IsAncestor
  <2>4. DoneAccepted'
    BY DEF DoneAccepted, TxTruth
  <2> QED
    BY <2>0, <2>1, <2>2, <2>3, <2>4 DEF IInv
<1>9. ASSUME UpdateRefConditional PROVE IInv' /\ ref \subseteq ref'
  <2> USE <1>9 DEF UpdateRefConditional, At, Goto, SetStatus, UNCHANGED_Nodes, UNCHANGED_Journal, UNCHANGED_Env, durable, KeyOf, IInv, Shape
  <2>k. KeyOf(tx) \in Key /\ tx.pc = "cas" /\ tx # NoTx
    OBVIOUS
  <2>v. jrn[KeyOf(tx)].status = "verified" /\ tx.cand = jrn[KeyOf(tx)].cand
        /\ tx.prev = jrn[KeyOf(tx)].prev
    BY <2>k DEF TxTruth
  <2>e. tx.prev \subseteq tx.cand
    BY <2>k, <2>v DEF JournalTruth, Extends
  <2>0. ref \subseteq ref'
    BY <2>e
  <2>1. Shape'
    BY <2>0 DEF Shape
  <2>2. JournalTruth'
    BY <2>0 DEF JournalTruth, TxTruth, Extends, IsAncestor
  <2>3. TxTruth'
    BY <2>0 DEF JournalTruth, TxTruth, IsAncestor
  <2>4. DoneAccepted'
    BY DEF DoneAccepted, TxTruth
  <2> QED
    BY <2>0, <2>1, <2>2, <2>3, <2>4 DEF IInv
<1>10. ASSUME AppendAccepted PROVE IInv' /\ ref \subseteq ref'
  <2>m. /\ KeyOf(tx) \in Key
        /\ jrn' = [j \in Key |-> IF j = KeyOf(tx)
                   THEN [status |-> "accepted", prev |-> tx.prev, cand |-> tx.cand] ELSE jrn[j]]
        /\ order' \in Seq(Key)
    BY <1>10, MarkFacts DEF AppendAccepted, At, IInv
  <2>a. /\ tx # NoTx /\ tx' = [tx EXCEPT !.pc = "finish"]
        /\ ref' = ref /\ status' = status /\ attempt' = attempt /\ head' = head
        /\ todo' = todo /\ passed' = passed
        /\ tx.pc = "accept"
    BY <1>10 DEF AppendAccepted, At, Goto, SetStatus, UNCHANGED_Nodes, UNCHANGED_Journal, UNCHANGED_Env, durable
  <2>0. ref \subseteq ref'
    BY <2>a
  <2>1. Shape'
    BY <2>a, <2>m DEF IInv, Shape
  <2>2. JournalTruth'
    BY <2>a, <2>m DEF IInv, Shape, JournalTruth, TxTruth, Extends, IsAncestor
  <2>3. TxTruth'
    BY <2>a, <2>m DEF IInv, Shape, TxTruth, KeyOf
  <2>4. DoneAccepted'
    BY <2>a, <2>m DEF IInv, Shape, DoneAccepted, TxTruth
  <2> QED
    BY <2>0, <2>1, <2>2, <2>3, <2>4 DEF IInv
<1>11. ASSUME WriteDone PROVE IInv' /\ ref \subseteq ref'
  <2> USE <1>11 DEF WriteDone, At, Goto, SetStatus, UNCHANGED_Nodes, UNCHANGED_Journal, UNCHANGED_Env, durable, KeyOf, IInv, Shape
  <2>0. ref \subseteq ref'
    BY DEF TxTruth, JournalTruth, Extends
  <2>1. Shape'
    BY <2>0 DEF Shape
  <2>2. JournalTruth'
    BY <2>0 DEF JournalTruth, TxTruth, Extends, IsAncestor
  <2>3. TxTruth'
    BY <2>0 DEF JournalTruth, TxTruth, IsAncestor
  <2>4. DoneAccepted'
    <3> SUFFICES ASSUME NEW n \in Node, status'[n] = "done"
                 PROVE  /\ attempt[n] \in Attempt
                        /\ jrn[<<n, attempt[n]>>].status = "accepted"
                        /\ jrn[<<n, attempt[n]>>].cand = head'[n]
      BY DEF DoneAccepted
    <3>1. CASE status[n] = "done"
      BY <3>1 DEF DoneAccepted
    <3>2. CASE status[n] # "done"
      <4>1. n = tx.node /\ attempt[n] = tx.attempt /\ head'[n] = tx.cand
        BY <3>2
      <4> QED
        BY <4>1 DEF TxTruth
    <3> QED
      BY <3>1, <3>2
  <2> QED
    BY <2>0, <2>1, <2>2, <2>3, <2>4 DEF IInv
<1>12. ASSUME WriteDoneEvent PROVE IInv' /\ ref \subseteq ref'
  <2> USE <1>12 DEF WriteDoneEvent, At, Goto, SetStatus, UNCHANGED_Nodes, UNCHANGED_Journal, UNCHANGED_Env, durable, KeyOf, IInv, Shape
  <2>0. ref \subseteq ref'
    BY DEF TxTruth, JournalTruth, Extends
  <2>1. Shape'
    BY <2>0 DEF Shape
  <2>2. JournalTruth'
    BY <2>0 DEF JournalTruth, TxTruth, Extends, IsAncestor
  <2>3. TxTruth'
    BY <2>0 DEF JournalTruth, TxTruth, IsAncestor
  <2>4. DoneAccepted'
    BY DEF DoneAccepted, TxTruth
  <2> QED
    BY <2>0, <2>1, <2>2, <2>3, <2>4 DEF IInv
<1>13. ASSUME Crash PROVE IInv' /\ ref \subseteq ref'
  <2> USE <1>13 DEF Crash, At, Goto, SetStatus, UNCHANGED_Nodes, UNCHANGED_Journal, UNCHANGED_Env, durable, KeyOf, IInv, Shape
  <2>0. ref \subseteq ref'
    BY DEF TxTruth, JournalTruth, Extends
  <2>1. Shape'
    BY <2>0 DEF Shape
  <2>2. JournalTruth'
    BY <2>0 DEF JournalTruth, TxTruth, Extends, IsAncestor
  <2>3. TxTruth'
    BY <2>0 DEF JournalTruth, TxTruth, IsAncestor
  <2>4. DoneAccepted'
    BY DEF DoneAccepted, TxTruth
  <2> QED
    BY <2>0, <2>1, <2>2, <2>3, <2>4 DEF IInv
<1>14. ASSUME Resume PROVE IInv' /\ ref \subseteq ref'
  <2> USE <1>14 DEF Resume, At, Goto, SetStatus, UNCHANGED_Nodes, UNCHANGED_Journal, UNCHANGED_Env, durable, KeyOf, IInv, Shape
  <2>0. ref \subseteq ref'
    BY DEF TxTruth, JournalTruth, Extends
  <2>1. Shape'
    BY <2>0 DEF Shape
  <2>2. JournalTruth'
    BY <2>0 DEF JournalTruth, TxTruth, Extends, IsAncestor
  <2>3. TxTruth'
    BY <2>0 DEF JournalTruth, TxTruth, IsAncestor
  <2>4. DoneAccepted'
    BY DEF DoneAccepted, TxTruth
  <2> QED
    BY <2>0, <2>1, <2>2, <2>3, <2>4 DEF IInv
<1>15. ASSUME RecoverAccepted PROVE IInv' /\ ref \subseteq ref'
  <2>a. /\ tx = NoTx /\ todo # <<>> /\ jrn[Head(todo)].status = "accepted"
        /\ UNCHANGED <<ref, jrn, order, status, attempt, head, passed>>
    BY <1>15 DEF RecoverAccepted, Recovering, durable
  <2>b. /\ Head(todo) \in Key
        /\ todo' \in Seq(Key)
    BY <1>15, <2>a, RecoveredFacts DEF RecoverAccepted, IInv
  <2>c. PICK label \in PC :
          /\ tx' = Recovered(Head(todo), label)
          /\ label = "finish"
    BY <1>15 DEF RecoverAccepted
  <2>r. /\ tx'.node \in Node /\ tx'.attempt \in Attempt /\ KeyOf(tx') = Head(todo)
        /\ tx'.cand = jrn[Head(todo)].cand /\ tx'.prev = jrn[Head(todo)].prev
        /\ tx'.pc = label /\ tx'.live = FALSE
        /\ tx' = [node |-> tx'.node, attempt |-> tx'.attempt, prev |-> tx'.prev,
                  cand |-> tx'.cand, pc |-> tx'.pc, live |-> tx'.live]
    BY <2>a, <2>c, RecoveredFacts DEF IInv
  <2>0. ref \subseteq ref'
    BY <2>a
  <2>1. Shape'
    BY <2>a, <2>b, <2>r DEF IInv, Shape
  <2>2. JournalTruth'
    BY <2>a DEF IInv, JournalTruth, Extends, IsAncestor
  <2>3. TxTruth'
    <3>1. KeyOf(tx)' = Head(todo)
      BY <2>r DEF KeyOf
    <3> QED
      BY <2>a, <2>b, <2>c, <2>r, <3>1 DEF IInv, TxTruth
  <2>4. DoneAccepted'
    BY <2>a DEF IInv, DoneAccepted
  <2> QED
    BY <2>0, <2>1, <2>2, <2>3, <2>4 DEF IInv
<1>16. ASSUME RecoverDead PROVE IInv' /\ ref \subseteq ref'
  <2> USE <1>16 DEF RecoverDead, At, Goto, SetStatus, UNCHANGED_Nodes, UNCHANGED_Journal, UNCHANGED_Env, durable, KeyOf, IInv, Shape, Recovering, Recovered
  <2>0. ref \subseteq ref'
    BY DEF TxTruth, JournalTruth, Extends
  <2>1. Shape'
    BY <2>0 DEF Shape
  <2>2. JournalTruth'
    BY <2>0 DEF JournalTruth, TxTruth, Extends, IsAncestor
  <2>3. TxTruth'
    BY <2>0 DEF JournalTruth, TxTruth, IsAncestor
  <2>4. DoneAccepted'
    BY DEF DoneAccepted, TxTruth
  <2> QED
    BY <2>0, <2>1, <2>2, <2>3, <2>4 DEF IInv
<1>17. ASSUME RecoverPrepared PROVE IInv' /\ ref \subseteq ref'
  <2>a. /\ tx = NoTx /\ todo # <<>> /\ jrn[Head(todo)].status = "prepared"
        /\ UNCHANGED <<ref, jrn, order, status, attempt, head, passed>>
    BY <1>17 DEF RecoverPrepared, Recovering, durable
  <2>b. /\ Head(todo) \in Key
        /\ todo' \in Seq(Key)
    BY <1>17, <2>a, RecoveredFacts DEF RecoverPrepared, IInv
  <2>c. PICK label \in PC :
          /\ tx' = Recovered(Head(todo), label)
          /\ label \in {"conflict", "block", "verify"}
          /\ label = "verify" => jrn[Head(todo)].cand # NoCommit
    BY <1>17 DEF RecoverPrepared
  <2>r. /\ tx'.node \in Node /\ tx'.attempt \in Attempt /\ KeyOf(tx') = Head(todo)
        /\ tx'.cand = jrn[Head(todo)].cand /\ tx'.prev = jrn[Head(todo)].prev
        /\ tx'.pc = label /\ tx'.live = FALSE
        /\ tx' = [node |-> tx'.node, attempt |-> tx'.attempt, prev |-> tx'.prev,
                  cand |-> tx'.cand, pc |-> tx'.pc, live |-> tx'.live]
    BY <2>a, <2>c, RecoveredFacts DEF IInv
  <2>0. ref \subseteq ref'
    BY <2>a
  <2>1. Shape'
    BY <2>a, <2>b, <2>r DEF IInv, Shape
  <2>2. JournalTruth'
    BY <2>a DEF IInv, JournalTruth, Extends, IsAncestor
  <2>3. TxTruth'
    <3>1. KeyOf(tx)' = Head(todo)
      BY <2>r DEF KeyOf
    <3> QED
      BY <2>a, <2>b, <2>c, <2>r, <3>1 DEF IInv, TxTruth
  <2>4. DoneAccepted'
    BY <2>a DEF IInv, DoneAccepted
  <2> QED
    BY <2>0, <2>1, <2>2, <2>3, <2>4 DEF IInv
<1>18. ASSUME RecoverVerified PROVE IInv' /\ ref \subseteq ref'
  <2>a. /\ tx = NoTx /\ todo # <<>> /\ jrn[Head(todo)].status = "verified"
        /\ UNCHANGED <<ref, jrn, order, status, attempt, head, passed>>
    BY <1>18 DEF RecoverVerified, Recovering, durable
  <2>b. /\ Head(todo) \in Key
        /\ todo' \in Seq(Key)
    BY <1>18, <2>a, RecoveredFacts DEF RecoverVerified, IInv
  <2>c. PICK label \in PC :
          /\ tx' = Recovered(Head(todo), label)
          /\ label \in {"accept", "block", "advance"}
          /\ label = "accept" => IsAncestor(jrn[Head(todo)].cand, ref)
    BY <1>18 DEF RecoverVerified
  <2>r. /\ tx'.node \in Node /\ tx'.attempt \in Attempt /\ KeyOf(tx') = Head(todo)
        /\ tx'.cand = jrn[Head(todo)].cand /\ tx'.prev = jrn[Head(todo)].prev
        /\ tx'.pc = label /\ tx'.live = FALSE
        /\ tx' = [node |-> tx'.node, attempt |-> tx'.attempt, prev |-> tx'.prev,
                  cand |-> tx'.cand, pc |-> tx'.pc, live |-> tx'.live]
    BY <2>a, <2>c, RecoveredFacts DEF IInv
  <2>0. ref \subseteq ref'
    BY <2>a
  <2>1. Shape'
    BY <2>a, <2>b, <2>r DEF IInv, Shape
  <2>2. JournalTruth'
    BY <2>a DEF IInv, JournalTruth, Extends, IsAncestor
  <2>3. TxTruth'
    <3>1. KeyOf(tx)' = Head(todo)
      BY <2>r DEF KeyOf
    <3> QED
      BY <2>a, <2>b, <2>c, <2>r, <3>1 DEF IInv, TxTruth
  <2>4. DoneAccepted'
    BY <2>a DEF IInv, DoneAccepted
  <2> QED
    BY <2>0, <2>1, <2>2, <2>3, <2>4 DEF IInv
<1>19. ASSUME RecoverNodes PROVE IInv' /\ ref \subseteq ref'
  <2> USE <1>19 DEF RecoverNodes, At, Goto, SetStatus, UNCHANGED_Nodes, UNCHANGED_Journal, UNCHANGED_Env, durable, KeyOf, IInv, Shape, Recovering, Recovered
  <2>0. ref \subseteq ref'
    BY DEF TxTruth, JournalTruth, Extends
  <2>1. Shape'
    BY <2>0 DEF Shape
  <2>2. JournalTruth'
    BY <2>0 DEF JournalTruth, TxTruth, Extends, IsAncestor
  <2>3. TxTruth'
    BY <2>0 DEF JournalTruth, TxTruth, IsAncestor
  <2>4. DoneAccepted'
    <3>1. \A m \in Node : status'[m] = "done" => status[m] = "done"
      OBVIOUS
    <3>2. DoneAccepted /\ jrn' = jrn /\ attempt' = attempt /\ head' = head
      OBVIOUS
    <3> QED
      BY <3>1, <3>2, Zenon DEF DoneAccepted
  <2> QED
    BY <2>0, <2>1, <2>2, <2>3, <2>4 DEF IInv
<1>20. ASSUME ExternalMove PROVE IInv' /\ ref \subseteq ref'
  <2> USE <1>20 DEF ExternalMove, At, Goto, SetStatus, UNCHANGED_Nodes, UNCHANGED_Journal, UNCHANGED_Env, durable, KeyOf, IInv, Shape
  <2>0. ref \subseteq ref'
    BY DEF TxTruth, JournalTruth, Extends
  <2>1. Shape'
    BY <2>0 DEF Shape
  <2>2. JournalTruth'
    BY <2>0 DEF JournalTruth, TxTruth, Extends, IsAncestor
  <2>3. TxTruth'
    BY <2>0 DEF JournalTruth, TxTruth, IsAncestor
  <2>4. DoneAccepted'
    BY DEF DoneAccepted, TxTruth
  <2> QED
    BY <2>0, <2>1, <2>2, <2>3, <2>4 DEF IInv
<1> QED
  BY <1>s, <1>1, <1>2, <1>3, <1>4, <1>5, <1>6, <1>7, <1>8, <1>9, <1>10, <1>11, <1>12, <1>13, <1>14, <1>15, <1>16, <1>17, <1>18, <1>19, <1>20 DEF Next, TxStep, RecoverStep

\* The invariant holds in every reachable state.
THEOREM Invariance == Spec => []IInv
<1>1. IInv /\ [Next]_vars => IInv'
  BY NextIInv
<1> QED
  BY InitIInv, <1>1, PTL DEF Spec
-----------------------------------------------------------------------------
(* Type correctness.                                                       *)

\* What Shape leaves out of the types, because no other proof needs it.
Bounds ==
  /\ \A k \in Key : jrn[k].status \in JournalStatus
  /\ doneEvents \subseteq Key
  /\ phase \in {"down", "recovering", "up"}
  /\ moves \in 0..MaxMove /\ crashes \in 0..MaxCrash

\* A line about the transaction in hand has one of the statuses.
LEMMA MarkTyped ==
  ASSUME Shape, Bounds, tx # NoTx, NEW s \in JournalStatus, Mark(tx, s)
  PROVE  \A k \in Key : jrn'[k].status \in JournalStatus
<1>1. jrn' = [j \in Key |-> IF j = KeyOf(tx)
               THEN [status |-> s, prev |-> tx.prev, cand |-> tx.cand] ELSE jrn[j]]
  BY MarkFacts
<1>2. [status |-> s, prev |-> tx.prev, cand |-> tx.cand].status \in JournalStatus
  OBVIOUS
<1> QED
  BY <1>1, <1>2 DEF Bounds

LEMMA NextBounds == IInv /\ Bounds /\ [Next]_vars => Bounds'
<1> SUFFICES ASSUME IInv, Bounds, [Next]_vars PROVE Bounds'
  OBVIOUS
<1> USE MoveAssumption, CrashAssumption
    DEF UNCHANGED_Nodes, UNCHANGED_Journal, UNCHANGED_Env, durable, At
<1>0. Shape
  BY DEF IInv
<1>1. ASSUME NEW n \in Node, StartWorker(n) \/ AttemptRejected(n) PROVE Bounds'
  BY <1>1 DEF StartWorker, AttemptRejected, Bounds
<1>2. ASSUME NEW n \in Node, SettleDone(n) PROVE Bounds'
  <2> DEFINE k == <<n, attempt[n]>>
  <2>1. status[n] = "running"
        /\ UNCHANGED <<doneEvents, phase, moves, crashes>>
    BY <1>2 DEF SettleDone
  <2>2. k \in Key
    BY <1>0, <2>1 DEF Shape
  <2>3. PICK c : Append2Journal(k, [status |-> "prepared", prev |-> ref, cand |-> c])
    BY <1>2 DEF SettleDone
  <2>4. jrn' = [j \in Key |-> IF j = k
                THEN [status |-> "prepared", prev |-> ref, cand |-> c] ELSE jrn[j]]
    BY <1>0, <2>2, <2>3, AppendFacts DEF Shape
  <2> QED
    BY <2>1, <2>4 DEF Bounds
<1>3. CASE TxStep
  <2>1. CASE AppendConflict
    BY <1>0, <2>1, MarkTyped DEF AppendConflict, Bounds
  <2>2. CASE VerifyCandidate
    BY <1>0, <2>2, MarkTyped DEF VerifyCandidate, Bounds
  <2>3. CASE AppendAccepted
    BY <1>0, <2>3, MarkTyped DEF AppendAccepted, Bounds
  <2>4. CASE WriteDoneEvent
    <3>1. KeyOf(tx) \in Key
      BY <1>0, <2>4 DEF WriteDoneEvent, Shape, KeyOf
    <3> QED
      BY <2>4, <3>1 DEF WriteDoneEvent, Bounds
  <2>5. CASE BlockNode \/ RejectCandidate \/ AdvanceVerified \/ UpdateRefConditional \/ WriteDone
    BY <2>5 DEF BlockNode, RejectCandidate, AdvanceVerified, UpdateRefConditional, WriteDone, Bounds
  <2> QED
    BY <1>3, <2>1, <2>2, <2>3, <2>4, <2>5 DEF TxStep
<1>4. CASE Crash \/ Resume
  BY <1>4 DEF Crash, Resume, Bounds
<1>5. CASE RecoverStep
  BY <1>5 DEF RecoverStep, RecoverAccepted, RecoverDead, RecoverPrepared, RecoverVerified,
              RecoverNodes, Bounds
<1>6. CASE ExternalMove
  BY <1>6 DEF ExternalMove, Bounds
<1>7. CASE UNCHANGED vars
  BY <1>7 DEF vars, Bounds
<1> QED
  BY <1>1, <1>2, <1>3, <1>4, <1>5, <1>6, <1>7 DEF Next

\* The journal, the nodes and the transaction in hand keep their types
\* (module Integration, TypeOK; the records of integrate.mjs:58).
THEOREM TypeCorrect == Spec => []TypeOK
<1>1. Init => Bounds
  BY MoveAssumption, CrashAssumption DEF Init, Bounds, NoRec
<1>2. IInv /\ Bounds => TypeOK
  BY DEF IInv, Shape, Bounds, TypeOK, KeyOf
<1> QED
  BY <1>1, <1>2, Invariance, NextBounds, PTL DEF Spec
-----------------------------------------------------------------------------
(* Safety.                                                                 *)

\* Nothing is accepted that was not verified as this transaction's candidate.
THEOREM AcceptedVerified == Spec => []AcceptedWasVerified
<1>1. IInv => AcceptedWasVerified
  BY DEF IInv, JournalTruth, AcceptedWasVerified
<1> QED
  BY <1>1, Invariance, PTL

\* A done node's integrated head is in the run ref's history, whatever
\* crashed and whoever committed on top.
THEOREM DoneIntegrated == Spec => []DoneIsIntegrated
<1>1. IInv => DoneIsIntegrated
  BY DEF IInv, JournalTruth, DoneAccepted, DoneIsIntegrated
<1> QED
  BY <1>1, Invariance, PTL

\* The run ref only fast-forwards.
THEOREM FastForward == Spec => RefFastForwards
<1>1. IInv /\ [Next]_vars => [ref \subseteq ref']_vars
  BY NextIInv
<1> QED
  BY <1>1, Invariance, PTL DEF Spec, RefFastForwards

\* done is final.
THEOREM DoneFinal == Spec => DoneIsFinal
<1> DEFINE Keeps == \A n \in Node : status[n] = "done" => status'[n] = "done" /\ head'[n] = head[n]
<1>1. ASSUME IInv, [Next]_vars PROVE [Keeps]_vars
  <2> USE <1>1 DEF IInv, Shape, At, Goto, SetStatus, UNCHANGED_Nodes, durable, TxTruth
  <2>1. ASSUME NEW n \in Node, StartWorker(n) \/ AttemptRejected(n) \/ SettleDone(n) PROVE Keeps
    BY <2>1 DEF StartWorker, AttemptRejected, SettleDone
  <2>2. CASE TxStep
    BY <2>2 DEF TxStep, AppendConflict, BlockNode, VerifyCandidate, RejectCandidate,
       AdvanceVerified, UpdateRefConditional, AppendAccepted, WriteDone, WriteDoneEvent
  <2>3. CASE Crash \/ Resume \/ RecoverStep \/ ExternalMove
    BY <2>3 DEF Crash, Resume, RecoverStep, RecoverAccepted, RecoverDead, RecoverPrepared,
       RecoverVerified, RecoverNodes, ExternalMove
  <2> QED
    BY <2>1, <2>2, <2>3 DEF Next
<1>2. IInv /\ [Next]_vars => [Keeps]_vars
  BY <1>1
<1> QED
  BY <1>2, Invariance, PTL DEF Spec, DoneIsFinal
-----------------------------------------------------------------------------
(* Module RunRef: through the mapping of Promise, every step is one of      *)
(* RunRef's or changes nothing it sees.                                     *)

Verified == {p[2] : p \in passed}
Landed == [n \in Node |-> IF status[n] = "done" THEN head[n] ELSE NoCommit]

\* The initial state is one of RunRef's.
LEMMA PromiseInit == Init => Promise!Init
<1> SUFFICES ASSUME Init PROVE Promise!Init
  OBVIOUS
<1>1. Verified = {} /\ Landed = [n \in Node |-> NoCommit]
  BY DEF Init, Verified, Landed
<1> QED
  BY <1>1 DEF Init, Promise!Init, Verified, Landed

\* A step that neither passes a verification, moves the ref nor takes a node
\* into or out of done is a stutter of RunRef.
LEMMA PromiseStutter ==
  ASSUME UNCHANGED <<ref, moves, passed>>,
         \A n \in Node : (status'[n] = "done" <=> status[n] = "done")
                         /\ (status[n] = "done" => head'[n] = head[n])
  PROVE  UNCHANGED Promise!vars
<1>1. Landed' = Landed
  BY DEF Landed
<1>2. Verified' = Verified
  BY DEF Verified
<1> QED
  BY <1>1, <1>2 DEF Promise!vars, Landed, Verified

\* The second components of a set of pairs with one more pair.
LEMMA SecondOfOneMore ==
  ASSUME NEW S, NEW k, NEW c
  PROVE  {p[2] : p \in S \cup {<<k, c>>}} = {p[2] : p \in S} \cup {c}
<1>1. <<k, c>>[2] = c
  OBVIOUS
<1>2. ASSUME NEW x \in {p[2] : p \in S \cup {<<k, c>>}}
      PROVE  x \in {p[2] : p \in S} \cup {c}
  BY <1>1, <1>2
<1>3. ASSUME NEW x \in {p[2] : p \in S} \cup {c}
      PROVE  x \in {p[2] : p \in S \cup {<<k, c>>}}
  BY <1>1, <1>3
<1> QED
  BY <1>2, <1>3

\* The transaction in hand has a key.
LEMMA MarkedKey == Shape /\ tx # NoTx => KeyOf(tx) \in Key
BY DEF Shape, KeyOf

\* Every step of the integration is a step of RunRef or a stutter.
LEMMA PromiseStep == IInv /\ [Next]_vars => [Promise!Next]_(Promise!vars)
<1> SUFFICES ASSUME IInv, [Next]_vars PROVE Promise!Next \/ UNCHANGED Promise!vars
  OBVIOUS
<1> USE DEF IInv, Shape, At, Goto, SetStatus, UNCHANGED_Nodes, UNCHANGED_Env, durable
<1>s. CASE UNCHANGED vars
  BY <1>s, PromiseStutter DEF vars
<1>1. ASSUME NEW n \in Node, StartWorker(n) \/ AttemptRejected(n) \/ SettleDone(n)
      PROVE  UNCHANGED Promise!vars
  BY <1>1, PromiseStutter DEF StartWorker, AttemptRejected, SettleDone
<1>2. CASE AppendConflict \/ AdvanceVerified \/ AppendAccepted \/ WriteDoneEvent
  BY <1>2, PromiseStutter DEF AppendConflict, AdvanceVerified, AppendAccepted, WriteDoneEvent
<1>3. CASE BlockNode \/ RejectCandidate
  BY <1>3, PromiseStutter DEF BlockNode, RejectCandidate, TxTruth
<1>4. CASE VerifyCandidate
  <2>1. CASE passed' = passed
    BY <1>4, <2>1, PromiseStutter DEF VerifyCandidate
  <2>2. CASE passed' = passed \cup {<<KeyOf(tx), tx.cand>>}
    <3>1. Verified' = Verified \cup {tx.cand}
      <4> HIDE DEF IInv, Shape
      <4>1. Verified' = {p[2] : p \in passed \cup {<<KeyOf(tx), tx.cand>>}}
        BY <2>2 DEF Verified
      <4> QED
        BY <4>1, SecondOfOneMore DEF Verified
    <3>2. Landed' = Landed
      BY <1>4 DEF VerifyCandidate, Landed
    <3>3. ref' = ref /\ moves' = moves
      BY <1>4 DEF VerifyCandidate
    <3> QED
      BY <3>1, <3>2, <3>3 DEF Promise!Next, Promise!Verify, Verified, Landed
  <2> QED
    BY <1>4, <2>1, <2>2 DEF VerifyCandidate
<1>5. CASE UpdateRefConditional
  <2>1. CASE ref' = ref
    BY <1>5, <2>1, PromiseStutter DEF UpdateRefConditional
  <2>2. CASE ref' = tx.cand
    <3>1. tx.cand \in Verified
      <4>1. <<KeyOf(tx), tx.cand>> \in passed
        BY <1>5, MarkedKey DEF UpdateRefConditional, TxTruth, JournalTruth
      <4> QED
        BY <4>1 DEF Verified
    <3>2. ref \subseteq ref'
      BY NextIInv
    <3>3. Landed' = Landed /\ Verified' = Verified /\ moves' = moves
      BY <1>5 DEF UpdateRefConditional, Landed, Verified
    <3> QED
      BY <2>2, <3>1, <3>2, <3>3 DEF Promise!Next, Promise!Advance, Verified, Landed
  <2> QED
    BY <1>5, <2>1, <2>2 DEF UpdateRefConditional
<1>6. CASE WriteDone
  <2>1. CASE UNCHANGED <<status, head>>
    BY <1>6, <2>1, PromiseStutter DEF WriteDone
  <2>2. CASE /\ status[tx.node] # "done"
             /\ status' = [status EXCEPT ![tx.node] = "done"]
             /\ head' = [head EXCEPT ![tx.node] = tx.cand]
    <3>0. tx # NoTx /\ tx.pc = "finish" /\ tx.node \in Node
          /\ UNCHANGED <<ref, moves, passed>>
      BY <1>6 DEF WriteDone
    <3>1. tx.cand \in Verified /\ tx.cand \subseteq ref
      <4>1. <<KeyOf(tx), tx.cand>> \in passed /\ IsAncestor(tx.cand, ref)
        BY <3>0, MarkedKey DEF TxTruth, JournalTruth
      <4> QED
        BY <4>1 DEF Verified, IsAncestor
    <3>2. Landed[tx.node] = NoCommit /\ Landed' = [Landed EXCEPT ![tx.node] = tx.cand]
      BY <2>2, <3>0 DEF Landed
    <3>3. Verified' = Verified
      BY <3>0 DEF Verified
    <3> QED
      BY <3>0, <3>1, <3>2, <3>3 DEF Promise!Next, Promise!Land, Verified, Landed
  <2> QED
    BY <1>6, <2>1, <2>2 DEF WriteDone
<1>7. CASE Crash \/ Resume \/ RecoverStep
  BY <1>7, PromiseStutter DEF Crash, Resume, RecoverStep, RecoverAccepted, RecoverDead,
     RecoverPrepared, RecoverVerified, RecoverNodes
<1>8. CASE ExternalMove
  <2>1. Landed' = Landed /\ Verified' = Verified
    BY <1>8 DEF ExternalMove, Landed, Verified
  <2>2. ref \subseteq ref' /\ moves' = moves + 1
    BY <1>8 DEF ExternalMove
  <2> QED
    BY <2>1, <2>2 DEF Promise!Next, Promise!ForeignMove, Verified, Landed
<1> QED
  BY <1>s, <1>1, <1>2, <1>3, <1>4, <1>5, <1>6, <1>7, <1>8 DEF Next, TxStep

\* The integration implements what a run promises of its ref (RunRef): it only
\* ever takes RunRef's steps, whichever controller takes them and wherever one
\* dies.
THEOREM RefinesRunRef == Spec => ImplementsRunRef
<1> QED
  BY PromiseInit, PromiseStep, Invariance, PTL DEF Spec, ImplementsRunRef, Promise!Spec
-----------------------------------------------------------------------------
(* The snapshot and the event log.  Recovery stops at the first transaction *)
(* it has to drive to its end, so what keeps a done event owed by an earlier*)
(* crash from being skipped is the order of the journal: the transaction    *)
(* recovery stops at is the last one the journal lists that can still       *)
(* matter.                                                                  *)

\* A transaction that recovery would drive on: its ref has not moved.
Hot(k) == jrn[k].status \in {"prepared", "verified"} /\ ref = jrn[k].prev

\* An acceptance of the attempt its node is on, whose event is not written.
Owing(k) == jrn[k].status = "accepted" /\ attempt[k[1]] = k[2] /\ k \notin doneEvents

InHand(k) == tx # NoTx /\ KeyOf(tx) = k
Waiting(k) == \E i \in 1..Len(todo) : todo[i] = k
Before(k, m) == \E i, j \in 1..Len(order) : i < j /\ order[i] = k /\ order[j] = m

\* The journal lists each key it has a record of, once, and no attempt ahead
\* of its node.
Listing ==
  /\ \A k \in Key : jrn[k].status # "none" => \E i \in 1..Len(order) : order[i] = k
  /\ \A i \in 1..Len(order) : jrn[order[i]].status # "none"
  /\ \A i, j \in 1..Len(order) : order[i] = order[j] => i = j
  /\ \A k \in Key : jrn[k].status # "none" => k[2] <= attempt[k[1]]
  /\ \A k \in Key : jrn[k].status \in {"prepared", "verified"} => jrn[k].prev \subseteq ref

\* Recovery works through a tail of the journal's listing; the transaction in
\* its hands stands just before that tail, unless the tail was dropped.
Walk ==
  /\ phase \in {"down", "recovering", "up"}
  /\ phase # "recovering" => todo = <<>>
  /\ phase = "down" => tx = NoTx
  /\ Len(todo) <= Len(order)
  /\ \A i \in 1..Len(todo) : todo[i] = order[Len(order) - Len(todo) + i]
  /\ phase = "recovering" /\ tx # NoTx /\ todo # <<>> =>
       /\ Len(todo) < Len(order)
       /\ order[Len(order) - Len(todo)] = KeyOf(tx)

\* What the transaction in hand knows of its record when it gives up.
GivesUp ==
  tx # NoTx =>
    /\ tx.pc = "block" => \/ jrn[KeyOf(tx)].status = "conflict"
                          \/ jrn[KeyOf(tx)].status \in {"prepared", "verified"} /\ ref # tx.prev
    /\ tx.pc = "reject" => jrn[KeyOf(tx)].status = "failed"
    /\ jrn[KeyOf(tx)].status # "none"

\* What is owed or can still be driven on is in hand, or recovery will reach
\* it; at most one transaction can be driven on, and the journal lists it last.
Kept ==
  /\ \A k \in Key : Hot(k) \/ Owing(k) =>
       InHand(k) \/ phase = "down" \/ (phase = "recovering" /\ Waiting(k))
  /\ \A k, m \in Key : Hot(k) /\ Hot(m) => k = m
  /\ \A k, m \in Key : Owing(k) /\ Hot(m) => Before(k, m)

EInv == Listing /\ Walk /\ GivesUp /\ Kept

\* A journal line about the transaction in hand relists nothing.
LEMMA MarkKeepsOrder ==
  ASSUME GivesUp, tx # NoTx, NEW s, Mark(tx, s)
  PROVE  order' = order
BY DEF GivesUp, Mark, Append2Journal

\* A transaction in hand is not the absence of one.
LEMMA SomeTx == \A t : t.pc \in PC => t # NoTx
BY DEF NoTx

\* The keys the journal and recovery name are keys.
LEMMA Names ==
  ASSUME Shape
  PROVE  /\ Len(order) \in Nat /\ Len(todo) \in Nat
         /\ \A i \in 1..Len(order) : order[i] \in Key
         /\ \A i \in 1..Len(todo) : todo[i] \in Key
         /\ tx # NoTx => KeyOf(tx) \in Key
BY DEF Shape, KeyOf

\* Head and tail of what recovery has left.
LEMMA HeadAndTail ==
  ASSUME Shape, todo # <<>>
  PROVE  /\ Head(todo) = todo[1] /\ Len(todo) >= 1
         /\ Tail(todo) \in Seq(Key) /\ Len(Tail(todo)) = Len(todo) - 1
         /\ \A i \in 1..(Len(todo) - 1) : Tail(todo)[i] = todo[i + 1]
         /\ \A i \in 2..Len(todo) : todo[i] = Tail(todo)[i - 1]
<1>1. todo \in Seq(Key) /\ Len(todo) \in Nat /\ Len(todo) >= 1
  BY DEF Shape
<1>2. /\ Head(todo) = todo[1]
      /\ Tail(todo) \in Seq(Key) /\ Len(Tail(todo)) = Len(todo) - 1
      /\ \A i \in 1..(Len(todo) - 1) : Tail(todo)[i] = todo[i + 1]
  BY <1>1
<1>3. ASSUME NEW i \in 2..Len(todo) PROVE todo[i] = Tail(todo)[i - 1]
  <2>1. i - 1 \in 1..(Len(todo) - 1) /\ (i - 1) + 1 = i
    BY <1>1, <1>3
  <2> QED
    BY <1>2, <2>1
<1> QED
  BY <1>1, <1>2, <1>3

\* While the journal and the attempts stand, a ref that grows keeps Listing
\* and makes nothing hot.
LEMMA ListingStands ==
  ASSUME Listing, UNCHANGED <<jrn, order, attempt>>, ref \subseteq ref'
  PROVE  Listing' /\ \A k \in Key : Hot(k)' => Hot(k)
BY DEF Listing, Hot

\* A line about the transaction in hand keeps Listing.
LEMMA ListingMarked ==
  ASSUME Listing, TxTruth, Shape, tx # NoTx, jrn[KeyOf(tx)].status \in {"prepared", "verified"},
         NEW s \in {"conflict", "verified", "failed", "accepted"},
         jrn' = [j \in Key |-> IF j = KeyOf(tx)
                 THEN [status |-> s, prev |-> tx.prev, cand |-> tx.cand] ELSE jrn[j]],
         UNCHANGED <<order, attempt, ref>>
  PROVE  Listing'
<1>1. KeyOf(tx) \in Key
  BY Names
<1>2. \A k \in Key : /\ jrn'[k].status # "none" <=> jrn[k].status # "none"
                     /\ jrn'[k].status \in {"prepared", "verified"} =>
                          jrn'[k].prev = jrn[k].prev /\ jrn[k].status \in {"prepared", "verified"}
  BY <1>1 DEF TxTruth
<1>3. \A i \in 1..Len(order) : order[i] \in Key
  BY Names
<1> QED
  BY <1>2, <1>3 DEF Listing

\* Kept survives a step that makes nothing hot or owing, and loses nothing
\* that still is.
LEMMA KeptStands ==
  ASSUME Kept, order' = order,
         \A k \in Key : Hot(k)' => Hot(k),
         \A k \in Key : Owing(k)' => Owing(k),
         \A k \in Key : Hot(k)' \/ Owing(k)' =>
           /\ InHand(k) => InHand(k)'
           /\ phase = "down" => phase' = "down"
           /\ phase = "recovering" /\ Waiting(k) =>
                InHand(k)' \/ phase' = "down" \/ (phase' = "recovering" /\ Waiting(k)')
  PROVE  Kept'
BY DEF Kept, Before

\* Recovery steps over the head of what it has left: it takes it in hand, or
\* has nothing to do for it.
LEMMA StepOver ==
  ASSUME Shape, Walk, Kept, phase = "recovering", tx = NoTx, todo # <<>>,
         todo' = Tail(todo), UNCHANGED <<ref, jrn, order, attempt, doneEvents, phase>>,
         \/ tx' # NoTx /\ KeyOf(tx)' = Head(todo)
         \/ tx' = NoTx /\ ~ Hot(Head(todo)) /\ ~ Owing(Head(todo))
  PROVE  Walk' /\ Kept'
<1>1. /\ Len(todo) \in Nat /\ Len(order) \in Nat /\ Len(todo) >= 1 /\ Head(todo) = todo[1]
      /\ Len(todo') = Len(todo) - 1
      /\ \A i \in 1..(Len(todo) - 1) : todo'[i] = todo[i + 1]
      /\ \A i \in 2..Len(todo) : todo[i] = todo'[i - 1]
  BY Names, HeadAndTail
<1>2. Walk'
  <2>1. Len(order) - Len(todo') = Len(order) - Len(todo) + 1
    BY <1>1
  <2>2. Head(todo) = order[Len(order) - Len(todo) + 1]
    BY <1>1 DEF Walk
  <2>3. ASSUME NEW i \in 1..Len(todo') PROVE todo'[i] = order[Len(order) - Len(todo') + i]
    <3>1. i + 1 \in 1..Len(todo) /\ i \in 1..(Len(todo) - 1)
      BY <1>1
    <3>2. todo[i + 1] = order[Len(order) - Len(todo) + (i + 1)]
      BY <3>1 DEF Walk
    <3>3. Len(order) - Len(todo) + (i + 1) = Len(order) - Len(todo') + i
      BY <1>1
    <3> QED
      BY <1>1, <3>1, <3>2, <3>3
  <2>4. Len(todo') < Len(order) /\ Len(todo') <= Len(order)
    BY <1>1 DEF Walk
  <2> QED
    BY <2>1, <2>2, <2>3, <2>4 DEF Walk
<1>3. ASSUME NEW k \in Key, Waiting(k), k # Head(todo) PROVE Waiting(k)'
  <2>1. PICK i \in 1..Len(todo) : todo[i] = k
    BY <1>3 DEF Waiting
  <2>2. i \in 2..Len(todo)
    BY <1>1, <1>3, <2>1
  <2>3. i - 1 \in 1..Len(todo') /\ todo'[i - 1] = k
    BY <1>1, <2>1, <2>2
  <2> QED
    BY <2>3 DEF Waiting
<1>4. \A k \in Key : (Hot(k)' <=> Hot(k)) /\ (Owing(k)' <=> Owing(k))
  BY DEF Hot, Owing
<1>5. \A k \in Key : InHand(k) => FALSE
  BY DEF InHand
<1>6. ASSUME NEW k \in Key, Hot(k) \/ Owing(k), k = Head(todo) PROVE InHand(k)'
  BY <1>6 DEF InHand
<1> QED
  BY <1>2, <1>3, <1>4, <1>5, <1>6, KeptStands

\* Recovery stops at a hot transaction: whatever else is hot or owing would
\* have been met before it.
LEMMA StopAt ==
  ASSUME Shape, Listing, Walk, Kept, phase = "recovering", tx = NoTx, todo # <<>>,
         todo' = <<>>, UNCHANGED <<ref, jrn, order, attempt, doneEvents, phase>>,
         tx' # NoTx, KeyOf(tx)' = Head(todo), Hot(Head(todo))
  PROVE  Walk' /\ Kept'
<1>1. /\ Len(todo) \in Nat /\ Len(order) \in Nat /\ Len(todo) >= 1 /\ Head(todo) = todo[1]
      /\ Head(todo) \in Key /\ Len(todo') = 0
  BY Names, HeadAndTail
<1>2. Walk'
  BY <1>1 DEF Walk
<1>3. \A k \in Key : (Hot(k)' <=> Hot(k)) /\ (Owing(k)' <=> Owing(k))
  BY DEF Hot, Owing
<1>4. ASSUME NEW k \in Key, Owing(k) PROVE FALSE
  <2>1. PICK i, j \in 1..Len(order) : i < j /\ order[i] = k /\ order[j] = Head(todo)
    BY <1>1, <1>4 DEF Kept, Before
  <2>2. PICK q \in 1..Len(todo) : todo[q] = k
    BY <1>4 DEF Kept, InHand, Waiting
  <2>3. /\ Len(order) - Len(todo) + 1 \in 1..Len(order)
        /\ order[Len(order) - Len(todo) + 1] = Head(todo)
        /\ Len(order) - Len(todo) + q \in 1..Len(order)
        /\ order[Len(order) - Len(todo) + q] = k
    <3>1. 1 \in 1..Len(todo) /\ Len(todo) <= Len(order)
      BY <1>1 DEF Walk
    <3>2. \A r \in 1..Len(todo) : todo[r] = order[Len(order) - Len(todo) + r]
      BY DEF Walk
    <3>3. todo[1] = order[Len(order) - Len(todo) + 1] /\ todo[q] = order[Len(order) - Len(todo) + q]
      BY <2>2, <3>1, <3>2
    <3>4. /\ Len(order) - Len(todo) + 1 \in 1..Len(order)
          /\ Len(order) - Len(todo) + q \in 1..Len(order)
      BY <1>1, <2>2, <3>1
    <3> QED
      BY <1>1, <2>2, <3>3, <3>4
  <2>4. j = Len(order) - Len(todo) + 1 /\ i = Len(order) - Len(todo) + q
    <3>1. \A a, b \in 1..Len(order) : order[a] = order[b] => a = b
      BY Zenon DEF Listing
    <3> QED
      BY <2>1, <2>3, <3>1
  <2> QED
    BY <1>1, <2>1, <2>2, <2>4
<1>5. ASSUME NEW k \in Key, Hot(k) PROVE InHand(k)'
  BY <1>1, <1>5 DEF Kept, InHand
<1>6. \A k \in Key : InHand(k) => FALSE
  BY DEF InHand
<1> QED
  BY <1>2, <1>3, <1>4, <1>5, <1>6, KeptStands

\* The initial state satisfies the second invariant.
LEMMA InitEInv == Init => EInv
BY DEF Init, EInv, Listing, Walk, GivesUp, Kept, NoRec, Hot, Owing

\* Every step preserves it.
LEMMA NextEInv == IInv /\ EInv /\ [Next]_vars => EInv'
<1> SUFFICES ASSUME IInv, EInv, [Next]_vars PROVE EInv'
  OBVIOUS
<1> USE DEF At, Goto, SetStatus, UNCHANGED_Nodes, UNCHANGED_Journal, UNCHANGED_Env, durable
<1>0. /\ Shape /\ JournalTruth /\ TxTruth /\ Shape' /\ ref \subseteq ref'
      /\ Listing /\ Walk /\ GivesUp /\ Kept
  BY NextIInv DEF IInv, EInv
<1>n. tx # NoTx => KeyOf(tx) \in Key
  BY <1>0, Names
<1>s. CASE UNCHANGED vars
  <2>1. Listing' /\ Walk' /\ GivesUp'
    BY <1>0, <1>s DEF vars, Listing, Walk, GivesUp, KeyOf
  <2>2. Kept'
    BY <1>0, <1>s DEF vars, Kept, Hot, Owing, InHand, Waiting, Before, KeyOf
  <2> QED
    BY <2>1, <2>2 DEF EInv
<1>1. ASSUME NEW n \in Node, StartWorker(n) PROVE EInv'
  <2>1. /\ phase = "up" /\ attempt[n] \in Nat
        /\ attempt' = [attempt EXCEPT ![n] = @ + 1]
        /\ UNCHANGED <<ref, jrn, order, doneEvents, phase, todo, tx>>
    BY <1>0, <1>1 DEF StartWorker, Shape
  <2>2. \A m \in Node : attempt[m] \in Nat /\ attempt'[m] = IF m = n THEN attempt[m] + 1 ELSE attempt[m]
    BY <1>0, <2>1 DEF Shape
  <2>3. Listing'
    BY <1>0, <2>1, <2>2 DEF Listing
  <2>4. Walk' /\ GivesUp'
    BY <1>0, <2>1 DEF Walk, GivesUp, KeyOf
  <2>5. \A k \in Key : (Hot(k)' => Hot(k)) /\ (Owing(k)' => Owing(k))
    BY <1>0, <2>1, <2>2 DEF Hot, Owing, Listing
  <2>6. Kept'
    BY <1>0, <2>1, <2>5, KeptStands DEF InHand, Waiting, KeyOf
  <2> QED
    BY <2>3, <2>4, <2>6 DEF EInv
<1>2. ASSUME NEW n \in Node, AttemptRejected(n) PROVE EInv'
  <2>1. UNCHANGED <<ref, jrn, order, attempt, doneEvents, phase, todo, tx>>
    BY <1>2 DEF AttemptRejected
  <2>2. Listing' /\ Walk' /\ GivesUp'
    BY <1>0, <2>1 DEF Listing, Walk, GivesUp, KeyOf
  <2>3. Kept'
    BY <1>0, <2>1 DEF Kept, Hot, Owing, InHand, Waiting, Before, KeyOf
  <2> QED
    BY <2>2, <2>3 DEF EInv
<1>3. ASSUME NEW n \in Node, SettleDone(n) PROVE EInv'
  <2> DEFINE k == <<n, attempt[n]>>
  <2>1. /\ phase = "up" /\ tx = NoTx /\ todo = <<>> /\ k \in Key
        /\ UNCHANGED <<ref, attempt, doneEvents, phase, todo>>
    BY <1>0, <1>3 DEF SettleDone, Shape, Walk
  <2>2. PICK c : /\ Append2Journal(k, [status |-> "prepared", prev |-> ref, cand |-> c])
                 /\ tx' = [node |-> n, attempt |-> attempt[n], prev |-> ref, cand |-> c,
                           pc |-> IF c = NoCommit THEN "conflict" ELSE "verify", live |-> TRUE]
    BY <1>3 DEF SettleDone
  <2>3. jrn' = [j \in Key |-> IF j = k THEN [status |-> "prepared", prev |-> ref, cand |-> c]
                              ELSE jrn[j]]
    BY <1>0, <2>1, <2>2, AppendFacts DEF Shape
  <2>4. tx' # NoTx /\ KeyOf(tx)' = k
    BY <2>2, SomeTx DEF KeyOf
  <2>5. Listing' /\ Len(order') >= Len(order) /\ Len(order) \in Nat /\ Len(order') \in Nat
    <3>1. CASE jrn[k].status = "none"
      <4>1. order' = Append(order, k)
        BY <2>2, <3>1 DEF Append2Journal
      <4>2. /\ Len(order) \in Nat /\ Len(order') = Len(order) + 1 /\ order'[Len(order) + 1] = k
            /\ \A i \in 1..Len(order) : order'[i] = order[i] /\ order[i] \in Key
        BY <1>0, <2>1, <4>1, Names DEF Shape
      <4>3. \A i \in 1..Len(order) : order[i] # k
        BY <1>0, <3>1 DEF Listing
      <4>4. \A j \in Key : jrn'[j].status # "none" => \E i \in 1..Len(order') : order'[i] = j
        <5> SUFFICES ASSUME NEW j \in Key, jrn'[j].status # "none"
                     PROVE  \E i \in 1..Len(order') : order'[i] = j
          OBVIOUS
        <5>1. CASE j = k
          BY <4>2, <5>1
        <5>2. CASE j # k
          <6>1. PICK i \in 1..Len(order) : order[i] = j
            BY <1>0, <2>3, <5>2 DEF Listing
          <6> QED
            BY <4>2, <6>1
        <5> QED
          BY <5>1, <5>2
      <4>5. \A i \in 1..Len(order') : jrn'[order'[i]].status # "none"
        <5> SUFFICES ASSUME NEW i \in 1..Len(order') PROVE jrn'[order'[i]].status # "none"
          OBVIOUS
        <5>1. CASE i = Len(order) + 1
          BY <2>1, <2>3, <4>2, <5>1
        <5>2. CASE i \in 1..Len(order)
          BY <1>0, <2>3, <4>2, <5>2 DEF Listing
        <5> QED
          BY <4>2, <5>1, <5>2
      <4>6. \A i, j \in 1..Len(order') : order'[i] = order'[j] => i = j
        <5> SUFFICES ASSUME NEW i \in 1..Len(order'), NEW j \in 1..Len(order'), order'[i] = order'[j]
                     PROVE  i = j
          OBVIOUS
        <5>1. i = Len(order) + 1 \/ i \in 1..Len(order)
          BY <4>2
        <5>2. j = Len(order) + 1 \/ j \in 1..Len(order)
          BY <4>2
        <5>3. CASE i = Len(order) + 1 /\ j \in 1..Len(order)
          BY <4>2, <4>3, <5>3
        <5>4. CASE j = Len(order) + 1 /\ i \in 1..Len(order)
          BY <4>2, <4>3, <5>4
        <5>5. CASE i \in 1..Len(order) /\ j \in 1..Len(order)
          <6>1. order[i] = order[j]
            BY <4>2, <5>5
          <6> QED
            BY <1>0, <5>5, <6>1 DEF Listing
        <5> QED
          BY <5>1, <5>2, <5>3, <5>4, <5>5
      <4>7. /\ \A j \in Key : jrn'[j].status # "none" => j[2] <= attempt'[j[1]]
            /\ \A j \in Key : jrn'[j].status \in {"prepared", "verified"} => jrn'[j].prev \subseteq ref'
        BY <1>0, <2>1, <2>3 DEF Listing, Shape
      <4> QED
        BY <4>2, <4>4, <4>5, <4>6, <4>7 DEF Listing
    <3>2. CASE jrn[k].status # "none"
      <4>1. order' = order
        BY <2>2, <3>2 DEF Append2Journal
      <4>2. Len(order) \in Nat /\ \A i \in 1..Len(order) : order[i] \in Key
        BY <1>0, Names
      <4>3. \A j \in Key : /\ jrn'[j].status # "none" <=> jrn[j].status # "none"
                           /\ jrn'[j].status \in {"prepared", "verified"} => jrn'[j].prev \subseteq ref
        BY <1>0, <2>3, <3>2 DEF Listing
      <4> QED
        BY <1>0, <2>1, <4>1, <4>2, <4>3 DEF Listing
    <3> QED
      BY <3>1, <3>2
  <2>6. Walk'
    BY <1>0, <2>1, <2>5 DEF Walk
  <2>7. GivesUp'
    BY <2>1, <2>2, <2>3, <2>4 DEF GivesUp
  <2>8. \A j \in Key : ~ Hot(j) /\ ~ Owing(j)
    BY <1>0, <2>1 DEF Kept, InHand
  <2>9. \A j \in Key : ~ Owing(j)' /\ (Hot(j)' => j = k)
    BY <2>1, <2>3, <2>8 DEF Hot, Owing
  <2>10. Kept'
    BY <2>4, <2>9 DEF Kept, InHand
  <2> QED
    BY <2>5, <2>6, <2>7, <2>10 DEF EInv
<1>4. ASSUME AppendConflict PROVE EInv'
  <2>1. /\ tx # NoTx /\ tx' # NoTx /\ KeyOf(tx)' = KeyOf(tx)
        /\ jrn[KeyOf(tx)].status \in {"prepared", "verified"}
        /\ UNCHANGED <<ref, attempt, doneEvents, phase, todo>>
    BY <1>0, <1>4, SomeTx DEF AppendConflict, Shape, TxTruth, KeyOf
  <2>2. PICK s \in {"conflict"} :
          Mark(tx, s) /\ tx' = [tx EXCEPT !.pc = IF s = "conflict" THEN "block"
                                ELSE IF s = "verified" THEN "advance"
                                ELSE IF s = "failed" THEN "reject" ELSE "finish"]
    BY <1>4 DEF AppendConflict
  <2>3. order' = order
    BY <1>0, <2>1, <2>2, MarkKeepsOrder
  <2>4. jrn' = [j \in Key |-> IF j = KeyOf(tx)
                THEN [status |-> s, prev |-> tx.prev, cand |-> tx.cand] ELSE jrn[j]]
    BY <1>0, <2>1, <2>2, MarkFacts
  <2>5. Listing'
    BY <1>0, <2>1, <2>3, <2>4, ListingMarked
  <2>6. Walk'
    BY <1>0, <2>1, <2>3 DEF Walk
  <2>7. GivesUp'
    <3>1. jrn'[KeyOf(tx)].status = s
      BY <1>n, <2>1, <2>4
    <3>2. tx'.pc \in {"block", "advance", "reject", "finish"} /\ (tx'.pc = "block" => s = "conflict")
          /\ (tx'.pc = "reject" => s = "failed")
      BY <1>0, <2>1, <2>2 DEF Shape
    <3> QED
      BY <2>1, <3>1, <3>2 DEF GivesUp
  <2>8. \A j \in Key : Hot(j)' => Hot(j)
    BY <1>0, <1>n, <2>1, <2>4 DEF Hot, TxTruth
  <2>9. \A j \in Key : Owing(j)' => Owing(j)
    BY <1>n, <2>1, <2>4 DEF Owing
  <2>10. Kept'
    BY <1>0, <2>1, <2>3, <2>8, <2>9, KeptStands DEF InHand, Waiting
  <2> QED
    BY <2>5, <2>6, <2>7, <2>10 DEF EInv
<1>5. ASSUME VerifyCandidate PROVE EInv'
  <2>1. /\ tx # NoTx /\ tx' # NoTx /\ KeyOf(tx)' = KeyOf(tx)
        /\ jrn[KeyOf(tx)].status \in {"prepared", "verified"}
        /\ UNCHANGED <<ref, attempt, doneEvents, phase, todo>>
    BY <1>0, <1>5, SomeTx DEF VerifyCandidate, Shape, TxTruth, KeyOf
  <2>2. PICK s \in {"verified", "failed"} :
          Mark(tx, s) /\ tx' = [tx EXCEPT !.pc = IF s = "conflict" THEN "block"
                                ELSE IF s = "verified" THEN "advance"
                                ELSE IF s = "failed" THEN "reject" ELSE "finish"]
    BY <1>5 DEF VerifyCandidate
  <2>3. order' = order
    BY <1>0, <2>1, <2>2, MarkKeepsOrder
  <2>4. jrn' = [j \in Key |-> IF j = KeyOf(tx)
                THEN [status |-> s, prev |-> tx.prev, cand |-> tx.cand] ELSE jrn[j]]
    BY <1>0, <2>1, <2>2, MarkFacts
  <2>5. Listing'
    BY <1>0, <2>1, <2>3, <2>4, ListingMarked
  <2>6. Walk'
    BY <1>0, <2>1, <2>3 DEF Walk
  <2>7. GivesUp'
    <3>1. jrn'[KeyOf(tx)].status = s
      BY <1>n, <2>1, <2>4
    <3>2. tx'.pc \in {"block", "advance", "reject", "finish"} /\ (tx'.pc = "block" => s = "conflict")
          /\ (tx'.pc = "reject" => s = "failed")
      BY <1>0, <2>1, <2>2 DEF Shape
    <3> QED
      BY <2>1, <3>1, <3>2 DEF GivesUp
  <2>8. \A j \in Key : Hot(j)' => Hot(j)
    BY <1>0, <1>n, <2>1, <2>4 DEF Hot, TxTruth
  <2>9. \A j \in Key : Owing(j)' => Owing(j)
    BY <1>n, <2>1, <2>4 DEF Owing
  <2>10. Kept'
    BY <1>0, <2>1, <2>3, <2>8, <2>9, KeptStands DEF InHand, Waiting
  <2> QED
    BY <2>5, <2>6, <2>7, <2>10 DEF EInv
<1>6. ASSUME AppendAccepted PROVE EInv'
  <2>1. /\ tx # NoTx /\ tx' # NoTx /\ KeyOf(tx)' = KeyOf(tx)
        /\ jrn[KeyOf(tx)].status \in {"prepared", "verified"}
        /\ UNCHANGED <<ref, attempt, doneEvents, phase, todo>>
    BY <1>0, <1>6, SomeTx DEF AppendAccepted, Shape, TxTruth, KeyOf
  <2>2. PICK s \in {"accepted"} :
          Mark(tx, s) /\ tx' = [tx EXCEPT !.pc = IF s = "conflict" THEN "block"
                                ELSE IF s = "verified" THEN "advance"
                                ELSE IF s = "failed" THEN "reject" ELSE "finish"]
    BY <1>6 DEF AppendAccepted
  <2>3. order' = order
    BY <1>0, <2>1, <2>2, MarkKeepsOrder
  <2>4. jrn' = [j \in Key |-> IF j = KeyOf(tx)
                THEN [status |-> s, prev |-> tx.prev, cand |-> tx.cand] ELSE jrn[j]]
    BY <1>0, <2>1, <2>2, MarkFacts
  <2>5. Listing'
    BY <1>0, <2>1, <2>3, <2>4, ListingMarked
  <2>6. Walk'
    BY <1>0, <2>1, <2>3 DEF Walk
  <2>7. GivesUp'
    <3>1. jrn'[KeyOf(tx)].status = s
      BY <1>n, <2>1, <2>4
    <3>2. tx'.pc \in {"block", "advance", "reject", "finish"} /\ (tx'.pc = "block" => s = "conflict")
          /\ (tx'.pc = "reject" => s = "failed")
      BY <1>0, <2>1, <2>2 DEF Shape
    <3> QED
      BY <2>1, <3>1, <3>2 DEF GivesUp
  <2>8. \A j \in Key : Hot(j)' => Hot(j)
    BY <1>0, <1>n, <2>1, <2>4 DEF Hot, TxTruth
  <2>9. \A j \in Key : Owing(j)' => Owing(j) \/ j = KeyOf(tx)
    BY <1>n, <2>1, <2>4 DEF Owing
  <2>h. \A j \in Key : j = KeyOf(tx) => ~ Hot(j)'
    BY <1>n, <2>1, <2>4 DEF Hot
  <2>10. Kept'
    <3>1. ASSUME NEW j \in Key, Hot(j)' \/ Owing(j)'
          PROVE  (InHand(j) \/ phase = "down" \/ (phase = "recovering" /\ Waiting(j)))'
      BY <1>0, <2>1, <2>8, <2>9, <3>1 DEF Kept, InHand, Waiting
    <3>2. ASSUME NEW j \in Key, NEW m \in Key, Hot(j)', Hot(m)' PROVE j = m
      BY <1>0, <2>8, <3>2 DEF Kept
    <3>3. ASSUME NEW j \in Key, NEW m \in Key, Owing(j)', Hot(m)' PROVE Before(j, m)'
      <4>1. CASE Owing(j)
        BY <1>0, <2>3, <2>8, <3>3, <4>1 DEF Kept, Before
      <4>2. CASE j = KeyOf(tx)
        <5>1. m # KeyOf(tx) /\ Hot(m)
          BY <2>8, <2>h, <3>3, <4>2
        <5>2. phase = "recovering" /\ Waiting(m)
          BY <1>0, <2>1, <5>1 DEF Kept, InHand, Walk
        <5>3. PICK i \in 1..Len(todo) : todo[i] = m
          BY <5>2 DEF Waiting
        <5>4. Len(order) \in Nat /\ Len(todo) \in Nat /\ todo # <<>>
          BY <1>0, <5>3, Names
        <5>5. /\ Len(todo) < Len(order) /\ order[Len(order) - Len(todo)] = j
              /\ order[Len(order) - Len(todo) + i] = m
          BY <1>0, <2>1, <4>2, <5>2, <5>3, <5>4 DEF Walk
        <5>6. /\ Len(order) - Len(todo) \in 1..Len(order)
              /\ Len(order) - Len(todo) + i \in 1..Len(order)
              /\ Len(order) - Len(todo) < Len(order) - Len(todo) + i
          BY <5>3, <5>4, <5>5
        <5> QED
          BY <2>3, <5>5, <5>6 DEF Before
      <4> QED
        BY <2>9, <3>3, <4>1, <4>2
    <3> QED
      BY <3>1, <3>2, <3>3 DEF Kept
  <2> QED
    BY <2>5, <2>6, <2>7, <2>10 DEF EInv
<1>7. ASSUME BlockNode PROVE EInv'
  <2>1. tx # NoTx /\ UNCHANGED <<jrn, order, attempt, phase, todo>> /\ doneEvents \subseteq doneEvents'
    BY <1>7 DEF BlockNode
  <2>2. Listing' /\ \A j \in Key : Hot(j)' => Hot(j)
    BY <1>0, <2>1, ListingStands
  <2>k. tx' # NoTx => KeyOf(tx)' = KeyOf(tx)
    BY <1>0, <1>7 DEF BlockNode, Shape, KeyOf
  <2>3. Walk'
    BY <1>0, <2>1, <2>k DEF Walk
  <2>4. GivesUp'
    BY <1>0, <1>7 DEF BlockNode, GivesUp, Shape, TxTruth, KeyOf
  <2>5. \A j \in Key : Owing(j)' => Owing(j)
    BY <2>1 DEF Owing
  <2>6. ASSUME NEW j \in Key, InHand(j), Hot(j)' \/ Owing(j)' PROVE InHand(j)'
    BY <1>0, <1>7, <2>6, SomeTx DEF BlockNode, InHand, Hot, Owing, GivesUp, TxTruth, Shape, KeyOf
  <2>7. Kept'
    BY <1>0, <2>1, <2>2, <2>5, <2>6, KeptStands DEF Waiting
  <2> QED
    BY <2>2, <2>3, <2>4, <2>7 DEF EInv
<1>8. ASSUME RejectCandidate PROVE EInv'
  <2>1. tx # NoTx /\ UNCHANGED <<jrn, order, attempt, phase, todo>> /\ doneEvents \subseteq doneEvents'
    BY <1>8 DEF RejectCandidate
  <2>2. Listing' /\ \A j \in Key : Hot(j)' => Hot(j)
    BY <1>0, <2>1, ListingStands
  <2>k. tx' # NoTx => KeyOf(tx)' = KeyOf(tx)
    BY <1>0, <1>8 DEF RejectCandidate, Shape, KeyOf
  <2>3. Walk'
    BY <1>0, <2>1, <2>k DEF Walk
  <2>4. GivesUp'
    BY <1>0, <1>8 DEF RejectCandidate, GivesUp, Shape, TxTruth, KeyOf
  <2>5. \A j \in Key : Owing(j)' => Owing(j)
    BY <2>1 DEF Owing
  <2>6. ASSUME NEW j \in Key, InHand(j), Hot(j)' \/ Owing(j)' PROVE InHand(j)'
    BY <1>0, <1>8, <2>6, SomeTx DEF RejectCandidate, InHand, Hot, Owing, GivesUp, TxTruth, Shape, KeyOf
  <2>7. Kept'
    BY <1>0, <2>1, <2>2, <2>5, <2>6, KeptStands DEF Waiting
  <2> QED
    BY <2>2, <2>3, <2>4, <2>7 DEF EInv
<1>9. ASSUME WriteDone PROVE EInv'
  <2>1. tx # NoTx /\ UNCHANGED <<jrn, order, attempt, phase, todo>> /\ doneEvents \subseteq doneEvents'
    BY <1>9 DEF WriteDone
  <2>2. Listing' /\ \A j \in Key : Hot(j)' => Hot(j)
    BY <1>0, <2>1, ListingStands
  <2>k. tx' # NoTx => KeyOf(tx)' = KeyOf(tx)
    BY <1>0, <1>9 DEF WriteDone, Shape, KeyOf
  <2>3. Walk'
    BY <1>0, <2>1, <2>k DEF Walk
  <2>4. GivesUp'
    BY <1>0, <1>9 DEF WriteDone, GivesUp, Shape, TxTruth, KeyOf
  <2>5. \A j \in Key : Owing(j)' => Owing(j)
    BY <2>1 DEF Owing
  <2>6. ASSUME NEW j \in Key, InHand(j), Hot(j)' \/ Owing(j)' PROVE InHand(j)'
    <3>1. /\ j = <<tx.node, tx.attempt>> /\ jrn[j].status = "accepted" /\ tx.live \in BOOLEAN
          /\ j[1] = tx.node /\ j[2] = tx.attempt
      BY <1>0, <1>9, <2>6 DEF WriteDone, InHand, TxTruth, Shape, KeyOf
    <3>2. attempt[tx.node] = tx.attempt /\ KeyOf(tx) \notin doneEvents
      BY <1>9, <2>1, <2>6, <3>1 DEF WriteDone, Hot, Owing, KeyOf
    <3>3. tx' = [tx EXCEPT !.pc = "event"]
      BY <1>9, <3>2 DEF WriteDone
    <3> QED
      BY <1>0, <2>1, <2>6, <3>3, SomeTx DEF Shape, InHand, KeyOf
  <2>7. Kept'
    BY <1>0, <2>1, <2>2, <2>5, <2>6, KeptStands DEF Waiting
  <2> QED
    BY <2>2, <2>3, <2>4, <2>7 DEF EInv
<1>10. ASSUME WriteDoneEvent PROVE EInv'
  <2>1. tx # NoTx /\ UNCHANGED <<jrn, order, attempt, phase, todo>> /\ doneEvents \subseteq doneEvents'
    BY <1>10 DEF WriteDoneEvent
  <2>2. Listing' /\ \A j \in Key : Hot(j)' => Hot(j)
    BY <1>0, <2>1, ListingStands
  <2>k. tx' # NoTx => KeyOf(tx)' = KeyOf(tx)
    BY <1>0, <1>10 DEF WriteDoneEvent, Shape, KeyOf
  <2>3. Walk'
    BY <1>0, <2>1, <2>k DEF Walk
  <2>4. GivesUp'
    BY <1>0, <1>10 DEF WriteDoneEvent, GivesUp, Shape, TxTruth, KeyOf
  <2>5. \A j \in Key : Owing(j)' => Owing(j)
    BY <2>1 DEF Owing
  <2>6. ASSUME NEW j \in Key, InHand(j), Hot(j)' \/ Owing(j)' PROVE InHand(j)'
    BY <1>0, <1>10, <2>6, SomeTx DEF WriteDoneEvent, InHand, Hot, Owing, GivesUp, TxTruth, Shape, KeyOf
  <2>7. Kept'
    BY <1>0, <2>1, <2>2, <2>5, <2>6, KeptStands DEF Waiting
  <2> QED
    BY <2>2, <2>3, <2>4, <2>7 DEF EInv
<1>11. ASSUME AdvanceVerified PROVE EInv'
  <2>1. tx # NoTx /\ UNCHANGED <<jrn, order, attempt, phase, todo>> /\ doneEvents \subseteq doneEvents'
    BY <1>11 DEF AdvanceVerified
  <2>2. Listing' /\ \A j \in Key : Hot(j)' => Hot(j)
    BY <1>0, <2>1, ListingStands
  <2>k. tx' # NoTx => KeyOf(tx)' = KeyOf(tx)
    BY <1>0, <1>11 DEF AdvanceVerified, Shape, KeyOf
  <2>3. Walk'
    BY <1>0, <2>1, <2>k DEF Walk
  <2>4. GivesUp'
    BY <1>0, <1>11 DEF AdvanceVerified, GivesUp, Shape, TxTruth, KeyOf
  <2>5. \A j \in Key : Owing(j)' => Owing(j)
    BY <2>1 DEF Owing
  <2>6. \A j \in Key : InHand(j) => InHand(j)'
    BY <1>0, <1>11, SomeTx DEF AdvanceVerified, InHand, Shape, KeyOf
  <2>7. Kept'
    BY <1>0, <2>1, <2>2, <2>5, <2>6, KeptStands DEF Waiting
  <2> QED
    BY <2>2, <2>3, <2>4, <2>7 DEF EInv
<1>12. ASSUME UpdateRefConditional PROVE EInv'
  <2>1. tx # NoTx /\ UNCHANGED <<jrn, order, attempt, phase, todo>> /\ doneEvents \subseteq doneEvents'
    BY <1>12 DEF UpdateRefConditional
  <2>2. Listing' /\ \A j \in Key : Hot(j)' => Hot(j)
    BY <1>0, <2>1, ListingStands
  <2>k. tx' # NoTx => KeyOf(tx)' = KeyOf(tx)
    BY <1>0, <1>12 DEF UpdateRefConditional, Shape, KeyOf
  <2>3. Walk'
    BY <1>0, <2>1, <2>k DEF Walk
  <2>4. GivesUp'
    BY <1>0, <1>12 DEF UpdateRefConditional, GivesUp, Shape, TxTruth, KeyOf
  <2>5. \A j \in Key : Owing(j)' => Owing(j)
    BY <2>1 DEF Owing
  <2>6. \A j \in Key : InHand(j) => InHand(j)'
    BY <1>0, <1>12, SomeTx DEF UpdateRefConditional, InHand, Shape, KeyOf
  <2>7. Kept'
    BY <1>0, <2>1, <2>2, <2>5, <2>6, KeptStands DEF Waiting
  <2> QED
    BY <2>2, <2>3, <2>4, <2>7 DEF EInv
<1>13. ASSUME Crash PROVE EInv'
  <2>1. /\ tx' = NoTx /\ todo' = <<>> /\ phase' = "down"
        /\ UNCHANGED <<ref, jrn, order, attempt, doneEvents>>
    BY <1>13 DEF Crash
  <2>2. Listing' /\ \A j \in Key : (Hot(j)' => Hot(j)) /\ (Owing(j)' => Owing(j))
    BY <1>0, <2>1, ListingStands DEF Owing
  <2>3. Walk' /\ GivesUp'
    BY <1>0, <2>1, Names DEF Walk, GivesUp
  <2>4. Kept'
    BY <1>0, <2>1, <2>2 DEF Kept, Before
  <2> QED
    BY <2>2, <2>3, <2>4 DEF EInv
<1>14. ASSUME Resume PROVE EInv'
  <2>1. /\ tx = NoTx /\ tx' = NoTx /\ todo' = order /\ phase = "down" /\ phase' = "recovering"
        /\ UNCHANGED <<ref, jrn, order, attempt, doneEvents>>
    BY <1>0, <1>14 DEF Resume, Walk
  <2>2. Listing' /\ \A j \in Key : (Hot(j)' => Hot(j)) /\ (Owing(j)' => Owing(j))
    BY <1>0, <2>1, ListingStands DEF Owing
  <2>3. Len(order) \in Nat
    BY <1>0, Names
  <2>4. Walk' /\ GivesUp'
    BY <2>1, <2>3 DEF Walk, GivesUp
  <2>5. \A j \in Key : Hot(j) \/ Owing(j) => Waiting(j)'
    BY <1>0, <2>1 DEF Hot, Owing, Listing, Waiting
  <2>6. Kept'
    BY <1>0, <2>1, <2>2, <2>5 DEF Kept, Before
  <2> QED
    BY <2>2, <2>4, <2>6 DEF EInv
<1>15. ASSUME RecoverAccepted \/ RecoverDead \/ RecoverPrepared \/ RecoverVerified PROVE EInv'
  <2> DEFINE h == Head(todo)
  <2>1. /\ phase = "recovering" /\ tx = NoTx /\ todo # <<>>
        /\ UNCHANGED <<ref, jrn, order, attempt, doneEvents, phase>>
    BY <1>15 DEF RecoverAccepted, RecoverDead, RecoverPrepared, RecoverVerified, Recovering
  <2>2. h \in Key
    BY <1>0, <2>1, RecoveredFacts
  <2>3. \/ /\ todo' = Tail(todo) /\ tx' = NoTx
           /\ jrn[h].status \in {"failed", "conflict"}
        \/ /\ \/ todo' = Tail(todo)
              \/ todo' = <<>> /\ jrn[h].status \in {"prepared", "verified"} /\ ref = jrn[h].prev
           /\ \E label \in PC :
                /\ tx' = Recovered(h, label) /\ label # "reject" /\ jrn[h].status # "none"
                /\ label = "block" => jrn[h].status \in {"prepared", "verified"} /\ ref # jrn[h].prev
    BY <1>15 DEF RecoverAccepted, RecoverDead, RecoverPrepared, RecoverVerified, Recovering
  <2>4. Listing'
    BY <1>0, <2>1, ListingStands
  <2>5. CASE /\ todo' = Tail(todo) /\ tx' = NoTx
             /\ jrn[h].status \in {"failed", "conflict"}
    <3>1. ~ Hot(h) /\ ~ Owing(h)
      BY <2>5 DEF Hot, Owing
    <3>2. Walk' /\ Kept'
      BY <1>0, <2>1, <2>5, <3>1, StepOver
    <3> QED
      BY <2>4, <2>5, <3>2 DEF EInv, GivesUp
  <2>6. CASE \E label \in PC :
               /\ tx' = Recovered(h, label) /\ label # "reject" /\ jrn[h].status # "none"
               /\ label = "block" => jrn[h].status \in {"prepared", "verified"} /\ ref # jrn[h].prev
    <3>1. PICK label \in PC :
               /\ tx' = Recovered(h, label) /\ label # "reject" /\ jrn[h].status # "none"
               /\ label = "block" => jrn[h].status \in {"prepared", "verified"} /\ ref # jrn[h].prev
      BY <2>6
    <3>3. /\ KeyOf(tx)' = h /\ tx'.pc = label /\ tx'.prev = jrn[h].prev
      BY <1>0, <2>1, <3>1, RecoveredFacts DEF KeyOf
    <3>2. tx' # NoTx
      BY <3>3, SomeTx
    <3>4. GivesUp'
      BY <2>1, <3>1, <3>3 DEF GivesUp
    <3>5. CASE todo' = Tail(todo)
      <4>1. Walk' /\ Kept'
        BY <1>0, <2>1, <3>2, <3>3, <3>5, StepOver
      <4> QED
        BY <2>4, <3>4, <4>1 DEF EInv
    <3>6. CASE todo' = <<>> /\ jrn[h].status \in {"prepared", "verified"} /\ ref = jrn[h].prev
      <4>1. Hot(h)
        BY <3>6 DEF Hot
      <4>2. Walk' /\ Kept'
        BY <1>0, <2>1, <3>2, <3>3, <3>6, <4>1, StopAt
      <4> QED
        BY <2>4, <3>4, <4>2 DEF EInv
    <3> QED
      BY <2>3, <2>5, <3>5, <3>6
  <2> QED
    BY <2>3, <2>5, <2>6
<1>16. ASSUME RecoverNodes PROVE EInv'
  <2>1. /\ phase = "recovering" /\ phase' = "up" /\ tx = NoTx /\ tx' = NoTx /\ todo = <<>> /\ todo' = <<>>
        /\ UNCHANGED <<ref, jrn, order, attempt, doneEvents>>
    BY <1>16 DEF RecoverNodes
  <2>2. Listing' /\ \A j \in Key : (Hot(j)' => Hot(j)) /\ (Owing(j)' => Owing(j))
    BY <1>0, <2>1, ListingStands DEF Owing
  <2>3. Walk' /\ GivesUp'
    BY <1>0, <2>1, Names DEF Walk, GivesUp
  <2>4. \A j \in Key : ~ InHand(j) /\ ~ Waiting(j)
    BY <2>1 DEF InHand, Waiting
  <2>5. Kept'
    BY <1>0, <2>1, <2>2, <2>4, KeptStands
  <2> QED
    BY <2>2, <2>3, <2>5 DEF EInv
<1>17. ASSUME ExternalMove PROVE EInv'
  <2>1. UNCHANGED <<jrn, order, attempt, doneEvents, phase, todo, tx>>
    BY <1>17 DEF ExternalMove
  <2>2. Listing' /\ \A j \in Key : (Hot(j)' => Hot(j)) /\ (Owing(j)' => Owing(j))
    BY <1>0, <2>1, ListingStands DEF Owing
  <2>3. Walk'
    BY <1>0, <2>1 DEF Walk, KeyOf
  <2>4. GivesUp'
    BY <1>0, <1>n, <2>1 DEF GivesUp, KeyOf, Listing, TxTruth
  <2>5. Kept'
    BY <1>0, <2>1, <2>2, KeptStands DEF InHand, Waiting, KeyOf
  <2> QED
    BY <2>2, <2>3, <2>4, <2>5 DEF EInv
<1> QED
  BY <1>s, <1>1, <1>2, <1>3, <1>4, <1>5, <1>6, <1>7, <1>8, <1>9, <1>10, <1>11, <1>12, <1>13, <1>14, <1>15, <1>16, <1>17 DEF Next, TxStep, RecoverStep

\* Both invariants hold in every reachable state.
THEOREM EventInvariance == Spec => []EInv
<1>1. EInv /\ IInv /\ [Next]_vars => EInv'
  BY NextEInv
<1> QED
  BY InitEInv, <1>1, Invariance, PTL DEF Spec

\* Once recovery is over every done node has its done event, wherever the
\* controllers before died between the two writes.
THEOREM DoneEventWritten == Spec => []DoneHasEvent
<1>1. IInv /\ EInv => DoneHasEvent
  <2> SUFFICES ASSUME IInv, EInv, NEW n \in Node, phase = "up", status[n] = "done",
                      tx # NoTx => tx.node # n, <<n, attempt[n]>> \notin doneEvents
               PROVE  FALSE
    BY DEF DoneHasEvent
  <2>1. <<n, attempt[n]>> \in Key /\ Owing(<<n, attempt[n]>>)
    BY DEF IInv, DoneAccepted, Owing
  <2>2. InHand(<<n, attempt[n]>>)
    BY <2>1 DEF EInv, Kept
  <2> QED
    BY <2>2 DEF InHand, KeyOf
<1> QED
  BY <1>1, Invariance, EventInvariance, PTL
=============================================================================
