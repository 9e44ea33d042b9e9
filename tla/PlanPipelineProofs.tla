------------------------- MODULE PlanPipelineProofs -------------------------
(***************************************************************************)
(* What PlanPipeline guarantees for every set of nodes and finding ids,    *)
(* every number of rounds, launches and deaths, and whichever plans the    *)
(* freeze refuses.                                                         *)
(*                                                                         *)
(* Two things make the rounds work.  The findings the pipeline raises      *)
(* itself (a shape it could not accept, a write a revise dropped) own      *)
(* their ids: whoever holds such an id is that finding, so merging them    *)
(* over what is open replaces nothing.  And a critical that is still owed  *)
(* is among what is open, under its own id and at its own node, until a    *)
(* reviewer gives the id away; one that names no node is never counted on. *)
(* The draft is another argument, about the four files alone.              *)
(***************************************************************************)
EXTENDS PlanPipeline, FiniteSetTheorems, TLAPS

\* The findings the pipeline raises itself within the rounds.
Drops == {AtNode("drop", n) : n \in Node}
Own == Drops \cup {Shape(k) : k \in {"draft", "review", "freeze"}}

\* A finding is told by its id, and the pipeline's own by theirs.
Known(fs) == \A f \in fs : \A g \in fs \cup Own : f.id = g.id => f = g

Shapes ==
  /\ pc \in {"idle", "draft", "check", "review", "revise", "retry", "assemble",
             "written", "bare", "contest", "end"}
  /\ mode \in {"plan", "resolve"}
  /\ plan \in Plans \cup {NoPlan} /\ first \in Plans \cup {NoPlan}
  /\ draftRec \in Plans \cup {NoPlan} /\ contract \in Plans \cup {NoPlan}
  /\ graded \in Plans \cup {NoPlan}
  /\ findings \subseteq Finding /\ dropped \subseteq Drops
  /\ round \in 0 .. MaxRounds
  /\ history = {} \/ \E c \in history : history = {c} /\ c \in Nat
  /\ carried \in BOOLEAN /\ adopt \in BOOLEAN /\ current \in BOOLEAN
  /\ progress \in {"none", "live", "dead"}
  /\ record \in Record
  /\ attempts \in 0 .. MaxAttempt /\ crashes \in 0 .. MaxCrash

\* A round that will be revised is not the last.
Rounds == pc \in {"revise", "retry"} => round < MaxRounds

\* Outside the rounds nothing is open and nothing is owed.
Quiet == pc \in {"idle", "draft"} => owed = {}

\* What may be owed, and the two kinds the code loses.
Debt == [id : FindingId \cup {Taken}, at : Node \cup {"plan"}]
Lost(o) == o.id = Taken \/ o.at = "plan"

\* An owed critical is open where it was raised, unless its id was given away
\* or it named no node of the plan.
OwedIsOpen ==
  /\ owed \subseteq Debt
  /\ \A o \in owed : Lost(o) \/ \E f \in findings : f.critical /\ f.id = o.id /\ f.at = o.at

\* A draft that is paid for is on disk; between attempts its dead one's record
\* says so, and the attempt after it adopts the draft.
Draft ==
  /\ paid \in {0, 1}
  /\ paid = 1 /\ record.status = "none" => draftRec # NoPlan
  /\ paid = 1 /\ pc = "idle" => progress = "dead" /\ record.status = "none"
  /\ paid = 1 /\ pc = "draft" => adopt /\ record.status = "none" /\ current
  /\ mode = "plan" /\ pc # "idle" => progress = "live"
  /\ mode = "resolve" /\ pc # "idle" => paid = 0
  /\ pc = "draft" => mode = "plan"

IInv ==
  /\ Shapes /\ Known(findings) /\ Rounds /\ Quiet /\ OwedIsOpen /\ FrozenIsGraded

USE RoundsAssumption, BoundAssumption, RefusedAssumption, NodeAssumption, IdAssumption
-----------------------------------------------------------------------------
(* Findings and what counts them.                                          *)

\* Only finitely many findings can be told apart: any set of them is counted.
LEMMA FindingsAreCounted ==
  ASSUME NEW fs \in SUBSET Finding
  PROVE  IsFiniteSet(fs)
<1>1. IsFiniteSet(FindingId)
  <2>1. IsFiniteSet({"review"}) /\ IsFiniteSet({"drop"}) /\ IsFiniteSet({"proof"})
        /\ IsFiniteSet({"shape"}) /\ IsFiniteSet({"draft"}) /\ IsFiniteSet({"freeze"})
    BY FS_Singleton
  <2>2. IsFiniteSet({"drop"} \cup {"proof"})
    BY <2>1, FS_Union, Zenon
  <2>3. IsFiniteSet({"draft"} \cup {"review"} \cup {"freeze"})
    BY <2>1, FS_Union, Zenon
  <2>4. {"drop", "proof"} = {"drop"} \cup {"proof"}
        /\ {"draft", "review", "freeze"} = {"draft"} \cup {"review"} \cup {"freeze"}
    OBVIOUS
  <2>5. IsFiniteSet({"review"} \X Id) /\ IsFiniteSet({"drop", "proof"} \X Node)
        /\ IsFiniteSet({"shape"} \X {"draft", "review", "freeze"})
    BY <2>1, <2>2, <2>3, <2>4, FS_Product, Zenon
  <2>6. IsFiniteSet(({"review"} \X Id) \cup ({"drop", "proof"} \X Node))
    BY <2>5, FS_Union, Zenon
  <2> QED
    BY <2>5, <2>6, FS_Union, Zenon DEF FindingId
<1>2. IsFiniteSet(BOOLEAN) /\ IsFiniteSet(Node \cup {"plan"})
  <2>1. BOOLEAN = {TRUE} \cup {FALSE}
    BY Zenon
  <2>2. IsFiniteSet({TRUE}) /\ IsFiniteSet({FALSE}) /\ IsFiniteSet({"plan"})
    BY FS_Singleton
  <2>3. IsFiniteSet(Node \cup {"plan"})
    BY <2>2, FS_Union, Zenon
  <2>4. IsFiniteSet({TRUE} \cup {FALSE})
    BY <2>2, FS_Union, Zenon
  <2> QED
    BY <2>1, <2>3, <2>4
<1>3. IsFiniteSet((FindingId \X BOOLEAN) \X (Node \cup {"plan"}))
  BY <1>1, <1>2, FS_Product, Zenon
<1> DEFINE T == (FindingId \X BOOLEAN) \X (Node \cup {"plan"})
           make == [t \in T |-> [id |-> t[1][1], critical |-> t[1][2], at |-> t[2]]]
<1>4. make \in Surjection(T, Finding)
  <2>1. make \in [T -> Finding]
    BY DEF Finding
  <2>2. ASSUME NEW f \in Finding PROVE \E t \in T : make[t] = f
    <3>1. <<<<f.id, f.critical>>, f.at>> \in T
      BY DEF Finding
    <3>2. make[<<<<f.id, f.critical>>, f.at>>] = f
      BY <3>1 DEF Finding
    <3> QED
      BY <3>1, <3>2
  <2> QED
    BY <2>1, <2>2 DEF Surjection
<1> HIDE DEF T, make
<1>5. IsFiniteSet(Finding)
  BY <1>3, <1>4, FS_Surjection DEF T
<1> QED
  BY <1>5, FS_Subset

\* The ends of a round: with no critical open it freezes, and only then; in the
\* last round it is not revised.
LEMMA DecisionEnds ==
  ASSUME NEW fs \in SUBSET Finding, NEW reviewed, NEW r \in 0 .. MaxRounds
  PROVE  /\ Decision(fs, reviewed, r) \in {"assemble", "contest", "revise"}
         /\ Decision(fs, reviewed, r) = "assemble" => Critical(fs) = {}
         /\ Decision(fs, reviewed, r) = "revise" => r < MaxRounds
<1>1. Critical(fs) \in SUBSET Finding
  BY DEF Critical
<1>2. Cardinality(Critical(fs)) = 0 <=> Critical(fs) = {}
  BY <1>1, FindingsAreCounted, FS_EmptySet
<1> QED
  BY <1>2 DEF Decision

\* The pipeline's own findings are findings, and their ids tell them apart.
LEMMA OwnTold ==
  /\ Own \subseteq Finding
  /\ \A f, g \in Own : f.id = g.id => f = g
<1>1. ASSUME NEW f \in Own
      PROVE  \/ \E n \in Node : f = [id |-> <<"drop", n>>, critical |-> TRUE, at |-> n]
             \/ \E k \in {"draft", "review", "freeze"} :
                  f = [id |-> <<"shape", k>>, critical |-> TRUE, at |-> "plan"]
  BY DEF Own, Drops, Shape, AtNode
<1>2. ASSUME NEW f \in Own PROVE f \in Finding
  <2>1. CASE \E n \in Node : f = [id |-> <<"drop", n>>, critical |-> TRUE, at |-> n]
    BY <2>1 DEF Finding, FindingId
  <2>2. CASE \E k \in {"draft", "review", "freeze"} :
                f = [id |-> <<"shape", k>>, critical |-> TRUE, at |-> "plan"]
    BY <2>2 DEF Finding, FindingId
  <2> QED
    BY <1>1, <2>1, <2>2
<1>3. ASSUME NEW f \in Own, NEW g \in Own, f.id = g.id PROVE f = g
  <2>1. CASE \E n \in Node : f = [id |-> <<"drop", n>>, critical |-> TRUE, at |-> n]
    <3>1. PICK n \in Node : f = [id |-> <<"drop", n>>, critical |-> TRUE, at |-> n]
      BY <2>1
    <3>2. PICK m \in Node : g = [id |-> <<"drop", m>>, critical |-> TRUE, at |-> m]
      BY <1>1, <1>3, <3>1
    <3> QED
      BY <1>3, <3>1, <3>2
  <2>2. CASE \E k \in {"draft", "review", "freeze"} :
                f = [id |-> <<"shape", k>>, critical |-> TRUE, at |-> "plan"]
    <3>1. PICK k \in {"draft", "review", "freeze"} :
            f = [id |-> <<"shape", k>>, critical |-> TRUE, at |-> "plan"]
      BY <2>2
    <3>2. PICK l \in {"draft", "review", "freeze"} :
            g = [id |-> <<"shape", l>>, critical |-> TRUE, at |-> "plan"]
      BY <1>1, <1>3, <3>1
    <3> QED
      BY <1>3, <3>1, <3>2
  <2> QED
    BY <1>1, <2>1, <2>2
<1> QED
  BY <1>2, <1>3

\* Adding findings of the pipeline's own keeps the ids telling.
LEMMA KnownWithOwn ==
  ASSUME NEW fs, Known(fs), NEW S \in SUBSET Own
  PROVE  Known(fs \cup S)
<1>1. \A f \in fs : \A g \in fs \cup Own : f.id = g.id => f = g
  BY DEF Known
<1>2. \A f \in S : \A g \in fs \cup Own : f.id = g.id => f = g
  BY <1>1, OwnTold
<1> QED
  BY <1>1, <1>2 DEF Known

\* Merging the pipeline's own findings over what is open only adds them.
LEMMA MergedOwn ==
  ASSUME NEW fs, Known(fs), NEW S \in SUBSET Own
  PROVE  Merged(fs, S) = fs \cup S
<1>1. \A f \in fs : f.id \in Ids(S) => f \in S
  BY DEF Ids, Known
<1> QED
  BY <1>1, Zenon DEF Merged

\* A reviewer's findings stand under ids of its own, of which a merge keeps all.
LEMMA ReviewsTold ==
  ASSUME NEW r \in Reviews
  PROVE  /\ r.raised \subseteq Finding /\ r.kept \subseteq r.raised
         /\ Ids(r.kept) = Ids(r.raised)
         /\ Known(r.kept)
<1>1. /\ r.raised \subseteq Said /\ r.kept \subseteq r.raised /\ Ids(r.kept) = Ids(r.raised)
      /\ \A f, g \in r.kept : f.id = g.id => f = g
  BY DEF Reviews
<1>2. \A f \in Said : f \in Finding /\ \E i \in Id : f.id = <<"review", i>>
  BY SaidAssumption DEF Finding, FindingId
<1>3. \A x \in r.kept : \A y \in Own : x.id # y.id
  <2>1. \A x \in r.kept : \E i \in Id : x.id = <<"review", i>>
    BY <1>1, <1>2
  <2> QED
    BY <2>1 DEF Own, Drops, Shape, AtNode
<1> QED
  BY <1>1, <1>2, <1>3 DEF Known

\* A review merged over what is open: nothing is lost whose id it did not use.
LEMMA MergedReview ==
  ASSUME NEW fs \in SUBSET Finding, Known(fs),
         NEW incoming \in SUBSET Finding, Known(incoming)
  PROVE  /\ Merged(fs, incoming) \subseteq Finding
         /\ Known(Merged(fs, incoming))
         /\ incoming \subseteq Merged(fs, incoming)
         /\ \A f \in fs : f.id \notin Ids(incoming) => f \in Merged(fs, incoming)
<1>1. incoming \subseteq Finding /\ Known(incoming)
  OBVIOUS
<1>2. Merged(fs, incoming) = {f \in fs : f.id \notin Ids(incoming)} \cup incoming
  BY DEF Merged
<1>3. \A f \in fs : \A g \in incoming : f.id \notin Ids(incoming) => f.id # g.id
  BY DEF Ids
<1>4. \A f \in Merged(fs, incoming) : \A g \in Merged(fs, incoming) \cup Own : f.id = g.id => f = g
  BY <1>1, <1>2, <1>3 DEF Known
<1> QED
  BY <1>1, <1>2, <1>4 DEF Known

-----------------------------------------------------------------------------
(* The rounds.                                                             *)

LEMMA InitRounds == Init => IInv
<1> SUFFICES ASSUME Init PROVE IInv
  OBVIOUS
<1>1. record \in Record
  BY DEF Init, NoRecord, Record
<1>2. history = {}
  BY DEF Init
<1>3. NoPlan \in Plans \cup {NoPlan} /\ {0} \subseteq 0 .. MaxRounds
      /\ 0 \in 0 .. MaxAttempt /\ 0 \in 0 .. MaxCrash
  OBVIOUS
<1>4. Shapes
  BY <1>1, <1>2, <1>3 DEF Init, Shapes
<1> QED
  BY <1>4 DEF Init, IInv, Known, Rounds, Quiet, OwedIsOpen, FrozenIsGraded, Freezing

\* The end of a review, whatever it found.
LEMMA RoundStep ==
  ASSUME IInv, pc = "review",
         NEW raised \in SUBSET Finding, NEW kept \in SUBSET raised,
         NEW open \in SUBSET Finding, Known(open), kept \subseteq open,
         \A f \in findings : f.id \notin Ids(raised) => f \in open,
         RoundEnds(raised, kept, open)
  PROVE  IInv'
<1> DEFINE frozen == IF plan \in Refused THEN {Shape("freeze")} ELSE {}
           fs == open \cup frozen \cup dropped
<1>1. Shapes /\ OwedIsOpen
  BY DEF IInv
<1>2. frozen \subseteq Own /\ dropped \subseteq Own
  BY <1>1 DEF Own, Shapes
<1>3. Known(open \cup frozen)
  BY <1>2, KnownWithOwn
<1>4. Known(fs)
  BY <1>2, <1>3, KnownWithOwn
<1>5. Merged(open \cup frozen, dropped) = fs
  BY <1>2, <1>3, MergedOwn
<1>6. fs \in SUBSET Finding
  BY <1>2, OwnTold
<1>7. plan \in Refused => Critical(fs) # {}
  <2>1. Shape("freeze").critical
    BY DEF Shape
  <2>2. plan \in Refused => Shape("freeze") \in fs
    OBVIOUS
  <2> QED
    BY <2>1, <2>2 DEF Critical
<1>8. /\ findings' = fs /\ graded' = plan
      /\ owed' = Owed(raised, kept \cup dropped)
      /\ pc' = Decision(fs, TRUE, round)
      /\ history' = IF Critical(fs) = {} THEN history ELSE {Cardinality(Critical(fs))}
      /\ UNCHANGED <<mode, plan, dropped, round, carried, first, adopt, current, disk, bounds,
                   paid>>
  BY <1>5, Zenon DEF RoundEnds
<1>9. Critical(fs) \in SUBSET Finding
  BY <1>6 DEF Critical
<1>10. Cardinality(Critical(fs)) \in Nat
  BY <1>9, FindingsAreCounted, FS_CardinalityType
<1>11. /\ pc' \in {"assemble", "contest", "revise"}
       /\ pc' = "assemble" => Critical(fs) = {}
       /\ pc' = "revise" => round < MaxRounds
  BY <1>1, <1>6, <1>8, DecisionEnds DEF Shapes
<1>12. open \subseteq fs /\ dropped \subseteq fs /\ kept \subseteq fs /\ dropped \subseteq Finding
  BY <1>1, OwnTold DEF Own, Shapes
<1> HIDE DEF fs, frozen
<1>13. Shapes'
  <2>1. history' = {} \/ \E c \in history' : history' = {c} /\ c \in Nat
    <3>1. CASE Critical(fs) = {}
      BY <1>1, <1>8, <3>1 DEF Shapes
    <3>2. CASE Critical(fs) # {}
      BY <1>8, <1>10, <3>2
    <3> QED
      BY <3>1, <3>2
  <2>2. findings' \subseteq Finding /\ graded' \in Plans \cup {NoPlan}
        /\ pc' \in {"assemble", "contest", "revise"}
    BY <1>1, <1>6, <1>8, <1>11 DEF Shapes
  <2>3. UNCHANGED <<mode, plan, first, draftRec, contract, dropped, round, carried, adopt, current,
                    progress, record, attempts, crashes>>
    BY <1>8 DEF disk, bounds
  <2> QED
    BY <1>1, <2>1, <2>2, <2>3 DEF Shapes, Drops
<1>14. Known(findings)'
  <2>1. Known(findings')
    BY <1>4, <1>8
  <2> QED
    BY <2>1 DEF Known, Own, Drops
<1>15. Rounds' /\ Quiet'
  BY <1>8, <1>11 DEF Rounds, Quiet
<1>16. OwedIsOpen'
  <2>1. ASSUME NEW o \in owed'
        PROVE  /\ o \in Debt
               /\ Lost(o) \/ \E f \in fs : f.critical /\ f.id = o.id /\ f.at = o.at
    <3>1. \/ \E q \in owed : o = [q EXCEPT !.id = IF @ \in Ids(raised) THEN Taken ELSE @]
          \/ \E g \in Critical(raised) \cup dropped :
               o = [id |-> IF g \in kept \cup dropped THEN g.id ELSE Taken, at |-> Names(g)]
      BY <1>8, Zenon DEF Owed
    <3>2. CASE \E q \in owed : o = [q EXCEPT !.id = IF @ \in Ids(raised) THEN Taken ELSE @]
      <4>1. PICK q \in owed : o = [q EXCEPT !.id = IF @ \in Ids(raised) THEN Taken ELSE @]
        BY <3>2
      <4>2. q \in Debt
        BY <1>1 DEF OwedIsOpen
      <4>3. o.id = (IF q.id \in Ids(raised) THEN Taken ELSE q.id) /\ o.at = q.at
        BY <4>1, <4>2 DEF Debt
      <4>4. o \in Debt
        BY <4>1, <4>2 DEF Debt
      <4>5. CASE Lost(q) \/ q.id \in Ids(raised)
        BY <4>3, <4>4, <4>5 DEF Lost
      <4>6. CASE ~Lost(q) /\ q.id \notin Ids(raised)
        <5>1. PICK f \in findings : f.critical /\ f.id = q.id /\ f.at = q.at
          BY <1>1, <4>6 DEF OwedIsOpen
        <5>2. f \in fs
          BY <1>12, <4>6, <5>1
        <5> QED
          BY <4>3, <4>4, <4>6, <5>1, <5>2
      <4> QED
        BY <4>5, <4>6
    <3>3. CASE \E g \in Critical(raised) \cup dropped :
                 o = [id |-> IF g \in kept \cup dropped THEN g.id ELSE Taken, at |-> Names(g)]
      <4>1. PICK g \in Critical(raised) \cup dropped :
                   o = [id |-> IF g \in kept \cup dropped THEN g.id ELSE Taken, at |-> Names(g)]
        BY <3>3
      <4>2. g \in Finding /\ g.critical
        BY <1>1, <1>12 DEF Critical, Shapes, Drops, AtNode
      <4>3. Names(g) \in Node \cup {"plan"} /\ (Names(g) # "plan" => Names(g) = g.at)
        BY DEF Names
      <4>4. o \in Debt
        BY <4>1, <4>2, <4>3 DEF Debt, Finding
      <4>5. CASE g \in kept \cup dropped
        BY <1>12, <4>1, <4>2, <4>3, <4>4, <4>5 DEF Lost
      <4>6. CASE g \notin kept \cup dropped
        BY <4>1, <4>4, <4>6 DEF Lost
      <4> QED
        BY <4>5, <4>6
    <3> QED
      BY <3>1, <3>2, <3>3
  <2> QED
    BY <1>8, <2>1 DEF OwedIsOpen
<1>17. FrozenIsGraded'
  BY <1>7, <1>8, <1>11 DEF FrozenIsGraded, Freezing, Critical
<1> QED
  BY <1>13, <1>14, <1>15, <1>16, <1>17 DEF IInv

\* A revised plan: a round more, what was about its unchanged nodes still open.
LEMMA AcceptStep ==
  ASSUME IInv, pc \in {"revise", "retry"},
         NEW p \in Plans \cup {NoPlan}, Accept(p), UNCHANGED unrevised
  PROVE  IInv'
<1>1. Shapes /\ OwedIsOpen /\ Rounds /\ Known(findings)
  BY DEF IInv
<1>2. findings' \subseteq findings
  BY DEF Accept, Unresolved
<1>3. dropped' \subseteq Drops
  BY DEF Accept, DroppedWrites, Drops
<1>4. carried' \in BOOLEAN
  BY Zenon DEF Accept
<1>5. Shapes'
  BY <1>1, <1>2, <1>3, <1>4 DEF Accept, unrevised, Shapes, Rounds, disk, bounds
<1>6. Known(findings)'
  BY <1>1, <1>2 DEF Known, Own, Drops
<1>7. Rounds' /\ Quiet' /\ FrozenIsGraded'
  BY DEF Accept, Rounds, Quiet, FrozenIsGraded, Freezing
<1>8. OwedIsOpen'
  <2>1. owed' \subseteq owed
    BY DEF Accept
  <2>2. ASSUME NEW o \in owed', ~Lost(o)
        PROVE  \E f \in findings' : f.critical /\ f.id = o.id /\ f.at = o.at
    <3>1. o \in owed /\ o.at \in Node /\ p[o.at] # "gone" /\ p[o.at] = plan[o.at]
      BY <1>1, <2>1, <2>2 DEF Accept, Answered, OwedIsOpen, Lost, Debt
    <3>2. PICK f \in findings : f.critical /\ f.id = o.id /\ f.at = o.at
      BY <1>1, <2>2, <3>1 DEF OwedIsOpen
    <3>3. f \in findings'
      BY <3>1, <3>2 DEF Accept, Unresolved
    <3> QED
      BY <3>2, <3>3
  <2> QED
    BY <1>1, <2>1, <2>2 DEF OwedIsOpen
<1> QED
  BY <1>5, <1>6, <1>7, <1>8 DEF IInv

\* What empties the pipeline's own variables leaves nothing to keep.
LEMMA DoneStep ==
  ASSUME IInv, Done, pc' \in {"idle", "end"},
         mode' = mode, draftRec' \in Plans \cup {NoPlan}, contract' = contract,
         record' \in Record, progress' \in {"none", "live", "dead"},
         attempts' = attempts, crashes' \in 0 .. MaxCrash
  PROVE  IInv'
<1>1. history' = {}
  BY DEF Done
<1>2. NoPlan \in Plans \cup {NoPlan} /\ 0 \in 0 .. MaxRounds
  OBVIOUS
<1>3. Shapes'
  BY <1>1, <1>2 DEF IInv, Shapes, Done
<1> QED
  BY <1>3 DEF IInv, Done, Known, Rounds, Quiet, OwedIsOpen, FrozenIsGraded, Freezing

\* Steps that leave the round as it stands.
LEMMA SameRound ==
  ASSUME IInv, UNCHANGED <<findings, owed>>,
         Shapes', Rounds', Quiet', FrozenIsGraded'
  PROVE  IInv'
  BY DEF IInv, Known, Own, Drops, OwedIsOpen

LEMMA NextRounds == IInv /\ [Next]_vars => IInv'
<1> SUFFICES ASSUME IInv, [Next]_vars PROVE IInv'
  OBVIOUS
<1> USE DEF IInv
<1>1. CASE UNCHANGED vars
  <2>1. Shapes' /\ Rounds' /\ Quiet' /\ FrozenIsGraded'
    BY <1>1 DEF vars, held, disk, bounds, seen, Shapes, Rounds, Quiet, FrozenIsGraded,
                Freezing, Drops, Critical
  <2> QED
    BY <1>1, <2>1, SameRound DEF vars, held, seen
<1>2. CASE Start \/ StartRefused
  <2>0. adopt' \in BOOLEAN /\ current' \in BOOLEAN
    <3>1. adopt' \in BOOLEAN
      BY <1>2, Zenon DEF Start, StartRefused, Abandoned, held, Shapes
    <3>2. current' \in BOOLEAN
      <4>1. CASE Start
        <5>1. current' \in IF draftRec = NoPlan THEN {TRUE} ELSE BOOLEAN
          BY <4>1, Zenon DEF Start
        <5>2. CASE draftRec = NoPlan
          BY <5>1, <5>2, Zenon
        <5>3. CASE draftRec # NoPlan
          BY <5>1, <5>3, Zenon
        <5> QED
          BY <5>2, <5>3
      <4>2. CASE StartRefused
        BY <4>2, Zenon DEF StartRefused, held, Shapes
      <4> QED
        BY <1>2, <4>1, <4>2
    <3> QED
      BY <3>1, <3>2
  <2>3. attempts' \in 0 .. MaxAttempt
    <3>1. attempts \in 0 .. MaxAttempt
      BY DEF Shapes
    <3>2. attempts < MaxAttempt /\ attempts' = attempts + 1
      BY <1>2, Zenon DEF Start, StartRefused
    <3>3. MaxAttempt \in Nat
      OBVIOUS
    <3> QED
      BY <3>1, <3>2, <3>3
  <2>1. Shapes'
    <3>1. /\ pc' \in {"idle", "draft"} /\ mode' \in {"plan", mode}
          /\ progress' \in {"none", "live"} /\ plan' = plan /\ findings' = findings
          /\ dropped' = dropped /\ round' = round /\ history' = history /\ carried' = carried
          /\ first' = first /\ draftRec' = draftRec /\ contract' = contract
          /\ graded' = graded /\ record' = record /\ crashes' = crashes
      BY <1>2, Zenon DEF Start, StartRefused, held
    <3> QED
      BY <2>0, <2>3, <3>1 DEF Shapes, Drops
  <2>2. Rounds' /\ Quiet' /\ FrozenIsGraded'
    BY <1>2 DEF Start, StartRefused, held, Rounds, Quiet, FrozenIsGraded, Freezing
  <2> QED
    BY <1>2, <2>1, <2>2, SameRound DEF Start, StartRefused, held, seen
<1>3. CASE Resolve
  <2>1. Shapes' /\ Rounds' /\ Quiet' /\ FrozenIsGraded'
    BY <1>3 DEF Resolve, disk, seen, Shapes, Rounds, Quiet, FrozenIsGraded, Freezing, Drops, Record
  <2> QED
    BY <1>3, <2>1, SameRound DEF Resolve, seen
<1>4. CASE Crash
  <2>1. progress' \in {"none", "live", "dead"} /\ crashes' \in 0 .. MaxCrash /\ record' \in Record
        /\ draftRec' \in Plans \cup {NoPlan}
    BY <1>4 DEF Crash, Shapes
  <2> QED
    BY <1>4, <2>1, DoneStep DEF Crash
<1>5. CASE AdoptDraft
  <2>1. Shapes' /\ Rounds' /\ Quiet' /\ FrozenIsGraded'
    BY <1>5 DEF AdoptDraft, Resumable, disk, bounds, seen, Shapes, Rounds, Quiet, FrozenIsGraded,
                Freezing, Drops
  <2> QED
    BY <1>5, <2>1, SameRound DEF AdoptDraft, seen
<1>6. CASE DraftValid
  <2>1. Shapes' /\ Rounds' /\ Quiet' /\ FrozenIsGraded'
    BY <1>6 DEF DraftValid, bounds, Shapes, Rounds, Quiet, FrozenIsGraded, Freezing, Drops
  <2> QED
    BY <1>6, <2>1, SameRound DEF DraftValid
<1>7. CASE DraftInvalid
  <2>1. Shape("draft") \in Own
    BY DEF Own
  <2>2. {Shape("draft")} \in SUBSET Finding /\ Known({Shape("draft")})
    BY <2>1, OwnTold DEF Known
  <2>3. 1 \in 0 .. MaxRounds
    OBVIOUS
  <2>4. Critical({Shape("draft")}) # {}
    <3>1. Shape("draft").critical
      BY DEF Shape
    <3> QED
      BY <3>1 DEF Critical
  <2>5. /\ findings' = {Shape("draft")} /\ round' = 1
        /\ pc' = Decision({Shape("draft")}, FALSE, 1)
        /\ UNCHANGED <<mode, plan, dropped, history, carried, first, disk, bounds, seen>>
        /\ adopt' = FALSE /\ current' = TRUE
    BY <1>7 DEF DraftInvalid
  <2>6. /\ pc' \in {"contest", "revise"}
        /\ pc' = "revise" => round' < MaxRounds
    <3> DEFINE d == Decision({Shape("draft")}, FALSE, 1)
    <3>1. /\ d \in {"assemble", "contest", "revise"}
          /\ d = "assemble" => Critical({Shape("draft")}) = {}
          /\ d = "revise" => 1 < MaxRounds
      BY <2>2, <2>3, DecisionEnds, Zenon
    <3> HIDE DEF d
    <3> QED
      BY <2>4, <2>5, <3>1 DEF d
  <2>7. owed' = {}
    BY <1>7 DEF DraftInvalid, Quiet, seen
  <2>8. Shapes'
    <3>1. findings' \subseteq Finding /\ round' \in 0 .. MaxRounds
      BY <2>2, <2>3, <2>5
    <3>2. /\ mode' = mode /\ plan' = plan /\ dropped' = dropped /\ history' = history
          /\ carried' = carried /\ first' = first /\ adopt' = FALSE /\ current' = TRUE /\ draftRec' = draftRec
          /\ contract' = contract /\ graded' = graded /\ progress' = progress
          /\ record' = record /\ attempts' = attempts /\ crashes' = crashes
      BY <2>5 DEF disk, bounds, seen
    <3>3. pc' \in {"idle", "draft", "check", "review", "revise", "retry", "assemble",
                   "written", "bare", "contest", "end"}
      BY <2>6
    <3>4. Shapes
      BY DEF IInv
    <3> QED
      BY <3>1, <3>2, <3>3, <3>4, ZenonT(30) DEF Shapes
  <2>9. Known(findings)'
    BY <2>2, <2>5 DEF Known, Own, Drops
  <2>10. Rounds' /\ Quiet' /\ OwedIsOpen' /\ FrozenIsGraded'
    BY <2>6, <2>7 DEF Rounds, Quiet, OwedIsOpen, FrozenIsGraded, Freezing
  <2> QED
    BY <2>8, <2>9, <2>10
<1>8. CASE Check
  <2>1. PICK bad \in SUBSET {n \in Node : plan[n] # "gone"} :
          /\ findings' = {AtNode("proof", n) : n \in bad}
          /\ owed' = {[id |-> <<"proof", n>>, at |-> n] : n \in bad}
    BY <1>8, Zenon DEF Check
  <2>2. bad \subseteq Node
    OBVIOUS
  <2>3. \A f \in findings' : \E n \in bad : f = AtNode("proof", n)
    BY <2>1, Zenon
  <2>4. findings' \subseteq Finding
    <3>1. ASSUME NEW f \in findings' PROVE f \in Finding
      <4>1. PICK n \in bad : f = [id |-> <<"proof", n>>, critical |-> TRUE, at |-> n]
        BY <2>3 DEF AtNode
      <4>2. n \in Node
        OBVIOUS
      <4> QED
        BY <4>1, <4>2 DEF Finding, FindingId
    <3> QED
      BY <3>1
  <2>5. Known(findings')
    <3>1. \A f \in findings' : \E n \in bad :
            f = [id |-> <<"proof", n>>, critical |-> TRUE, at |-> n]
      BY <2>3 DEF AtNode
    <3>2. ASSUME NEW f \in findings', NEW g \in findings', f.id = g.id
          PROVE  f = g
      <4>1. PICK n \in bad : f = [id |-> <<"proof", n>>, critical |-> TRUE, at |-> n]
        BY <3>1
      <4>2. PICK m \in bad : g = [id |-> <<"proof", m>>, critical |-> TRUE, at |-> m]
        BY <3>1
      <4>3. n = m
        BY <3>2, <4>1, <4>2
      <4> QED
        BY <4>1, <4>2, <4>3
    <3>3. \A f \in findings' : \A g \in Own : f.id # g.id
      BY <3>1 DEF Own, Drops, Shape, AtNode
    <3> QED
      BY <3>2, <3>3 DEF Known
  <2>6. Known(findings)'
    BY <2>5 DEF Known, Own, Drops
  <2>7. Shapes'
    BY <1>8, <2>4 DEF Check, Shapes, disk, bounds, Drops
  <2>8. OwedIsOpen'
    <3>1. ASSUME NEW o \in owed'
          PROVE  /\ o \in Debt
                 /\ \E f \in findings' : f.critical /\ f.id = o.id /\ f.at = o.at
      <4>1. PICK n \in bad : o = [id |-> <<"proof", n>>, at |-> n]
        BY <2>1, Zenon
      <4>2. AtNode("proof", n) \in findings'
        BY <2>1, Zenon
      <4> QED
        BY <2>2, <4>1, <4>2 DEF AtNode, FindingId, Debt
    <3> QED
      BY <3>1 DEF OwedIsOpen
  <2>9. Rounds' /\ Quiet' /\ FrozenIsGraded'
    BY <1>8 DEF Check, Rounds, Quiet, FrozenIsGraded, Freezing
  <2> QED
    BY <2>6, <2>7, <2>8, <2>9
<1>9. CASE StageThrows
  <2>1. progress' \in {"none", "live", "dead"} /\ record' \in Record /\ crashes' \in 0 .. MaxCrash
        /\ draftRec' \in Plans \cup {NoPlan}
    BY <1>9 DEF StageThrows, Return, bounds, Shapes
  <2> QED
    BY <1>9, <2>1, DoneStep DEF StageThrows, Return, bounds
<1>10. CASE Review
  <2>1. PICK r \in Reviews : RoundEnds(r.raised, r.kept, Merged(findings, r.kept))
    BY <1>10 DEF Review
  <2>2. /\ r.raised \in SUBSET Finding /\ r.kept \in SUBSET r.raised
        /\ Ids(r.kept) = Ids(r.raised) /\ Known(r.kept)
    BY ReviewsTold
  <2>3. findings \in SUBSET Finding /\ r.kept \in SUBSET Finding /\ Known(findings)
    BY <2>2 DEF Shapes
  <2>4. /\ Merged(findings, r.kept) \in SUBSET Finding
        /\ Known(Merged(findings, r.kept))
        /\ r.kept \subseteq Merged(findings, r.kept)
        /\ \A f \in findings : f.id \notin Ids(r.raised) => f \in Merged(findings, r.kept)
    BY <2>2, <2>3, MergedReview, Zenon
  <2>5. pc = "review"
    BY <1>10 DEF Review
  <2> QED
    BY <2>1, <2>2, <2>4, <2>5, RoundStep, Zenon
<1>11. CASE ReviewMalformed
  <2>1. Shape("review") \in Own
    BY DEF Own
  <2>2. Known(findings \cup {Shape("review")})
    BY <2>1, KnownWithOwn
  <2>3. findings \cup {Shape("review")} \in SUBSET Finding
    BY <2>1, OwnTold DEF Shapes
  <2> QED
    BY <1>11, <2>2, <2>3, RoundStep DEF ReviewMalformed
<1>12. CASE Revise
  <2>1. CASE \E p \in Plans \ Refused : Accept(p)
    BY <1>12, <2>1, AcceptStep DEF Revise
  <2>2. CASE /\ first' \in Refused \cup {NoPlan} /\ pc' = "retry"
             /\ UNCHANGED <<plan, findings, dropped, round, carried, graded, owed>>
    <3>1. Shapes' /\ Rounds' /\ Quiet' /\ FrozenIsGraded'
      BY <1>12, <2>2 DEF Revise, unrevised, disk, bounds, Shapes, Rounds, Quiet, FrozenIsGraded,
                         Freezing, Drops
    <3> QED
      BY <2>2, <3>1, SameRound
  <2> QED
    BY <1>12, <2>1, <2>2 DEF Revise
<1>13. CASE ReviseOverBudget
  <2>1. Shapes' /\ Rounds' /\ Quiet' /\ FrozenIsGraded'
    BY <1>13 DEF ReviseOverBudget, held, disk, bounds, seen, Shapes, Rounds, Quiet, FrozenIsGraded,
                 Freezing, Drops
  <2> QED
    BY <1>13, <2>1, SameRound DEF ReviseOverBudget, held, seen
<1>14. CASE Retry
  <2>1. CASE \E p \in Plans : Accept(p)
    BY <1>14, <2>1, AcceptStep DEF Retry
  <2>2. CASE first # NoPlan /\ Accept(first)
    BY <1>14, <2>2, AcceptStep DEF Retry, Shapes
  <2>3. CASE /\ first = NoPlan /\ pc' = "contest"
             /\ UNCHANGED <<plan, findings, dropped, round, carried, first, graded, owed>>
    <3>1. Shapes' /\ Rounds' /\ Quiet' /\ FrozenIsGraded'
      BY <1>14, <2>3 DEF Retry, unrevised, disk, bounds, Shapes, Rounds, Quiet, FrozenIsGraded,
                         Freezing, Drops
    <3> QED
      BY <2>3, <3>1, SameRound
  <2> QED
    BY <1>14, <2>1, <2>2, <2>3 DEF Retry
<1>15. CASE WriteContract \/ FreezeThrows \/ WriteBare
  <2>1. Shapes'
    BY <1>15 DEF WriteContract, FreezeThrows, WriteBare, unmoved, held, bounds, seen, Shapes, Drops,
                 Record
  <2>2. Rounds' /\ Quiet' /\ FrozenIsGraded'
    BY <1>15 DEF WriteContract, FreezeThrows, WriteBare, unmoved, held, bounds, seen, Shapes, Rounds,
                 Quiet, FrozenIsGraded, Freezing, Critical
  <2> QED
    BY <1>15, <2>1, <2>2, SameRound DEF WriteContract, FreezeThrows, WriteBare, unmoved, held, seen
<1>16. CASE WriteFrozen \/ Contest
  <2>1. record' \in Record
    <3>1. /\ record' = [status |-> "frozen", plan |-> plan]
             \/ record' = [status |-> "contested", plan |-> plan]
      BY <1>16, Zenon DEF WriteFrozen, Contest
    <3> QED
      BY <3>1 DEF Shapes, Record
  <2>2. progress' \in {"none", "live", "dead"} /\ crashes' \in 0 .. MaxCrash
        /\ draftRec' \in Plans \cup {NoPlan}
    BY <1>16 DEF WriteFrozen, Contest, bounds, Shapes
  <2> QED
    BY <1>16, <2>1, <2>2, DoneStep DEF WriteFrozen, Contest, bounds
<1>17. CASE End
  <2>1. progress' \in {"none", "live", "dead"} /\ record' \in Record /\ crashes' \in 0 .. MaxCrash
        /\ draftRec' \in Plans \cup {NoPlan}
    BY <1>17 DEF End, Return, bounds, Shapes
  <2> QED
    BY <1>17, <2>1, DoneStep DEF End, Return, bounds
<1> QED
  BY <1>1, <1>2, <1>3, <1>4, <1>5, <1>6, <1>7, <1>8, <1>9, <1>10, <1>11, <1>12, <1>13, <1>14,
     <1>15, <1>16, <1>17 DEF Next, Work, Stage

LEMMA RoundsInvariant == Spec => []IInv
  BY InitRounds, NextRounds, PTL DEF Spec

\* A plan that freezes out of the rounds is the one its last review read, passes
\* the freeze's own checks and has no critical open against it, for every set of
\* nodes and ids and every --review-rounds (rounds.mjs: runReviewRounds).
THEOREM FrozenAsGraded == Spec => []FrozenIsGraded
<1>1. IInv => FrozenIsGraded
  BY DEF IInv
<1> QED
  BY <1>1, RoundsInvariant, PTL

\* At a freeze, a critical that was neither answered by a change of its node nor
\* judged again there is one of the two kinds the code loses: another finding
\* took its id, or it named no node of the plan. A reviewer's silence loses none
\* (rounds.mjs: mergeFindings, unresolvedFindings).
THEOREM SilenceForgetsNothing == Spec => []NothingForgotten
<1>1. IInv => NothingForgotten
  BY DEF IInv, NothingForgotten, FrozenIsGraded, OwedIsOpen, Critical, Lost
<1> QED
  BY <1>1, RoundsInvariant, PTL

-----------------------------------------------------------------------------
(* The draft.                                                              *)

LEMMA DraftInvariant == Spec => []Draft
<1>1. Init => Draft
  BY DEF Init, Draft
<1>2. Draft /\ Shapes /\ [Next]_vars => Draft'
  <2> SUFFICES ASSUME Draft, Shapes, [Next]_vars PROVE Draft'
    OBVIOUS
  <2> USE DEF Draft
  <2>1. CASE UNCHANGED vars
    BY <2>1 DEF vars, held, disk, bounds, seen
  <2>2. CASE Start
    <3>1. /\ paid' = (IF current' THEN paid ELSE 0) /\ (adopt' <=> progress = "dead")
          /\ pc' = "draft" /\ mode' = "plan" /\ progress' = "live" /\ pc = "idle"
          /\ draftRec' = draftRec /\ record' = record
      BY <2>2, Zenon DEF Start, Abandoned
    <3>2. CASE current'
      BY <3>1, <3>2
    <3>3. CASE ~current'
      BY <3>1, <3>3
    <3> QED
      BY <3>2, <3>3
  <2>3. CASE StartRefused
    BY <2>3 DEF StartRefused, held
  <2>4. CASE Resolve
    BY <2>4 DEF Resolve, disk, seen
  <2>5. CASE Crash
    BY <2>5 DEF Crash, Done, Shapes
  <2>6. CASE AdoptDraft
    BY <2>6 DEF AdoptDraft, disk, bounds, seen
  <2>7. CASE DraftValid
    <3>1. paid = 0
      BY <2>7 DEF DraftValid, Resumable
    <3>2. NoPlan \notin Plans
      BY DEF NoPlan, Plans
    <3> QED
      BY <2>7, <3>1, <3>2 DEF DraftValid, bounds
  <2>8. CASE DraftInvalid
    <3>1. pc' \in {"assemble", "contest", "revise"}
      BY <2>8 DEF DraftInvalid, Decision
    <3> QED
      BY <2>8, <3>1 DEF DraftInvalid, disk, bounds, seen
  <2>9. CASE Check
    BY <2>9 DEF Check, disk, bounds
  <2>10. CASE StageThrows
    BY <2>10 DEF StageThrows, Return, Resumable, Shapes, bounds
  <2>11. CASE Review \/ ReviewMalformed
    <3>1. PICK raised, kept, open : pc = "review" /\ RoundEnds(raised, kept, open)
      BY <2>11, Zenon DEF Review, ReviewMalformed
    <3>2. pc' \in {"assemble", "contest", "revise"}
      BY <3>1, Zenon DEF RoundEnds, Decision
    <3> QED
      BY <3>1, <3>2 DEF RoundEnds, disk, bounds
  <2>12. CASE Revise \/ Retry
    <3>1. pc \in {"revise", "retry"} /\ pc' \in {"review", "retry", "contest"}
          /\ UNCHANGED unrevised
      BY <2>12, Zenon DEF Revise, Retry, Accept
    <3> QED
      BY <3>1 DEF unrevised, disk, bounds
  <2>13. CASE ReviseOverBudget
    BY <2>13 DEF ReviseOverBudget, held, disk, bounds, seen
  <2>14. CASE WriteContract \/ FreezeThrows \/ WriteBare
    BY <2>14 DEF WriteContract, FreezeThrows, WriteBare, unmoved, held, bounds, seen
  <2>15. CASE WriteFrozen \/ Contest
    BY <2>15 DEF WriteFrozen, Contest, bounds
  <2>16. CASE End
    BY <2>16 DEF End, Return, Shapes, bounds
  <2> QED
    BY <2>1, <2>2, <2>3, <2>4, <2>5, <2>6, <2>7, <2>8, <2>9, <2>10, <2>11, <2>12, <2>13, <2>14,
       <2>15, <2>16 DEF Next, Work, Stage
<1>3. IInv => Shapes
  BY DEF IInv
<1> QED
  BY <1>1, <1>2, <1>3, RoundsInvariant, PTL DEF Spec

\* However many attempts die one after another, they pay for one validated draft
\* between them, while the spec and the validation of its draft.json stay as they
\* were; an attempt that returns, throws or is refused ends the row
\* (progress.mjs: abandonedPlanProgress, resumablePlanDraft).
THEOREM DraftIsPaidOnce == Spec => []DraftPaidOnce
<1>1. Draft => DraftPaidOnce
  BY DEF Draft, DraftPaidOnce
<1> QED
  BY <1>1, DraftInvariant, PTL

\* The files and the findings keep their shapes, no two open findings share an
\* id, and no round is entered past --review-rounds.
THEOREM TypeCorrect == Spec => []TypeOK
<1>1. IInv /\ Draft => TypeOK
  <2> SUFFICES ASSUME IInv, Draft PROVE TypeOK
    OBVIOUS
  <2>1. Cardinality(Ids(findings)) = Cardinality(findings)
    <3> DEFINE g == [f \in findings |-> f.id]
    <3>1. g \in Surjection(findings, Ids(findings))
      BY DEF Surjection, Ids
    <3>2. g \in Injection(findings, Ids(findings))
      <4>1. \A x, y \in findings : x.id = y.id => x = y
        BY DEF IInv, Known
      <4>2. g \in [findings -> Ids(findings)]
        BY <3>1 DEF Surjection
      <4>3. \A x \in findings : g[x] = x.id
        OBVIOUS
      <4> HIDE DEF g
      <4>4. \A x, y \in findings : g[x] = g[y] => x = y
        BY <4>1, <4>3
      <4> QED
        BY <4>2, <4>4, Zenon DEF Injection, IsInjective
    <3>3. IsFiniteSet(findings)
      BY FindingsAreCounted DEF IInv, Shapes
    <3> HIDE DEF g
    <3> QED
      BY <3>1, <3>2, <3>3, FS_Surjection
  <2>2. history \subseteq Nat /\ Cardinality(history) <= 1
    <3>1. CASE history = {}
      BY <3>1, FS_EmptySet
    <3>2. CASE \E c \in history : history = {c} /\ c \in Nat
      <4>1. PICK c \in Nat : history = {c}
        BY <3>2
      <4>2. Cardinality({c}) = 1
        BY FS_Singleton
      <4> QED
        BY <4>1, <4>2
    <3> QED
      BY <3>1, <3>2 DEF IInv, Shapes
  <2>3. dropped \subseteq Finding
    BY OwnTold DEF IInv, Shapes, Own
  <2> QED
    BY <2>1, <2>2, <2>3 DEF TypeOK, IInv, Shapes, OwedIsOpen, Draft, Debt
<1> QED
  BY <1>1, RoundsInvariant, DraftInvariant, PTL
=============================================================================
