--------------------------- MODULE CampaignProofs ---------------------------
(***************************************************************************)
(* What Campaign guarantees for every manifest, any number of coordinators *)
(* that overlap and die, and any operator.                                 *)
(*                                                                         *)
(* Nothing here is under a mutex, so the invariant speaks of copies: what  *)
(* each process holds of campaign.json, the entry in its hand and the      *)
(* entries it saw through are about what the branch holds or has held.     *)
(* That set only grows - a creation that rewinds the branch moves a run    *)
(* from one part of it to the other -, and that alone makes every stale    *)
(* write harmless to these properties.                                     *)
(***************************************************************************)
EXTENDS Campaign, SequenceTheorems, TLAPS

\* Where a coordinator has an entry in hand.
Holding == {"check", "act", "create", "update", "land", "record", "resume", "drive", "park", "write"}

\* What the branch holds, or held until it was created once more.
Held == ToSet(branch) \cup rewound

\* What a coordinator knows is about the branch as it was, and so about Held.
Own(k) ==
  /\ pc[k] \in Holding => entry[k] \in Contract
  /\ pc[k] \in {"check", "act"} =>
       index[k] < Len(copy[k].contracts) /\ entry[k] = copy[k].contracts[index[k] + 1]
  /\ pc[k] \in {"check", "act"} /\ k \notin based => ToSet(passed[k]) = {}
  /\ pc[k] \in {"create", "update"} =>
       ToSet(move[k].from) \subseteq ToSet(move[k].to) /\ entry[k] \in ToSet(move[k].to)
  /\ pc[k] = "update" => created
  /\ pc[k] \in {"land", "record"} => entry[k] \in Held
  /\ pc[k] = "kill" => seen[k] \in Coord
  /\ copy[k].promotions \subseteq Held
  /\ ToSet(passed[k]) \subseteq Held
  /\ Len(passed[k]) = index[k]

IInv ==
  /\ TypeOK
  /\ campaign.promotions \subseteq Held
  /\ created \/ Held = {}
  /\ \A k \in Coord : Own(k)

USE ManifestAssumption, RecoveryAssumption, CampaignBounds, NobodyAssumption
-----------------------------------------------------------------------------
(* Branches.                                                               *)

LEMMA PrefixHolds ==
  ASSUME NEW s \in Seq(Contract), NEW t \in Seq(Contract), IsPrefix(s, t)
  PROVE  ToSet(s) \subseteq ToSet(t)
<1>1. Len(s) \in Nat /\ Len(t) \in Nat /\ Len(s) <= Len(t)
      /\ SubSeq(s, 1, Len(s)) = SubSeq(t, 1, Len(s))
  BY LenProperties DEF IsPrefix
<1>2. ASSUME NEW i \in 1..Len(s) PROVE i \in 1..Len(t) /\ s[i] = t[i]
  <2>1. SubSeq(s, 1, Len(s))[i] = s[i] /\ SubSeq(t, 1, Len(s))[i] = t[i]
    BY <1>1
  <2> QED
    BY <1>1, <2>1
<1> QED
  BY <1>2 DEF ToSet

LEMMA Extended ==
  ASSUME NEW s \in Seq(Contract), NEW c \in Contract
  PROVE  /\ Append(s, c) \in Seq(Contract) /\ Len(Append(s, c)) = Len(s) + 1
         /\ ToSet(Append(s, c)) = ToSet(s) \cup {c}
<1>1. /\ Append(s, c) \in Seq(Contract) /\ Len(Append(s, c)) = Len(s) + 1
      /\ \A i \in 1..Len(s) : Append(s, c)[i] = s[i]
      /\ Append(s, c)[Len(s) + 1] = c
  BY AppendProperties
<1>2. Len(s) \in Nat
  BY LenProperties
<1> DEFINE t == Append(s, c)
<1>3. DOMAIN s = 1..Len(s) /\ DOMAIN t = 1..(Len(s) + 1)
  BY <1>1, LenProperties
<1> HIDE DEF t
<1>4. ASSUME NEW i \in 1..(Len(s) + 1) PROVE t[i] \in ToSet(s) \cup {c}
  <2>1. i \in 1..Len(s) \/ i = Len(s) + 1
    BY <1>2
  <2> QED
    BY <1>1, <1>3, <2>1 DEF ToSet, t
<1>5. ASSUME NEW x \in ToSet(s) \cup {c} PROVE x \in ToSet(t)
  <2>1. CASE x = c
    <3>1. Len(s) + 1 \in DOMAIN t /\ t[Len(s) + 1] = c
      BY <1>1, <1>2, <1>3 DEF t
    <3> QED
      BY <2>1, <3>1 DEF ToSet
  <2>2. CASE x \in ToSet(s)
    <3>1. PICK i \in 1..Len(s) : x = s[i]
      BY <1>3, <2>2 DEF ToSet
    <3>2. i \in DOMAIN t /\ t[i] = x
      BY <1>1, <1>2, <1>3, <3>1 DEF t
    <3> QED
      BY <3>2 DEF ToSet
  <2> QED
    BY <2>1, <2>2
<1>6. ToSet(t) = ToSet(s) \cup {c}
  BY <1>3, <1>4, <1>5 DEF ToSet
<1> QED
  BY <1>1, <1>6 DEF t
-----------------------------------------------------------------------------
(* What the parts of a step do to one process.                             *)

LEMMA FreshRecord == Fresh \in CampaignRecord /\ Fresh.promotions = {} /\ Fresh.contracts = Manifest
  BY DEF Fresh, CampaignRecord

LEMMA GoesTo ==
  ASSUME TypeOK, NEW k \in Coord, NEW label \in PC, Goes(k, label)
  PROVE  pc' \in [Coord -> PC] /\ pc'[k] = label /\ \A j \in Coord \ {k} : pc'[j] = pc[j]
  BY DEF TypeOK, Goes

LEMMA CopyRead ==
  ASSUME TypeOK, NEW k \in Coord, Reads(k)
  PROVE  /\ copy' \in [Coord -> CampaignRecord] /\ copy'[k] = campaign
         /\ \A j \in Coord \ {k} : copy'[j] = copy[j]
  BY DEF TypeOK, Reads

LEMMA CopyDropped ==
  ASSUME TypeOK, NEW k \in Coord, Drops(k)
  PROVE  /\ copy' \in [Coord -> CampaignRecord] /\ copy'[k].promotions = {}
         /\ based' \subseteq Coord
         /\ \A j \in Coord \ {k} : copy'[j] = copy[j] /\ (j \in based' <=> j \in based)
  BY FreshRecord DEF TypeOK, Drops

LEMMA AllForgotten ==
  ASSUME TypeOK, NEW k \in Coord, Forgets(k)
  PROVE  /\ copy' \in [Coord -> CampaignRecord] /\ entry' \in [Coord -> Contract \cup {Nobody}]
         /\ index' \in [Coord -> Nat] /\ checked' \in [Coord -> BOOLEAN]
         /\ spent' \in [Coord -> [attempts : 0..MaxRecovery, progress : 0..MaxProgress]]
         /\ passed' \in [Coord -> Seq(Contract)] /\ move' \in [Coord -> Move] /\ based' \subseteq Coord
         /\ copy'[k].promotions = {} /\ index'[k] = 0 /\ Len(passed'[k]) = 0 /\ ToSet(passed'[k]) = {}
         /\ \A j \in Coord \ {k} : /\ copy'[j] = copy[j] /\ entry'[j] = entry[j]
                                   /\ index'[j] = index[j] /\ passed'[j] = passed[j]
                                   /\ move'[j] = move[j] /\ (j \in based' <=> j \in based)
<1>1. /\ copy' \in [Coord -> CampaignRecord] /\ copy'[k].promotions = {} /\ based' \subseteq Coord
      /\ \A j \in Coord \ {k} : copy'[j] = copy[j] /\ (j \in based' <=> j \in based)
  BY CopyDropped DEF Forgets
<1>2. /\ entry' \in [Coord -> Contract \cup {Nobody}] /\ index' \in [Coord -> Nat] /\ index'[k] = 0
      /\ \A j \in Coord \ {k} : entry'[j] = entry[j] /\ index'[j] = index[j]
  BY DEF TypeOK, Forgets
<1>3. checked' \in [Coord -> BOOLEAN]
  BY Zenon DEF TypeOK, Forgets
<1>4. spent' \in [Coord -> [attempts : 0..MaxRecovery, progress : 0..MaxProgress]]
  <2>1. Unspent \in [attempts : 0..MaxRecovery, progress : 0..MaxProgress]
    BY DEF Unspent
  <2> QED
    BY <2>1 DEF TypeOK, Forgets
<1>5. /\ passed' \in [Coord -> Seq(Contract)] /\ passed'[k] = <<>>
      /\ \A j \in Coord \ {k} : passed'[j] = passed[j]
  <2>1. <<>> \in Seq(Contract)
    BY EmptySeq
  <2> QED
    BY <2>1 DEF TypeOK, Forgets
<1>6. Len(<<>>) = 0 /\ ToSet(<<>>) = {}
  BY EmptySeq DEF ToSet
<1>7. move' \in [Coord -> Move] /\ \A j \in Coord \ {k} : move'[j] = move[j]
  BY EmptySeq DEF TypeOK, Forgets, Move, NoMove
<1> QED
  BY <1>1, <1>2, <1>3, <1>4, <1>5, <1>6, <1>7

\* An entry that is, or was, on the branch has been seen through.
LEMMA Advanced ==
  ASSUME TypeOK, NEW k \in Coord, Own(k), entry[k] \in Contract, entry[k] \in Held, Advance(k)
  PROVE  /\ index' \in [Coord -> Nat] /\ checked' \in [Coord -> BOOLEAN]
         /\ spent' \in [Coord -> [attempts : 0..MaxRecovery, progress : 0..MaxProgress]]
         /\ passed' \in [Coord -> Seq(Contract)]
         /\ Len(passed'[k]) = index'[k] /\ ToSet(passed'[k]) \subseteq Held
         /\ \A j \in Coord \ {k} : index'[j] = index[j] /\ passed'[j] = passed[j]
<1>1. /\ index' \in [Coord -> Nat] /\ index'[k] = index[k] + 1
      /\ \A j \in Coord \ {k} : index'[j] = index[j]
  BY DEF TypeOK, Advance
<1>2. checked' \in [Coord -> BOOLEAN]
  BY Zenon DEF TypeOK, Advance
<1>3. spent' \in [Coord -> [attempts : 0..MaxRecovery, progress : 0..MaxProgress]]
  <2>1. Unspent \in [attempts : 0..MaxRecovery, progress : 0..MaxProgress]
    BY DEF Unspent
  <2> QED
    BY <2>1 DEF TypeOK, Advance
<1>4. passed[k] \in Seq(Contract)
  BY DEF TypeOK
<1>5. /\ Append(passed[k], entry[k]) \in Seq(Contract)
      /\ Len(Append(passed[k], entry[k])) = Len(passed[k]) + 1
      /\ ToSet(Append(passed[k], entry[k])) = ToSet(passed[k]) \cup {entry[k]}
  BY <1>4, Extended
<1>6. /\ passed' \in [Coord -> Seq(Contract)] /\ passed'[k] = Append(passed[k], entry[k])
      /\ \A j \in Coord \ {k} : passed'[j] = passed[j]
  BY <1>5 DEF TypeOK, Advance
<1> QED
  BY <1>1, <1>2, <1>3, <1>5, <1>6 DEF Own

\* One field of a run's record at a time.
LEMMA RunFields ==
  ASSUME NEW r \in RunRecord
  PROVE  /\ \A x \in Coord \cup {Nobody, "detached"} :
              [r EXCEPT !.ctl = x] \in RunRecord /\ [r EXCEPT !.ctl = x].state = r.state
         /\ \A s \in RunState :
              [r EXCEPT !.state = s] \in RunRecord /\ [r EXCEPT !.state = s].state = s
         /\ [r EXCEPT !.request = FALSE] \in RunRecord /\ [r EXCEPT !.request = FALSE].state = r.state
         /\ [r EXCEPT !.request = TRUE] \in RunRecord /\ [r EXCEPT !.request = TRUE].state = r.state
         /\ \A p \in 0..MaxProgress :
              [r EXCEPT !.progress = p] \in RunRecord /\ [r EXCEPT !.progress = p].state = r.state
<1>1. ASSUME NEW x \in Coord \cup {Nobody, "detached"}
      PROVE  [r EXCEPT !.ctl = x] \in RunRecord /\ [r EXCEPT !.ctl = x].state = r.state
  BY DEF RunRecord
<1>2. ASSUME NEW s \in RunState
      PROVE  [r EXCEPT !.state = s] \in RunRecord /\ [r EXCEPT !.state = s].state = s
  BY DEF RunRecord
<1>3. [r EXCEPT !.request = FALSE] \in RunRecord /\ [r EXCEPT !.request = FALSE].state = r.state
  BY DEF RunRecord
<1>4. [r EXCEPT !.request = TRUE] \in RunRecord /\ [r EXCEPT !.request = TRUE].state = r.state
  BY DEF RunRecord
<1>5. ASSUME NEW p \in 0..MaxProgress
      PROVE  [r EXCEPT !.progress = p] \in RunRecord /\ [r EXCEPT !.progress = p].state = r.state
  BY DEF RunRecord
<1> QED
  BY <1>1, <1>2, <1>3, <1>4, <1>5

LEMMA RunsOrphaned ==
  ASSUME TypeOK, NEW k \in Coord, Orphaned(k)
  PROVE  run' \in [Contract -> RunRecord] /\ \A c \in Contract : run'[c].state = run[c].state
<1>1. ASSUME NEW c \in Contract
      PROVE  run'[c] \in RunRecord /\ run'[c].state = run[c].state
  <2>1. run[c] \in RunRecord
    BY DEF TypeOK
  <2>2. run'[c] = [run[c] EXCEPT !.ctl = Nobody] \/ run'[c] = run[c]
    BY DEF Orphaned
  <2>3. /\ [run[c] EXCEPT !.ctl = Nobody] \in RunRecord
        /\ [run[c] EXCEPT !.ctl = Nobody].state = run[c].state
    BY <2>1, RunFields
  <2> QED
    BY <2>1, <2>2, <2>3, Zenon
<1> QED
  BY <1>1 DEF Orphaned

LEMMA RunResumed ==
  ASSUME TypeOK, NEW c \in Contract, NEW owner \in Coord \cup {Nobody, "detached"}, Resumed(c, owner)
  PROVE  /\ run' \in [Contract -> RunRecord]
         /\ \A d \in Contract : run[d].state = "none" => run'[d].state = "none"
<1>1. run \in [Contract -> RunRecord] /\ run[c] \in RunRecord
  BY DEF TypeOK
<1> DEFINE r1 == [run[c] EXCEPT !.ctl = owner]
           r2 == [r1 EXCEPT !.request = FALSE]
           r3 == [r2 EXCEPT !.state = IF @ = "failed" THEN "unfinished" ELSE @]
<1>2. r1 \in RunRecord /\ r1.state = run[c].state
  BY <1>1, RunFields
<1> HIDE DEF r1
<1>3. r2 \in RunRecord /\ r2.state = run[c].state
  BY <1>2, RunFields
<1> HIDE DEF r2
<1>4. r3 \in RunRecord /\ (run[c].state = "none" => r3.state = "none")
  <2>1. r2.state \in RunState /\ "unfinished" \in RunState
    BY <1>3 DEF RunRecord, RunState
  <2>2. CASE r2.state = "failed"
    <3>1. r3 = [r2 EXCEPT !.state = "unfinished"]
      BY <2>2
    <3> QED
      BY <1>3, <2>1, <2>2, <3>1, RunFields
  <2>3. CASE r2.state # "failed"
    <3>1. r3 = [r2 EXCEPT !.state = r2.state]
      BY <2>3
    <3>2. LET r == [r2 EXCEPT !.state = r2.state] IN r \in RunRecord /\ r.state = r2.state
      BY <1>3, <2>1, RunFields, Zenon
    <3> QED
      BY <1>3, <3>1, <3>2, Zenon
  <2> QED
    BY <2>2, <2>3
<1>5. run' = [run EXCEPT ![c] = r3]
  BY <1>1 DEF Resumed, r1, r2
<1> HIDE DEF r3
<1> QED
  BY <1>1, <1>4, <1>5

LEMMA RunLaunched ==
  ASSUME TypeOK, NEW k \in Coord, entry[k] \in Contract,
         NEW owner \in Coord \cup {Nobody, "detached"}, Launched(k, owner)
  PROVE  /\ run' \in [Contract -> RunRecord]
         /\ run'[entry[k]].cut = IF k \in based THEN branch ELSE <<>>
         /\ \A d \in Contract \ {entry[k]} : run'[d] = run[d]
<1> DEFINE base == IF k \in based THEN branch ELSE <<>>
<1>1. base \in Seq(Contract)
  BY EmptySeq DEF TypeOK
<1>2. run' = [run EXCEPT ![entry[k]] = [state |-> "unfinished", ctl |-> owner, request |-> FALSE,
                                        progress |-> 0, cut |-> base]]
  BY DEF Launched
<1> HIDE DEF base
<1>3. [state |-> "unfinished", ctl |-> owner, request |-> FALSE, progress |-> 0, cut |-> base] \in RunRecord
  BY <1>1 DEF TypeOK, RunRecord, RunState
<1>4. run' \in [Contract -> RunRecord] /\ run'[entry[k]].cut = base
      /\ \A d \in Contract \ {entry[k]} : run'[d] = run[d]
  BY <1>2, <1>3 DEF TypeOK
<1> QED
  BY <1>4 DEF base

\* A step that is none of k's leaves what k knows.
LEMMA OwnKept ==
  ASSUME NEW k, Own(k), Held \subseteq Held', created => created',
         pc'[k] = pc[k], entry'[k] = entry[k], index'[k] = index[k], copy'[k] = copy[k],
         seen'[k] = seen[k], passed'[k] = passed[k], move'[k] = move[k], k \in based' <=> k \in based
  PROVE  Own(k)'
  BY DEF Own

LEMMA AloneKeeps ==
  ASSUME IInv, NEW k \in Coord,
         UNCHANGED <<branch, created, rewound>> \/ (Held \subseteq Held' /\ created'),
         \A j \in Coord \ {k} :
            /\ pc'[j] = pc[j] /\ entry'[j] = entry[j] /\ index'[j] = index[j]
            /\ copy'[j] = copy[j] /\ seen'[j] = seen[j] /\ passed'[j] = passed[j]
            /\ move'[j] = move[j] /\ (j \in based' <=> j \in based),
         TypeOK', campaign'.promotions \subseteq Held, Own(k)'
  PROVE  IInv'
<1>1. Held \subseteq Held' /\ (created => created') /\ (created' \/ Held' = {})
  BY DEF IInv, Held
<1>2. \A j \in Coord \ {k} : Own(j)'
  BY <1>1, OwnKept DEF IInv
<1> QED
  BY <1>1, <1>2 DEF IInv

LEMMA NobodysKeeps ==
  ASSUME IInv, UNCHANGED <<branch, created, rewound, pc, copy, entry, index, passed, seen, move, based>>,
         TypeOK', campaign'.promotions = campaign.promotions
  PROVE  IInv'
<1>1. Held' = Held
  BY DEF Held
<1> QED
  BY <1>1, OwnKept DEF IInv

USE DEF UNCHANGED_Branch, UNCHANGED_Disk, UNCHANGED_Lock, UNCHANGED_Loop, UNCHANGED_Own, UNCHANGED_Env, UNCHANGED_Tick
-----------------------------------------------------------------------------
(* The coordinators' steps.                                                *)

LEMMA JudgeKeeps ==
  ASSUME IInv, NEW k \in Coord, Judge(k)
  PROVE  IInv'
<1> USE DEF Judge
<1>1. TypeOK /\ campaign.promotions \subseteq Held /\ Own(k)
  BY DEF IInv
<1>2. PICK label \in {"out", "kill", "claim"} :
        Goes(k, label) /\ (label = "kill" => LockLive /\ beat = "stale")
  <2>1. CASE LockLive /\ beat # "stale"
    BY <2>1
  <2>2. CASE LockLive /\ beat = "stale"
    BY <2>2
  <2>3. CASE ~LockLive
    BY <2>3
  <2> QED
    BY <2>1, <2>2, <2>3
<1>3. /\ pc' \in [Coord -> PC] /\ pc'[k] = label
      /\ \A j \in Coord \ {k} : pc'[j] = pc[j]
  BY <1>1, <1>2, GoesTo DEF PC
<1>4. /\ seen' \in [Coord -> Coord \cup {Nobody}]
      /\ seen'[k] = IF LockLive /\ beat = "stale" THEN lock ELSE Nobody
      /\ \A j \in Coord \ {k} : seen'[j] = seen[j]
  BY <1>1 DEF TypeOK
<1>5. label = "kill" => seen'[k] \in Coord
  BY <1>1, <1>2, <1>4 DEF TypeOK, LockLive
<1>6. TypeOK'
  BY <1>1, <1>3, <1>4 DEF TypeOK
<1>7. Own(k)'
  BY <1>1, <1>2, <1>3, <1>5 DEF Own, Holding, Held
<1>8. campaign'.promotions \subseteq Held
  BY <1>1
<1> QED
  BY <1>3, <1>4, <1>6, <1>7, <1>8, AloneKeeps

\* A process that is gone holds nothing.
LEMMA GoneOwns ==
  ASSUME TypeOK, NEW k \in Coord, Forgets(k), pc'[k] \in {"out"}
  PROVE  Own(k)'
  BY AllForgotten DEF Own, Holding, Held

LEMMA KillKeeps ==
  ASSUME IInv, NEW k \in Coord, Kill(k)
  PROVE  IInv'
<1> USE DEF Kill
<1>1. TypeOK /\ campaign.promotions \subseteq Held /\ Own(k) /\ pc[k] = "kill"
  BY DEF IInv
<1>2. PICK v \in Coord : v = seen[k]
  BY <1>1 DEF Own
<1>3. /\ pc' \in [Coord -> PC] /\ pc'[v] = "out"
      /\ v # k => pc'[k] = "claim"
      /\ \A j \in Coord \ {k, v} : pc'[j] = pc[j]
  BY <1>1, <1>2 DEF TypeOK, PC
<1>4. run' \in [Contract -> RunRecord]
  BY <1>1, <1>2, RunsOrphaned
<1>5. seen' \in [Coord -> Coord \cup {Nobody}] /\ \A j \in Coord \ {k} : seen'[j] = seen[j]
  BY <1>1 DEF TypeOK
<1>6. /\ copy' \in [Coord -> CampaignRecord] /\ entry' \in [Coord -> Contract \cup {Nobody}]
      /\ index' \in [Coord -> Nat] /\ checked' \in [Coord -> BOOLEAN]
      /\ spent' \in [Coord -> [attempts : 0..MaxRecovery, progress : 0..MaxProgress]]
      /\ passed' \in [Coord -> Seq(Contract)] /\ move' \in [Coord -> Move] /\ based' \subseteq Coord
      /\ \A j \in Coord \ {v} : /\ copy'[j] = copy[j] /\ entry'[j] = entry[j]
                                /\ index'[j] = index[j] /\ passed'[j] = passed[j]
                                /\ move'[j] = move[j] /\ (j \in based' <=> j \in based)
  BY <1>1, <1>2, AllForgotten
<1>7. TypeOK'
  BY <1>1, <1>3, <1>4, <1>5, <1>6 DEF TypeOK
<1>8. Own(v)'
  <2>1. Forgets(v) /\ pc'[v] \in {"out"}
    BY <1>2, <1>3
  <2> QED
    BY <1>1, <2>1, GoneOwns
<1>9. v # k => Own(k)'
  BY <1>1, <1>3, <1>6 DEF Own, Holding, Held
<1>10. ASSUME NEW j \in Coord \ {k, v} PROVE Own(j)'
  <2>1. Own(j) /\ Held \subseteq Held' /\ (created => created')
    BY DEF IInv, Held
  <2>2. /\ pc'[j] = pc[j] /\ entry'[j] = entry[j] /\ index'[j] = index[j] /\ copy'[j] = copy[j]
        /\ seen'[j] = seen[j] /\ passed'[j] = passed[j] /\ move'[j] = move[j]
        /\ (j \in based' <=> j \in based)
    BY <1>3, <1>5, <1>6
  <2> HIDE DEF Kill
  <2> QED
    BY <2>1, <2>2, OwnKept
<1>11. campaign'.promotions \subseteq Held' /\ (created' \/ Held' = {})
  BY <1>1 DEF IInv, Held
<1>12. \A j \in Coord : Own(j)'
  <2> SUFFICES ASSUME NEW j \in Coord PROVE Own(j)'
    OBVIOUS
  <2>1. CASE j = v
    BY <1>8, <2>1
  <2>2. CASE j # v /\ j = k
    BY <1>9, <2>2
  <2> QED
    BY <1>10, <2>1, <2>2
<1> QED
  BY <1>7, <1>11, <1>12, Zenon DEF IInv

\* What only moves k along, with no entry taken in hand.
LEMMA MovesKeeps ==
  ASSUME IInv, NEW k \in Coord, NEW label \in PC \ {"check", "act", "create", "update", "land", "record", "kill"}, Goes(k, label),
         label \in Holding => pc[k] \in Holding,
         UNCHANGED <<copy, based>> \/ Drops(k) \/ (Reads(k) /\ UNCHANGED based),
         UNCHANGED <<campaign, branch, created, rewound, seen, entry, index, passed, move>>,
         lock' \in Coord \cup {Nobody}, beat' \in {"none", "fresh", "stale"},
         run' \in [Contract -> RunRecord], checked' \in [Coord -> BOOLEAN],
         spent' \in [Coord -> [attempts : 0..MaxRecovery, progress : 0..MaxProgress]],
         UNCHANGED <<crashes, operators, edited, moved>>
  PROVE  IInv'
<1>1. TypeOK /\ campaign.promotions \subseteq Held /\ Own(k)
  BY DEF IInv
<1>2. /\ pc' \in [Coord -> PC] /\ pc'[k] = label
      /\ \A j \in Coord \ {k} : pc'[j] = pc[j]
  BY <1>1, GoesTo
<1>3. /\ copy' \in [Coord -> CampaignRecord] /\ copy'[k].promotions \subseteq Held
      /\ based' \subseteq Coord
      /\ \A j \in Coord \ {k} : copy'[j] = copy[j] /\ (j \in based' <=> j \in based)
  <2>1. CASE UNCHANGED <<copy, based>>
    BY <1>1, <2>1 DEF TypeOK, Own
  <2>2. CASE Drops(k)
    BY <1>1, <2>2, CopyDropped
  <2>3. CASE Reads(k) /\ UNCHANGED based
    BY <1>1, <2>3, CopyRead DEF TypeOK
  <2> QED
    BY <2>1, <2>2, <2>3
<1>4. TypeOK'
  BY <1>1, <1>2, <1>3 DEF TypeOK
<1>5. Own(k)'
  BY <1>1, <1>2, <1>3 DEF Own, Holding, Held
<1>6. campaign'.promotions \subseteq Held
  BY <1>1
<1> QED
  BY <1>2, <1>3, <1>4, <1>5, <1>6, AloneKeeps

\* Claim, Start, ParkOnRun, Await, RefusePromotion, Recover, Resume, Driven,
\* Launch, LaunchFails, ReadToPark.
LEMMA MovesAlong ==
  ASSUME IInv, NEW k \in Coord,
         \/ Claim(k) \/ Start(k) \/ ParkOnRun(k) \/ Await(k) \/ RefusePromotion(k)
         \/ Recover(k) \/ Resume(k) \/ Driven(k) \/ Launch(k) \/ LaunchFails(k) \/ ReadToPark(k)
  PROVE  IInv'
<1>1. TypeOK /\ Own(k)
  BY DEF IInv
<1>2. /\ lock \in Coord \cup {Nobody} /\ beat \in {"none", "fresh", "stale"}
      /\ run \in [Contract -> RunRecord] /\ checked \in [Coord -> BOOLEAN]
      /\ spent \in [Coord -> [attempts : 0..MaxRecovery, progress : 0..MaxProgress]]
  BY <1>1 DEF TypeOK
<1>3. {"start", "tick", "park", "resume", "drive", "write"} \subseteq PC \ {"check", "act", "create", "update", "land", "record", "kill"}
      /\ "start" \notin Holding /\ "tick" \notin Holding
  BY DEF PC, Holding
<1>4. pc[k] \in {"act", "resume", "park"} => pc[k] \in Holding /\ entry[k] \in Contract
  BY <1>1 DEF Holding, Own
<1>5. CASE Claim(k)
  BY <1>2, <1>3, <1>5, MovesKeeps DEF Claim
<1>6. CASE Start(k)
  BY <1>2, <1>3, <1>6, MovesKeeps DEF Start
<1>7. CASE ParkOnRun(k)
  BY <1>2, <1>3, <1>4, <1>7, MovesKeeps DEF ParkOnRun, Acts
<1>8. CASE Await(k)
  BY <1>2, <1>3, <1>8, MovesKeeps DEF Await, Acts
<1>9. CASE RefusePromotion(k)
  BY <1>2, <1>3, <1>4, <1>9, MovesKeeps DEF RefusePromotion, Acts
<1>10. CASE Recover(k)
  <2> USE <1>10 DEF Recover, Acts
  <2>1. CASE Attempts(k) >= MaxRecovery
    BY <1>2, <1>3, <1>4, <2>1, MovesKeeps
  <2>2. CASE ~(Attempts(k) >= MaxRecovery)
    <3>1. Attempts(k) \in 0..MaxRecovery
      BY <1>2 DEF Attempts
    <3>2. run[entry[k]].progress \in 0..MaxProgress
      BY <1>2, <1>4 DEF RunRecord
    <3>3. [attempts |-> Attempts(k) + 1, progress |-> run[entry[k]].progress]
            \in [attempts : 0..MaxRecovery, progress : 0..MaxProgress]
      BY <2>2, <3>1, <3>2
    <3>4. spent' = [spent EXCEPT ![k] = [attempts |-> Attempts(k) + 1,
                                         progress |-> run[entry[k]].progress]]
      BY <2>2
    <3>5. spent' \in [Coord -> [attempts : 0..MaxRecovery, progress : 0..MaxProgress]]
      BY <1>2, <3>3, <3>4
    <3> QED
      BY <1>2, <1>3, <1>4, <2>2, <3>5, MovesKeeps
  <2> QED
    BY <2>1, <2>2
<1>11. CASE Resume(k)
  <2> USE <1>11 DEF Resume
  <2>1. CASE run[entry[k]].ctl = Nobody
    <3>1. run' \in [Contract -> RunRecord]
      BY <1>1, <1>4, <2>1, RunResumed
    <3> QED
      BY <1>2, <1>3, <1>4, <2>1, <3>1, MovesKeeps
  <2>2. CASE run[entry[k]].ctl # Nobody
    BY <1>2, <1>3, <2>2, MovesKeeps
  <2> QED
    BY <2>1, <2>2
<1>12. CASE Driven(k)
  BY <1>2, <1>3, <1>12, MovesKeeps DEF Driven
<1>13. CASE Launch(k)
  <2>1. run' \in [Contract -> RunRecord]
    BY <1>1, <1>4, <1>13, RunLaunched DEF Launch, Acts
  <2> QED
    BY <1>2, <1>3, <1>13, <2>1, MovesKeeps DEF Launch, Acts
<1>14. CASE LaunchFails(k)
  <2>1. run' \in [Contract -> RunRecord]
    BY <1>1, <1>2, <1>4, <1>14, RunLaunched DEF LaunchFails, Acts
  <2> QED
    BY <1>2, <1>3, <1>4, <1>14, <2>1, MovesKeeps DEF LaunchFails, Acts
<1>15. CASE ReadToPark(k)
  BY <1>2, <1>3, <1>4, <1>15, MovesKeeps DEF ReadToPark
<1> QED
  BY <1>5, <1>6, <1>7, <1>8, <1>9, <1>10, <1>11, <1>12, <1>13, <1>14, <1>15

LEMMA BeatKeeps ==
  ASSUME IInv, UNCHANGED <<campaign, branch, created, rewound, run, pc, lock, seen, copy, entry, index,
                           checked, spent, based, move, passed, crashes, operators, edited, moved>>,
         beat' \in {"none", "fresh", "stale"}
  PROVE  IInv'
<1>1. TypeOK'
  BY DEF IInv, TypeOK
<1> QED
  BY <1>1, NobodysKeeps

LEMMA ReleaseKeeps ==
  ASSUME IInv, NEW k \in Coord, Release(k) \/ Crash(k)
  PROVE  IInv'
<1>1. TypeOK /\ campaign.promotions \subseteq Held
  BY DEF IInv
<1>2. Goes(k, "out") /\ Forgets(k)
      /\ UNCHANGED <<campaign, branch, created, rewound, seen, beat, edited, moved, operators>>
  BY DEF Release, Crash
<1>3. /\ pc' \in [Coord -> PC] /\ pc'[k] = "out"
      /\ \A j \in Coord \ {k} : pc'[j] = pc[j]
  BY <1>1, <1>2, GoesTo DEF PC
<1>4. lock' \in Coord \cup {Nobody} /\ crashes' \in 0..MaxCrash
  <2>1. CASE Release(k)
    BY <1>1, <2>1 DEF TypeOK, Release
  <2>2. CASE Crash(k)
    BY <1>1, <2>2 DEF TypeOK, Crash
  <2> QED
    BY <2>1, <2>2
<1>5. run' \in [Contract -> RunRecord]
  <2>1. CASE Release(k)
    BY <1>1, <2>1 DEF TypeOK, Release
  <2>2. CASE Crash(k)
    BY <1>1, <2>2, RunsOrphaned DEF Crash
  <2> QED
    BY <2>1, <2>2
<1>6. /\ copy' \in [Coord -> CampaignRecord] /\ entry' \in [Coord -> Contract \cup {Nobody}]
      /\ index' \in [Coord -> Nat] /\ checked' \in [Coord -> BOOLEAN]
      /\ spent' \in [Coord -> [attempts : 0..MaxRecovery, progress : 0..MaxProgress]]
      /\ passed' \in [Coord -> Seq(Contract)] /\ move' \in [Coord -> Move] /\ based' \subseteq Coord
      /\ \A j \in Coord \ {k} : /\ copy'[j] = copy[j] /\ entry'[j] = entry[j]
                                /\ index'[j] = index[j] /\ passed'[j] = passed[j]
                                /\ move'[j] = move[j] /\ (j \in based' <=> j \in based)
  BY <1>1, <1>2, AllForgotten
<1>7. TypeOK'
  BY <1>1, <1>2, <1>3, <1>4, <1>5, <1>6 DEF TypeOK
<1>8. Own(k)'
  BY <1>1, <1>2, <1>3, GoneOwns
<1>9. campaign'.promotions \subseteq Held
  BY <1>1, <1>2
<1> QED
  BY <1>2, <1>3, <1>6, <1>7, <1>8, <1>9, AloneKeeps

LEMMA TickKeeps ==
  ASSUME IInv, NEW k \in Coord, Tick(k)
  PROVE  IInv'
<1> USE DEF Tick
<1>1. TypeOK /\ campaign.promotions \subseteq Held /\ Own(k)
  BY DEF IInv
<1>2. CASE Goes(k, "release") /\ UNCHANGED <<copy, entry, based>>
  <2>1. /\ lock \in Coord \cup {Nobody} /\ beat \in {"none", "fresh", "stale"}
        /\ run \in [Contract -> RunRecord] /\ checked \in [Coord -> BOOLEAN]
        /\ spent \in [Coord -> [attempts : 0..MaxRecovery, progress : 0..MaxProgress]]
    BY <1>1 DEF TypeOK
  <2>2. "release" \in PC \ {"check", "act", "create", "update", "land", "record", "kill"} /\ "release" \notin Holding
    BY DEF PC, Holding
  <2> QED
    BY <1>2, <2>1, <2>2, MovesKeeps
<1>3. CASE /\ index[k] < Len(campaign.contracts)
           /\ Reads(k)
           /\ Goes(k, IF checked[k] THEN "act" ELSE "check")
           /\ entry' = [entry EXCEPT ![k] = campaign.contracts[index[k] + 1]]
           /\ based' = IF created THEN based \cup {k} ELSE based \ {k}
  <2>1. PICK label \in {"act", "check"} : Goes(k, label)
    BY <1>3
  <2>2. /\ pc' \in [Coord -> PC] /\ pc'[k] = label
        /\ \A j \in Coord \ {k} : pc'[j] = pc[j]
    BY <1>1, <2>1, GoesTo DEF PC
  <2>3. /\ copy' \in [Coord -> CampaignRecord] /\ copy'[k] = campaign
        /\ \A j \in Coord \ {k} : copy'[j] = copy[j]
    BY <1>1, <1>3, CopyRead
  <2>4. campaign.contracts[index[k] + 1] \in Contract
    <3>1. campaign.contracts \in Seq(Contract) /\ index[k] \in Nat
      BY <1>1 DEF TypeOK, CampaignRecord
    <3>2. index[k] + 1 \in 1..Len(campaign.contracts)
      BY <1>3, <3>1, LenProperties
    <3> QED
      BY <3>1, <3>2, ElementOfSeq
  <2>5. /\ entry' \in [Coord -> Contract \cup {Nobody}] /\ entry'[k] = campaign.contracts[index[k] + 1]
        /\ \A j \in Coord \ {k} : entry'[j] = entry[j]
    BY <1>1, <1>3, <2>4 DEF TypeOK
  <2>6. /\ based' \subseteq Coord /\ (k \in based' <=> created)
        /\ \A j \in Coord \ {k} : j \in based' <=> j \in based
    BY <1>1, <1>3 DEF TypeOK
  <2>7. TypeOK'
    BY <1>1, <2>2, <2>3, <2>5, <2>6 DEF TypeOK
  <2>9. k \notin based' => ToSet(passed[k]) = {}
    BY <1>1, <2>6 DEF IInv, Own
  <2>10. Own(k)'
    BY <1>1, <1>3, <2>2, <2>3, <2>4, <2>5, <2>9 DEF Own, Held
  <2>8. campaign'.promotions \subseteq Held
    BY <1>1
  <2> QED
    BY <2>2, <2>3, <2>5, <2>6, <2>7, <2>8, <2>10, AloneKeeps
<1>4. index[k] \in Nat /\ Len(campaign.contracts) \in Nat
  BY <1>1, LenProperties DEF TypeOK, CampaignRecord
<1> QED
  BY <1>2, <1>3, <1>4

LEMMA ValidateKeeps ==
  ASSUME IInv, NEW k \in Coord, Validate(k)
  PROVE  IInv'
<1> USE DEF Validate
<1>1. TypeOK /\ campaign.promotions \subseteq Held /\ Own(k)
  BY DEF IInv
<1>2. PICK label \in {"park", "act"} : Goes(k, label)
  OBVIOUS
<1>3. /\ pc' \in [Coord -> PC] /\ pc'[k] = label
      /\ \A j \in Coord \ {k} : pc'[j] = pc[j]
  BY <1>1, <1>2, GoesTo DEF PC
<1>4. checked' \in [Coord -> BOOLEAN]
  BY <1>1, Zenon DEF TypeOK
<1>5. TypeOK'
  BY <1>1, <1>3, <1>4 DEF TypeOK
<1>6. Own(k)'
  BY <1>1, <1>3 DEF Own, Holding, Held
<1>7. campaign'.promotions \subseteq Held
  BY <1>1
<1> QED
  BY <1>3, <1>5, <1>6, <1>7, AloneKeeps

LEMMA TipHolds ==
  ASSUME TypeOK, NEW c \in Contract
  PROVE  TipOf(c) \in Seq(Contract) /\ c \in ToSet(TipOf(c))
<1>1. run[c].cut \in Seq(Contract)
  BY DEF TypeOK, RunRecord
<1> QED
  BY <1>1, Extended DEF TipOf

LEMMA PromoteAlreadyKeeps ==
  ASSUME IInv, NEW k \in Coord, PromoteAlready(k)
  PROVE  IInv'
<1> USE DEF PromoteAlready, Acts
<1>1. TypeOK /\ campaign.promotions \subseteq Held /\ Own(k)
  BY DEF IInv
<1>2. entry[k] \in Contract
  BY <1>1 DEF Own, Holding, Held
<1>3. entry[k] \in Held
  BY <1>1, <1>2, TipHolds, PrefixHolds DEF TypeOK, Held
<1>4. /\ pc' \in [Coord -> PC] /\ pc'[k] = "tick"
      /\ \A j \in Coord \ {k} : pc'[j] = pc[j]
  BY <1>1, GoesTo DEF PC
<1>5. /\ copy' \in [Coord -> CampaignRecord] /\ copy'[k].promotions = {} /\ based' \subseteq Coord
      /\ \A j \in Coord \ {k} : copy'[j] = copy[j] /\ (j \in based' <=> j \in based)
  BY <1>1, CopyDropped
<1>6. /\ index' \in [Coord -> Nat] /\ checked' \in [Coord -> BOOLEAN]
      /\ spent' \in [Coord -> [attempts : 0..MaxRecovery, progress : 0..MaxProgress]]
      /\ passed' \in [Coord -> Seq(Contract)]
      /\ Len(passed'[k]) = index'[k] /\ ToSet(passed'[k]) \subseteq Held
      /\ \A j \in Coord \ {k} : index'[j] = index[j] /\ passed'[j] = passed[j]
  BY <1>1, <1>2, <1>3, Advanced
<1>7. TypeOK'
  BY <1>1, <1>4, <1>5, <1>6 DEF TypeOK
<1>8. Own(k)'
  BY <1>4, <1>5, <1>6 DEF Own, Holding, Held
<1>9. campaign'.promotions \subseteq Held
  BY <1>1
<1> QED
  BY <1>4, <1>5, <1>6, <1>7, <1>8, <1>9, AloneKeeps

\* A promotion in hand moves the branch to a head that holds what it moves from.
LEMMA PromoteKeeps ==
  ASSUME IInv, NEW k \in Coord, Promote(k)
  PROVE  IInv'
<1> USE DEF Promote, Acts
<1>1. TypeOK /\ campaign.promotions \subseteq Held /\ Own(k)
  BY DEF IInv
<1>2. entry[k] \in Contract
  BY <1>1 DEF Own, Holding
<1> DEFINE from == IF created THEN branch ELSE run[entry[k]].cut
           to == TipOf(entry[k])
<1>3. run[entry[k]].cut \in Seq(Contract) /\ branch \in Seq(Contract)
  BY <1>1, <1>2 DEF TypeOK, RunRecord
<1>4. to \in Seq(Contract) /\ entry[k] \in ToSet(to) /\ ToSet(run[entry[k]].cut) \subseteq ToSet(to)
  BY <1>2, <1>3, Extended DEF TipOf
<1>5. from \in Seq(Contract) /\ ToSet(from) \subseteq ToSet(to)
  BY <1>3, <1>4, PrefixHolds
<1>6. move' = [move EXCEPT ![k] = [from |-> from, to |-> to]]
  OBVIOUS
<1> HIDE DEF from, to
<1>7. /\ move' \in [Coord -> Move] /\ move'[k].from = from /\ move'[k].to = to
      /\ \A j \in Coord \ {k} : move'[j] = move[j]
  <2> DEFINE m == [from |-> from, to |-> to]
  <2>1. m \in Move /\ m.from = from /\ m.to = to
    BY <1>4, <1>5 DEF Move
  <2>2. move \in [Coord -> Move] /\ move' = [move EXCEPT ![k] = m]
    BY <1>1, <1>6 DEF TypeOK
  <2> HIDE DEF m
  <2> QED
    BY <2>1, <2>2
<1>8. /\ pc' \in [Coord -> PC] /\ pc'[k] = IF created THEN "update" ELSE "create"
      /\ \A j \in Coord \ {k} : pc'[j] = pc[j]
  BY <1>1, GoesTo DEF PC
<1>9. /\ copy' \in [Coord -> CampaignRecord] /\ copy'[k].promotions = {} /\ based' \subseteq Coord
      /\ \A j \in Coord \ {k} : copy'[j] = copy[j] /\ (j \in based' <=> j \in based)
  BY <1>1, CopyDropped
<1>10. TypeOK'
  BY <1>1, <1>7, <1>8, <1>9 DEF TypeOK
<1>11. Own(k)'
  BY <1>1, <1>2, <1>4, <1>5, <1>7, <1>8, <1>9 DEF Own, Held
<1> QED
  BY <1>1, <1>7, <1>8, <1>9, <1>10, <1>11, AloneKeeps

LEMMA CreateBranchKeeps ==
  ASSUME IInv, NEW k \in Coord, CreateBranch(k)
  PROVE  IInv'
<1> USE DEF CreateBranch
<1>1. TypeOK /\ campaign.promotions \subseteq Held /\ Own(k)
  BY DEF IInv
<1>2. entry[k] \in Contract /\ move[k] \in Move
  BY <1>1 DEF Own, Holding, TypeOK
<1>3. /\ pc' \in [Coord -> PC] /\ pc'[k] = "update"
      /\ \A j \in Coord \ {k} : pc'[j] = pc[j]
  BY <1>1, GoesTo DEF PC
<1>4. Held \subseteq Held'
  BY DEF Held
<1>5. ToSet(branch) \subseteq Contract /\ branch' \in Seq(Contract)
  <2>1. branch \in Seq(Contract)
    BY <1>1 DEF TypeOK
  <2>2. DOMAIN branch = 1..Len(branch) /\ \A i \in 1..Len(branch) : branch[i] \in Contract
    BY <2>1, LenProperties, ElementOfSeq
  <2> QED
    BY <1>2, <2>2 DEF ToSet, Move
<1>6. TypeOK'
  BY <1>1, <1>3, <1>5 DEF TypeOK
<1>7. Own(k)'
  BY <1>1, <1>2, <1>3, <1>4 DEF Own
<1> QED
  BY <1>1, <1>3, <1>4, <1>6, <1>7, AloneKeeps

LEMMA UpdateBranchKeeps ==
  ASSUME IInv, NEW k \in Coord, UpdateBranch(k)
  PROVE  IInv'
<1> USE DEF UpdateBranch
<1>1. TypeOK /\ campaign.promotions \subseteq Held /\ Own(k) /\ pc[k] = "update" /\ created
  BY DEF IInv, Own
<1>2. entry[k] \in Contract /\ move[k].to \in Seq(Contract)
  BY <1>1 DEF Own, Holding, TypeOK, Move
<1>3. move' \in [Coord -> Move] /\ \A j \in Coord \ {k} : move'[j] = move[j]
  BY <1>1, EmptySeq DEF TypeOK, Move, NoMove
<1>4. PICK label \in {"land", "park"} :
        /\ Goes(k, label)
        /\ label = "land" => branch = move[k].from /\ branch' = move[k].to
        /\ label = "park" => UNCHANGED branch
        /\ moved' \subseteq Contract
  BY <1>1, <1>2 DEF TypeOK
<1>5. /\ pc' \in [Coord -> PC] /\ pc'[k] = label
      /\ \A j \in Coord \ {k} : pc'[j] = pc[j]
  BY <1>1, <1>4, GoesTo DEF PC
<1>6. Held \subseteq Held' /\ (label = "land" => entry[k] \in Held') /\ branch' \in Seq(Contract)
  <2>1. ToSet(move[k].from) \subseteq ToSet(move[k].to) /\ entry[k] \in ToSet(move[k].to)
    BY <1>1 DEF Own
  <2> QED
    BY <1>1, <1>2, <1>4, <2>1 DEF Held, TypeOK
<1>7. TypeOK'
  BY <1>1, <1>3, <1>4, <1>5, <1>6 DEF TypeOK
<1>8. Own(k)'
  BY <1>1, <1>2, <1>4, <1>5, <1>6 DEF Own
<1> QED
  BY <1>1, <1>3, <1>5, <1>6, <1>7, <1>8, AloneKeeps

LEMMA ReadToRecordKeeps ==
  ASSUME IInv, NEW k \in Coord, ReadToRecord(k)
  PROVE  IInv'
<1> USE DEF ReadToRecord
<1>1. TypeOK /\ campaign.promotions \subseteq Held /\ Own(k)
  BY DEF IInv
<1>2. /\ pc' \in [Coord -> PC] /\ pc'[k] = "record"
      /\ \A j \in Coord \ {k} : pc'[j] = pc[j]
  BY <1>1, GoesTo DEF PC
<1>3. /\ copy' \in [Coord -> CampaignRecord] /\ copy'[k] = campaign
      /\ \A j \in Coord \ {k} : copy'[j] = copy[j]
  BY <1>1, CopyRead
<1>4. TypeOK'
  BY <1>1, <1>2, <1>3 DEF TypeOK
<1>5. Own(k)'
  BY <1>1, <1>2, <1>3 DEF Own, Holding, Held
<1>6. campaign'.promotions \subseteq Held
  BY <1>1
<1> QED
  BY <1>2, <1>3, <1>4, <1>5, <1>6, AloneKeeps

LEMMA RecordPromotionKeeps ==
  ASSUME IInv, NEW k \in Coord, RecordPromotion(k)
  PROVE  IInv'
<1> USE DEF RecordPromotion
<1>1. TypeOK /\ campaign.promotions \subseteq Held /\ Own(k)
  BY DEF IInv
<1>2. entry[k] \in Contract /\ entry[k] \in Held
  BY <1>1 DEF Own, Holding, Held
<1>3. /\ pc' \in [Coord -> PC] /\ pc'[k] = "tick"
      /\ \A j \in Coord \ {k} : pc'[j] = pc[j]
  BY <1>1, GoesTo DEF PC
<1>4. /\ copy' \in [Coord -> CampaignRecord] /\ copy'[k].promotions = {} /\ based' \subseteq Coord
      /\ \A j \in Coord \ {k} : copy'[j] = copy[j] /\ (j \in based' <=> j \in based)
  BY <1>1, CopyDropped
<1>5. /\ index' \in [Coord -> Nat] /\ checked' \in [Coord -> BOOLEAN]
      /\ spent' \in [Coord -> [attempts : 0..MaxRecovery, progress : 0..MaxProgress]]
      /\ passed' \in [Coord -> Seq(Contract)]
      /\ Len(passed'[k]) = index'[k] /\ ToSet(passed'[k]) \subseteq Held
      /\ \A j \in Coord \ {k} : index'[j] = index[j] /\ passed'[j] = passed[j]
  BY <1>1, <1>2, Advanced
<1>6. campaign' \in CampaignRecord /\ campaign'.promotions = copy[k].promotions \cup {entry[k]}
  <2>1. copy[k] \in CampaignRecord
    BY <1>1 DEF TypeOK
  <2> QED
    BY <1>2, <2>1 DEF CampaignRecord
<1>7. TypeOK'
  BY <1>1, <1>3, <1>4, <1>5, <1>6 DEF TypeOK
<1>8. Own(k)'
  BY <1>3, <1>4, <1>5 DEF Own, Holding, Held
<1>9. campaign'.promotions \subseteq Held
  BY <1>1, <1>2, <1>6 DEF Own
<1> QED
  BY <1>3, <1>4, <1>5, <1>7, <1>8, <1>9, AloneKeeps

LEMMA ParkKeeps ==
  ASSUME IInv, NEW k \in Coord, Park(k)
  PROVE  IInv'
<1> USE DEF Park
<1>1. TypeOK /\ campaign.promotions \subseteq Held /\ Own(k)
  BY DEF IInv
<1>2. entry[k] \in Contract
  BY <1>1 DEF Own, Holding, Held
<1>3. /\ pc' \in [Coord -> PC] /\ pc'[k] = "release"
      /\ \A j \in Coord \ {k} : pc'[j] = pc[j]
  BY <1>1, GoesTo DEF PC
<1>4. /\ copy' \in [Coord -> CampaignRecord] /\ copy'[k].promotions = {} /\ based' \subseteq Coord
      /\ \A j \in Coord \ {k} : copy'[j] = copy[j] /\ (j \in based' <=> j \in based)
  BY <1>1, CopyDropped
<1>5. campaign' \in CampaignRecord /\ campaign'.promotions = copy[k].promotions
  <2>1. copy[k] \in CampaignRecord
    BY <1>1 DEF TypeOK
  <2> QED
    BY <1>2, <2>1 DEF CampaignRecord
<1>6. TypeOK'
  BY <1>1, <1>3, <1>4, <1>5 DEF TypeOK
<1>7. Own(k)'
  BY <1>1, <1>3, <1>4 DEF Own, Holding, Held
<1>8. campaign'.promotions \subseteq Held
  BY <1>1, <1>5 DEF Own
<1> QED
  BY <1>3, <1>4, <1>6, <1>7, <1>8, AloneKeeps
-----------------------------------------------------------------------------
(* The runs and the operator.                                              *)

LEMMA RunKeeps ==
  ASSUME IInv, NEW c \in Contract, RunStepOf(c)
  PROVE  IInv'
<1>1. TypeOK /\ run \in [Contract -> RunRecord] /\ run[c] \in RunRecord
  BY DEF IInv, TypeOK
<1>2. UNCHANGED_Chain
  BY DEF RunStepOf, RunProgresses, RunEnds, RunWaits, RunDue, RunDies
<1>3. run' \in [Contract -> RunRecord]
  <2>1. CASE RunProgresses(c)
    <3>1. run[c].progress + 1 \in 0..MaxProgress
      BY <1>1, <2>1 DEF RunProgresses, RunRecord
    <3>2. [run[c] EXCEPT !.progress = run[c].progress + 1] \in RunRecord
      BY <1>1, <3>1, RunFields
    <3> QED
      BY <1>1, <2>1, <3>2 DEF RunProgresses
  <2>2. ASSUME NEW s \in RunState, NEW o \in Coord \cup {Nobody, "detached"},
               run' = [run EXCEPT ![c].state = s, ![c].ctl = o]
        PROVE  run' \in [Contract -> RunRecord]
    <3> DEFINE r1 == [run[c] EXCEPT !.state = s]
               r2 == [r1 EXCEPT !.ctl = o]
    <3>1. r1 \in RunRecord
      BY <1>1, RunFields
    <3> HIDE DEF r1
    <3>2. r2 \in RunRecord
      BY <3>1, RunFields
    <3>3. run' = [run EXCEPT ![c] = r2]
      BY <1>1, <2>2 DEF r1
    <3> HIDE DEF r2
    <3> QED
      BY <1>1, <3>2, <3>3
  <2>3. CASE RunEnds(c)
    BY <2>2, <2>3 DEF RunEnds, RunState
  <2>4. CASE RunWaits(c)
    <3>1. run[c].ctl \in Coord \cup {Nobody, "detached"}
      BY <1>1 DEF RunRecord
    <3> QED
      BY <2>2, <2>4, <3>1 DEF RunWaits, RunState
  <2>5. CASE RunDue(c)
    <3>1. [run[c] EXCEPT !.state = "unfinished"] \in RunRecord
      BY <1>1, RunFields DEF RunState
    <3> QED
      BY <1>1, <2>5, <3>1 DEF RunDue
  <2>6. CASE RunDies(c)
    <3>1. [run[c] EXCEPT !.ctl = Nobody] \in RunRecord
      BY <1>1, RunFields
    <3> QED
      BY <1>1, <2>6, <3>1 DEF RunDies
  <2> QED
    BY <2>1, <2>3, <2>4, <2>5, <2>6 DEF RunStepOf
<1>4. TypeOK'
  BY <1>1, <1>2, <1>3 DEF TypeOK, UNCHANGED_Chain
<1> QED
  BY <1>2, <1>4, NobodysKeeps DEF UNCHANGED_Chain

\* An operator's command leaves the processes and the branch alone.
LEMMA TypesKeeps ==
  ASSUME IInv, Types, campaign' \in CampaignRecord,
         campaign'.promotions = campaign.promotions,
         run' \in [Contract -> RunRecord], edited' \subseteq Contract
  PROVE  IInv'
<1>1. operators' \in 0..MaxOperator
  BY DEF IInv, TypeOK, Types
<1>2. TypeOK'
  BY <1>1 DEF IInv, TypeOK, Types
<1> QED
  BY <1>2, NobodysKeeps DEF Types

LEMMA OperatorKeeps ==
  ASSUME IInv, Operator
  PROVE  IInv'
<1>1. TypeOK
  BY DEF IInv
<1>2. /\ campaign \in CampaignRecord /\ run \in [Contract -> RunRecord] /\ edited \subseteq Contract
      /\ campaign.contracts \in Seq(Contract)
  BY <1>1 DEF TypeOK, CampaignRecord
<1>3. ASSUME NEW c \in Contract, CancelRun(c) PROVE IInv'
  <2> DEFINE r1 == [run[c] EXCEPT !.request = TRUE]
             r2 == [r1 EXCEPT !.ctl = Nobody]
  <2>1. r1 \in RunRecord
    BY <1>2, RunFields
  <2> HIDE DEF r1
  <2>2. r2 \in RunRecord
    BY <2>1, RunFields
  <2>3. run' = [run EXCEPT ![c] = r2]
    BY <1>2, <1>3 DEF CancelRun, r1
  <2> HIDE DEF r2
  <2> QED
    BY <1>2, <1>3, <2>2, <2>3, TypesKeeps DEF CancelRun
<1>4. ASSUME NEW c \in Contract, ResumeRun(c) PROVE IInv'
  BY <1>1, <1>2, <1>4, RunResumed, TypesKeeps DEF ResumeRun
<1>5. ASSUME NEW c \in Contract, ReplaceContract(c) PROVE IInv'
  <2>1. PICK i \in DOMAIN campaign.contracts :
          campaign' = [campaign EXCEPT !.contracts[i] = c, !.attention = Clear]
    BY <1>5 DEF ReplaceContract
  <2>2. i \in 1..Len(campaign.contracts)
    BY <1>2, <2>1, LenProperties
  <2>3. [campaign.contracts EXCEPT ![i] = c] \in Seq(Contract)
    BY <1>2, <2>2, ExceptSeq
  <2>4. campaign' \in CampaignRecord /\ campaign'.promotions = campaign.promotions
    BY <1>2, <2>1, <2>3 DEF CampaignRecord, Clear
  <2> QED
    BY <1>2, <1>5, <2>4, TypesKeeps DEF ReplaceContract
<1>6. ASSUME NEW c \in Contract, EditContract(c) PROVE IInv'
  BY <1>2, <1>6, TypesKeeps DEF EditContract
<1>7. ASSUME NEW c \in Contract, AddContract(c) PROVE IInv'
  <2>1. Append(campaign.contracts, c) \in Seq(Contract)
    BY <1>2, AppendProperties
  <2>2. campaign' \in CampaignRecord /\ campaign'.promotions = campaign.promotions
    BY <1>2, <1>7, <2>1 DEF AddContract, CampaignRecord
  <2> QED
    BY <1>2, <1>7, <2>2, TypesKeeps DEF AddContract
<1>8. CASE PauseCampaign \/ UnparkCampaign \/ CloseCampaign
  <2>1. campaign' \in CampaignRecord /\ campaign'.promotions = campaign.promotions
    BY <1>2, <1>8 DEF PauseCampaign, UnparkCampaign, CloseCampaign, CampaignRecord, Clear
  <2> QED
    BY <1>2, <1>8, <2>1, TypesKeeps DEF PauseCampaign, UnparkCampaign, CloseCampaign
<1> QED
  BY <1>3, <1>4, <1>5, <1>6, <1>7, <1>8 DEF Operator
-----------------------------------------------------------------------------
LEMMA InitInv == Init => IInv
<1> SUFFICES ASSUME Init PROVE IInv
  OBVIOUS
<1>1. <<>> \in Seq(Contract) /\ Len(<<>>) = 0 /\ ToSet(<<>>) = {}
  BY EmptySeq DEF ToSet
<1>2. TypeOK
  <2>1. campaign \in CampaignRecord /\ copy \in [Coord -> CampaignRecord]
    BY FreshRecord DEF Init
  <2>2. run \in [Contract -> RunRecord]
    BY <1>1 DEF Init, RunRecord, RunState
  <2>3. pc \in [Coord -> PC] /\ seen \in [Coord -> Coord \cup {Nobody}]
    BY DEF Init, PC
  <2>4. entry \in [Coord -> Contract \cup {Nobody}] /\ index \in [Coord -> Nat]
    BY DEF Init
  <2>5. checked \in [Coord -> BOOLEAN]
    BY Zenon DEF Init
  <2>6. spent \in [Coord -> [attempts : 0..MaxRecovery, progress : 0..MaxProgress]]
    BY DEF Init, Unspent
  <2>7. passed \in [Coord -> Seq(Contract)]
    BY <1>1 DEF Init
  <2>8. /\ lock \in Coord \cup {Nobody} /\ beat \in {"none", "fresh", "stale"}
        /\ branch \in Seq(Contract) /\ crashes \in 0..MaxCrash /\ operators \in 0..MaxOperator
        /\ edited \subseteq Contract /\ moved \subseteq Contract /\ rewound \subseteq Contract
        /\ based \subseteq Coord
    BY <1>1 DEF Init
  <2>9. created \in BOOLEAN
    BY Zenon DEF Init
  <2>10. move \in [Coord -> Move]
    BY <1>1 DEF Init, Move, NoMove
  <2> QED
    BY <2>1, <2>2, <2>3, <2>4, <2>5, <2>6, <2>7, <2>8, <2>9, <2>10 DEF TypeOK
<1>3. campaign.promotions \subseteq Held /\ Held = {}
  BY <1>1, FreshRecord DEF Init, Held
<1>4. ASSUME NEW k \in Coord PROVE Own(k)
  <2>1. pc[k] = "idle" /\ copy[k] = Fresh /\ passed[k] = <<>> /\ index[k] = 0
    BY DEF Init
  <2> QED
    BY <1>1, <2>1, FreshRecord DEF Own, Holding, Held
<1> QED
  BY <1>2, <1>3, <1>4 DEF IInv

LEMMA NextKeeps ==
  ASSUME IInv, Next
  PROVE  IInv'
<1>1. ASSUME NEW k \in Coord, Judge(k) PROVE IInv'
  BY <1>1, JudgeKeeps
<1>2. ASSUME NEW k \in Coord, CoordStep(k) PROVE IInv'
  BY <1>2, KillKeeps, MovesAlong, ReleaseKeeps, TickKeeps, ValidateKeeps, PromoteAlreadyKeeps,
     PromoteKeeps, CreateBranchKeeps, UpdateBranchKeeps, ReadToRecordKeeps, RecordPromotionKeeps, ParkKeeps DEF CoordStep
<1>3. ASSUME NEW k \in Coord, Beat(k) PROVE IInv'
  BY <1>3, BeatKeeps DEF Beat
<1>4. ASSUME NEW k \in Coord, Crash(k) PROVE IInv'
  BY <1>4, ReleaseKeeps
<1>5. ASSUME NEW c \in Contract, RunStepOf(c) PROVE IInv'
  BY <1>5, RunKeeps
<1>6. CASE Breach
  BY <1>6, BeatKeeps DEF Breach
<1>7. CASE Operator
  BY <1>7, OperatorKeeps
<1> QED
  BY <1>1, <1>2, <1>3, <1>4, <1>5, <1>6, <1>7 DEF Next

LEMMA Invariant == Spec => []IInv
<1>1. ASSUME IInv, UNCHANGED vars PROVE IInv'
  <2>1. TypeOK'
    BY <1>1 DEF IInv, TypeOK, vars
  <2> QED
    BY <1>1, <2>1, NobodysKeeps DEF vars
<1> QED
  BY InitInv, NextKeeps, <1>1, PTL DEF Spec

\* Every variable stays what the code makes of it; in particular a coordinator
\* resumes a run that makes no progress at most MaxRecovery times.
THEOREM TypeCorrect == Spec => []TypeOK
<1>1. IInv => TypeOK
  BY DEF IInv
<1> QED
  BY <1>1, Invariant, PTL

\* The record names no promotion the branch does not hold, whoever wrote it
\* last and however old its copy was.
THEOREM RecordedLanded == Spec => []RecordedHasLanded
<1>1. IInv => RecordedHasLanded
  BY DEF IInv, Held, RecordedHasLanded
<1> QED
  BY <1>1, Invariant, PTL

\* A run is created by the coordinator that has its entry in hand, cut from a
\* base that holds every entry that coordinator saw through, except those the
\* creation of the branch by an overlapping coordinator took off it.
THEOREM LaunchesFollow == Spec => LaunchesInOrder
<1> DEFINE Created(c) == run[c].state = "none" /\ run'[c].state # "none"
           Follows(c) == \E k \in Coord :
                           /\ pc[k] = "act" /\ entry[k] = c
                           /\ copy[k].contracts[Len(passed[k]) + 1] = c
                           /\ ToSet(passed[k]) \ rewound \subseteq ToSet(run'[c].cut)
<1>1. ASSUME IInv, Next, NEW c \in Contract, Created(c) PROVE Follows(c)
  <2>1. TypeOK /\ run \in [Contract -> RunRecord] /\ \A k \in Coord : Own(k)
    BY <1>1 DEF IInv, TypeOK
  <2>2. run' # run
    BY <1>1
  <2>3. ASSUME NEW k \in Coord, Orphaned(k) PROVE FALSE
    BY <1>1, <2>1, <2>3, RunsOrphaned
  <2>4. ASSUME NEW k \in Coord, pc[k] = "act", entry[k] \in Contract,
               NEW owner \in Coord \cup {Nobody, "detached"}, Launched(k, owner)
        PROVE  Follows(c)
    <3>1. /\ run'[entry[k]].cut = IF k \in based THEN branch ELSE <<>>
          /\ \A d \in Contract \ {entry[k]} : run'[d] = run[d]
      BY <2>1, <2>4, RunLaunched
    <3>2. entry[k] = c
      BY <1>1, <3>1
    <3>3. ToSet(passed[k]) \ rewound \subseteq ToSet(run'[c].cut)
      <4>1. CASE k \in based
        BY <2>1, <3>1, <3>2, <4>1 DEF Own, Held
      <4>2. CASE k \notin based
        BY <2>1, <2>4, <4>2 DEF Own
      <4> QED
        BY <4>1, <4>2
    <3> QED
      BY <2>1, <2>4, <3>2, <3>3 DEF Own
  <2>5. ASSUME NEW k \in Coord, Judge(k) \/ Beat(k) \/ Crash(k) PROVE FALSE
    BY <2>2, <2>3, <2>5 DEF Judge, Beat, Crash
  <2>6. ASSUME NEW k \in Coord, CoordStep(k) PROVE Follows(c)
    <3>1. CASE Kill(k)
      <4>1. seen[k] \in Coord /\ Orphaned(seen[k])
        BY <2>1, <3>1 DEF Kill, Own
      <4> QED
        BY <2>3, <4>1
    <3>2. pc[k] \in {"act", "resume"} => entry[k] \in Contract
      BY <2>1 DEF Own, Holding, Held
    <3>3. CASE Resume(k)
      <4>1. run[entry[k]].ctl = Nobody /\ Resumed(entry[k], k) /\ entry[k] \in Contract
        BY <2>2, <3>2, <3>3 DEF Resume
      <4> QED
        BY <1>1, <2>1, <4>1, RunResumed
    <3>4. CASE Launch(k)
      BY <2>4, <3>2, <3>4 DEF Launch, Acts
    <3>5. CASE LaunchFails(k)
      BY <2>2, <2>4, <3>2, <3>5 DEF LaunchFails, Acts
    <3> QED
      BY <2>2, <2>6, <3>1, <3>3, <3>4, <3>5
         DEF CoordStep, Claim, Start, Release, Tick, Validate, ParkOnRun, Await, RefusePromotion,
             PromoteAlready, Promote, CreateBranch, UpdateBranch, ReadToRecord, RecordPromotion, Recover, Driven, ReadToPark, Park
  <2>7. ASSUME NEW d \in Contract, RunStepOf(d) PROVE FALSE
    <3>1. \A e \in Contract : e # d => run'[e] = run[e]
      BY <2>1, <2>7 DEF RunStepOf, RunProgresses, RunEnds, RunWaits, RunDue, RunDies
    <3>2. c = d
      BY <1>1, <3>1
    <3>3. run[c] \in RunRecord /\ run[c].state = "none" /\ run'[c].state # "none"
      BY <1>1, <2>1
    <3>4. ~RunProgresses(c) /\ ~RunEnds(c) /\ ~RunWaits(c)
      BY <3>3 DEF RunProgresses, RunEnds, RunWaits, RunStep
    <3>5. ~RunDue(c)
      BY <3>3 DEF RunDue
    <3>6. ~RunDies(c)
      <4>1. [run[c] EXCEPT !.ctl = Nobody].state = run[c].state
        BY <3>3, RunFields
      <4> QED
        BY <2>1, <3>3, <4>1 DEF RunDies
    <3> QED
      BY <2>7, <3>2, <3>4, <3>5, <3>6 DEF RunStepOf
  <2>8. CASE Breach
    BY <2>2, <2>8 DEF Breach
  <2>9. CASE Operator
    <3>1. ASSUME NEW d \in Contract, CancelRun(d) PROVE FALSE
      BY <1>1, <2>1, <3>1 DEF CancelRun, RunRecord
    <3>2. ASSUME NEW d \in Contract, ResumeRun(d) PROVE FALSE
      BY <1>1, <2>1, <3>2, RunResumed DEF ResumeRun
    <3> QED
      BY <2>2, <2>9, <3>1, <3>2 DEF Operator, ReplaceContract, EditContract, AddContract,
         PauseCampaign, UnparkCampaign, CloseCampaign
  <2> QED
    BY <1>1, <2>5, <2>6, <2>7, <2>8, <2>9 DEF Next
<1>2. IInv /\ [Next]_vars => [\A c \in Contract : Created(c) => Follows(c)]_vars
  BY <1>1
<1> QED
  BY <1>2, Invariant, PTL DEF Spec, LaunchesInOrder
=============================================================================
