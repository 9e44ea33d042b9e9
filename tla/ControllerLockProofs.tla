------------------------ MODULE ControllerLockProofs ------------------------
(***************************************************************************)
(* What ControllerLock guarantees for every number of contenders, every    *)
(* reuse of pids and every attempt limit, with or without start tokens.    *)
(*                                                                         *)
(* The argument: a record is written once, by the process it names, and    *)
(* the rename moves it. So at any time at most one place from which it can *)
(* still be judged holds it (the entry, or one capture not yet discarded), *)
(* and once judged dead it is in none.                                     *)
(***************************************************************************)
EXTENDS ControllerLock, TLAPS

\* A contender between capture and discard holds a record.
CatchingHolds == \A p \in Pid : pc[p] \in Catching => aside[p] # NoLock

\* A process that died is at no program point but "dead".
DeadIsDead == \A p \in Pid : pc[p] = "dead" <=> ~alive[p]

\* Every record in the system was written by an owner its pid has had.
NoFutureRecord ==
  /\ lock # NoLock => lock.inc <= inc[lock.pid]
  /\ \A q \in Pid : aside[q] # NoLock => aside[q].inc <= inc[aside[q].pid]
  /\ \A t \in takeovers : t[1].inc <= inc[t[1].pid]

\* A process that has not linked its record yet: the record is nowhere.
Unwritten ==
  \A p \in Pid : pc[p] \in Trying \cup {"idle"} =>
    /\ lock # Rec(p)
    /\ \A q \in Pid : aside[q] # Rec(p)
    /\ \A t \in takeovers : t[1] # Rec(p)

\* A record that can still be judged is in one place.
SingleCopy ==
  /\ \A q \in Pid : pc[q] \in Catching => aside[q] # lock
  /\ \A p, q \in Pid : pc[p] \in Catching /\ pc[q] \in Catching /\ aside[p] = aside[q]
                       => p = q

\* A record judged dead can be judged no more.
TakenIsGone ==
  \A t \in takeovers :
    /\ lock # t[1]
    /\ \A q \in Pid : pc[q] \in Catching => aside[q] # t[1]

\* No turn of acquire's loop begins past its limit.
TurnsLeft == \A p \in Pid : tries[p] < TakeoverAttempts

IInv ==
  /\ TypeOK
  /\ TurnsLeft
  /\ CatchingHolds
  /\ DeadIsDead
  /\ NoFutureRecord
  /\ Unwritten
  /\ SingleCopy
  /\ TakenIsGone
  /\ AtMostOneTakeover
  /\ HolderAccounted

USE DEF Trying, Catching, Holding, PC

\* The initial states satisfy the invariant: nobody has captured anything.
LEMMA InitIInv == Init => IInv
<1> SUFFICES ASSUME Init PROVE IInv
  OBVIOUS
<1> USE DEF Init, Record, Rec
<1>1. TypeOK
  BY IncarnationAssumption, AttemptsAssumption DEF TypeOK
<1>2. CatchingHolds /\ DeadIsDead /\ SingleCopy /\ TurnsLeft
  BY AttemptsAssumption DEF TurnsLeft, CatchingHolds, DeadIsDead, SingleCopy
<1>3. NoFutureRecord
  BY NoLockAssumption DEF NoFutureRecord
<1>4. Unwritten
  BY NoLockAssumption, IncarnationAssumption DEF Unwritten
<1>5. TakenIsGone /\ AtMostOneTakeover /\ HolderAccounted
  BY DEF TakenIsGone, AtMostOneTakeover, HolderAccounted, Holders
<1> QED
  BY <1>1, <1>2, <1>3, <1>4, <1>5 DEF IInv

\* One step of one process preserves the invariant.
LEMMA NextIInv == IInv /\ [Next]_vars => IInv'
<1> SUFFICES ASSUME IInv, [Next]_vars PROVE IInv'
  OBVIOUS
<1> USE IncarnationAssumption, AttemptsAssumption, NoLockAssumption DEF Goto
<1>r. \A p \in Pid : Rec(p) \in Record /\ Rec(p) # NoLock /\ Rec(p).pid = p /\ Rec(p).inc = inc[p]
  BY DEF IInv, TypeOK, Rec, Record
<1>s. CASE UNCHANGED vars
  BY <1>s DEF IInv, vars, TypeOK, TurnsLeft, CatchingHolds, DeadIsDead, NoFutureRecord, Unwritten,
     SingleCopy, TakenIsGone, AtMostOneTakeover, HolderAccounted, Holders, Rec
<1>1. ASSUME NEW p \in Pid, Acquire(p) PROVE IInv'
  <2> USE <1>1, <1>r DEF Acquire, IInv
  <2>1. TypeOK'
    BY DEF TypeOK
  <2>2. TurnsLeft'
    BY AttemptsAssumption DEF TurnsLeft, TypeOK
  <2>3. CatchingHolds'
    BY DEF CatchingHolds, TypeOK
  <2>4. DeadIsDead'
    BY DEF DeadIsDead, TypeOK
  <2>5. NoFutureRecord'
    BY DEF NoFutureRecord, TypeOK
  <2>6. Unwritten'
    BY DEF Unwritten, TypeOK, Rec
  <2>7. SingleCopy'
    BY DEF SingleCopy, TypeOK
  <2>8. TakenIsGone'
    BY DEF TakenIsGone, TypeOK
  <2>9. AtMostOneTakeover'
    BY DEF AtMostOneTakeover, TypeOK
  <2>10. HolderAccounted'
    BY DEF HolderAccounted, TypeOK, Rec, Holders
  <2> QED
    BY <2>1, <2>2, <2>3, <2>4, <2>5, <2>6, <2>7, <2>8, <2>9, <2>10
<1>2. ASSUME NEW p \in Pid, WriteExclusive(p) PROVE IInv'
  <2> USE <1>2, <1>r DEF WriteExclusive, IInv
  <2>1. TypeOK'
    BY DEF TypeOK
  <2>2. TurnsLeft'
    BY AttemptsAssumption DEF TurnsLeft, TypeOK
  <2>3. CatchingHolds'
    BY DEF CatchingHolds, TypeOK
  <2>4. DeadIsDead'
    BY DEF DeadIsDead, TypeOK
  <2>5. NoFutureRecord'
    BY DEF NoFutureRecord, TypeOK
  <2>6. Unwritten'
    BY DEF Unwritten, TypeOK, Rec
  <2>7. SingleCopy'
    BY DEF SingleCopy, TypeOK, Unwritten, CatchingHolds
  <2>8. TakenIsGone'
    BY DEF TakenIsGone, TypeOK, Unwritten
  <2>9. AtMostOneTakeover'
    BY DEF AtMostOneTakeover, TypeOK
  <2>10. HolderAccounted'
    BY DEF HolderAccounted, TypeOK, Rec, Holders
  <2> QED
    BY <2>1, <2>2, <2>3, <2>4, <2>5, <2>6, <2>7, <2>8, <2>9, <2>10
<1>3. ASSUME NEW p \in Pid, ReadLock(p) PROVE IInv'
  <2> USE <1>3, <1>r DEF ReadLock, IInv
  <2>1. TypeOK'
    BY DEF TypeOK
  <2>2. TurnsLeft'
    BY AttemptsAssumption DEF TurnsLeft, TypeOK
  <2>3. CatchingHolds'
    BY DEF CatchingHolds, TypeOK
  <2>4. DeadIsDead'
    BY DEF DeadIsDead, TypeOK
  <2>5. NoFutureRecord'
    BY DEF NoFutureRecord, TypeOK
  <2>6. Unwritten'
    BY DEF Unwritten, TypeOK, Rec
  <2>7. SingleCopy'
    BY DEF SingleCopy, TypeOK
  <2>8. TakenIsGone'
    BY DEF TakenIsGone, TypeOK
  <2>9. AtMostOneTakeover'
    BY DEF AtMostOneTakeover, TypeOK
  <2>10. HolderAccounted'
    BY DEF HolderAccounted, TypeOK, Rec, Holders
  <2> QED
    BY <2>1, <2>2, <2>3, <2>4, <2>5, <2>6, <2>7, <2>8, <2>9, <2>10
<1>4. ASSUME NEW p \in Pid, JudgeOccupant(p) PROVE IInv'
  <2> USE <1>4, <1>r DEF JudgeOccupant, IInv
  <2>1. TypeOK'
    BY DEF TypeOK, LockStale
  <2>2. TurnsLeft'
    BY AttemptsAssumption DEF TurnsLeft, TypeOK, LockStale
  <2>3. CatchingHolds'
    BY DEF CatchingHolds, TypeOK, LockStale
  <2>4. DeadIsDead'
    BY DEF DeadIsDead, TypeOK, LockStale
  <2>5. NoFutureRecord'
    BY DEF NoFutureRecord, TypeOK, LockStale
  <2>6. Unwritten'
    BY DEF Unwritten, TypeOK, Rec, LockStale
  <2>7. SingleCopy'
    BY DEF SingleCopy, TypeOK, LockStale
  <2>8. TakenIsGone'
    BY DEF TakenIsGone, TypeOK, LockStale
  <2>9. AtMostOneTakeover'
    BY DEF AtMostOneTakeover, TypeOK, LockStale
  <2>10. HolderAccounted'
    BY DEF HolderAccounted, TypeOK, Rec, Holders, LockStale
  <2> QED
    BY <2>1, <2>2, <2>3, <2>4, <2>5, <2>6, <2>7, <2>8, <2>9, <2>10
<1>5. ASSUME NEW p \in Pid, CaptureEntry(p) PROVE IInv'
  <2> USE <1>5, <1>r DEF CaptureEntry, IInv
  <2>1. TypeOK'
    BY DEF TypeOK, NextTurn, TurnsLeft
  <2>2. TurnsLeft'
    BY AttemptsAssumption DEF TurnsLeft, TypeOK, NextTurn
  <2>3. CatchingHolds'
    BY DEF CatchingHolds, TypeOK, NextTurn
  <2>4. DeadIsDead'
    BY DEF DeadIsDead, TypeOK, NextTurn
  <2>5. NoFutureRecord'
    BY DEF NoFutureRecord, TypeOK, NextTurn
  <2>6. Unwritten'
    BY DEF Unwritten, TypeOK, NextTurn, Rec
  <2>7. SingleCopy'
    BY DEF SingleCopy, TypeOK, NextTurn, CatchingHolds
  <2>8. TakenIsGone'
    BY DEF TakenIsGone, TypeOK, NextTurn, CatchingHolds
  <2>9. AtMostOneTakeover'
    BY DEF AtMostOneTakeover, TypeOK, NextTurn
  <2>10. HolderAccounted'
    BY DEF HolderAccounted, TypeOK, NextTurn, Rec, Holders
  <2> QED
    BY <2>1, <2>2, <2>3, <2>4, <2>5, <2>6, <2>7, <2>8, <2>9, <2>10
<1>6. ASSUME NEW p \in Pid, InspectCaptured(p) PROVE IInv'
  <2> USE <1>6, <1>r DEF InspectCaptured, IInv
  <2>1. TypeOK'
    BY DEF TypeOK, LockStale, CatchingHolds
  <2>2. TurnsLeft'
    BY AttemptsAssumption DEF TurnsLeft, TypeOK, LockStale
  <2>3. CatchingHolds'
    BY DEF CatchingHolds, TypeOK, LockStale
  <2>4. DeadIsDead'
    BY DEF DeadIsDead, TypeOK, LockStale
  <2>5. NoFutureRecord'
    BY DEF NoFutureRecord, TypeOK, LockStale, CatchingHolds
  <2>6. Unwritten'
    BY DEF Unwritten, TypeOK, Rec, LockStale
  <2>7. SingleCopy'
    BY DEF SingleCopy, TypeOK, LockStale
  <2>8. TakenIsGone'
    BY DEF TakenIsGone, TypeOK, LockStale, SingleCopy, CatchingHolds
  <2>9. AtMostOneTakeover'
    BY DEF AtMostOneTakeover, TypeOK, LockStale, TakenIsGone
  <2>10. HolderAccounted'
    BY DEF HolderAccounted, TypeOK, Rec, Holders, LockStale, DeadIsDead
  <2> QED
    BY <2>1, <2>2, <2>3, <2>4, <2>5, <2>6, <2>7, <2>8, <2>9, <2>10
<1>7. ASSUME NEW p \in Pid, HandBack(p) PROVE IInv'
  <2> USE <1>7, <1>r DEF HandBack, IInv
  <2>1. TypeOK'
    BY DEF TypeOK, CatchingHolds
  <2>2. TurnsLeft'
    BY AttemptsAssumption DEF TurnsLeft, TypeOK
  <2>3. CatchingHolds'
    BY DEF CatchingHolds, TypeOK
  <2>4. DeadIsDead'
    BY DEF DeadIsDead, TypeOK
  <2>5. NoFutureRecord'
    BY DEF NoFutureRecord, TypeOK
  <2>6. Unwritten'
    BY DEF Unwritten, TypeOK, Rec
  <2>7. SingleCopy'
    BY DEF SingleCopy, TypeOK, CatchingHolds
  <2>8. TakenIsGone'
    BY DEF TakenIsGone, TypeOK
  <2>9. AtMostOneTakeover'
    BY DEF AtMostOneTakeover, TypeOK
  <2>10. HolderAccounted'
    BY DEF HolderAccounted, TypeOK, Rec, Holders
  <2> QED
    BY <2>1, <2>2, <2>3, <2>4, <2>5, <2>6, <2>7, <2>8, <2>9, <2>10
<1>8. ASSUME NEW p \in Pid, DiscardAside(p) PROVE IInv'
  <2> USE <1>8, <1>r DEF DiscardAside, IInv
  <2>1. TypeOK'
    BY DEF TypeOK, NextTurn, TurnsLeft
  <2>2. TurnsLeft'
    BY AttemptsAssumption DEF TurnsLeft, TypeOK, NextTurn
  <2>3. CatchingHolds'
    BY DEF CatchingHolds, TypeOK, NextTurn
  <2>4. DeadIsDead'
    BY DEF DeadIsDead, TypeOK, NextTurn
  <2>5. NoFutureRecord'
    BY DEF NoFutureRecord, TypeOK, NextTurn
  <2>6. Unwritten'
    BY DEF Unwritten, TypeOK, NextTurn, Rec
  <2>7. SingleCopy'
    BY DEF SingleCopy, TypeOK, NextTurn
  <2>8. TakenIsGone'
    BY DEF TakenIsGone, TypeOK, NextTurn
  <2>9. AtMostOneTakeover'
    BY DEF AtMostOneTakeover, TypeOK, NextTurn
  <2>10. HolderAccounted'
    BY DEF HolderAccounted, TypeOK, NextTurn, Rec, Holders
  <2> QED
    BY <2>1, <2>2, <2>3, <2>4, <2>5, <2>6, <2>7, <2>8, <2>9, <2>10
<1>9. ASSUME NEW p \in Pid, AssertFails(p) PROVE IInv'
  <2> USE <1>9, <1>r DEF AssertFails, IInv
  <2>1. TypeOK'
    BY DEF TypeOK
  <2>2. TurnsLeft'
    BY AttemptsAssumption DEF TurnsLeft, TypeOK
  <2>3. CatchingHolds'
    BY DEF CatchingHolds, TypeOK
  <2>4. DeadIsDead'
    BY DEF DeadIsDead, TypeOK
  <2>5. NoFutureRecord'
    BY DEF NoFutureRecord, TypeOK
  <2>6. Unwritten'
    BY DEF Unwritten, TypeOK, Rec
  <2>7. SingleCopy'
    BY DEF SingleCopy, TypeOK
  <2>8. TakenIsGone'
    BY DEF TakenIsGone, TypeOK
  <2>9. AtMostOneTakeover'
    BY DEF AtMostOneTakeover, TypeOK
  <2>10. HolderAccounted'
    BY DEF HolderAccounted, TypeOK, Rec, Holders
  <2> QED
    BY <2>1, <2>2, <2>3, <2>4, <2>5, <2>6, <2>7, <2>8, <2>9, <2>10
<1>10. ASSUME NEW p \in Pid, ReleaseCheck(p) PROVE IInv'
  <2> USE <1>10, <1>r DEF ReleaseCheck, IInv
  <2>1. TypeOK'
    BY DEF TypeOK
  <2>2. TurnsLeft'
    BY AttemptsAssumption DEF TurnsLeft, TypeOK
  <2>3. CatchingHolds'
    BY DEF CatchingHolds, TypeOK
  <2>4. DeadIsDead'
    BY DEF DeadIsDead, TypeOK
  <2>5. NoFutureRecord'
    BY DEF NoFutureRecord, TypeOK
  <2>6. Unwritten'
    BY DEF Unwritten, TypeOK, Rec
  <2>7. SingleCopy'
    BY DEF SingleCopy, TypeOK
  <2>8. TakenIsGone'
    BY DEF TakenIsGone, TypeOK
  <2>9. AtMostOneTakeover'
    BY DEF AtMostOneTakeover, TypeOK
  <2>10. HolderAccounted'
    BY DEF HolderAccounted, TypeOK, Rec, Holders
  <2> QED
    BY <2>1, <2>2, <2>3, <2>4, <2>5, <2>6, <2>7, <2>8, <2>9, <2>10
<1>11. ASSUME NEW p \in Pid, ReleaseUnlink(p) PROVE IInv'
  <2> USE <1>11, <1>r DEF ReleaseUnlink, IInv
  <2>1. TypeOK'
    BY DEF TypeOK
  <2>2. TurnsLeft'
    BY AttemptsAssumption DEF TurnsLeft, TypeOK
  <2>3. CatchingHolds'
    BY DEF CatchingHolds, TypeOK
  <2>4. DeadIsDead'
    BY DEF DeadIsDead, TypeOK
  <2>5. NoFutureRecord'
    BY DEF NoFutureRecord, TypeOK
  <2>6. Unwritten'
    BY DEF Unwritten, TypeOK, Rec
  <2>7. SingleCopy'
    BY DEF SingleCopy, TypeOK, CatchingHolds
  <2>8. TakenIsGone'
    BY DEF TakenIsGone, TypeOK, CatchingHolds
  <2>9. AtMostOneTakeover'
    BY DEF AtMostOneTakeover, TypeOK
  <2>10. HolderAccounted'
    BY DEF HolderAccounted, TypeOK, Rec, Holders
  <2> QED
    BY <2>1, <2>2, <2>3, <2>4, <2>5, <2>6, <2>7, <2>8, <2>9, <2>10
<1>12. ASSUME NEW p \in Pid, Crash(p) PROVE IInv'
  <2> USE <1>12, <1>r DEF Crash, IInv
  <2>1. TypeOK'
    BY DEF TypeOK, CatchingHolds
  <2>2. TurnsLeft'
    BY AttemptsAssumption DEF TurnsLeft, TypeOK
  <2>3. CatchingHolds'
    BY DEF CatchingHolds, TypeOK
  <2>4. DeadIsDead'
    BY DEF DeadIsDead, TypeOK
  <2>5. NoFutureRecord'
    BY DEF NoFutureRecord, TypeOK
  <2>6. Unwritten'
    BY DEF Unwritten, TypeOK, Rec
  <2>7. SingleCopy'
    BY DEF SingleCopy, TypeOK
  <2>8. TakenIsGone'
    BY DEF TakenIsGone, TypeOK
  <2>9. AtMostOneTakeover'
    BY DEF AtMostOneTakeover, TypeOK
  <2>10. HolderAccounted'
    BY DEF HolderAccounted, TypeOK, Rec, Holders
  <2> QED
    BY <2>1, <2>2, <2>3, <2>4, <2>5, <2>6, <2>7, <2>8, <2>9, <2>10
<1>13. ASSUME NEW p \in Pid, Restart(p) PROVE IInv'
  <2> USE <1>13, <1>r DEF Restart, IInv
  <2>1. TypeOK'
    BY DEF TypeOK
  <2>2. TurnsLeft'
    BY AttemptsAssumption DEF TurnsLeft, TypeOK
  <2>3. CatchingHolds'
    BY DEF CatchingHolds, TypeOK
  <2>4. DeadIsDead'
    BY DEF DeadIsDead, TypeOK
  <2>5. NoFutureRecord'
    BY DEF NoFutureRecord, TypeOK, Record
  <2>6. Unwritten'
    BY DEF Unwritten, TypeOK, Rec, NoFutureRecord, DeadIsDead, Record
  <2>7. SingleCopy'
    BY DEF SingleCopy, TypeOK
  <2>8. TakenIsGone'
    BY DEF TakenIsGone, TypeOK
  <2>9. AtMostOneTakeover'
    BY DEF AtMostOneTakeover, TypeOK
  <2>10. HolderAccounted'
    BY DEF HolderAccounted, TypeOK, Rec, Holders, DeadIsDead, NoFutureRecord
  <2> QED
    BY <2>1, <2>2, <2>3, <2>4, <2>5, <2>6, <2>7, <2>8, <2>9, <2>10
<1> QED
  BY <1>s, <1>1, <1>2, <1>3, <1>4, <1>5, <1>6, <1>7, <1>8, <1>9, <1>10, <1>11, <1>12, <1>13 DEF Next, AcquireStep

\* The invariant holds in every reachable state.
THEOREM Invariance == Spec => []IInv
  BY InitIInv, NextIInv, PTL DEF Spec

\* Types, for every number of contenders and attempts.
THEOREM TypeCorrect == Spec => []TypeOK
<1>1. IInv => TypeOK
  BY DEF IInv
<1> QED
  BY <1>1, Invariance, PTL

\* `at most one takeover can ever observe a captured lock as stale': a dead
\* controller's record is taken over by at most one contender.
THEOREM OneTakeover == Spec => []AtMostOneTakeover
<1>1. IInv => AtMostOneTakeover
  BY DEF IInv
<1> QED
  BY <1>1, Invariance, PTL

\* A live controller never loses the entry to a takeover: only to one of the
\* windows in `displaced'.
THEOREM HoldersAreAccounted == Spec => []HolderAccounted
<1>1. IInv => HolderAccounted
  BY DEF IInv
<1> QED
  BY <1>1, Invariance, PTL
=============================================================================
