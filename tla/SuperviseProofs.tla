--------------------------- MODULE SuperviseProofs --------------------------
(***************************************************************************)
(* What Supervise guarantees for every set of controllers, every limit and *)
(* every number of deaths, freezes and operator's commands.                *)
(*                                                                         *)
(* A cancel stands because the lock is one: a controller past its start    *)
(* holds it, the command holds it from its marks to its end, and after     *)
(* that the run ref is gone.  The relaunches are bounded because nobody    *)
(* but the supervisor writes the guard's two numbers: between the judgment *)
(* and the record, the count it will write is one more than what the file  *)
(* grants, unless lastProgressAt has moved, and then the file's own count  *)
(* is of before the move.                                                  *)
(***************************************************************************)
EXTENDS Supervise, TLAPS

\* A controller past its start: it holds the lock.
Held == {"locked", "resumed", "ready", "up", "frozen"}

Locks ==
  /\ \A c \in Ctl : at[c] \in Held => lock = c
  /\ cancel \in {"mark", "release"} <=> lock = Canceler

\* From its marks on a cancel finds the run settled, and leaves it so.
Stands ==
  /\ cancel \in {"release", "over"} => Settled
  /\ cancel = "over" => \A c \in Ctl : at[c] \in {"gone", "boot", "locked"}

\* What run.json grants of the launches since lastProgressAt last moved.
Granted == IF meta.mark = beat.progress THEN meta.count ELSE 0

Judged == sup \in {"kill", "launch", "wait", "persist"}

\* The guard in the file is of no later progress than there was.
Guard ==
  /\ meta.mark = Unmarked => meta.count = 0
  /\ meta.mark # Unmarked => meta.mark <= beat.progress
  /\ sup = "anchor" => seen.count = meta.count /\ seen.mark = meta.mark
  /\ Judged => /\ seen.mark <= beat.progress
               /\ meta.mark # Unmarked => meta.mark <= seen.mark
               /\ seen.mark = beat.progress => seen.count = Granted + 1

\* A launch that came up is granted by the file, about to be, or never recorded.
Launches ==
  fruitless <= Granted + unrecorded
                 + (IF sup = "persist" /\ seen.mark = beat.progress THEN 1 ELSE 0)

IInv ==
  /\ TypeOK /\ unrecorded <= trouble
  /\ Locks /\ Stands /\ Guard /\ Launches

USE GuardAssumption, BoundAssumption, NoCtlAssumption
-----------------------------------------------------------------------------
(* Processes, the lock and the nodes.                                      *)

\* A new process takes a name nothing has.
LEMMA SpawnIsFree ==
  ASSUME NEW c \in Ctl, Spawn(c)
  PROVE  at[c] = "gone" /\ c # child /\ at' = [at EXCEPT ![c] = "boot"]
<1>1. c \in Free
  BY Zenon DEF Spawn
<1> QED
  BY <1>1 DEF Free, Spawn, Becomes

\* A controller that is killed leaves, and with it the lock.
LEMMA KilledLeaves ==
  ASSUME TypeOK, NEW c \in Ctl, Killed(c)
  PROVE  /\ at' \in [Ctl -> At] /\ at'[c] = "gone"
         /\ \A d \in Ctl : d # c => at'[d] = at[d]
         /\ changed' \in [Ctl -> BOOLEAN]
         /\ lock' = NoCtl /\ work' \in Work /\ (Settled => work' = work)
<1>1. at' \in [Ctl -> At] /\ at'[c] = "gone" /\ \A d \in Ctl : d # c => at'[d] = at[d]
  BY DEF Killed, Becomes, TypeOK, At
<1>2. changed' \in [Ctl -> BOOLEAN]
  BY Zenon DEF Killed, TypeOK
<1>3. work' \in Work /\ (Settled => work' = work)
  BY DEF Killed, TypeOK, Work
<1> QED
  BY <1>1, <1>2, <1>3 DEF Killed

LEMMA InitInv == Init => IInv
<1> SUFFICES ASSUME Init PROVE IInv
  OBVIOUS
<1>1. Blank \in Meta
  BY DEF Blank, Meta, Unmarked
<1>2. beat \in [progress : 0..MaxProgress, breach : BOOLEAN]
  BY DEF Init
<1>3. 0 \in 0..MaxFailures /\ 0 \in 0..MaxTrouble
  OBVIOUS
<1>4. TypeOK
  BY <1>1, <1>2, <1>3 DEF Init, TypeOK, Work, At, Sup, Cancel
<1>5. Locks /\ Stands
  BY DEF Init, Locks, Stands, Held
<1>6. Guard /\ Launches
  BY DEF Init, Guard, Launches, Judged, Granted, Blank, Unmarked
<1> QED
  BY <1>4, <1>5, <1>6 DEF IInv, Init

\* Nobody but the supervisor and the progress report touches the guard.
LEMMA GuardKept ==
  ASSUME Guard, Launches,
         meta'.count = meta.count, meta'.mark = meta.mark, beat'.progress = beat.progress,
         UNCHANGED <<sup, seen, fruitless, unrecorded>>
  PROVE  Guard' /\ Launches'
  BY DEF Guard, Launches, Judged, Granted

\* Only processes that come and go touch the lock and the nodes.
LEMMA LocksKept ==
  ASSUME Locks, Stands, UNCHANGED <<lock, at, cancel, work>>
  PROVE  Locks' /\ Stands'
  BY DEF Locks, Stands, Settled
-----------------------------------------------------------------------------
(* The controllers.                                                        *)

CtlNext(c) == CtlStep(c) \/ Progress(c) \/ OperatorResume(c) \/ Die(c) \/ Freeze(c)

LEMMA CtlTypes == ASSUME IInv, NEW c \in Ctl, CtlNext(c) PROVE TypeOK' /\ unrecorded' <= trouble'
<1> USE DEF IInv, TypeOK, UNCHANGED_Sup, UNCHANGED_Cancel, Becomes
<1>1. CASE Boot(c)
  BY <1>1 DEF Boot, At
<1>2. CASE RefuseResume(c)
  BY <1>2 DEF RefuseResume, At
<1>3. CASE ResumeNodes(c)
  <2>1. work' \in Work
    BY <1>3 DEF ResumeNodes, Work
  <2>2. changed' \in [Ctl -> BOOLEAN]
    BY <1>3, Zenon DEF ResumeNodes
  <2>3. beat' \in [progress : 0..MaxProgress, breach : BOOLEAN]
    BY <1>3 DEF ResumeNodes
  <2> QED
    BY <1>3, <2>1, <2>2, <2>3 DEF ResumeNodes, At
<1>4. CASE WriteMetadata(c)
  <2>1. meta' \in Meta
    BY <1>4 DEF WriteMetadata, Meta
  <2>2. changed' \in [Ctl -> BOOLEAN]
    BY <1>4, Zenon DEF WriteMetadata
  <2> QED
    BY <1>4, <2>1, <2>2 DEF WriteMetadata, At
<1>5. CASE BeatStarts(c)
  BY <1>5 DEF BeatStarts, At
<1>6. CASE Tick(c)
  <2>1. meta' \in Meta
    BY <1>6 DEF Tick, Meta
  <2> QED
    BY <1>6, <2>1 DEF Tick, Work
<1>7. CASE RunOver(c)
  BY <1>7 DEF RunOver, At
<1>8. CASE Progress(c)
  <2>1. beat.progress + 1 \in 0..MaxProgress
    BY <1>8 DEF Progress
  <2>2. beat' = [beat EXCEPT !.progress = @ + 1, !.breach = FALSE]
    BY <1>8 DEF Progress
  <2>3. beat' \in [progress : 0..MaxProgress, breach : BOOLEAN]
    BY <2>1, <2>2
  <2>4. UNCHANGED <<work, meta, lock, at, changed, sup, seen, child, fails, unrecorded, trouble,
                    request, cancel>> /\ fruitless' = 0
    BY <1>8, Zenon DEF Progress
  <2> QED
    BY <2>3, <2>4
<1>9. CASE OperatorResume(c)
  BY <1>9, SpawnIsFree DEF OperatorResume, At
<1>10. CASE Die(c)
  <2>1. changed' \in [Ctl -> BOOLEAN]
    BY <1>10, Zenon DEF Die
  <2> QED
    BY <1>10, <2>1 DEF Die, Released, At
<1>11. CASE Freeze(c)
  BY <1>11 DEF Freeze, At
<1> QED
  BY <1>1, <1>2, <1>3, <1>4, <1>5, <1>6, <1>7, <1>8, <1>9, <1>10, <1>11 DEF CtlNext, CtlStep

LEMMA CtlLocks == ASSUME IInv, NEW c \in Ctl, CtlNext(c) PROVE Locks' /\ Stands'
<1> USE DEF IInv, TypeOK, UNCHANGED_Sup, UNCHANGED_Cancel, Becomes, Locks, Held, Stands
<1>1. CASE Boot(c)
  BY <1>1 DEF Boot, LockAlive, Settled
<1>2. CASE RefuseResume(c)
  BY <1>2 DEF RefuseResume, Settled
<1>3. CASE ResumeNodes(c)
  <2>1. cancel \notin {"mark", "release", "over"}
    BY <1>3 DEF ResumeNodes, RunRefExists
  <2> QED
    BY <1>3, <2>1 DEF ResumeNodes
<1>4. CASE WriteMetadata(c)
  BY <1>4 DEF WriteMetadata, Settled
<1>5. CASE BeatStarts(c)
  BY <1>5 DEF BeatStarts, Settled
<1>6. CASE Tick(c)
  <2>1. cancel \notin {"mark", "release", "over"}
    BY <1>6 DEF Tick
  <2> QED
    BY <1>6, <2>1 DEF Tick
<1>7. CASE RunOver(c)
  BY <1>7 DEF RunOver, Settled
<1>8. CASE Progress(c)
  BY <1>8 DEF Progress, Settled
<1>9. CASE OperatorResume(c)
  BY <1>9, SpawnIsFree DEF OperatorResume, Settled
<1>10. CASE Die(c)
  BY <1>10 DEF Die, Released, Settled
<1>11. CASE Freeze(c)
  BY <1>11 DEF Freeze, Settled
<1> QED
  BY <1>1, <1>2, <1>3, <1>4, <1>5, <1>6, <1>7, <1>8, <1>9, <1>10, <1>11 DEF CtlNext, CtlStep

LEMMA CtlGuard == ASSUME IInv, NEW c \in Ctl, CtlNext(c) PROVE Guard' /\ Launches'
<1> USE DEF IInv, TypeOK, UNCHANGED_Sup, UNCHANGED_Cancel
<1>1. CASE Progress(c)
  <2>1. beat'.progress = beat.progress + 1 /\ beat.progress \in 0..MaxProgress
        /\ beat.progress < MaxProgress
    BY <1>1 DEF Progress
  <2>2. Guard'
    BY <1>1, <2>1 DEF Progress, Guard, Judged, Meta, Unmarked
  <2>3. Granted' \in Nat /\ fruitless' = 0
    BY <1>1, <2>1 DEF Progress, Granted, Meta
  <2> QED
    BY <1>1, <2>2, <2>3 DEF Progress, Launches
<1>2. CASE ~Progress(c)
  <2>1. meta'.count = meta.count /\ meta'.mark = meta.mark
    BY <1>2 DEF CtlNext, CtlStep, Boot, RefuseResume, ResumeNodes, WriteMetadata, BeatStarts, Tick,
                RunOver, OperatorResume, Die, Freeze, Meta
  <2>2. beat'.progress = beat.progress
    BY <1>2 DEF CtlNext, CtlStep, Boot, RefuseResume, ResumeNodes, WriteMetadata, BeatStarts, Tick,
                RunOver, OperatorResume, Die, Freeze
  <2>3. UNCHANGED <<sup, seen, fruitless, unrecorded>>
    BY <1>2 DEF CtlNext, CtlStep, Boot, RefuseResume, ResumeNodes, WriteMetadata, BeatStarts, Tick,
                RunOver, OperatorResume, Die, Freeze
  <2> QED
    BY <2>1, <2>2, <2>3, GuardKept
<1> QED
  BY <1>1, <1>2
-----------------------------------------------------------------------------
(* The command, and time.                                                  *)

CancelNext == CancelRequest \/ CancelStep \/ CancelDies \/ Overdue

LEMMA CancelKeeps == ASSUME IInv, CancelNext PROVE IInv'
<1> USE DEF IInv, TypeOK, UNCHANGED_Sup, UNCHANGED_Cancel, UNCHANGED_CancelEnv
<1>1. Guard' /\ Launches'
  <2>1. beat'.progress = beat.progress /\ meta' = meta
        /\ UNCHANGED <<sup, seen, fruitless, unrecorded>>
    BY DEF CancelNext, CancelRequest, CancelStep, CancelSignal, CancelAcquire, CancelNodes,
           CancelRelease, CancelDies, Overdue
  <2> QED
    BY <2>1, GuardKept
<1>2. CASE CancelRequest
  BY <1>1, <1>2 DEF CancelRequest, Cancel, Locks, Stands, Held, Settled
<1>3. CASE CancelSignal
  <2>1. CASE LockAlive
    <3>1. lock \in Ctl /\ Killed(lock)
      BY <1>3, <2>1 DEF CancelSignal, LockAlive, Locks
    <3>2. TypeOK' /\ unrecorded' <= trouble'
      BY <1>3, <3>1, KilledLeaves DEF CancelSignal, Cancel
    <3>3. Locks' /\ Stands'
      BY <1>3, <3>1, KilledLeaves DEF CancelSignal, Locks, Stands, Held
    <3> QED
      BY <1>1, <3>2, <3>3
  <2>2. CASE ~LockAlive
    BY <1>1, <1>3, <2>2 DEF CancelSignal, Cancel, Locks, Stands, Held
  <2> QED
    BY <2>1, <2>2
<1>4. CASE CancelAcquire
  <2>1. CASE LockAlive
    BY <1>1, <1>4, <2>1 DEF CancelAcquire, Cancel, Locks, Stands, Held
  <2>2. CASE ~LockAlive
    BY <1>1, <1>4, <2>2 DEF CancelAcquire, Cancel, Locks, Stands, Held, LockAlive
  <2> QED
    BY <2>1, <2>2
<1>5. CASE CancelNodes
  <2>1. lock = Canceler /\ \A c \in Ctl : at[c] \notin Held
    BY <1>5 DEF CancelNodes, Locks
  <2> QED
    BY <1>1, <1>5, <2>1 DEF CancelNodes, Cancel, Released, Work, Locks, Stands, Settled
<1>6. CASE CancelRelease
  <2>1. lock = Canceler /\ \A c \in Ctl : at[c] \in {"gone", "boot"}
    BY <1>6 DEF CancelRelease, Locks, Held, At
  <2> QED
    BY <1>1, <1>6, <2>1 DEF CancelRelease, Cancel, Released, Locks, Held, Stands, Settled
<1>7. CASE CancelDies
  BY <1>1, <1>7 DEF CancelDies, Cancel, Released, Locks, Stands, Held
<1>8. CASE Overdue
  <2>1. TypeOK' /\ unrecorded' <= trouble'
    BY <1>8 DEF Overdue
  <2> QED
    BY <1>1, <1>8, <2>1, LocksKept DEF Overdue
<1> QED
  BY <1>2, <1>3, <1>4, <1>5, <1>6, <1>7, <1>8 DEF CancelNext, CancelStep
-----------------------------------------------------------------------------
(* The supervisor.                                                         *)

\* A supervisor that leaves takes its count with it.
LEMMA EndsGuard ==
  ASSUME IInv, NEW label \in {"done", "stopped"}, Ends(label), beat' = beat,
         meta'.count = meta.count, meta'.mark = meta.mark
  PROVE  Guard' /\ Launches'
<1>1. meta.count \in Nat
  BY DEF IInv, TypeOK, Meta
<1> QED
  BY <1>1 DEF IInv, Ends, Goes, Guard, Launches, Judged, Granted

\* One that only moves between places where it has no judgment in hand, or
\* keeps the one it has, changes nothing of the account.
LEMMA GoesGuard ==
  ASSUME IInv, NEW label \in Sup \ {"anchor", "persist"}, Goes(label), sup # "persist",
         UNCHANGED <<meta, beat, fruitless, unrecorded>>,
         label \in {"kill", "launch", "wait"} => Judged /\ seen' = seen
  PROVE  Guard' /\ Launches'
  BY DEF IInv, Goes, Guard, Launches, Judged, Granted

LEMMA SupKeeps == ASSUME IInv, SupStep \/ SupRestart PROVE IInv'
<1> USE DEF IInv
<1>1. CASE SupLook
  <2>1. TypeOK' /\ unrecorded' <= trouble'
    BY <1>1 DEF SupLook, TypeOK, Ends, Goes, Sup, UNCHANGED_Run, UNCHANGED_Cancel
  <2>2. Locks' /\ Stands'
    BY <1>1, LocksKept DEF SupLook, UNCHANGED_Run, UNCHANGED_Cancel
  <2>3. Guard' /\ Launches'
    <3>1. CASE Ends("done")
      BY <1>1, <3>1, EndsGuard DEF SupLook, UNCHANGED_Run
    <3>2. CASE Goes(IF Settled THEN "anchorread" ELSE "judge") /\ UNCHANGED <<unrecorded, fruitless>>
      <4>1. sup' \in {"anchorread", "judge"} /\ sup = "look"
        BY <1>1, <3>2, Zenon DEF SupLook, Goes
      <4>2. UNCHANGED <<meta, beat, seen>>
        BY <1>1 DEF SupLook, UNCHANGED_Run
      <4> QED
        BY <3>2, <4>1, <4>2 DEF Guard, Launches, Judged, Granted
    <3> QED
      BY <1>1, <3>1, <3>2, Zenon DEF SupLook
  <2> QED
    BY <2>1, <2>2, <2>3
<1>2. CASE AnchorRead
  <2>1. TypeOK' /\ unrecorded' <= trouble'
    BY <1>2 DEF AnchorRead, TypeOK, Goes, Sup, UNCHANGED_Run, UNCHANGED_Cancel
  <2>2. Locks' /\ Stands'
    BY <1>2, LocksKept DEF AnchorRead, UNCHANGED_Run, UNCHANGED_Cancel
  <2>3. Guard' /\ Launches'
    BY <1>2 DEF AnchorRead, Goes, UNCHANGED_Run, Guard, Launches, Judged, Granted
  <2> QED
    BY <2>1, <2>2, <2>3
<1>3. CASE AnchorWrite
  <2>0. meta' \in Meta /\ meta'.count = meta.count /\ meta'.mark = meta.mark
    BY <1>3 DEF AnchorWrite, TypeOK, Meta, Guard
  <2>1. TypeOK' /\ unrecorded' <= trouble'
    <3>1. seen' \in Meta
      BY <1>3 DEF AnchorWrite, Blank, Meta, Unmarked
    <3> QED
      BY <1>3, <2>0, <3>1 DEF AnchorWrite, TypeOK, Goes, Sup, UNCHANGED_Run, UNCHANGED_Cancel
  <2>2. Locks' /\ Stands'
    BY <1>3, LocksKept DEF AnchorWrite, UNCHANGED_Run, UNCHANGED_Cancel
  <2>3. Guard' /\ Launches'
    BY <1>3, <2>0 DEF AnchorWrite, Goes, UNCHANGED_Run, Guard, Launches, Judged, Granted
  <2> QED
    BY <2>1, <2>2, <2>3
<1>4. CASE SupJudge
  <2>0. /\ meta \in Meta /\ beat.progress \in 0..MaxProgress
        /\ RelaunchCount \in 0..MaxRelaunches
        /\ RelaunchCount = Granted
    BY DEF TypeOK, Meta, RelaunchCount, Granted, Guard, Unmarked
  <2>1. \/ sup' \in {"look", "park"} /\ seen' = seen
        \/ /\ sup' \in {"kill", "launch"} /\ seen' = NextRelaunch /\ RelaunchCount < MaxRelaunches
    BY <1>4, <2>0 DEF SupJudge, Goes
  <2>2. RelaunchCount < MaxRelaunches =>
          /\ NextRelaunch \in Meta
          /\ NextRelaunch.count = Granted + 1 /\ NextRelaunch.mark = beat.progress
    <3>1. NextRelaunch = [meta EXCEPT !.count = RelaunchCount + 1, !.mark = beat.progress]
      BY DEF NextRelaunch
    <3>2. beat.progress \in 0..MaxProgress + 1
      BY <2>0
    <3>3. RelaunchCount < MaxRelaunches => RelaunchCount + 1 \in 0..MaxRelaunches
      BY <2>0
    <3> HIDE DEF NextRelaunch
    <3> QED
      BY <2>0, <3>1, <3>2, <3>3 DEF Meta
  <2>3. UNCHANGED <<meta, beat, fruitless, unrecorded>>
    BY <1>4 DEF SupJudge, UNCHANGED_Run
  <2>4. TypeOK' /\ unrecorded' <= trouble'
    BY <1>4, <2>1, <2>2 DEF SupJudge, TypeOK, Sup, UNCHANGED_Run, UNCHANGED_Cancel
  <2>5. Locks' /\ Stands'
    BY <1>4, LocksKept DEF SupJudge, UNCHANGED_Run, UNCHANGED_Cancel
  <2>6. Guard' /\ Launches'
    <3>1. sup = "judge"
      BY <1>4 DEF SupJudge
    <3> QED
      BY <2>0, <2>1, <2>2, <2>3, <3>1 DEF Guard, Launches, Judged, Granted
  <2> QED
    BY <2>4, <2>5, <2>6
<1>5. CASE ParkRun
  <2>0. meta' \in Meta /\ meta'.count = meta.count /\ meta'.mark = meta.mark
    BY <1>5 DEF ParkRun, TypeOK, Meta
  <2>1. TypeOK' /\ unrecorded' <= trouble'
    BY <1>5, <2>0 DEF ParkRun, TypeOK, Ends, Goes, Sup, UNCHANGED_Run, UNCHANGED_Cancel
  <2>2. Locks' /\ Stands'
    BY <1>5, LocksKept DEF ParkRun, UNCHANGED_Run, UNCHANGED_Cancel
  <2>3. Guard' /\ Launches'
    BY <1>5, <2>0, EndsGuard DEF ParkRun, UNCHANGED_Run
  <2> QED
    BY <2>1, <2>2, <2>3
<1>6. CASE Terminate
  <2>1. CASE lock \in Ctl /\ Killed(lock) /\ UNCHANGED cancel
    <3>1. TypeOK' /\ unrecorded' <= trouble'
      BY <1>6, <2>1, KilledLeaves DEF Terminate, TypeOK, Goes, Sup
    <3>2. Locks' /\ Stands'
      <4>1. lock # Canceler
        BY <2>1
      <4> QED
        BY <2>1, <4>1, KilledLeaves DEF Locks, Stands, Held, Settled
    <3> QED
      BY <1>6, <3>1, <3>2, GoesGuard DEF Terminate, Judged, Sup
  <2>2. CASE lock = Canceler /\ cancel' = "none" /\ lock' = NoCtl /\ UNCHANGED <<work, at, changed>>
    <3>1. TypeOK' /\ unrecorded' <= trouble'
      BY <1>6, <2>2 DEF Terminate, TypeOK, Goes, Sup, Cancel
    <3>2. Locks' /\ Stands'
      BY <2>2 DEF Locks, Stands, Held
    <3> QED
      BY <1>6, <3>1, <3>2, GoesGuard DEF Terminate, Judged, Sup
  <2>3. CASE ~LockAlive /\ UNCHANGED <<work, lock, at, changed, cancel>>
    <3>1. TypeOK' /\ unrecorded' <= trouble'
      BY <1>6, <2>3 DEF Terminate, TypeOK, Goes, Sup
    <3> QED
      BY <1>6, <2>3, <3>1, LocksKept, GoesGuard DEF Terminate, Judged, Sup
  <2> QED
    BY <1>6, <2>1, <2>2, <2>3 DEF Terminate
<1>7. CASE \E c \in Ctl : LaunchChild(c)
  <2>1. PICK c \in Ctl : LaunchChild(c)
    BY <1>7
  <2>2. at[c] = "gone" /\ at' = [at EXCEPT ![c] = "boot"]
    BY <2>1, SpawnIsFree DEF LaunchChild
  <2>3. TypeOK' /\ unrecorded' <= trouble'
    BY <2>1, <2>2 DEF LaunchChild, TypeOK, Goes, Sup, At, UNCHANGED_Cancel
  <2>4. Locks' /\ Stands'
    BY <2>1, <2>2 DEF LaunchChild, UNCHANGED_Cancel, TypeOK, Locks, Stands, Held, Settled
  <2>5. Guard' /\ Launches'
    BY <2>1, GoesGuard DEF LaunchChild, Judged, Sup
  <2> QED
    BY <2>3, <2>4, <2>5
<1>8. CASE ChildReady
  <2>0. fruitless \in Nat /\ unrecorded \in Nat
    BY DEF TypeOK
  <2>1. TypeOK' /\ unrecorded' <= trouble'
    BY <1>8, <2>0 DEF ChildReady, TypeOK, Goes, Sup, UNCHANGED_Run, UNCHANGED_Cancel
  <2>2. Locks' /\ Stands'
    BY <1>8, LocksKept DEF ChildReady, UNCHANGED_Run, UNCHANGED_Cancel
  <2>3. Guard'
    BY <1>8 DEF ChildReady, Goes, UNCHANGED_Run, Guard, Judged, Granted
  <2>4. Launches'
    <3>1. Granted \in Nat /\ Granted' = Granted
      BY <1>8 DEF ChildReady, UNCHANGED_Run, Granted, TypeOK, Meta
    <3> QED
      BY <1>8, <2>0, <3>1 DEF ChildReady, Goes, UNCHANGED_Run, Launches
  <2> QED
    BY <2>1, <2>2, <2>3, <2>4
<1>9. CASE ChildFailed
  <2>0. seen' \in Meta
    BY <1>9 DEF ChildFailed, Blank, Meta, Unmarked
  <2>1. TypeOK' /\ unrecorded' <= trouble'
    BY <1>9, <2>0 DEF ChildFailed, TypeOK, Ends, Goes, Sup, UNCHANGED_Run, UNCHANGED_Cancel
  <2>2. Locks' /\ Stands'
    BY <1>9, LocksKept DEF ChildFailed, UNCHANGED_Run, UNCHANGED_Cancel
  <2>3. Guard' /\ Launches'
    <3>1. CASE Ends("stopped")
      BY <1>9, <3>1, EndsGuard DEF ChildFailed, UNCHANGED_Run
    <3>2. CASE Goes("look") /\ UNCHANGED <<unrecorded, fruitless>>
      BY <1>9, <3>2, GoesGuard DEF ChildFailed, UNCHANGED_Run, Sup
    <3> QED
      BY <1>9, <3>1, <3>2 DEF ChildFailed
  <2> QED
    BY <2>1, <2>2, <2>3
<1>10. CASE PersistRelaunch
  <2>0. seen' \in Meta
    BY <1>10 DEF PersistRelaunch, Blank, Meta, Unmarked
  <2>1. TypeOK' /\ unrecorded' <= trouble'
    BY <1>10, <2>0 DEF PersistRelaunch, TypeOK, Goes, Sup, UNCHANGED_Run, UNCHANGED_Cancel
  <2>2. Locks' /\ Stands'
    BY <1>10, LocksKept DEF PersistRelaunch, UNCHANGED_Run, UNCHANGED_Cancel
  <2>3. /\ seen.count \in Nat /\ seen.mark \in Nat /\ meta.count \in Nat /\ meta.mark \in Nat
        /\ beat.progress \in 0..MaxProgress /\ fruitless \in Nat /\ unrecorded \in Nat
    BY DEF TypeOK, Meta
  <2>4. /\ meta' = seen /\ sup = "persist" /\ sup' = "look"
        /\ UNCHANGED <<beat, fruitless, unrecorded>>
    BY <1>10 DEF PersistRelaunch, Goes, UNCHANGED_Run
  <2>5. CASE seen.mark = beat.progress
    <3>1. Guard'
      BY <2>3, <2>4, <2>5 DEF Guard, Judged, Unmarked
    <3>2. Launches'
      BY <2>3, <2>4, <2>5 DEF Launches, Guard, Judged, Granted
    <3> QED
      BY <2>1, <2>2, <3>1, <3>2
  <2>6. CASE seen.mark # beat.progress
    <3>1. seen.mark < beat.progress /\ Granted = 0
      BY <2>3, <2>4, <2>6 DEF Guard, Judged, Granted, Unmarked
    <3>2. Guard'
      BY <2>3, <2>4, <3>1 DEF Guard, Judged, Unmarked
    <3>3. Launches'
      BY <2>3, <2>4, <2>6, <3>1 DEF Launches, Granted
    <3> QED
      BY <2>1, <2>2, <3>2, <3>3
  <2> QED
    BY <2>5, <2>6
<1>11. CASE SupRestart
  <2>0. seen' \in Meta
    BY <1>11 DEF SupRestart, Blank, Meta, Unmarked
  <2>1. TypeOK' /\ unrecorded' <= trouble'
    BY <1>11, <2>0 DEF SupRestart, TypeOK, Goes, Sup, UNCHANGED_Cancel
  <2>2. Locks' /\ Stands'
    BY <1>11, LocksKept DEF SupRestart, UNCHANGED_Cancel
  <2>3. Granted \in Nat /\ fruitless \in Nat /\ unrecorded \in Nat
    BY DEF TypeOK, Meta, Granted
  <2>4. Guard' /\ Launches'
    BY <1>11, <2>3 DEF SupRestart, Goes, Guard, Launches, Judged, Granted
  <2> QED
    BY <2>1, <2>2, <2>4
<1> QED
  BY <1>1, <1>2, <1>3, <1>4, <1>5, <1>6, <1>7, <1>8, <1>9, <1>10, <1>11 DEF SupStep
-----------------------------------------------------------------------------
LEMMA Invariant == Spec => []IInv
<1>1. IInv /\ UNCHANGED vars => IInv'
  <2> SUFFICES ASSUME IInv, UNCHANGED vars PROVE IInv'
    OBVIOUS
  <2>1. TypeOK' /\ unrecorded' <= trouble'
    BY DEF vars, IInv, TypeOK
  <2>2. Locks' /\ Stands'
    BY LocksKept DEF vars, IInv
  <2>3. Guard' /\ Launches'
    BY GuardKept DEF vars, IInv
  <2> QED
    BY <2>1, <2>2, <2>3 DEF IInv
<1>2. IInv /\ Next => IInv'
  <2> SUFFICES ASSUME IInv, Next PROVE IInv'
    OBVIOUS
  <2>1. CASE \E c \in Ctl : CtlNext(c)
    BY <2>1, CtlTypes, CtlLocks, CtlGuard DEF IInv
  <2> QED
    BY <2>1, CancelKeeps, SupKeeps, Zenon DEF Next, CtlNext, CancelNext
<1> QED
  BY <1>1, <1>2, InitInv, PTL DEF Spec

\* The records, the processes and the counts stay within what the code gives them.
THEOREM TypeCorrect == Spec => []TypeOK
<1>1. IInv => TypeOK
  BY DEF IInv
<1> QED
  BY <1>1, Invariant, PTL

\* For every limit, at most MAX_CONSECUTIVE_RELAUNCHES controllers come up
\* between two advances of lastProgressAt, and one more for each supervisor that
\* died between a launch and its record (supervise.mjs: nextRelaunch,
\* persistRelaunch), whatever else writes run.json meanwhile.
THEOREM RelaunchesAreBounded == Spec => []RelaunchBound
<1>1. IInv => RelaunchBound
  <2> SUFFICES ASSUME IInv PROVE RelaunchBound
    OBVIOUS
  <2>1. /\ meta.count \in 0..MaxRelaunches /\ seen.count \in 0..MaxRelaunches
        /\ fruitless \in Nat /\ unrecorded \in Nat
    BY DEF IInv, TypeOK, Meta
  <2>2. CASE sup = "persist" /\ seen.mark = beat.progress
    <3>1. seen.count = Granted + 1
      BY <2>2 DEF IInv, Guard, Judged
    <3>2. Granted \in Nat
      BY <2>1 DEF Granted
    <3> QED
      BY <2>1, <2>2, <3>1, <3>2 DEF IInv, Launches, RelaunchBound
  <2>3. CASE ~(sup = "persist" /\ seen.mark = beat.progress)
    BY <2>1, <2>3 DEF IInv, Launches, Granted, RelaunchBound
  <2> QED
    BY <2>2, <2>3
<1> QED
  BY <1>1, Invariant, PTL

\* A `cancel' that returned stands, for every number of controllers an operator
\* or the supervisor starts afterwards (cancel.mjs: cancelRun; resume.mjs refuses
\* a run whose integration ref is gone).
THEOREM CanceledStays == Spec => []CancelStands
<1>1. IInv => CancelStands
  BY DEF IInv, Stands, CancelStands
<1> QED
  BY <1>1, Invariant, PTL
=============================================================================
