--------------------------- MODULE ControllerLock ---------------------------
(***************************************************************************)
(* The controller lock of one run: src/src/run/lock.mjs.                   *)
(*                                                                         *)
(* `controller.lock' is one directory entry. A contender installs its own  *)
(* record with an exclusive hard link; when the entry is occupied it reads *)
(* the occupant, and if it proves the occupant dead it captures whatever   *)
(* the entry holds NOW with a rename, looks at what it caught, and either  *)
(* discards it (dead) or links it back (live). Every system call is one    *)
(* action, so two contenders interleave between any two of them, and a     *)
(* process may die between any two of its own.                             *)
(***************************************************************************)
EXTENDS Naturals, FiniteSets

CONSTANTS
  Pid,                \* process ids on this host; an id is reused over time
  MaxIncarnation,     \* bound: how many processes may own one pid
  MaxProcess,         \* bound: how many processes there are in all
  TakeoverAttempts,   \* TAKEOVER_ATTEMPTS (20 in the code)
  HasStartToken,      \* whether the platform yields a process start token
  NoLock              \* the absent directory entry

ASSUME IncarnationAssumption == MaxIncarnation \in Nat \ {0}
ASSUME ProcessAssumption == MaxProcess \in Nat
ASSUME AttemptsAssumption == TakeoverAttempts \in Nat \ {0}
ASSUME TokenAssumption == HasStartToken \in BOOLEAN

\* A lock record names a process: its pid and which owner of that pid it is.
\* Incarnation 0 is a controller that died before the modelled processes.
Record == [pid : Pid, inc : 0..MaxIncarnation]

ASSUME NoLockAssumption == NoLock \notin Record

VARIABLES
  alive,      \* alive[p]: pid p names a live process
  inc,        \* inc[p]: which process owns (or last owned) pid p
  pc,         \* pc[p]: where the owner of p is inside acquire or its handle
  tries,      \* tries[p]: turns of acquire's loop used, 0 outside the loop
  lock,       \* the entry controller.lock
  seen,       \* seen[p]: the occupant p read
  aside,      \* aside[p]: the record p captured, still on p's private name
  takeovers,  \* history: <<captured, by>> for each capture judged dead
  displaced   \* history: live holders whose entry was lost, not taken over

vars == <<alive, inc, pc, tries, lock, seen, aside, takeovers, displaced>>

\* The record acquire builds for the current owner of pid p.
Rec(p) == [pid |-> p, inc |-> inc[p]]

\* lockStale: an absent record, a dead pid, or another owner of the pid. With
\* no start token recorded a reused pid reads as still held.
LockStale(r) ==
  \/ r = NoLock
  \/ ~alive[r.pid]
  \/ HasStartToken /\ inc[r.pid] # r.inc

\* Where a process is still competing, holds a capture, or believes it holds.
Trying   == {"link", "read", "judge", "capture", "inspect", "handback", "discard"}
Catching == {"inspect", "handback"}
Holding  == {"held", "releasing"}
PC       == Trying \cup Holding \cup {"idle", "busy", "lost", "released", "dead"}

TypeOK ==
  /\ alive \in [Pid -> BOOLEAN]
  /\ inc \in [Pid -> 0..MaxIncarnation]
  /\ pc \in [Pid -> PC]
  /\ tries \in [Pid -> 0..TakeoverAttempts]
  /\ lock \in Record \cup {NoLock}
  /\ seen \in [Pid -> Record \cup {NoLock}]
  /\ aside \in [Pid -> Record \cup {NoLock}]
  /\ takeovers \in SUBSET (Record \X Record)
  /\ displaced \in SUBSET Record

\* A run directory as acquire may find it: no lock, or one left by a dead
\* controller whose pid has already been given to another process.
Init ==
  /\ alive = [p \in Pid |-> TRUE]
  /\ inc = [p \in Pid |-> 1]
  /\ pc = [p \in Pid |-> "idle"]
  /\ tries = [p \in Pid |-> 0]
  /\ lock \in {NoLock} \cup {[pid |-> p, inc |-> 0] : p \in Pid}
  /\ seen = [p \in Pid |-> NoLock]
  /\ aside = [p \in Pid |-> NoLock]
  /\ takeovers = {}
  /\ displaced = {}
-----------------------------------------------------------------------------
Goto(p, label) == pc' = [pc EXCEPT ![p] = label]

\* acquire is called: the record is built, the loop starts.
Acquire(p) ==
  /\ pc[p] = "idle"
  /\ Goto(p, "link")
  /\ UNCHANGED <<alive, inc, tries, lock, seen, aside, takeovers, displaced>>

\* Mutant: the loop has no attempt limit.
NextTurnUnbounded(p) ==
  /\ tries' = [tries EXCEPT ![p] = @ + 1]
  /\ Goto(p, "link")

\* The last conjunct of every turn of the loop: another turn, or LockBusyError
\* once TAKEOVER_ATTEMPTS turns did not settle it.
NextTurn(p) ==
  \/ /\ tries[p] + 1 < TakeoverAttempts
     /\ tries' = [tries EXCEPT ![p] = @ + 1]
     /\ Goto(p, "link")
  \/ /\ tries[p] + 1 = TakeoverAttempts
     /\ tries' = [tries EXCEPT ![p] = 0]
     /\ Goto(p, "busy")

\* writeExclusive: linkSync installs the record, or fails with EEXIST.
WriteExclusive(p) ==
  /\ pc[p] = "link"
  /\ \/ /\ lock = NoLock
        /\ lock' = Rec(p)
        /\ tries' = [tries EXCEPT ![p] = 0]
        /\ Goto(p, "held")
     \/ /\ lock # NoLock
        /\ Goto(p, "read")
        /\ UNCHANGED <<tries, lock>>
  /\ UNCHANGED <<alive, inc, seen, aside, takeovers, displaced>>

\* readLock: an entry that vanished meanwhile reads as null.
ReadLock(p) ==
  /\ pc[p] = "read"
  /\ seen' = [seen EXCEPT ![p] = lock]
  /\ Goto(p, "judge")
  /\ UNCHANGED <<alive, inc, tries, lock, aside, takeovers, displaced>>

\* lockStale(occupant): a live occupant ends acquire with LockBusyError.
JudgeOccupant(p) ==
  /\ pc[p] = "judge"
  /\ IF LockStale(seen[p])
       THEN Goto(p, "capture") /\ UNCHANGED tries
       ELSE Goto(p, "busy") /\ tries' = [tries EXCEPT ![p] = 0]
  /\ seen' = [seen EXCEPT ![p] = NoLock]
  /\ UNCHANGED <<alive, inc, lock, aside, takeovers, displaced>>

\* Mutant: the entry is read aside but not moved.
CaptureByCopy(p) ==
  /\ pc[p] = "capture"
  /\ aside' = [aside EXCEPT ![p] = lock]
  /\ IF lock # NoLock THEN Goto(p, "inspect") /\ UNCHANGED tries ELSE NextTurn(p)
  /\ UNCHANGED <<alive, inc, lock, seen, takeovers, displaced>>

\* captureEntry: rename takes whatever the entry holds now; ENOENT costs a turn.
CaptureEntry(p) ==
  /\ pc[p] = "capture"
  /\ \/ /\ lock # NoLock
        /\ aside' = [aside EXCEPT ![p] = lock]
        /\ lock' = NoLock
        /\ Goto(p, "inspect")
        /\ UNCHANGED tries
     \/ /\ lock = NoLock
        /\ NextTurn(p)
        /\ UNCHANGED <<lock, aside>>
  /\ UNCHANGED <<alive, inc, seen, takeovers, displaced>>

\* Mutant: the capture is discarded without the second lockStale.
InspectWithoutRecheck(p) ==
  /\ pc[p] = "inspect"
  /\ Goto(p, "discard")
  /\ takeovers' = takeovers \cup {<<aside[p], Rec(p)>>}
  /\ UNCHANGED <<alive, inc, tries, lock, seen, aside, displaced>>

\* readCapturedLock and lockStale(captured): a dead capture is a takeover.
InspectCaptured(p) ==
  /\ pc[p] = "inspect"
  /\ \/ /\ LockStale(aside[p])
        /\ takeovers' = takeovers \cup {<<aside[p], Rec(p)>>}
        /\ Goto(p, "discard")
     \/ /\ ~LockStale(aside[p])
        /\ Goto(p, "handback")
        /\ UNCHANGED takeovers
  /\ UNCHANGED <<alive, inc, tries, lock, seen, aside, displaced>>

\* linkSync(aside, path): the live record goes back, unless a third contender
\* installed itself while the entry was missing (EEXIST is ignored).
HandBack(p) ==
  /\ pc[p] = "handback"
  /\ \/ /\ lock = NoLock
        /\ lock' = aside[p]
        /\ UNCHANGED displaced
     \/ /\ lock # NoLock
        /\ displaced' = displaced \cup {aside[p]}
        /\ UNCHANGED lock
  /\ Goto(p, "discard")
  /\ UNCHANGED <<alive, inc, tries, seen, aside, takeovers>>

\* discardEntry(aside): the private name is unlinked and the turn ends.
DiscardAside(p) ==
  /\ pc[p] = "discard"
  /\ aside' = [aside EXCEPT ![p] = NoLock]
  /\ NextTurn(p)
  /\ UNCHANGED <<alive, inc, lock, seen, takeovers, displaced>>
-----------------------------------------------------------------------------
\* handle.held(): the entry still names this process.
Held(p) == lock = Rec(p)

\* Mutant: assert only notices an absent entry, not another's record.
AssertFailsWhenAbsent(p) ==
  /\ pc[p] = "held"
  /\ lock = NoLock
  /\ Goto(p, "lost")
  /\ UNCHANGED <<alive, inc, tries, lock, seen, aside, takeovers, displaced>>

\* handle.assert(), called on every tick and every write of the controller:
\* a holder that no longer owns the entry stops with LockLostError. (An
\* assert that passes changes nothing.)
AssertFails(p) ==
  /\ pc[p] = "held"
  /\ ~Held(p)
  /\ Goto(p, "lost")
  /\ UNCHANGED <<alive, inc, tries, lock, seen, aside, takeovers, displaced>>

\* handle.release(), first half: the held() check.
ReleaseCheck(p) ==
  /\ pc[p] = "held"
  /\ Goto(p, IF Held(p) THEN "releasing" ELSE "released")
  /\ UNCHANGED <<alive, inc, tries, lock, seen, aside, takeovers, displaced>>

\* handle.release(), second half: the unlink, by name. It removes whatever
\* the entry holds by then.
ReleaseUnlink(p) ==
  /\ pc[p] = "releasing"
  /\ lock' = NoLock
  /\ displaced' = displaced \cup ({lock} \ {NoLock, Rec(p)})
  /\ Goto(p, "released")
  /\ UNCHANGED <<alive, inc, tries, seen, aside, takeovers>>

\* The process dies anywhere. A capture it was holding stays under a private
\* name nobody reads: if that record was live, its holder lost the entry.
Crash(p) ==
  /\ alive[p]
  /\ alive' = [alive EXCEPT ![p] = FALSE]
  /\ displaced' = IF pc[p] \in Catching THEN displaced \cup {aside[p]} ELSE displaced
  /\ Goto(p, "dead")
  /\ aside' = [aside EXCEPT ![p] = NoLock]
  /\ seen' = [seen EXCEPT ![p] = NoLock]
  /\ tries' = [tries EXCEPT ![p] = 0]
  /\ UNCHANGED <<inc, lock, takeovers>>

\* The processes so far, the owners of recycled pids among them.
Processes == {r \in Record : r.inc \in 1..inc[r.pid]}

\* The operating system gives the pid to a new process.
Restart(p) ==
  /\ ~alive[p]
  /\ inc[p] < MaxIncarnation
  /\ Cardinality(Processes) < MaxProcess
  /\ alive' = [alive EXCEPT ![p] = TRUE]
  /\ inc' = [inc EXCEPT ![p] = @ + 1]
  /\ Goto(p, "idle")
  /\ UNCHANGED <<tries, lock, seen, aside, takeovers, displaced>>

\* One step of acquire's loop by the owner of pid p.
AcquireStep(p) ==
  \/ WriteExclusive(p)
  \/ ReadLock(p)
  \/ JudgeOccupant(p)
  \/ CaptureEntry(p)
  \/ InspectCaptured(p)
  \/ HandBack(p)
  \/ DiscardAside(p)

Next ==
  \E p \in Pid :
    \/ Acquire(p)
    \/ AcquireStep(p)
    \/ AssertFails(p)
    \/ ReleaseCheck(p)
    \/ ReleaseUnlink(p)
    \/ Crash(p)
    \/ Restart(p)

Spec == Init /\ [][Next]_vars

\* acquire is synchronous code: once entered it runs on. The controller
\* asserts the lock on every tick, so a displaced holder keeps being asked.
Fairness ==
  \A p \in Pid : WF_vars(AcquireStep(p)) /\ WF_vars(AssertFails(p))
                 /\ WF_vars(ReleaseUnlink(p))

FairSpec == Spec /\ Fairness
-----------------------------------------------------------------------------
\* Processes that believe they control the run.
Holders == {p \in Pid : pc[p] \in Holding}

\* `at most one takeover can ever observe a captured lock as stale'
\* (lock.mjs, header): a dead controller's record is taken over once, however
\* contenders, hand-backs and deaths interleave.
AtMostOneTakeover ==
  \A t1, t2 \in takeovers : t1[1] = t2[1] => t1 = t2

\* A live controller is never taken over: its record is in the entry, or in
\* the hands of a contender that has yet to look at it or hand it back, or it
\* was displaced in one of the windows `displaced' records (a hand-back that
\* met EEXIST, a contender that died holding it, an unlink by name).
HolderAccounted ==
  \A p \in Holders :
    \/ lock = Rec(p)
    \/ \E q \in Pid : pc[q] \in Catching /\ aside[q] = Rec(p)
    \/ Rec(p) \in displaced

\* Two controllers of one run never last: a displaced holder meets a failing
\* assert, so the run keeps coming back to at most one believer.
OneControllerAgain == []<>(Cardinality(Holders) <= 1)
=============================================================================
