----------------------------- MODULE WatchProofs -----------------------------
(***************************************************************************)
(* What Watch guarantees for every set of terminals, every length of the   *)
(* campaign and every number of watchers started and lost.                 *)
(*                                                                         *)
(* The lock names a watcher only while that watcher runs, so the record a  *)
(* new watcher finds is a running one's or stale.  A key is delivered out  *)
(* of the inbox it was put in by the same poll, and never put there twice; *)
(* this last part is one watcher's, and two of them can break it           *)
(* (OneWatcher does not hold of the code), so it is proved of one.         *)
(***************************************************************************)
EXTENDS Watch, TLAPS

Resting == {"stop", "runs", "idle", "progress", "down"}
Polling == {"poll", "append", "deliver", "anchor", "sleep"} \cup (Resting \ {"down"})
PCs == {"down", "open", "write", "inspect", "unlink"} \cup Polling

Local == [pc : PCs, next : Resting, key : Key, seen : SUBSET Key, at : Time,
          active : Time, since : Time \cup {NoTime}, first : BOOLEAN, busy : BOOLEAN,
          sig : State, receipt : BOOLEAN]

\* The campaign's part of the state.
WorldOK ==
  /\ now \in Time /\ run \in {"active", "dead", "over"} /\ state \in State
  /\ blocked \in BOOLEAN /\ closed \in BOOLEAN
  /\ moves \in 0 .. MaxMove /\ starts \in 0 .. MaxStart /\ crashes \in 0 .. MaxCrash

\* The files', the watchers' and the history's.
FilesOK ==
  /\ lock \in [by : Watcher \cup {"nobody", "dead"}, written : BOOLEAN]
  /\ inbox \subseteq Key /\ sent \subseteq Key /\ lost \subseteq Key
  /\ twice \in BOOLEAN /\ torn \in BOOLEAN /\ told \in BOOLEAN
  /\ episode \in Time \cup {NoTime} /\ anchor \in State \cup {NoState}
  /\ shown \in State \cup {NoState} /\ stretch \subseteq Time

LocalOK == w \in [Watcher -> Local]

\* A window is of the past: the watcher's clock is not ahead of the campaign's.
IsPast(k) == k[1] = "idle" => k[3] \in 1 .. now - k[2]
Windows ==
  /\ \A k \in inbox : IsPast(k)
  /\ \A i \in Watcher : IsPast(w[i].key) /\ w[i].at <= now

\* The lock names a watcher from the creation of the file to its own stop.
LockIsHeld ==
  /\ \A i \in Watcher : lock.by = i => w[i].pc \in {"write"} \cup Polling
  /\ lock.by = "nobody" => ~lock.written

\* A poll under way goes on with the poll.
Nexts == \A i \in Watcher : w[i].pc \in {"append", "deliver"} => w[i].next \in Polling

IInv == WorldOK /\ FilesOK /\ LocalOK /\ Windows /\ LockIsHeld /\ Nexts

\* The keys of the one watcher: recorded before delivered, delivered once.
Once ==
  /\ sent \subseteq inbox /\ ~twice
  /\ \A i \in Watcher :
       /\ w[i].pc = "append" => w[i].key \notin inbox
       /\ w[i].pc = "deliver" => w[i].key \in inbox /\ w[i].key \notin sent

USE WatcherAssumption, TimeAssumption, LimitAssumption
    DEF Time, State, NoTime, NoState, NoLock, Resting, Polling, PCs

\* The keys there are.
LEMMA Keys ==
  /\ {<<"closure">>, <<"decision">>, <<"stale">>} \subseteq Key
  /\ \A s, d \in Time : <<"idle", s, d>> \in Key
  /\ \A k \in Key : k[1] = "idle" => k[2] \in Time /\ k[3] \in Time
BY DEF Key

\* A process not yet started holds nothing.
LEMMA IdleIsLocal == Idle \in Local /\ Idle.pc = "down" /\ ~(Idle.key[1] = "idle") /\ Idle.at = 0
BY Keys DEF Idle, Local

\* The initial state satisfies both invariants.
LEMMA InitIInv == Init => IInv /\ Once
<1> SUFFICES ASSUME Init PROVE IInv /\ Once
  OBVIOUS
<1>1. LocalOK
  BY IdleIsLocal DEF Init, LocalOK
<1>2. WorldOK
  <2>1. /\ 0 \in Time /\ 0 \in State
        /\ 0 \in 0 .. MaxMove /\ 0 \in 0 .. MaxStart /\ 0 \in 0 .. MaxCrash
    OBVIOUS
  <2> QED
    BY <2>1 DEF Init, WorldOK
<1>3. FilesOK
  BY DEF Init, FilesOK
<1>4. Windows /\ LockIsHeld /\ Nexts /\ Once
  BY IdleIsLocal DEF Init, Windows, IsPast, LockIsHeld, Nexts, Once
<1> QED
  BY <1>1, <1>2, <1>3, <1>4 DEF IInv

\* What announce leaves: a line to record, or nothing new.
LEMMA Announces ==
  ASSUME NEW i \in Watcher, NEW k \in Key, NEW next \in Resting \ {"down"}, NEW l \in Local,
         LocalOK, Announce(i, k, next, l)
  PROVE  \E m \in Local :
           /\ w' = [w EXCEPT ![i] = m] /\ UNCHANGED <<inbox, stretch, told>>
           /\ m.at = l.at
           /\ \/ m.pc = next /\ m.key = l.key
              \/ m.pc = "append" /\ m.key = k /\ k \notin inbox /\ m.next = next
<1>1. CASE k \in l.seen \cup inbox
  <2> DEFINE m == [l EXCEPT !.pc = next, !.seen = @ \cup {k}]
  <2>1. m \in Local /\ m.at = l.at /\ m.pc = next /\ m.key = l.key
    BY DEF Local
  <2> QED
    BY <1>1, <2>1 DEF Announce
<1>2. CASE k \notin l.seen \cup inbox
  <2> DEFINE m == [l EXCEPT !.pc = "append", !.next = next, !.key = k, !.seen = @ \cup {k}]
  <2>1. m \in Local /\ m.at = l.at /\ m.pc = "append" /\ m.key = k /\ m.next = next
    BY DEF Local
  <2> QED
    BY <1>2, <2>1 DEF Announce
<1> QED
  BY <1>1, <1>2

\* A step of one watcher that leaves the campaign, the lock and the clock.
LEMMA OwnStep ==
  ASSUME IInv, NEW i \in Watcher, NEW m \in Local, w' = [w EXCEPT ![i] = m],
         UNCHANGED <<world, starts, crashes, lock>>, FilesOK',
         w[i].pc \in Polling, m.pc \in Polling, m.at <= now,
         m.key[1] = "idle" => m.key[3] \in 1 .. now - m.key[2],
         m.pc \in {"append", "deliver"} => m.next \in Polling,
         inbox' \subseteq inbox \cup {w[i].key}
  PROVE  IInv'
<1>1. WorldOK' /\ LocalOK'
  BY DEF IInv, WorldOK, LocalOK, world
<1>2. Windows'
  BY DEF IInv, Windows, IsPast, LocalOK, world
<1>3. LockIsHeld' /\ Nexts'
  BY DEF IInv, LockIsHeld, LocalOK, Nexts
<1> QED
  BY <1>1, <1>2, <1>3 DEF IInv

\* Every step preserves the first invariant.
LEMMA NextIInv == IInv /\ [Next]_vars => IInv'
<1> SUFFICES ASSUME IInv, [Next]_vars PROVE IInv'
  OBVIOUS
<1> USE DEF To
<1>0. /\ WorldOK /\ FilesOK /\ LocalOK /\ Windows /\ LockIsHeld /\ Nexts
      /\ now \in Nat /\ MaxTime \in Nat
  BY DEF IInv, WorldOK
<1>s. CASE UNCHANGED vars
  BY <1>0, <1>s DEF vars, world, disk, seenBy, IInv, WorldOK, FilesOK, LocalOK, Windows, IsPast, LockIsHeld, Nexts
<1>1. CASE Tick
  <2>1. WorldOK' /\ FilesOK' /\ LocalOK' /\ LockIsHeld' /\ Nexts'
    BY <1>0, <1>1 DEF Tick, disk, seenBy, WorldOK, FilesOK, LocalOK, LockIsHeld, Nexts
  <2>2. \A k \in Key : IsPast(k) => IsPast(k)'
    BY <1>0, <1>1, Keys DEF Tick, IsPast
  <2>3. Windows'
    BY <1>0, <1>1, <2>2 DEF Tick, disk, Windows, IsPast, FilesOK, LocalOK, Local
  <2> QED
    BY <2>1, <2>3 DEF IInv
<1>2. CASE Move
  <2>0. blocked' \in BOOLEAN /\ closed' \in BOOLEAN
    BY <1>0, <1>2, Zenon DEF Move, WorldOK
  <2>1. WorldOK'
    BY <1>0, <1>2, <2>0 DEF Move, WorldOK
  <2>2. FilesOK'
    BY <1>0, <1>2 DEF Move, disk, FilesOK
  <2>3. LocalOK' /\ LockIsHeld' /\ Windows' /\ Nexts'
    BY <1>0, <1>2 DEF Move, disk, LocalOK, LockIsHeld, Windows, IsPast, Nexts
  <2> QED
    BY <2>1, <2>2, <2>3 DEF IInv
<1> USE DEF world, disk, seenBy, still, quiet
<1>3. ASSUME NEW i \in Watcher, Start(i) PROVE IInv'
  <2> DEFINE m == [Idle EXCEPT !.pc = "open", !.seen = inbox]
  <2>1. m \in Local /\ m.pc = "open" /\ m.key = Idle.key /\ m.at = 0
    BY <1>0, IdleIsLocal DEF Local, FilesOK
  <2>2. w' = [w EXCEPT ![i] = m] /\ UNCHANGED <<world, crashes, disk, seenBy>>
    BY <1>3 DEF Start
  <2>3. LocalOK' /\ WorldOK' /\ FilesOK'
    BY <1>0, <1>3, <2>1, <2>2 DEF Start, WorldOK, FilesOK, LocalOK
  <2>4. Windows'
    BY <1>0, <2>1, <2>2, IdleIsLocal DEF Windows, IsPast, LocalOK
  <2>5. LockIsHeld' /\ Nexts'
    BY <1>0, <1>3, <2>2, IdleIsLocal DEF Start, Nexts, LockIsHeld, LocalOK
  <2> QED
    BY <2>3, <2>4, <2>5 DEF IInv
<1>4. ASSUME NEW i \in Watcher, Crash(i) PROVE IInv'
  <2>1. WorldOK'
    BY <1>0, <1>4 DEF Crash, WorldOK
  <2>2. FilesOK'
    BY <1>0, <1>4 DEF Crash, FilesOK, LocalOK, Local
  <2>3. LocalOK'
    BY <1>0, <1>4, IdleIsLocal DEF Crash, LocalOK
  <2>4. Windows'
    BY <1>0, <1>4, IdleIsLocal DEF Crash, Windows, IsPast, LocalOK
  <2>5. LockIsHeld' /\ Nexts'
    BY <1>0, <1>4, IdleIsLocal DEF Crash, Nexts, LockIsHeld, LocalOK, FilesOK
  <2> QED
    BY <2>1, <2>2, <2>3, <2>4, <2>5 DEF IInv
<1>5. ASSUME NEW i \in Watcher, Open(i) \/ Write(i) \/ Inspect(i) \/ Unlink(i) \/ Stop(i) PROVE IInv'
  <2>1. WorldOK'
    BY <1>0, <1>5 DEF Open, Write, Inspect, Unlink, Stop, WorldOK
  <2>2. FilesOK'
    <3>1. lock' \in [by : Watcher \cup {"nobody", "dead"}, written : BOOLEAN]
      <4>1. lock' \in {lock, [lock EXCEPT !.written = TRUE], [by |-> i, written |-> FALSE], NoLock}
        BY <1>5 DEF Open, Write, Inspect, Unlink, Stop
      <4>2. [lock EXCEPT !.written = TRUE] \in [by : Watcher \cup {"nobody", "dead"}, written : BOOLEAN]
        BY <1>0 DEF FilesOK
      <4>3. /\ [by |-> i, written |-> FALSE] \in [by : Watcher \cup {"nobody", "dead"}, written : BOOLEAN]
            /\ [by |-> "nobody", written |-> FALSE] \in [by : Watcher \cup {"nobody", "dead"}, written : BOOLEAN]
        OBVIOUS
      <4> QED
        BY <1>0, <4>1, <4>2, <4>3 DEF FilesOK
    <3>2. UNCHANGED <<inbox, episode, anchor, seenBy>>
      BY <1>5 DEF Open, Write, Inspect, Unlink, Stop
    <3> QED
      BY <1>0, <3>1, <3>2 DEF FilesOK
  <2>3. PICK m \in Local : /\ w' = [w EXCEPT ![i] = m]
                           /\ m.pc \in {"down", "open", "write", "inspect", "unlink", "poll"}
                           /\ \/ m.key = w[i].key /\ m.at = w[i].at
                              \/ m.key = Idle.key /\ m.at = 0
    <3>1. w[i] \in Local /\ now \in Time
      BY <1>0 DEF LocalOK, WorldOK
    <3>2. CASE Stop(i)
      BY <3>2, IdleIsLocal DEF Stop
    <3>3. CASE Write(i)
      <4> DEFINE m == [w[i] EXCEPT !.pc = "poll", !.active = now]
      <4>1. m \in Local /\ m.pc = "poll" /\ m.key = w[i].key /\ m.at = w[i].at
        BY <3>1 DEF Local
      <4>2. w' = [w EXCEPT ![i] = m]
        BY <1>0, <3>3 DEF Write, LocalOK
      <4> QED
        BY <4>1, <4>2
    <3>4. CASE Open(i) \/ Inspect(i) \/ Unlink(i)
      <4>1. PICK p \in {"down", "open", "write", "inspect", "unlink"} :
              w' = [w EXCEPT ![i] = [w[i] EXCEPT !.pc = p]]
        BY <3>4 DEF Open, Inspect, Unlink
      <4> DEFINE m == [w[i] EXCEPT !.pc = p]
      <4>2. m \in Local /\ m.pc = p /\ m.key = w[i].key /\ m.at = w[i].at
        BY <3>1 DEF Local
      <4> QED
        BY <4>1, <4>2
    <3> QED
      BY <1>5, <3>2, <3>3, <3>4
  <2>4. LocalOK'
    BY <1>0, <2>3 DEF LocalOK
  <2>5. Windows'
    <3>1. UNCHANGED <<now, inbox>>
      BY <1>5 DEF Open, Write, Inspect, Unlink, Stop
    <3> QED
      BY <1>0, <2>3, <3>1, IdleIsLocal DEF Windows, IsPast, LocalOK
  <2>6. LockIsHeld'
    <3>1. CASE Open(i)
      <4>1. CASE lock = NoLock
        <5>1. /\ lock' = [by |-> i, written |-> FALSE] /\ w[i].pc = "open"
              /\ w' = [w EXCEPT ![i].pc = "write"]
          BY <3>1, <4>1 DEF Open
        <5>2. lock'.by = i /\ i # "nobody" /\ w'[i].pc = "write"
          BY <1>0, <5>1 DEF LocalOK, Local
        <5> QED
          BY <5>2 DEF LockIsHeld
      <4>2. CASE lock # NoLock
        <5>1. lock' = lock /\ w[i].pc = "open" /\ w' = [w EXCEPT ![i].pc = "inspect"]
          BY <3>1, <4>2 DEF Open
        <5> QED
          BY <1>0, <5>1 DEF LockIsHeld, LocalOK
      <4> QED
        BY <4>1, <4>2
    <3>2. CASE Write(i)
      BY <1>0, <3>2 DEF Write, LockIsHeld, LocalOK, FilesOK
    <3>3. CASE Inspect(i)
      BY <1>0, <3>3 DEF Inspect, LockIsHeld, LocalOK, FilesOK
    <3>4. CASE Unlink(i) \/ Stop(i)
      BY <1>0, <3>4 DEF Unlink, Stop, LockIsHeld
    <3> QED
      BY <1>5, <3>1, <3>2, <3>3, <3>4
  <2>7. Nexts'
    BY <1>0, <2>3 DEF Nexts, LocalOK
  <2> QED
    BY <2>1, <2>2, <2>4, <2>5, <2>6, <2>7 DEF IInv
<1>6. ASSUME NEW i \in Watcher, Poll(i) PROVE IInv'
  <2> DEFINE l == [w[i] EXCEPT !.at = now, !.sig = state, !.busy = FALSE]
  <2>0. w[i] \in Local /\ now \in Time /\ state \in State
    BY <1>0 DEF WorldOK, LocalOK
  <2>1. /\ w[i] \in Local /\ l \in Local /\ l.at = now /\ l.key = w[i].key
        /\ [l EXCEPT !.pc = "runs"] \in Local /\ [l EXCEPT !.pc = "runs"].pc = "runs"
        /\ [l EXCEPT !.pc = "runs"].at = now /\ [l EXCEPT !.pc = "runs"].key = w[i].key
    <3>1. l \in Local /\ l.at = now /\ l.key = w[i].key
      BY <2>0 DEF Local
    <3> HIDE DEF l
    <3> QED
      BY <2>0, <3>1 DEF Local
  <2>2. \E m \in Local :
          /\ w' = [w EXCEPT ![i] = m] /\ UNCHANGED <<inbox, stretch, told>>
          /\ m.at = now
          /\ \/ m.pc \in {"runs", "stop"} /\ m.key = w[i].key
             \/ m.pc = "append" /\ m.key \in {<<"closure">>, <<"decision">>} /\ m.next \in Polling
    <3>1. CASE closed
      <4>1. Announce(i, <<"closure">>, "stop", l)
        BY <1>6, <3>1, Zenon DEF Poll
      <4> HIDE DEF l
      <4> QED
        BY <1>0, <2>1, <4>1, Announces, Keys
    <3>2. CASE ~closed /\ blocked
      <4>1. Announce(i, <<"decision">>, "runs", l)
        BY <1>6, <3>2, Zenon DEF Poll
      <4> HIDE DEF l
      <4> QED
        BY <1>0, <2>1, <4>1, Announces, Keys
    <3>3. CASE ~closed /\ ~blocked
      BY <1>6, <2>1, <3>3 DEF Poll
    <3> QED
      BY <3>1, <3>2, <3>3
  <2>3. /\ UNCHANGED <<world, starts, crashes, disk, seenBy>> /\ w[i].pc = "poll"
    BY <1>6, <2>2 DEF Poll
  <2>4. FilesOK'
    BY <1>0, <2>3 DEF FilesOK
  <2>5. PICK m \in Local :
          /\ w' = [w EXCEPT ![i] = m] /\ UNCHANGED <<inbox, stretch, told>>
          /\ m.at = now
          /\ \/ m.pc \in {"runs", "stop"} /\ m.key = w[i].key
             \/ m.pc = "append" /\ m.key \in {<<"closure">>, <<"decision">>} /\ m.next \in Polling
    BY <2>2
  <2>6. \A k \in {<<"closure">>, <<"decision">>, <<"stale">>} : k[1] # "idle"
    OBVIOUS
  <2>7. m.key[1] = "idle" => m.key[3] \in 1 .. now - m.key[2]
    BY <1>0, <2>5, <2>6 DEF Windows, IsPast
  <2>8. m.pc \in Polling /\ m.at <= now /\ (m.pc \in {"append", "deliver"} => m.next \in Polling)
    BY <1>0, <2>5 DEF Windows
  <2> QED
    BY <2>3, <2>4, <2>5, <2>7, <2>8, OwnStep
<1>7. ASSUME NEW i \in Watcher, Append(i) PROVE IInv'
  <2> DEFINE m == [w[i] EXCEPT !.pc = "deliver"]
  <2>1. /\ m \in Local /\ m.key = w[i].key /\ m.at = w[i].at /\ m.pc = "deliver"
        /\ w[i].key \in Key
    BY <1>0 DEF LocalOK, Local
  <2>2. /\ w' = [w EXCEPT ![i] = m] /\ w[i].pc = "append"
        /\ UNCHANGED <<world, starts, crashes, lock, episode, anchor, sent, twice, lost, shown, torn>>
        /\ inbox' = inbox \cup {w[i].key}
    BY <1>7 DEF Append
  <2>3. FilesOK'
    <3>1. stretch' \subseteq Time
      BY <1>0, <1>7, <2>1, Keys DEF Append, FilesOK
    <3>2. told' \in BOOLEAN
      BY <1>7, Zenon DEF Append
    <3> QED
      BY <1>0, <2>1, <2>2, <3>1, <3>2 DEF FilesOK
  <2>4. m.next \in Polling
    BY <1>0, <2>2 DEF Nexts, LocalOK, Local
  <2>5. m.at <= now /\ (m.key[1] = "idle" => m.key[3] \in 1 .. now - m.key[2])
    BY <1>0, <2>1 DEF Windows, IsPast
  <2>6. /\ inbox' \subseteq inbox \cup {w[i].key} /\ w[i].pc \in Polling /\ m.pc \in Polling
    BY <2>1, <2>2
  <2>7. UNCHANGED <<world, starts, crashes, lock>>
    BY <2>2
  <2>8. m \in Local /\ w' = [w EXCEPT ![i] = m]
    BY <2>1, <2>2
  <2> HIDE DEF m
  <2> QED
    BY <1>0, <2>3, <2>4, <2>5, <2>6, <2>7, <2>8, OwnStep
<1>8. ASSUME NEW i \in Watcher, Deliver(i) PROVE IInv'
  <2> DEFINE m == [w[i] EXCEPT !.pc = w[i].next, !.key = Idle.key, !.next = Idle.next]
  <2>0. /\ w[i] \in Local /\ w[i].key \in Key
        /\ Idle.key \in Key /\ Idle.next = "down"
    BY <1>0, Keys DEF LocalOK, Local, Idle
  <2>1. /\ m \in Local /\ m.key = Idle.key /\ m.at = w[i].at /\ m.pc = w[i].next
        /\ w[i].key \in Key
    <3>1. m \in Local
      BY <2>0 DEF Local
    <3> QED
      BY <2>0, <3>1 DEF Local
  <2>2. /\ w' = [w EXCEPT ![i] = m] /\ w[i].pc = "deliver"
        /\ UNCHANGED <<world, starts, crashes, disk, lost, shown, torn, stretch, told>>
        /\ sent' = sent \cup {w[i].key}
    BY <1>8 DEF Deliver
  <2>3. FilesOK'
    <3>1. twice' \in BOOLEAN
      BY <1>8, Zenon DEF Deliver
    <3> QED
      BY <1>0, <2>1, <2>2, <3>1 DEF FilesOK
  <2>4. w[i].next \in Polling
    BY <1>0, <2>2 DEF Nexts
  <2>5. m.pc \notin {"append", "deliver"}
    BY <1>0, <2>1 DEF LocalOK, Local
  <2>6. m.at <= now /\ m.key[1] # "idle"
    BY <1>0, <2>1, IdleIsLocal DEF Windows
  <2>7. /\ inbox' \subseteq inbox \cup {w[i].key} /\ w[i].pc \in Polling /\ m.pc \in Polling
    BY <2>1, <2>2, <2>4 DEF disk
  <2>8. UNCHANGED <<world, starts, crashes, lock>>
    BY <2>2 DEF disk
  <2>9. m \in Local /\ w' = [w EXCEPT ![i] = m]
    BY <2>1, <2>2
  <2>10. m.key[1] = "idle" => m.key[3] \in 1 .. now - m.key[2]
    BY <2>6
  <2> HIDE DEF m
  <2> QED
    BY <1>0, <2>3, <2>5, <2>6, <2>7, <2>8, <2>9, <2>10, OwnStep
<1>9. ASSUME NEW i \in Watcher, Runs(i) PROVE IInv'
  <2> DEFINE l == [w[i] EXCEPT !.since = Resumed(w[i]), !.busy = run # "over"]
  <2>0. w[i] \in Local /\ Resumed(w[i]) \in Time \cup {NoTime} /\ (run # "over") \in BOOLEAN
    BY <1>0 DEF FilesOK, LocalOK, Local, Resumed
  <2>1. /\ l \in Local /\ l.at = w[i].at /\ l.key = w[i].key /\ l.first = w[i].first
        /\ [l EXCEPT !.pc = "idle"] \in Local /\ [l EXCEPT !.pc = "idle"].pc = "idle"
        /\ [l EXCEPT !.pc = "idle"].at = w[i].at /\ [l EXCEPT !.pc = "idle"].key = w[i].key
    <3>1. l \in Local /\ l.at = w[i].at /\ l.key = w[i].key /\ l.first = w[i].first
      BY <2>0 DEF Local
    <3> HIDE DEF l
    <3> QED
      BY <3>1 DEF Local
  <2>2. \E m \in Local :
          /\ w' = [w EXCEPT ![i] = m] /\ UNCHANGED <<inbox, stretch, told>>
          /\ m.at = w[i].at
          /\ \/ m.pc = "idle" /\ m.key = w[i].key
             \/ m.pc = "append" /\ m.key = <<"stale">> /\ m.next \in Polling
    <3>1. CASE run = "dead" /\ ~l.first
      <4>1. Announce(i, <<"stale">>, "idle", l)
        BY <1>9, <3>1, Zenon DEF Runs
      <4> HIDE DEF l
      <4> QED
        BY <1>0, <2>1, <4>1, Announces, Keys
    <3>2. CASE ~(run = "dead" /\ ~l.first)
      BY <1>9, <2>1, <3>2 DEF Runs
    <3> QED
      BY <3>1, <3>2
  <2>3. /\ UNCHANGED <<world, starts, crashes, disk, seenBy>> /\ w[i].pc = "runs"
    BY <1>9, <2>2 DEF Runs
  <2>4. FilesOK'
    BY <1>0, <2>3 DEF FilesOK
  <2>5. PICK m \in Local :
          /\ w' = [w EXCEPT ![i] = m] /\ UNCHANGED <<inbox, stretch, told>>
          /\ m.at = w[i].at
          /\ \/ m.pc = "idle" /\ m.key = w[i].key
             \/ m.pc = "append" /\ m.key = <<"stale">> /\ m.next \in Polling
    BY <2>2
  <2>6. \A k \in {<<"closure">>, <<"decision">>, <<"stale">>} : k[1] # "idle"
    OBVIOUS
  <2>7. m.key[1] = "idle" => m.key[3] \in 1 .. now - m.key[2]
    BY <1>0, <2>5, <2>6 DEF Windows, IsPast
  <2>8. m.pc \in Polling /\ m.at <= now /\ (m.pc \in {"append", "deliver"} => m.next \in Polling)
    BY <1>0, <2>5 DEF Windows
  <2> QED
    BY <2>3, <2>4, <2>5, <2>7, <2>8, OwnStep
<1>10. ASSUME NEW i \in Watcher, IdleClock(i) PROVE IInv'
  <2> DEFINE l == w[i]
             since == IF l.busy THEN NoTime ELSE IF l.since = NoTime THEN l.active ELSE l.since
             m == [l EXCEPT !.since = since, !.active = IF l.busy THEN l.at ELSE @]
  <2>0. l \in Local /\ since \in Time \cup {NoTime} /\ l.at \in Time
    BY <1>0 DEF LocalOK, Local
  <2>1. /\ m \in Local /\ m.at = l.at /\ m.key = l.key
        /\ [m EXCEPT !.pc = "progress"] \in Local /\ [m EXCEPT !.pc = "progress"].pc = "progress"
        /\ [m EXCEPT !.pc = "progress"].at = l.at /\ [m EXCEPT !.pc = "progress"].key = l.key
    <3>1. m \in Local /\ m.at = l.at /\ m.key = l.key
      <4>1. (IF l.busy THEN l.at ELSE l.active) \in Time
        BY <2>0 DEF Local
      <4> HIDE DEF since
      <4> QED
        BY <2>0, <4>1 DEF Local
    <3> HIDE DEF m
    <3> QED
      BY <3>1 DEF Local
  <2>2. \E q \in Local :
          /\ w' = [w EXCEPT ![i] = q] /\ UNCHANGED <<inbox, stretch, told>>
          /\ q.at = l.at
          /\ \/ q.pc = "progress" /\ q.key = l.key
             \/ q.pc = "append" /\ q.key \in Key /\ q.next \in Polling
                /\ (q.key[1] = "idle" => q.key[3] \in 1 .. now - q.key[2])
    <3>1. CASE Due(l, since)
      <4> DEFINE k == <<"idle", since, l.at - since>>
      <4>1. since \in Time /\ l.at > since /\ l.at <= now
        BY <1>0, <2>0, <3>1 DEF Due, Windows
      <4>2. l.at - since \in Time /\ l.at - since \in 1 .. now - since
        BY <1>0, <2>0, <4>1
      <4>3. k \in Key /\ k[2] = since /\ k[3] = l.at - since
        BY <4>1, <4>2, Keys
      <4>4. Announce(i, k, "progress", m)
        BY <1>10, <3>1 DEF IdleClock
      <4>a. LocalOK /\ "progress" \in Resting \ {"down"}
        BY <1>0
      <4>5. PICK p, c : p = m /\ c = k
        OBVIOUS
      <4>6. p \in Local /\ p.at = l.at /\ p.key = l.key
        BY <2>1, <4>5, Zenon
      <4>7. c \in Key /\ c[2] = since /\ c[3] = l.at - since
        BY <4>3, <4>5, Zenon
      <4>8. Announce(i, c, "progress", p)
        BY <4>4, <4>5, Zenon
      <4>9. \E q \in Local :
              /\ w' = [w EXCEPT ![i] = q] /\ UNCHANGED <<inbox, stretch, told>>
              /\ q.at = p.at
              /\ \/ q.pc = "progress" /\ q.key = p.key
                 \/ q.pc = "append" /\ q.key = c /\ c \notin inbox /\ q.next = "progress"
        BY <4>a, <4>6, <4>7, <4>8, Announces
      <4>10. c[3] \in 1 .. now - c[2]
        BY <4>2, <4>7, Zenon
      <4>11. PICK q \in Local :
              /\ w' = [w EXCEPT ![i] = q] /\ UNCHANGED <<inbox, stretch, told>>
              /\ q.at = p.at
              /\ \/ q.pc = "progress" /\ q.key = p.key
                 \/ q.pc = "append" /\ q.key = c /\ c \notin inbox /\ q.next = "progress"
        BY <4>9
      <4>12. q.at = l.at
        BY <4>6, <4>11, Zenon
      <4>13. CASE q.pc = "progress" /\ q.key = p.key
        BY <4>6, <4>11, <4>12, <4>13, Zenon
      <4>14. CASE q.pc = "append" /\ q.key = c /\ q.next = "progress"
        <5>1. q.key \in Key /\ q.key[3] \in 1 .. now - q.key[2]
          BY <4>7, <4>10, <4>14, Zenon
        <5>2. q.next \in Polling
          BY <4>14
        <5> QED
          BY <4>11, <4>12, <4>14, <5>1, <5>2, Zenon
      <4> QED
        BY <4>11, <4>13, <4>14, Zenon
    <3>2. CASE ~Due(l, since)
      BY <1>10, <2>1, <3>2 DEF IdleClock
    <3> QED
      BY <3>1, <3>2
  <2>3. /\ UNCHANGED <<world, starts, crashes, lock, inbox, anchor, seenBy>> /\ w[i].pc = "idle"
    BY <1>10, <2>2 DEF IdleClock
  <2>4. FilesOK'
    <3>1. episode' \in Time \cup {NoTime}
      BY <1>0, <1>10, <2>0 DEF IdleClock, FilesOK
    <3> QED
      BY <1>0, <2>3, <3>1 DEF FilesOK
  <2>5. PICK q \in Local :
          /\ w' = [w EXCEPT ![i] = q] /\ UNCHANGED <<inbox, stretch, told>>
          /\ q.at = l.at
          /\ \/ q.pc = "progress" /\ q.key = l.key
             \/ q.pc = "append" /\ q.key \in Key /\ q.next \in Polling
                /\ (q.key[1] = "idle" => q.key[3] \in 1 .. now - q.key[2])
    BY <2>2
  <2>6. \A k \in {<<"closure">>, <<"decision">>, <<"stale">>} : k[1] # "idle"
    OBVIOUS
  <2>7. q.key[1] = "idle" => q.key[3] \in 1 .. now - q.key[2]
    BY <1>0, <2>5, <2>6 DEF Windows, IsPast
  <2>8. q.pc \in Polling /\ q.at <= now /\ (q.pc \in {"append", "deliver"} => q.next \in Polling)
    BY <1>0, <2>5 DEF Windows
  <2> QED
    BY <2>3, <2>4, <2>5, <2>7, <2>8, OwnStep
<1>11. ASSUME NEW i \in Watcher, Progress(i) \/ Anchor(i) \/ Sleep(i) PROVE IInv'
  <2>0. w[i] \in Local /\ 0 \in Time /\ 0 \in State
    BY <1>0 DEF LocalOK
  <2>1. \E m \in Local :
          /\ w' = [w EXCEPT ![i] = m] /\ m.key = w[i].key /\ m.at \in {w[i].at, 0}
          /\ m.pc \in {"anchor", "sleep", "poll"}
    <3>0. \A p \in PCs :
            /\ [w[i] EXCEPT !.pc = p] \in Local /\ [w[i] EXCEPT !.pc = p].key = w[i].key
            /\ [w[i] EXCEPT !.pc = p].at = w[i].at /\ [w[i] EXCEPT !.pc = p].pc = p
      BY <2>0 DEF Local
    <3>1. \A p \in PCs, b \in BOOLEAN :
            /\ [w[i] EXCEPT !.pc = p, !.receipt = b] \in Local
            /\ [w[i] EXCEPT !.pc = p, !.receipt = b].key = w[i].key
            /\ [w[i] EXCEPT !.pc = p, !.receipt = b].at = w[i].at
            /\ [w[i] EXCEPT !.pc = p, !.receipt = b].pc = p
      <4> SUFFICES ASSUME NEW p \in PCs, NEW b \in BOOLEAN
                   PROVE  LET r == [w[i] EXCEPT !.pc = p, !.receipt = b] IN
                          r \in Local /\ r.key = w[i].key /\ r.at = w[i].at /\ r.pc = p
        OBVIOUS
      <4>1. [w[i] EXCEPT !.pc = p, !.receipt = b] \in Local
        BY <2>0 DEF Local
      <4>2. LET r == [w[i] EXCEPT !.pc = p, !.receipt = b] IN
            r.key = w[i].key /\ r.at = w[i].at /\ r.pc = p
        BY <2>0 DEF Local
      <4> QED
        BY <4>1, <4>2
    <3>2. CASE Progress(i)
      <4>1. \/ \E b \in BOOLEAN : w' = [w EXCEPT ![i].pc = "anchor", ![i].receipt = b]
            \/ w' = [w EXCEPT ![i].pc = "sleep"]
        BY <3>2 DEF Progress
      <4>2. CASE \E b \in BOOLEAN : w' = [w EXCEPT ![i].pc = "anchor", ![i].receipt = b]
        <5>1. PICK b \in BOOLEAN : w' = [w EXCEPT ![i] = [w[i] EXCEPT !.pc = "anchor", !.receipt = b]]
          BY <1>0, <4>2 DEF LocalOK
        <5> QED
          BY <3>1, <5>1
      <4>3. CASE w' = [w EXCEPT ![i].pc = "sleep"]
        <5>1. w' = [w EXCEPT ![i] = [w[i] EXCEPT !.pc = "sleep"]]
          BY <1>0, <4>3 DEF LocalOK
        <5> QED
          BY <3>0, <5>1
      <4> QED
        BY <4>1, <4>2, <4>3
    <3>3. CASE Anchor(i)
      <4>1. w' = [w EXCEPT ![i] = [w[i] EXCEPT !.pc = "sleep", !.receipt = FALSE]]
        BY <1>0, <3>3 DEF Anchor, LocalOK
      <4> QED
        BY <3>1, <4>1
    <3>4. CASE Sleep(i)
      <4> DEFINE m == [w[i] EXCEPT !.pc = "poll", !.first = FALSE, !.at = 0, !.sig = 0, !.busy = FALSE]
      <4>1. m \in Local /\ m.key = w[i].key /\ m.at = 0 /\ m.pc = "poll"
        BY <2>0 DEF Local
      <4>2. w' = [w EXCEPT ![i] = m]
        BY <3>4 DEF Sleep
      <4> QED
        BY <4>1, <4>2
    <3> QED
      BY <1>11, <3>2, <3>3, <3>4
  <2>2. /\ UNCHANGED <<world, starts, crashes, lock, inbox, episode, sent, twice, lost, stretch, told>>
        /\ w[i].pc \in {"progress", "anchor", "sleep"}
    BY <1>11 DEF Progress, Anchor, Sleep
  <2>3. FilesOK'
    <3>1. shown' \in State \cup {NoState} /\ anchor' \in State \cup {NoState} /\ torn' \in BOOLEAN
      BY <1>0, <1>11, <2>0 DEF Progress, Anchor, Sleep, FilesOK, Local
    <3> QED
      BY <1>0, <2>2, <3>1 DEF FilesOK
  <2>4. PICK m \in Local :
          /\ w' = [w EXCEPT ![i] = m] /\ m.key = w[i].key /\ m.at \in {w[i].at, 0}
          /\ m.pc \in {"anchor", "sleep", "poll"}
    BY <2>1
  <2>5. /\ m.key[1] = "idle" => m.key[3] \in 1 .. now - m.key[2]
        /\ m.at <= now
    BY <1>0, <2>4 DEF Windows, IsPast
  <2> QED
    BY <2>2, <2>3, <2>4, <2>5, OwnStep
<1> QED
  BY <1>s, <1>1, <1>2, <1>3, <1>4, <1>5, <1>6, <1>7, <1>8, <1>9, <1>10, <1>11 DEF Next, Step

\* Every step of the one watcher preserves the second.
LEMMA NextOnce ==
  ASSUME NEW a, Watcher = {a}
  PROVE  IInv /\ Once /\ [Next]_vars => Once'
<1> SUFFICES ASSUME IInv, Once, [Next]_vars PROVE Once'
  OBVIOUS
<1> USE DEF To, world, disk, seenBy, still, quiet
<1>0. /\ LocalOK /\ FilesOK /\ Once /\ WorldOK /\ w[a] \in Local /\ a \in Watcher
  BY DEF IInv, LocalOK
<1>s. CASE UNCHANGED vars
  BY <1>0, <1>s DEF vars, Once
<1>1. CASE Tick \/ Move
  <2>1. UNCHANGED <<w, inbox, sent, twice>>
    BY <1>1 DEF Tick, Move
  <2> QED
    BY <1>0, <2>1 DEF Once
<1>2. CASE Start(a) \/ Crash(a)
  <2>1. UNCHANGED <<inbox, sent, twice>>
    BY <1>2 DEF Start, Crash
  <2>2. w'[a].pc \in {"open", "down"}
    <3>1. CASE Start(a)
      <4>1. w'[a] = [Idle EXCEPT !.pc = "open", !.seen = inbox]
        BY <1>0, <3>1 DEF Start, LocalOK
      <4> QED
        BY <4>1 DEF Idle
    <3>2. CASE Crash(a)
      BY <1>0, <3>2, IdleIsLocal DEF Crash, LocalOK
    <3> QED
      BY <1>2, <3>1, <3>2
  <2> QED
    BY <1>0, <2>1, <2>2 DEF Once
<1>3. CASE Open(a) \/ Write(a) \/ Inspect(a) \/ Unlink(a) \/ Stop(a)
  <2>1. UNCHANGED <<inbox, sent, twice>>
    BY <1>3 DEF Open, Write, Inspect, Unlink, Stop
  <2>2. w'[a].pc \notin {"append", "deliver"}
    <3>1. CASE Open(a)
      BY <1>0, <3>1 DEF Open, LocalOK, Local
    <3>2. CASE Write(a)
      BY <1>0, <3>2 DEF Write, LocalOK, Local
    <3>3. CASE Inspect(a) \/ Unlink(a)
      BY <1>0, <3>3 DEF Inspect, Unlink, LocalOK, Local
    <3>4. CASE Stop(a)
      BY <1>0, <3>4, IdleIsLocal DEF Stop, LocalOK
    <3> QED
      BY <1>3, <3>1, <3>2, <3>3, <3>4
  <2> QED
    BY <1>0, <2>1, <2>2 DEF Once
<1>4. CASE Append(a)
  BY <1>0, <1>4 DEF Append, Once, LocalOK
<1>5. CASE Deliver(a)
  <2>1. w'[a].pc \notin {"append", "deliver"}
    BY <1>0, <1>5 DEF Deliver, LocalOK, Local
  <2>2. w[a].key \in inbox /\ w[a].key \notin sent
    BY <1>0, <1>5 DEF Deliver, Once
  <2>3. ~twice'
    BY <1>0, <1>5, <2>2, Zenon DEF Deliver, Once
  <2>4. sent' \subseteq inbox'
    BY <1>0, <1>5, <2>2 DEF Deliver, Once
  <2> QED
    BY <1>0, <2>1, <2>3, <2>4 DEF Once
<1>6. CASE Poll(a) \/ Runs(a) \/ IdleClock(a)
  <2>1. UNCHANGED <<inbox, sent, twice>>
    BY <1>6 DEF Poll, Runs, IdleClock, Announce
  <2>2. w[a].pc \in {"poll", "runs", "idle"}
    BY <1>6 DEF Poll, Runs, IdleClock
  <2>3. /\ w'[a].pc = "append" => w'[a].key \notin inbox
        /\ w'[a].pc # "deliver"
    <3>1. ASSUME NEW k \in Key, NEW n \in Resting \ {"down"}, NEW l \in Local, Announce(a, k, n, l)
          PROVE  /\ w'[a].pc = "append" => w'[a].key \notin inbox
                 /\ w'[a].pc # "deliver"
      <4>1. PICK m \in Local :
              /\ w' = [w EXCEPT ![a] = m]
              /\ \/ m.pc = n /\ m.key = l.key
                 \/ m.pc = "append" /\ m.key = k /\ k \notin inbox /\ m.next = n
        BY <1>0, <3>1, Announces
      <4>2. w'[a] = m
        BY <1>0, <4>1 DEF LocalOK
      <4> QED
        BY <4>1, <4>2
    <3>2. CASE Poll(a)
      <4> DEFINE l == [w[a] EXCEPT !.at = now, !.sig = state, !.busy = FALSE]
      <4>1. l \in Local
        BY <1>0 DEF WorldOK, Local
      <4>2. \/ Announce(a, <<"closure">>, "stop", l) \/ Announce(a, <<"decision">>, "runs", l)
            \/ w' = [w EXCEPT ![a] = [l EXCEPT !.pc = "runs"]]
        BY <3>2, Zenon DEF Poll
      <4>3. CASE w' = [w EXCEPT ![a] = [l EXCEPT !.pc = "runs"]]
        BY <1>0, <4>1, <4>3 DEF LocalOK, Local
      <4> QED
        BY <3>1, <4>1, <4>2, <4>3, Keys
    <3>3. CASE Runs(a)
      <4> DEFINE l == [w[a] EXCEPT !.since = Resumed(w[a]), !.busy = run # "over"]
      <4>0. Resumed(w[a]) \in Time \cup {NoTime} /\ (run # "over") \in BOOLEAN
        BY <1>0 DEF FilesOK, Local, Resumed
      <4>1. l \in Local
        BY <1>0, <4>0 DEF Local
      <4>2. \/ Announce(a, <<"stale">>, "idle", l)
            \/ w' = [w EXCEPT ![a] = [l EXCEPT !.pc = "idle"]]
        BY <3>3, Zenon DEF Runs
      <4>3. CASE w' = [w EXCEPT ![a] = [l EXCEPT !.pc = "idle"]]
        BY <1>0, <4>1, <4>3 DEF LocalOK, Local
      <4> QED
        BY <3>1, <4>1, <4>2, <4>3, Keys
    <3>4. CASE IdleClock(a)
      <4>1. PICK since, m :
              /\ since = IF w[a].busy THEN NoTime ELSE IF w[a].since = NoTime THEN w[a].active ELSE w[a].since
              /\ m = [w[a] EXCEPT !.since = since, !.active = IF w[a].busy THEN w[a].at ELSE @]
              /\ \/ Due(w[a], since) /\ Announce(a, <<"idle", since, w[a].at - since>>, "progress", m)
                 \/ w' = [w EXCEPT ![a] = [m EXCEPT !.pc = "progress"]]
        BY <3>4, Zenon DEF IdleClock
      <4>2. since \in Time \cup {NoTime} /\ w[a].at \in Time
        BY <1>0, <4>1 DEF Local
      <4>3. m \in Local
        BY <1>0, <4>1, <4>2 DEF Local
      <4>4. CASE w' = [w EXCEPT ![a] = [m EXCEPT !.pc = "progress"]]
        BY <1>0, <4>3, <4>4 DEF LocalOK, Local
      <4>5. CASE Due(w[a], since) /\ Announce(a, <<"idle", since, w[a].at - since>>, "progress", m)
        <5>1. since \in Time /\ w[a].at - since \in Time
          BY <4>2, <4>5 DEF Due
        <5> QED
          BY <3>1, <4>3, <4>5, <5>1, Keys
      <4> QED
        BY <4>1, <4>4, <4>5
    <3> QED
      BY <1>6, <3>2, <3>3, <3>4
  <2> QED
    BY <1>0, <2>1, <2>3 DEF Once
<1>7. CASE Progress(a) \/ Anchor(a) \/ Sleep(a)
  <2>1. UNCHANGED <<inbox, sent, twice>>
    BY <1>7 DEF Progress, Anchor, Sleep
  <2>2. w'[a].pc \notin {"append", "deliver"}
    <3>1. CASE Progress(a)
      BY <1>0, <3>1 DEF Progress, LocalOK, Local
    <3>2. CASE Anchor(a)
      BY <1>0, <3>2 DEF Anchor, LocalOK, Local
    <3>3. CASE Sleep(a)
      BY <1>0, <3>3 DEF Sleep, LocalOK, Local
    <3> QED
      BY <1>7, <3>1, <3>2, <3>3
  <2> QED
    BY <1>0, <2>1, <2>2 DEF Once
<1> QED
  BY <1>s, <1>1, <1>2, <1>3, <1>4, <1>5, <1>6, <1>7 DEF Next, Step

\* The first invariant holds in every reachable state, for any terminals.
THEOREM Invariant == Spec => []IInv
<1>1. Init => IInv
  BY InitIInv
<1> QED
  BY <1>1, NextIInv, PTL DEF Spec

\* The campaign's files and the loops keep their shapes, and an idle window on
\* record is one its episode has reached.
THEOREM TypeCorrect == Spec => []TypeOK
<1>1. IInv => TypeOK
  <2> SUFFICES ASSUME IInv PROVE TypeOK
    OBVIOUS
  <2>1. /\ now \in Time /\ run \in {"active", "dead", "over"} /\ state \in State
        /\ moves \in 0 .. MaxMove /\ starts \in 0 .. MaxStart /\ crashes \in 0 .. MaxCrash
    BY DEF IInv, WorldOK
  <2>2. {blocked, closed, twice, torn, told} \subseteq BOOLEAN
    BY Zenon DEF IInv, WorldOK, FilesOK
  <2>3. /\ lock \in [by : Watcher \cup {"nobody", "dead"}, written : BOOLEAN]
        /\ inbox \cup sent \cup lost \subseteq Key
        /\ episode \in Time \cup {NoTime} /\ shown \in State \cup {NoState} /\ stretch \subseteq Time
        /\ anchor \in State \cup {NoState}
    BY DEF IInv, FilesOK
  <2>4. \A k \in inbox : k[1] = "idle" => k[3] \in 1 .. now - k[2]
    BY DEF IInv, Windows, IsPast
  <2>5. \A i \in Watcher :
          /\ Watching(i) \/ w[i].pc \in {"down", "open", "write", "inspect", "unlink"}
          /\ w[i].key \in Key /\ w[i].seen \subseteq Key /\ w[i].at \in Time
          /\ w[i].active \in Time /\ w[i].since \in Time \cup {NoTime}
    BY DEF IInv, LocalOK, Local, Watching
  <2> QED
    BY <2>1, <2>2, <2>3, <2>4, <2>5 DEF TypeOK
<1> QED
  BY <1>1, Invariant, PTL

\* A watcher is refused the lock only while another runs, however many
\* watchers died holding it.
THEOREM LockIsTaken == Spec => RestartNotBlocked
<1> DEFINE Refused(i) == w[i].pc = "inspect" /\ w'[i].pc = "down" /\ crashes' = crashes
           Fair == \A i \in Watcher : Refused(i) => \E j \in Watcher \ {i} : w[j].pc # "down"
<1>1. IInv /\ [Next]_vars => [Fair]_vars
  <2> SUFFICES ASSUME IInv, Next, NEW i \in Watcher, Refused(i)
               PROVE  \E j \in Watcher \ {i} : w[j].pc # "down"
    OBVIOUS
  <2>0. LocalOK /\ FilesOK /\ LockIsHeld /\ WorldOK
    BY DEF IInv
  <2>1. \A j \in Watcher : \A m : j # i => [w EXCEPT ![j] = m][i] = w[i]
    BY <2>0 DEF LocalOK
  <2>2. ~ \E j \in Watcher : Start(j)
    <3> SUFFICES ASSUME NEW j \in Watcher, Start(j) PROVE FALSE
      OBVIOUS
    <3>1. w'[i].pc \in {w[i].pc, "open"}
      BY <2>0, IdleIsLocal DEF Start, LocalOK, Idle
    <3> QED
      BY <3>1
  <2>3. ~ \E j \in Watcher : Crash(j)
    BY <2>0 DEF Crash, WorldOK
  <2>4. ~ Tick /\ ~ Move
    BY DEF Tick, Move, disk
  <2>5. \A j \in Watcher : Step(j) => j = i
    <3> SUFFICES ASSUME NEW j \in Watcher, Step(j), j # i PROVE FALSE
      OBVIOUS
    <3>1. w'[i] = w[i]
      <4>1. CASE Open(j) \/ Write(j) \/ Inspect(j) \/ Unlink(j) \/ Stop(j)
        BY <2>0, <4>1 DEF To, Open, Write, Inspect, Unlink, Stop, LocalOK
      <4>2. CASE Poll(j)
        BY <2>0, <4>2 DEF Poll, Announce, LocalOK
      <4>3. CASE Runs(j)
        BY <2>0, <4>3 DEF Runs, Announce, LocalOK
      <4>4. CASE IdleClock(j)
        BY <2>0, <4>4 DEF IdleClock, Announce, LocalOK
      <4>5. CASE Append(j) \/ Deliver(j)
        BY <2>0, <4>5 DEF To, Append, Deliver, LocalOK
      <4>6. CASE Progress(j)
        BY <2>0, <4>6 DEF To, Progress, LocalOK
      <4>7. CASE Anchor(j) \/ Sleep(j)
        BY <2>0, <4>7 DEF Anchor, Sleep, LocalOK
      <4> QED
        BY <4>1, <4>2, <4>3, <4>4, <4>5, <4>6, <4>7 DEF Step
    <3> QED
      BY <3>1
  <2>6. Inspect(i)
    <3>1. Step(i)
      BY <2>2, <2>3, <2>4, <2>5 DEF Next
    <3> QED
      BY <3>1 DEF Step, Open, Write, Unlink, Stop, Poll, Append, Deliver, Runs,
         IdleClock, Progress, Anchor, Sleep
  <2>7. ~ Stale
    BY <2>0, <2>6 DEF Inspect, To, LocalOK
  <2>8. lock.by \in Watcher /\ w[lock.by].pc \in {"write"} \cup Polling
    BY <2>0, <2>7 DEF Stale, FilesOK, LockIsHeld
  <2> QED
    BY <2>8
<1> QED
  BY <1>1, Invariant, PTL DEF Spec, RestartNotBlocked

\* An occurrence is delivered once by the watchers of one terminal, however
\* often they die and start again around it.
THEOREM ToldOnce ==
  ASSUME NEW CONSTANT a, Watcher = {a}
  PROVE  Spec => []AnnouncedOnce
<1>1. Init => Once
  BY InitIInv
<1>2. IInv /\ Once /\ [Next]_vars => Once'
  BY NextOnce
<1>3. Once => AnnouncedOnce
  BY DEF Once, AnnouncedOnce
<1> QED
  BY <1>1, <1>2, <1>3, Invariant, PTL DEF Spec
=============================================================================
