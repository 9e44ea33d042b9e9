-------------------------------- MODULE Watch --------------------------------
(***************************************************************************)
(* `campaign watch --wake`: the watch lock, the poll loop, the alerts that *)
(* the inbox dedupes, the idle episode and the progress message a receipt  *)
(* anchors (src/src/campaign/watch.mjs), over the inbox and the delivery   *)
(* (src/src/notify/index.mjs).                                             *)
(*                                                                         *)
(* A watcher is a process: it dies between any two durable effects, and a  *)
(* watcher started again is a new process, so what it held is the dead     *)
(* one's.  Time is counted in WAKE_IDLE_AFTER_MS.  The campaign is one run *)
(* with one node that may block, and the state its progress line is of.    *)
(***************************************************************************)
EXTENDS Naturals, FiniteSets

CONSTANTS
  Watcher,     \* the operator's terminals that may run a watcher
  MaxTime,     \* bound: the clock
  MaxMove,     \* bound: what the campaign does
  MaxStart,    \* bound: watchers started
  MaxCrash     \* bound: watchers that die

ASSUME WatcherAssumption == IsFiniteSet(Watcher) /\ {"nobody", "dead"} \cap Watcher = {}
ASSUME TimeAssumption == MaxTime \in Nat
ASSUME LimitAssumption == {MaxMove, MaxStart, MaxCrash} \subseteq Nat

Time == 0 .. MaxTime
State == 0 .. 1
NoTime == MaxTime + 1
NoState == 2
NoLock == [by |-> "nobody", written |-> FALSE]

\* A dedupe key: an alert of the catalogue, or an idle window of an episode.
Key == {<<"closure">>, <<"decision">>, <<"stale">>} \cup ({"idle"} \X Time \X Time)

VARIABLES
  now, run, blocked, closed, state, \* the campaign: its clock, its run, its node
  moves, starts, crashes,
  lock,      \* watch.lock: its writer and whether the record is written
  inbox,     \* inbox.jsonl: the keys in it
  episode,   \* watch-idle.json: idleSince
  anchor,    \* watch-progress.json: the state its message was acknowledged with
  w,         \* each watcher's variables
  sent,      \* history: the keys whose delivery was attempted
  twice,     \* history: some key's delivery was attempted again
  lost,      \* history: keys recorded by a watcher that died before delivering
  shown,     \* history: the state the operator's last progress message says
  torn,      \* history: a watcher died between a delivery and its anchor
  stretch,   \* history: idle episodes announced since a run was last active
  told       \* history: the run's present controller death was announced

world == <<now, run, blocked, closed, state, moves>>
disk == <<lock, inbox, episode, anchor>>
seenBy == <<sent, twice, lost, shown, torn, stretch, told>>
vars == <<world, starts, crashes, disk, w, seenBy>>

Idle == [pc |-> "down", next |-> "down", key |-> <<"closure">>, seen |-> {}, at |-> 0,
         active |-> 0, since |-> NoTime, first |-> TRUE, busy |-> FALSE,
         sig |-> 0, receipt |-> FALSE]

Init ==
  /\ now = 0 /\ run = "over" /\ blocked = FALSE /\ closed = FALSE /\ state = 0
  /\ moves = 0 /\ starts = 0 /\ crashes = 0
  /\ lock = NoLock /\ inbox = {} /\ episode = NoTime /\ anchor = NoState
  /\ w = [i \in Watcher |-> Idle]
  /\ sent = {} /\ twice = FALSE /\ lost = {}
  /\ shown = NoState /\ torn = FALSE /\ stretch = {} /\ told = FALSE

-----------------------------------------------------------------------------
(* What the campaign does.                                                 *)

Tick == /\ now < MaxTime /\ now' = now + 1
        /\ UNCHANGED <<run, blocked, closed, state, moves, starts, crashes, disk, w, seenBy>>

Move ==
  /\ moves < MaxMove /\ moves' = moves + 1
  /\ \/ run' \in {"active", "dead", "over"} \ {run} /\ (run' = "dead" => run = "active")
        /\ UNCHANGED <<blocked, closed, state>>
     \/ blocked' = ~blocked /\ UNCHANGED <<run, closed, state>>
     \/ closed' = TRUE /\ ~closed /\ UNCHANGED <<run, blocked, state>>
     \/ state' \in State \ {state} /\ UNCHANGED <<run, blocked, closed>>
  /\ stretch' = IF run' # "over" THEN {} ELSE stretch
  /\ told' = IF run' = run THEN told ELSE FALSE
  /\ UNCHANGED <<now, starts, crashes, disk, w, sent, twice, lost, shown, torn>>

-----------------------------------------------------------------------------
(* The lock.                                                               *)

To(i, pc) == w' = [w EXCEPT ![i].pc = pc]

Start(i) ==
  /\ w[i].pc = "down" /\ starts < MaxStart /\ starts' = starts + 1
  /\ w' = [w EXCEPT ![i] = [Idle EXCEPT !.pc = "open", !.seen = inbox]]
  /\ UNCHANGED <<world, crashes, disk, seenBy>>

still == <<world, starts, crashes, seenBy>>

\* openSync "wx" creates the file; the record is written after.
Open(i) ==
  /\ w[i].pc = "open"
  /\ IF lock = NoLock THEN lock' = [by |-> i, written |-> FALSE] /\ To(i, "write")
     ELSE lock' = lock /\ To(i, "inspect")
  /\ UNCHANGED <<still, inbox, episode, anchor>>

\* A file unlinked meanwhile is written all the same, to no name.
Write(i) ==
  /\ w[i].pc = "write"
  /\ lock' = IF lock.by = i THEN [lock EXCEPT !.written = TRUE] ELSE lock
  /\ w' = [w EXCEPT ![i].pc = "poll", ![i].active = now]
  /\ UNCHANGED <<still, inbox, episode, anchor>>

\* Mutant: only a record that parses can be stale.
StaleWhenWritten == lock.written /\ lock.by = "dead"

\* watchLockStale: an empty record, and a dead process's, are stale.
Stale == ~lock.written \/ lock.by = "dead"

Inspect(i) ==
  /\ w[i].pc = "inspect"
  /\ To(i, IF Stale THEN "unlink" ELSE "down")
  /\ UNCHANGED <<still, disk>>

\* The entry is removed by its name, whatever it holds by now.
Unlink(i) ==
  /\ w[i].pc = "unlink" /\ lock' = NoLock /\ To(i, "open")
  /\ UNCHANGED <<still, inbox, episode, anchor>>

Stop(i) ==
  /\ w[i].pc = "stop" /\ lock' = NoLock /\ w' = [w EXCEPT ![i] = Idle]
  /\ UNCHANGED <<still, inbox, episode, anchor>>

-----------------------------------------------------------------------------
(* One poll.                                                               *)

\* Mutant: remembered in the process, never recorded.
AnnounceVolatile(i, k, next, l) ==
  /\ w' = [w EXCEPT ![i] =
             IF k \in l.seen
             THEN [l EXCEPT !.pc = next]
             ELSE [l EXCEPT !.pc = "deliver", !.next = next, !.key = k, !.seen = @ \cup {k}]]
  /\ UNCHANGED <<inbox, stretch, told>>

\* announce: what this process or the inbox knows is not said again.
Announce(i, k, next, l) ==
  /\ w' = [w EXCEPT ![i] =
             IF k \in l.seen \cup inbox
             THEN [l EXCEPT !.pc = next, !.seen = @ \cup {k}]
             ELSE [l EXCEPT !.pc = "append", !.next = next, !.key = k, !.seen = @ \cup {k}]]
  /\ UNCHANGED <<inbox, stretch, told>>

\* Persist first, deliver second: appendInbox writes what it has not read.
Append(i) ==
  /\ w[i].pc = "append"
  /\ To(i, "deliver")
  /\ inbox' = inbox \cup {w[i].key}
  /\ stretch' = IF w[i].key[1] = "idle" /\ run = "over" THEN stretch \cup {w[i].key[2]} ELSE stretch
  /\ told' = (told \/ w[i].key = <<"stale">>)
  /\ UNCHANGED <<world, starts, crashes, lock, episode, anchor, sent, twice, lost, shown, torn>>

\* The delivery is attempted once and its outcome only recorded.
Deliver(i) ==
  /\ w[i].pc = "deliver"
  /\ w' = [w EXCEPT ![i] = [@ EXCEPT !.pc = w[i].next, !.key = Idle.key, !.next = Idle.next]]
  /\ sent' = sent \cup {w[i].key} /\ twice' = (twice \/ w[i].key \in sent)
  /\ UNCHANGED <<world, starts, crashes, disk, lost, shown, torn, stretch, told>>

quiet == <<world, starts, crashes, lock, anchor, sent, twice, lost, shown, torn>>

\* Mutant: alerts are derived only when the progress line would change.
PollOnChange(i) ==
  /\ w[i].pc = "poll"
  /\ LET l == [w[i] EXCEPT !.at = now, !.sig = state, !.busy = FALSE] IN
     IF closed THEN Announce(i, <<"closure">>, "stop", l)
     ELSE IF blocked /\ (anchor # state) THEN Announce(i, <<"decision">>, "runs", l)
     ELSE /\ w' = [w EXCEPT ![i] = [l EXCEPT !.pc = "runs"]]
          /\ UNCHANGED <<inbox, stretch, told>>
  /\ UNCHANGED <<quiet, episode>>

\* The campaign and its projection are read; a closed one ends the loop.
Poll(i) ==
  /\ w[i].pc = "poll"
  /\ LET l == [w[i] EXCEPT !.at = now, !.sig = state, !.busy = FALSE] IN
     IF closed THEN Announce(i, <<"closure">>, "stop", l)
     ELSE IF blocked THEN Announce(i, <<"decision">>, "runs", l)
     ELSE /\ w' = [w EXCEPT ![i] = [l EXCEPT !.pc = "runs"]]
          /\ UNCHANGED <<inbox, stretch, told>>
  /\ UNCHANGED <<quiet, episode>>

\* The first poll resumes the recorded episode.
Resumed(l) == IF l.first /\ episode # NoTime THEN episode ELSE l.since

\* A run with no live controller is announced, but not on the first poll.
Runs(i) ==
  /\ w[i].pc = "runs"
  /\ LET l == [w[i] EXCEPT !.since = Resumed(w[i]), !.busy = run # "over"] IN
     IF run = "dead" /\ ~l.first THEN Announce(i, <<"stale">>, "idle", l)
     ELSE /\ w' = [w EXCEPT ![i] = [l EXCEPT !.pc = "idle"]]
          /\ UNCHANGED <<inbox, stretch, told>>
  /\ UNCHANGED <<quiet, episode>>

\* The first window is announced when it has passed.
Due(l, since) == since # NoTime /\ l.at > since

\* The idle clock: an active run ends the episode, the first idle poll begins
\* one, and each window of it is announced.
IdleClock(i) ==
  /\ w[i].pc = "idle"
  /\ LET l == w[i]
         since == IF l.busy THEN NoTime ELSE IF l.since = NoTime THEN l.active ELSE l.since
         m == [l EXCEPT !.since = since, !.active = IF l.busy THEN l.at ELSE @]
     IN /\ episode' = IF l.busy /\ l.since # NoTime THEN NoTime
                      ELSE IF since # NoTime /\ l.since = NoTime THEN since ELSE episode
        /\ IF Due(l, since)
             THEN Announce(i, <<"idle", since, l.at - since>>, "progress", m)
             ELSE /\ w' = [w EXCEPT ![i] = [m EXCEPT !.pc = "progress"]]
                  /\ UNCHANGED <<inbox, stretch, told>>
  /\ UNCHANGED quiet

\* Mutant: an anchored message is left to say what it said.
NewToSayOnce(l) == anchor = NoState

\* The same signature is not sent again while its anchor stands.
NewToSay(l) == anchor # l.sig

\* A new message or an edit of the anchored one: either way the operator's
\* latest progress message says the new state, if a transport took it.  The
\* transport may answer without naming the message, and may be unbound.
Progress(i) ==
  /\ w[i].pc = "progress"
  /\ IF NewToSay(w[i])
       THEN \/ shown' = w[i].sig /\ \E named \in BOOLEAN :
                 w' = [w EXCEPT ![i].pc = "anchor", ![i].receipt = named]
            \/ shown' = shown /\ w' = [w EXCEPT ![i].pc = "anchor", ![i].receipt = FALSE]
            \/ shown' = shown /\ w' = [w EXCEPT ![i].pc = "sleep"]
       ELSE shown' = shown /\ To(i, "sleep")
  /\ UNCHANGED <<world, starts, crashes, disk, sent, twice, lost, torn, stretch, told>>

\* The anchor is claimed from a receipt that names the message, or cleared.
Anchor(i) ==
  /\ w[i].pc = "anchor" /\ w' = [w EXCEPT ![i].pc = "sleep", ![i].receipt = FALSE]
  /\ anchor' = IF w[i].receipt THEN w[i].sig ELSE NoState
  /\ torn' = FALSE
  /\ UNCHANGED <<world, starts, crashes, lock, inbox, episode, sent, twice, lost, shown, stretch, told>>

Sleep(i) ==
  /\ w[i].pc = "sleep" /\ w' = [w EXCEPT ![i] = [@ EXCEPT !.pc = "poll", !.first = FALSE,
                                                    !.at = 0, !.sig = 0, !.busy = FALSE]]
  /\ UNCHANGED <<still, disk>>

\* A watcher that dies leaves its lock; Ctrl-C and a kill are no other thing.
Crash(i) ==
  /\ w[i].pc # "down" /\ crashes < MaxCrash /\ crashes' = crashes + 1
  /\ w' = [w EXCEPT ![i] = Idle]
  /\ lock' = IF lock.by = i THEN [lock EXCEPT !.by = "dead"] ELSE lock
  /\ torn' = (torn \/ w[i].pc = "anchor")
  /\ lost' = IF w[i].pc = "deliver" THEN lost \cup {w[i].key} ELSE lost
  /\ UNCHANGED <<world, starts, inbox, episode, anchor, sent, twice, shown, stretch, told>>

Step(i) ==
  \/ Open(i) \/ Write(i) \/ Inspect(i) \/ Unlink(i) \/ Stop(i)
  \/ Poll(i) \/ Append(i) \/ Deliver(i) \/ Runs(i) \/ IdleClock(i)
  \/ Progress(i) \/ Anchor(i) \/ Sleep(i)

Next == Tick \/ Move \/ \E i \in Watcher : Start(i) \/ Crash(i) \/ Step(i)

Spec == Init /\ [][Next]_vars

Delivered(i) == Progress(i) /\ w'[i].pc = "anchor" /\ shown' = w[i].sig

\* A watcher that runs goes on polling, and a transport asked again and again
\* takes a message in the end.
FairSpec ==
  Spec /\ \A i \in Watcher : WF_vars(Step(i)) /\ SF_vars(Delivered(i))

-----------------------------------------------------------------------------
(* Properties.                                                             *)

Watching(i) ==
  w[i].pc \in {"poll", "append", "deliver", "runs", "idle", "progress", "anchor", "sleep", "stop"}

\* The campaign's files and each watcher's loop keep their shapes, and an idle
\* window announced is one its episode has reached.
TypeOK ==
  /\ now \in Time /\ run \in {"active", "dead", "over"} /\ state \in State
  /\ {blocked, closed, twice, torn, told} \subseteq BOOLEAN
  /\ moves \in 0 .. MaxMove /\ starts \in 0 .. MaxStart /\ crashes \in 0 .. MaxCrash
  /\ lock \in [by : Watcher \cup {"nobody", "dead"}, written : BOOLEAN]
  /\ inbox \cup sent \cup lost \subseteq Key
  /\ \A k \in inbox : k[1] = "idle" => k[3] \in 1 .. now - k[2]
  /\ episode \in Time \cup {NoTime} /\ shown \in State \cup {NoState} /\ stretch \subseteq Time
  /\ anchor \in State \cup {NoState}
  /\ \A i \in Watcher :
       /\ Watching(i) \/ w[i].pc \in {"down", "open", "write", "inspect", "unlink"}
       /\ w[i].key \in Key /\ w[i].seen \subseteq Key /\ w[i].at \in Time
       /\ w[i].active \in Time /\ w[i].since \in Time \cup {NoTime}

\* An occurrence's delivery is attempted once, however often the watcher dies
\* and starts again around it (watch.mjs: announce; index.mjs: appendInbox).
AnnouncedOnce == ~twice

\* A dead watcher's lock, the record it never wrote included, blocks no one: a
\* watcher is refused only while another runs (watch.mjs: watchLockStale).
RestartNotBlocked ==
  [][\A i \in Watcher :
       (w[i].pc = "inspect" /\ w'[i].pc = "down" /\ crashes' = crashes)
         => \E j \in Watcher \ {i} : w[j].pc # "down"]_vars

\* While the campaign stays idle, every idle line is about one episode: a
\* restarted watcher counts on from the recorded instant (watch.mjs:
\* readIdleEpisode, writeIdleEpisode, clearIdleEpisode).
EpisodeIsOne == Cardinality(stretch) <= 1

\* A node that stays blocked reaches the operator of a watcher that stays up,
\* unless a watcher died holding that very line (watch.mjs: announceAlert).
DecisionReachesOperator ==
  \A i \in Watcher :
    (<>[](w[i].pc # "down") /\ <>[]blocked)
      => <>(<<"decision">> \in sent \cup lost)

\* Once the campaign stops changing, the operator's progress message says where
\* it stands: a failed delivery and a receipt that names nothing claim no
\* anchor.  A watcher that died between delivery and anchor is left out
\* (watch.mjs: readProgressAnchor, writeProgressAnchor, clearProgressAnchor).
ProgressCatchesUp ==
  \A i \in Watcher : \A s \in State :
    (<>[](w[i].pc # "down" /\ state = s /\ ~torn)) => []<>(shown = s)

\* Claimed at watch.mjs:415-416: one watcher per campaign across processes, "a
\* live holder is never taken over".
\* The code does not keep it: README, "Seen while modelling".
OneWatcher == \A i, j \in Watcher : Watching(i) /\ Watching(j) => i = j

\* Claimed at docs/COMMANDS.md:772-774, one line per actionable change, among
\* them a non-terminal run with no live controller.
\* The code does not keep it: README, "Seen while modelling".
DeadRunIsTold ==
  \A i \in Watcher :
    (<>[](w[i].pc # "down" /\ run = "dead")) => []<>told
=============================================================================
