------------------------------ MODULE Campaign ------------------------------
(***************************************************************************)
(* The campaign chain: coordinators that drive one manifest of contracts,  *)
(* the campaign record, coordinator lock and heartbeat they share, and the *)
(* landing branch their promotions move:                                   *)
(*   src/src/campaign/chain.mjs    acquireCoordinator, driveCampaignChain, *)
(*                                 resumeDeadRun,                          *)
(*   src/src/campaign/index.mjs    the writers of campaign.json,           *)
(*   src/src/campaign/unpark.mjs   pause and unpark,                       *)
(*   src/src/repo/integrate.mjs    promoteRun.                             *)
(*                                                                         *)
(* Nothing of this is under a mutex. A coordinator judges the lock at one  *)
(* moment and writes its own at a later one; a tick reads campaign.json    *)
(* and acts on it later; every writer of campaign.json reads the record,   *)
(* then replaces it whole; a promotion reads the branch, creates it when   *)
(* it is absent, and moves it, in three git commands. Coordinators, run    *)
(* controllers and operators take their steps in between.                  *)
(*                                                                         *)
(* A commit of the landing branch is the sequence of the contracts in its  *)
(* history: "is an ancestor of" is "is a prefix of". A run is named after  *)
(* its contract. One coordinator process is one invocation.                *)
(***************************************************************************)
EXTENDS Naturals, Sequences, FiniteSets, SequencesExt

CONSTANTS
  Coord,         \* invocations of `campaign supervise'
  Contract,      \* contracts: those of the manifest and their replacements
  Manifest,      \* the contracts the campaign starts with, in order
  MaxRecovery,   \* MAX_RUN_RECOVERY_ATTEMPTS (3)
  MaxProgress,   \* bound: advances of a run's lastProgressAt
  MaxCrash,      \* bound: coordinators that die
  MaxOperator,   \* bound: commands an operator types
  Nobody         \* no coordinator, no contract

ASSUME ManifestAssumption == Manifest \in Seq(Contract)
ASSUME RecoveryAssumption == MaxRecovery \in Nat \ {0}
ASSUME CampaignBounds == {MaxProgress, MaxCrash, MaxOperator} \subseteq Nat
ASSUME NobodyAssumption == Nobody \notin Coord \cup Contract

VARIABLES
  \* durable
  campaign,   \* campaign.json
  lock,       \* coordinator.lock: whose record it holds, dead or alive
  beat,       \* the campaign heartbeat.json
  branch,     \* the landing branch, <<>> until it is created
  created,    \* it exists
  run,        \* per contract: its run directory and its controller
  \* coordinators
  pc,         \* where each invocation stands
  seen,       \* the holder it is about to kill
  copy,       \* campaign.json as it read it, while that is in use
  entry,      \* the contract in hand
  index,      \* manifest entries it has seen through
  checked,    \* it has validated this entry
  spent,      \* resumes of this entry's run, and its progress at the last one
  based,      \* whose last tick found the landing branch
  move,       \* the promotion in hand: previousSha and the run's head
  \* bounds and history
  crashes, operators,
  edited,     \* contracts whose authored bytes changed after they were digested
  moved,      \* runs whose promotion moved the branch
  rewound,    \* runs an update-ref without a condition took off the branch
  passed      \* the entries each invocation has seen through, as it saw them

vars == <<campaign, lock, beat, branch, created, run, pc, seen, copy, entry, index, checked,
          spent, based, move, crashes, operators, edited, moved, rewound, passed>>

PC == {"idle", "kill", "claim", "start", "tick", "check", "act",
       "create", "update", "land", "record",
       "resume", "drive", "park", "write", "release", "out"}
\* Where a process is the coordinator, or on its way out.
Driving == PC \ {"idle", "kill", "claim", "out"}

RunState == {"none", "unfinished", "waiting", "failed", "succeeded"}
Unspent == [attempts |-> 0, progress |-> 0]
Fresh == [status |-> "active", contracts |-> Manifest,
          attention |-> [code |-> "none", on |-> Nobody], promotions |-> {}]
NoMove == [from |-> <<>>, to |-> <<>>]
Clear == [code |-> "none", on |-> Nobody]

CampaignRecord ==
  [status : {"active", "closed"}, contracts : Seq(Contract),
   attention : [code : {"none", "paused", "parked"}, on : Contract \cup {Nobody}],
   promotions : SUBSET Contract]
RunRecord ==
  [state : RunState, ctl : Coord \cup {Nobody, "detached"}, request : BOOLEAN,
   progress : 0..MaxProgress, cut : Seq(Contract)]
Move == [from : Seq(Contract), to : Seq(Contract)]

TypeOK ==
  /\ campaign \in CampaignRecord /\ copy \in [Coord -> CampaignRecord]
  /\ lock \in Coord \cup {Nobody}
  /\ beat \in {"none", "fresh", "stale"}
  /\ branch \in Seq(Contract) /\ created \in BOOLEAN
  /\ run \in [Contract -> RunRecord]
  /\ entry \in [Coord -> Contract \cup {Nobody}]
  /\ pc \in [Coord -> PC] /\ seen \in [Coord -> Coord \cup {Nobody}]
  /\ index \in [Coord -> Nat] /\ checked \in [Coord -> BOOLEAN]
  /\ spent \in [Coord -> [attempts : 0..MaxRecovery, progress : 0..MaxProgress]]
  /\ crashes \in 0..MaxCrash /\ operators \in 0..MaxOperator
  /\ based \subseteq Coord /\ move \in [Coord -> Move]
  /\ edited \subseteq Contract /\ moved \subseteq Contract /\ rewound \subseteq Contract
  /\ passed \in [Coord -> Seq(Contract)]

Init ==
  /\ campaign = Fresh
  /\ lock = Nobody /\ beat = "none" /\ branch = <<>> /\ created = FALSE
  /\ run = [c \in Contract |-> [state |-> "none", ctl |-> Nobody,
              request |-> FALSE, progress |-> 0, cut |-> <<>>]]
  /\ pc = [k \in Coord |-> "idle"] /\ seen = [k \in Coord |-> Nobody]
  /\ copy = [k \in Coord |-> campaign] /\ entry = [k \in Coord |-> Nobody]
  /\ index = [k \in Coord |-> 0] /\ checked = [k \in Coord |-> FALSE]
  /\ spent = [k \in Coord |-> Unspent]
  /\ based = {} /\ move = [k \in Coord |-> NoMove]
  /\ crashes = 0 /\ operators = 0 /\ edited = {} /\ moved = {} /\ rewound = {}
  /\ passed = [k \in Coord |-> <<>>]
-----------------------------------------------------------------------------
Goes(k, label) == pc' = [pc EXCEPT ![k] = label]
Reads(k) == copy' = [copy EXCEPT ![k] = campaign]
Drops(k) == copy' = [copy EXCEPT ![k] = Fresh] /\ based' = based \ {k}
UNCHANGED_Branch == UNCHANGED <<branch, created, rewound>>
UNCHANGED_Disk == UNCHANGED <<campaign, run>> /\ UNCHANGED_Branch
UNCHANGED_Lock == UNCHANGED <<lock, beat, seen>>
UNCHANGED_Loop == UNCHANGED <<entry, index, checked, spent, move, passed>>
UNCHANGED_Own == UNCHANGED <<copy, based>> /\ UNCHANGED_Loop
UNCHANGED_Env == UNCHANGED <<crashes, operators, edited, moved>>

\* What a process remembers is gone with it.
Forgets(k) ==
  /\ Drops(k) /\ entry' = [entry EXCEPT ![k] = Nobody]
  /\ index' = [index EXCEPT ![k] = 0] /\ checked' = [checked EXCEPT ![k] = FALSE]
  /\ spent' = [spent EXCEPT ![k] = Unspent] /\ passed' = [passed EXCEPT ![k] = <<>>]
  /\ move' = [move EXCEPT ![k] = NoMove]

Alive(k) == pc[k] \notin {"idle", "out"}
\* coordinatorLockStale: no lock, or one whose holder is proven dead.
LockLive == lock # Nobody /\ Alive(lock)
\* classifyRunProgress: a cancel request outranks what the nodes say.
Classified(c) == IF run[c].request THEN "canceled" ELSE run[c].state
TipOf(c) == Append(run[c].cut, c)
-----------------------------------------------------------------------------
(* acquireCoordinator *)

\* Lock and heartbeat are read together: a live holder whose heartbeat is not
\* in breach (or not written yet) is observed, one in breach is taken over.
Judge(k) ==
  /\ pc[k] = "idle"
  /\ Goes(k, CASE LockLive /\ beat # "stale" -> "out"
               [] LockLive /\ beat = "stale" -> "kill"
               [] OTHER -> "claim")
  /\ seen' = [seen EXCEPT ![k] = IF LockLive /\ beat = "stale" THEN lock ELSE Nobody]
  /\ UNCHANGED_Disk /\ UNCHANGED <<lock, beat>> /\ UNCHANGED_Own /\ UNCHANGED_Env

\* A process that is gone takes the controller it had become with it; the
\* detached ones live on.
Orphaned(k) ==
  run' = [c \in Contract |->
            IF run[c].ctl = k THEN [run[c] EXCEPT !.ctl = Nobody] ELSE run[c]]

\* terminateCoordinatorGroup: SIGTERM, SIGKILL, and no way back.
Kill(k) ==
  /\ pc[k] = "kill"
  /\ pc' = [pc EXCEPT ![k] = "claim", ![seen[k]] = "out"]
  /\ Orphaned(seen[k]) /\ Forgets(seen[k])
  /\ seen' = [seen EXCEPT ![k] = Nobody]
  /\ UNCHANGED <<campaign, lock, beat>> /\ UNCHANGED_Branch /\ UNCHANGED_Env

\* releaseCoordinatorLock of the holder killed, then writeCoordinatorLock: the
\* record is replaced whoever's it is by now.
Claim(k) ==
  /\ pc[k] = "claim"
  /\ lock' = k
  /\ Goes(k, "start")
  /\ UNCHANGED_Disk /\ UNCHANGED <<beat, seen>> /\ UNCHANGED_Own /\ UNCHANGED_Env

\* createHeartbeat: the first write, and a timer for the next ones.
Start(k) ==
  /\ pc[k] = "start"
  /\ beat' = "fresh"
  /\ Goes(k, "tick")
  /\ UNCHANGED_Disk /\ UNCHANGED <<lock, seen>> /\ UNCHANGED_Own /\ UNCHANGED_Env

Beat(k) ==
  /\ pc[k] \in Driving \ {"start", "release"}
  /\ beat' = "fresh"
  /\ UNCHANGED <<pc, lock, seen>> /\ UNCHANGED_Disk /\ UNCHANGED_Own /\ UNCHANGED_Env

\* heartbeatBreach: nobody wrote for two intervals (dead, or suspended). Bound:
\* while there is a coordinator left to judge it.
Breach ==
  /\ beat = "fresh" /\ \E k \in Coord : pc[k] = "idle"
  /\ beat' = "stale"
  /\ UNCHANGED <<pc, lock, seen>> /\ UNCHANGED_Disk /\ UNCHANGED_Own /\ UNCHANGED_Env

\* The finally of driveCampaignChain; a record of somebody else is left alone.
Release(k) ==
  /\ pc[k] = "release"
  /\ lock' = IF lock = k THEN Nobody ELSE lock
  /\ Goes(k, "out") /\ Forgets(k)
  /\ UNCHANGED_Disk /\ UNCHANGED <<beat, seen>> /\ UNCHANGED_Env
-----------------------------------------------------------------------------
(* driveCampaignChain *)

\* A tick reads the record: closed, parked and done end the invocation. Then
\* landBranchRef: is there a branch to cut from?
Tick(k) ==
  /\ pc[k] = "tick"
  /\ IF \/ campaign.status # "active" \/ campaign.attention # Clear
        \/ index[k] >= Len(campaign.contracts)
     THEN Goes(k, "release") /\ UNCHANGED <<copy, entry, based>>
     ELSE /\ Reads(k)
          /\ Goes(k, IF checked[k] THEN "act" ELSE "check")
          /\ entry' = [entry EXCEPT ![k] = campaign.contracts[index[k] + 1]]
          /\ based' = IF created THEN based \cup {k} ELSE based \ {k}
  /\ UNCHANGED_Disk /\ UNCHANGED_Lock /\ UNCHANGED <<index, checked, spent, move, passed>> /\ UNCHANGED_Env

\* One way out of a tick; what it read is not used after it.
Acts(k, label) == pc[k] = "act" /\ Goes(k, label) /\ Drops(k)
UNCHANGED_Tick ==
  UNCHANGED_Disk /\ UNCHANGED_Lock /\ UNCHANGED_Loop /\ UNCHANGED_Env

\* validateManifestEntryAtLaunch refuses bytes the manifest did not record; an
\* entry it let pass is not looked at again by this invocation.
Validate(k) ==
  /\ pc[k] = "check"
  /\ IF entry[k] \in edited THEN Goes(k, "park") /\ UNCHANGED checked
                           ELSE Goes(k, "act") /\ checked' = [checked EXCEPT ![k] = TRUE]
  /\ UNCHANGED_Disk /\ UNCHANGED_Lock /\ UNCHANGED <<copy, entry, index, spent, based, move, passed>>
  /\ UNCHANGED_Env

\* The run is over, and not as the chain needs it; or its directory does not
\* hold the contract it was made for (contract_digest_mismatch).
ParkOnRun(k) ==
  /\ Acts(k, "park")
  /\ run[entry[k]].state # "none"
  /\ \E intact \in BOOLEAN : ~intact \/ Classified(entry[k]) \in {"failed", "canceled"}
  /\ UNCHANGED_Tick

\* A run in good hands, or one that waits for its provider: sleep.
Await(k) ==
  /\ Acts(k, "tick")
  /\ LET c == entry[k]
     IN  \/ Classified(c) = "waiting"
         \/ Classified(c) = "unfinished" /\ run[c].ctl # Nobody
  /\ UNCHANGED_Tick

Succeeded(k) == Classified(entry[k]) = "succeeded"

\* promoteRunInCampaign refuses a closed campaign, promoteRun a branch that a
\* worktree has checked out and a head that is not a fast-forward of it.
RefusePromotion(k) ==
  /\ Acts(k, "park") /\ Succeeded(k)
  /\ \/ campaign.status = "closed"
     \/ \E checkedOut \in BOOLEAN : checkedOut
     \/ /\ ~IsPrefix(TipOf(entry[k]), branch)
        /\ ~IsPrefix(branch, TipOf(entry[k]))
  /\ UNCHANGED_Tick

\* heartbeat.progress(), and the next entry with a recovery count of its own.
Advance(k) ==
  /\ index' = [index EXCEPT ![k] = @ + 1]
  /\ passed' = [passed EXCEPT ![k] = Append(@, entry[k])]
  /\ checked' = [checked EXCEPT ![k] = FALSE]
  /\ spent' = [spent EXCEPT ![k] = Unspent]

\* Mutant: the ancestor test has its arguments swapped.
PromoteAlreadySwapped(k) ==
  /\ Acts(k, "tick") /\ Succeeded(k) /\ campaign.status # "closed"
  /\ created /\ IsPrefix(branch, TipOf(entry[k]))
  /\ Advance(k)
  /\ UNCHANGED <<entry, lock, seen, move>> /\ beat' = "fresh"
  /\ UNCHANGED_Disk /\ UNCHANGED_Env

\* already_promoted: the branch holds the run's head; onPromoted skips it.
PromoteAlready(k) ==
  /\ Acts(k, "tick") /\ Succeeded(k) /\ campaign.status # "closed"
  /\ created /\ IsPrefix(TipOf(entry[k]), branch)
  /\ Advance(k)
  /\ UNCHANGED <<entry, lock, seen, move>> /\ beat' = "fresh"
  /\ UNCHANGED_Disk /\ UNCHANGED_Env

\* The head is a fast-forward of the branch as it is read here, or of the run's
\* base when there is no branch yet.
Promote(k) ==
  /\ Acts(k, IF created THEN "update" ELSE "create")
  /\ Succeeded(k) /\ campaign.status # "closed"
  /\ created => ~IsPrefix(TipOf(entry[k]), branch) /\ IsPrefix(branch, TipOf(entry[k]))
  /\ move' = [move EXCEPT ![k] = [from |-> IF created THEN branch ELSE run[entry[k]].cut,
                                   to |-> TipOf(entry[k])]]
  /\ UNCHANGED <<entry, index, checked, spent, passed>>
  /\ UNCHANGED_Disk /\ UNCHANGED_Lock /\ UNCHANGED_Env

\* `git update-ref' of the branch onto the run's base, without a condition:
\* what another coordinator has promoted since the read is off it again.
CreateBranch(k) ==
  /\ pc[k] = "create" /\ Goes(k, "update")
  /\ created' = TRUE
  /\ branch' = move[k].from
  /\ rewound' = rewound \cup (ToSet(branch) \ ToSet(branch'))
  /\ UNCHANGED <<campaign, run>> /\ UNCHANGED_Lock /\ UNCHANGED_Own /\ UNCHANGED_Env

\* Mutant: an update that lost is taken for one that won.
UpdateUnchecked(k) ==
  /\ pc[k] = "update" /\ Goes(k, "land")
  /\ branch' = IF branch = move[k].from THEN move[k].to ELSE branch
  /\ moved' = moved \cup {entry[k]}
  /\ move' = [move EXCEPT ![k] = NoMove]
  /\ UNCHANGED <<campaign, run, created, rewound, crashes, operators, edited>>
  /\ UNCHANGED <<copy, entry, index, checked, spent, based, passed>> /\ UNCHANGED_Lock

\* updateRefConditional moves the branch, or throws when it is no longer where
\* it was read; the record of the move comes after.
UpdateBranch(k) ==
  /\ pc[k] = "update"
  /\ IF branch = move[k].from
     THEN /\ branch' = move[k].to /\ moved' = moved \cup {entry[k]}
          /\ Goes(k, "land")
     ELSE UNCHANGED <<branch, moved>> /\ Goes(k, "park")
  /\ move' = [move EXCEPT ![k] = NoMove]
  /\ UNCHANGED <<campaign, run, created, rewound, crashes, operators, edited>>
  /\ UNCHANGED <<copy, entry, index, checked, spent, based, passed>> /\ UNCHANGED_Lock

\* recordPromotion: reads campaign.json ...
ReadToRecord(k) ==
  /\ pc[k] = "land"
  /\ Reads(k) /\ UNCHANGED based
  /\ Goes(k, "record")
  /\ UNCHANGED_Disk /\ UNCHANGED_Lock /\ UNCHANGED_Loop /\ UNCHANGED_Env

\* ... and replaces it, once per run.
RecordPromotion(k) ==
  /\ pc[k] = "record"
  /\ campaign' = [copy[k] EXCEPT !.promotions = @ \cup {entry[k]}]
  /\ Goes(k, "tick")
  /\ Advance(k)
  /\ Drops(k)
  /\ UNCHANGED <<run, entry, lock, seen, move>> /\ UNCHANGED_Branch
  /\ beat' = "fresh" /\ UNCHANGED_Env

\* resumeDeadRun, up to the resume: the request is looked at once more, and
\* progress since the last resume renews the budget.
Attempts(k) ==
  IF spent[k].progress = run[entry[k]].progress THEN spent[k].attempts ELSE 0

\* Mutant: one resume too many.
RecoverPastLimit(k) ==
  /\ pc[k] = "act"
  /\ Classified(entry[k]) = "unfinished" /\ run[entry[k]].ctl = Nobody
  /\ IF Attempts(k) > MaxRecovery
     THEN Acts(k, "park") /\ UNCHANGED spent
     ELSE /\ Acts(k, "resume")
          /\ spent' = [spent EXCEPT ![k] = [attempts |-> Attempts(k) + 1,
                                            progress |-> run[entry[k]].progress]]
  /\ UNCHANGED_Disk /\ UNCHANGED_Lock /\ UNCHANGED <<entry, index, checked, move, passed>>
  /\ UNCHANGED_Env

\* Mutant: a resume is not counted.
RecoverUncounted(k) ==
  /\ pc[k] = "act"
  /\ Classified(entry[k]) = "unfinished" /\ run[entry[k]].ctl = Nobody
  /\ IF Attempts(k) >= MaxRecovery
     THEN Acts(k, "park") /\ UNCHANGED spent
     ELSE /\ Acts(k, "resume")
          /\ spent' = [spent EXCEPT ![k] = [attempts |-> Attempts(k),
                                            progress |-> run[entry[k]].progress]]
  /\ UNCHANGED_Disk /\ UNCHANGED_Lock /\ UNCHANGED <<entry, index, checked, move, passed>>
  /\ UNCHANGED_Env

Recover(k) ==
  /\ pc[k] = "act"
  /\ Classified(entry[k]) = "unfinished" /\ run[entry[k]].ctl = Nobody
  /\ IF Attempts(k) >= MaxRecovery
     THEN Acts(k, "park") /\ UNCHANGED spent
     ELSE /\ Acts(k, "resume")
          /\ spent' = [spent EXCEPT ![k] = [attempts |-> Attempts(k) + 1,
                                            progress |-> run[entry[k]].progress]]
  /\ UNCHANGED_Disk /\ UNCHANGED_Lock /\ UNCHANGED <<entry, index, checked, move, passed>>
  /\ UNCHANGED_Env

\* resumeRun takes the run's lock and the request with it, and drives the run
\* in this process; it throws at a lock that is held.
Resumed(c, owner) ==
  run' = [run EXCEPT ![c].ctl = owner, ![c].request = FALSE,
                     ![c].state = IF @ = "failed" THEN "unfinished" ELSE @]
Resume(k) ==
  /\ pc[k] = "resume"
  /\ IF run[entry[k]].ctl = Nobody
     THEN Resumed(entry[k], k) /\ Goes(k, "drive")
     ELSE Goes(k, "tick") /\ UNCHANGED run
  /\ UNCHANGED campaign /\ UNCHANGED_Branch /\ UNCHANGED_Lock /\ UNCHANGED_Own /\ UNCHANGED_Env

\* ... until resumeRun returns or throws.
Driven(k) ==
  /\ pc[k] = "drive" /\ run[entry[k]].ctl # k
  /\ Goes(k, "tick")
  /\ UNCHANGED <<copy, based>> /\ UNCHANGED_Tick

\* launch: `faberun run', detached, cut from the branch as it is now - or from
\* the checkout, when the tick found no branch.
Launched(k, owner) ==
  run' = [run EXCEPT ![entry[k]] = [state |-> "unfinished", ctl |-> owner,
            request |-> FALSE, progress |-> 0,
            cut |-> IF k \in based THEN branch ELSE <<>>]]

Launch(k) ==
  /\ Acts(k, "tick") /\ run[entry[k]].state = "none"
  /\ Launched(k, "detached")
  /\ beat' = "fresh"
  /\ UNCHANGED <<campaign, lock, seen>> /\ UNCHANGED_Branch /\ UNCHANGED_Loop /\ UNCHANGED_Env

\* The launch threw: the controller snapshot changed, or the bootstrap did not
\* become ready - and may have left a run directory behind.
LaunchFails(k) ==
  /\ Acts(k, "park") /\ run[entry[k]].state = "none"
  /\ Launched(k, Nobody) \/ UNCHANGED run
  /\ UNCHANGED campaign /\ UNCHANGED_Branch /\ UNCHANGED_Lock /\ UNCHANGED_Loop /\ UNCHANGED_Env

\* parkCampaign: reads the record ...
ReadToPark(k) ==
  /\ pc[k] = "park"
  /\ Reads(k) /\ UNCHANGED based
  /\ Goes(k, "write")
  /\ UNCHANGED_Disk /\ UNCHANGED_Lock /\ UNCHANGED_Loop /\ UNCHANGED_Env

\* ... and replaces it, whatever attention it may carry by now.
Park(k) ==
  /\ pc[k] = "write"
  /\ campaign' = [copy[k] EXCEPT !.attention = [code |-> "parked", on |-> entry[k]]]
  /\ Goes(k, "release") /\ Drops(k)
  /\ UNCHANGED run /\ UNCHANGED_Branch /\ UNCHANGED_Lock /\ UNCHANGED_Loop /\ UNCHANGED_Env

\* The coordinator dies: a signal, the host, its seat.
Crash(k) ==
  /\ crashes < MaxCrash /\ Alive(k)
  /\ crashes' = crashes + 1
  /\ Goes(k, "out") /\ Orphaned(k) /\ Forgets(k)
  /\ UNCHANGED <<campaign, operators, edited, moved>> /\ UNCHANGED_Branch /\ UNCHANGED_Lock
-----------------------------------------------------------------------------
(* The controllers of the runs (modules RunLoop, Supervise), seen from here *)

UNCHANGED_Chain ==
  UNCHANGED <<campaign, pc>> /\ UNCHANGED_Branch /\ UNCHANGED_Lock /\ UNCHANGED_Own /\ UNCHANGED_Env

RunStep(c, from) == run[c].ctl # Nobody /\ run[c].state = from

RunProgresses(c) ==
  /\ RunStep(c, "unfinished") /\ run[c].progress < MaxProgress
  /\ run' = [run EXCEPT ![c].progress = @ + 1]
  /\ UNCHANGED_Chain

\* Every node has an answer, and the controller returns.
RunEnds(c) ==
  /\ RunStep(c, "unfinished")
  /\ \E s \in {"succeeded", "failed"} :
       run' = [run EXCEPT ![c].state = s, ![c].ctl = Nobody]
  /\ UNCHANGED_Chain

\* Its nodes wait for a reset a provider named; the controller may leave.
RunWaits(c) ==
  /\ RunStep(c, "unfinished")
  /\ \E o \in {run[c].ctl, Nobody} :
       run' = [run EXCEPT ![c].state = "waiting", ![c].ctl = o]
  /\ UNCHANGED_Chain

\* The instant arrives.
RunDue(c) ==
  /\ run[c].state = "waiting"
  /\ run' = [run EXCEPT ![c].state = "unfinished"]
  /\ UNCHANGED_Chain

RunDies(c) ==
  /\ run[c].ctl # Nobody
  /\ run' = [run EXCEPT ![c].ctl = Nobody]
  /\ UNCHANGED_Chain
-----------------------------------------------------------------------------
(* The operator *)

Types ==
  /\ operators < MaxOperator
  /\ operators' = operators + 1
  /\ UNCHANGED <<pc, crashes, moved>> /\ UNCHANGED_Branch /\ UNCHANGED_Lock /\ UNCHANGED_Own

\* cancelRun, or the pause of one run: the request, then the controller's end.
CancelRun(c) ==
  /\ Types
  /\ run[c].state \notin {"none", "succeeded"}
  /\ run' = [run EXCEPT ![c].request = TRUE, ![c].ctl = Nobody]
  /\ UNCHANGED <<campaign, edited>>

\* `faberun resume', detached.
ResumeRun(c) ==
  /\ Types
  /\ run[c].state \in {"unfinished", "failed"} /\ run[c].ctl = Nobody
  /\ Resumed(c, "detached")
  /\ UNCHANGED <<campaign, edited>>

Open == campaign.status = "active"

\* pauseCampaign refuses a campaign parked on anything.
PauseCampaign ==
  /\ Types
  /\ Open /\ campaign.attention = Clear
  /\ campaign' = [campaign EXCEPT !.attention = [code |-> "paused", on |-> Nobody]]
  /\ UNCHANGED <<run, edited>>

\* unparkCampaign refuses while the run it names is parked or canceled,
\* unless forced.
UnparkCampaign ==
  /\ Types
  /\ Open /\ campaign.attention # Clear
  /\ \E force \in BOOLEAN :
       LET c == campaign.attention.on
       IN  IF force \/ c = Nobody THEN TRUE ELSE Classified(c) \notin {"failed", "canceled"}
  /\ campaign' = [campaign EXCEPT !.attention = Clear]
  /\ UNCHANGED <<run, edited>>

\* replaceContractInCampaign of the entry the campaign is parked on, which
\* failed or never ran, by a contract authored anew: the attention goes too.
ReplaceContract(c) ==
  /\ Types
  /\ Open /\ campaign.attention.on # Nobody
  /\ run[campaign.attention.on].state \in {"none", "failed"}
  /\ run[c].state = "none" /\ c \notin ToSet(campaign.contracts)
  /\ \E i \in DOMAIN campaign.contracts :
       /\ campaign.contracts[i] = campaign.attention.on
       /\ campaign' = [campaign EXCEPT !.contracts[i] = c, !.attention = Clear]
  /\ edited' = edited \ {c}
  /\ UNCHANGED run

\* A contract's file is changed under its digest; addContractToCampaign digests
\* it anew, or appends a contract the manifest does not have.
EditContract(c) ==
  /\ Types
  /\ c \in ToSet(campaign.contracts) /\ c \notin edited
  /\ edited' = edited \cup {c}
  /\ UNCHANGED <<campaign, run>>

AddContract(c) ==
  /\ Types
  /\ Open
  /\ campaign' = IF c \in ToSet(campaign.contracts) THEN campaign
                 ELSE [campaign EXCEPT !.contracts = Append(@, c)]
  /\ edited' = edited \ {c}
  /\ UNCHANGED run

CloseCampaign ==
  /\ Types
  /\ Open
  /\ campaign' = [campaign EXCEPT !.status = "closed"]
  /\ UNCHANGED <<run, edited>>
-----------------------------------------------------------------------------
CoordStep(k) ==
  \/ Kill(k) \/ Claim(k) \/ Start(k) \/ Release(k)
  \/ Tick(k) \/ Validate(k) \/ ParkOnRun(k) \/ Await(k)
  \/ RefusePromotion(k) \/ PromoteAlready(k)
  \/ Promote(k) \/ CreateBranch(k) \/ UpdateBranch(k)
  \/ ReadToRecord(k) \/ RecordPromotion(k)
  \/ Recover(k) \/ Resume(k) \/ Driven(k)
  \/ Launch(k) \/ LaunchFails(k) \/ ReadToPark(k) \/ Park(k)

RunStepOf(c) ==
  RunProgresses(c) \/ RunEnds(c) \/ RunWaits(c) \/ RunDue(c) \/ RunDies(c)

Operator ==
  \/ \E c \in Contract : CancelRun(c) \/ ResumeRun(c) \/ ReplaceContract(c)
                         \/ EditContract(c) \/ AddContract(c)
  \/ PauseCampaign \/ UnparkCampaign \/ CloseCampaign

Next ==
  \/ \E k \in Coord : Judge(k) \/ CoordStep(k) \/ Beat(k) \/ Crash(k)
  \/ \E c \in Contract : RunStepOf(c)
  \/ Breach
  \/ Operator

\* A coordinator that runs takes its steps. A run in hand ends or is left, a
\* wait is over some time, and the controller of a run is not silent for ever.
Fairness ==
  /\ \A k \in Coord : WF_vars(CoordStep(k))
  /\ \A c \in Contract : WF_vars(RunEnds(c) \/ RunDies(c)) /\ WF_vars(RunDue(c))

Spec == Init /\ [][Next]_vars
FairSpec == Spec /\ Fairness
-----------------------------------------------------------------------------
(* Properties *)

\* chain.mjs:441: "launching the next one only after the previous one succeeded
\* and promoted": a run starts from a coordinator that holds its entry, on a
\* base with everything that coordinator saw through - however many overlap,
\* die, or replay the manifest from its start -, except a run that the creation
\* of the branch by an overlapping one took off it.
LaunchesInOrder ==
  [][\A c \in Contract : run[c].state = "none" /\ run'[c].state # "none" =>
       \E k \in Coord :
         /\ pc[k] = "act" /\ entry[k] = c
         /\ copy[k].contracts[Len(passed[k]) + 1] = c
         /\ ToSet(passed[k]) \ rewound \subseteq ToSet(run'[c].cut)]_vars

\* The same, of the manifest as the record has it.
\* The code does not keep it: README, "Seen while modelling".
LaunchesAsRecorded ==
  [][\A c \in Contract : run[c].state = "none" /\ run'[c].state # "none" =>
       \E k \in Coord :
         ToSet(SubSeq(copy[k].contracts, 1, index[k])) \subseteq ToSet(branch)]_vars

\* chain.mjs:485-705: a coordinator in its loop gets out of it - done, parked
\* or closed -, for all the runs that die under it or wait for a provider.
CoordinatorEnds == \A k \in Coord : pc[k] = "tick" ~> pc[k] = "out"

\* A promotion is recorded for a run whose head is on the branch
\* (index.mjs:522, recordPromotion), and what is on it comes off only where
\* BranchNeverRewinds says.
RecordedHasLanded == campaign.promotions \ rewound \subseteq ToSet(branch)

\* integrate.mjs:524: promoteRun "never force-updates" the landing branch.
\* Two coordinators that both find it absent both create it, each at its run's
\* base: the later creation takes off what the earlier coordinator promoted.
\* The code does not keep it: README, "Seen while modelling".
BranchNeverRewinds == [][IsPrefix(branch, branch')]_vars

\* index.mjs:514: "a re-invocation after a crash between the branch move and
\* this write repairs the record". A finished campaign's record names every
\* run that moved its branch.
\* The code does not keep it: README, "Seen while modelling".
EveryPromotionRecorded ==
  (\E k \in Coord : pc[k] = "release" /\ index[k] >= Len(campaign.contracts))
  /\ (\A k \in Coord : pc[k] \notin {"land", "record"})
    => moved \subseteq campaign.promotions

\* chain.mjs:174: "so two coordinators never overlap".
\* The code does not keep it: README, "Seen while modelling".
OneCoordinator == \A j, k \in Coord : pc[j] \in Driving /\ pc[k] \in Driving => j = k

\* unpark.mjs:14: a durable pause, "which only an explicit resume clears".
\* The code does not keep it: README, "Seen while modelling".
PauseIsDurable ==
  [][campaign.attention.code = "paused" /\ ~ UnparkCampaign
     => campaign'.attention.code = "paused"]_vars

\* A closed campaign stays closed.
\* The code does not keep it: README, "Seen while modelling".
ClosedIsFinal == [][campaign.status = "closed" => campaign'.status = "closed"]_vars
=============================================================================
