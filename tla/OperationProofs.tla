-------------------------- MODULE OperationProofs --------------------------
(***************************************************************************)
(* What Operation guarantees for every number of calls, crashes and        *)
(* resumes, and for every set of replay policies.                          *)
(*                                                                         *)
(* The argument says for each place of the controller what the current     *)
(* call has by then: its provider, its hold, its settlement, its line. A   *)
(* controller may die at each of them, so the same is said of the node's   *)
(* snapshot alone, which is all the next controller goes by.               *)
(***************************************************************************)
EXTENDS Operation, FiniteSetTheorems, TLAPS

\* The places at which there is a current call.
Calling ==
  {"intent", "release", "mark", "undo", "scoped"} \cup Closing \cup Finalizing \cup Killing \cup Recovering

\* Where the node's status and the controller's place belong together.
Places ==
  /\ pc \in Calling \/ Open => n > 0
  /\ pc \in {"admit", "spawn"} => n < MaxCall
  /\ pc \in {"admit", "spawn", "intent", "release", "mark", "undo", "undone"} => status = "starting"
  /\ pc = "unspawn" => status \in {"starting", "running"}
  /\ pc \in {"watch", "money", "settle", "final", "log", "adopt"} \cup Killing => status = "running"
  /\ pc \in Recovering => status \in {"running", "starting"}
  /\ pc = "scoped" => status = "failed"
  /\ pc = "idle" => ~Open

\* Nothing is recorded of a call that has not come yet.
Future ==
  /\ closed \subseteq 1..n
  /\ \A i \in Call : i > n => /\ settled[i] = "none" /\ override[i] = "none"
                              /\ provider[i] = "none" /\ answer[i] = "none"
  /\ pc \in {"intent", "release", "mark"} => n \notin closed
  /\ pc \in {"intent", "release", "mark", "watch", "money", "settle"} =>
       settled[n] = "none" /\ override[n] = "none"

\* A provider that runs is the current call's, and someone will look for it:
\* the controller in hand, or the one that finds the snapshot open.
Providers ==
  \A i \in Call : provider[i] = "running" =>
    /\ i = n
    /\ override[i] = "none"
    /\ pc \in {"mark", "watch", "classify", "examine", "down"}
    /\ Open

\* A call the code takes for unstarted has no provider, and had no answer.
Unstarted ==
  /\ unstarted \subseteq 1..n
  /\ \A i \in Call : i \in unstarted => provider[i] # "running" /\ answer[i] = "none"
  /\ \A i \in Call : provider[i] = "none" => answer[i] = "none"
  /\ pc \in {"intent", "release"} => n \notin unstarted /\ provider[n] = "none"
  /\ pc = "undo" => n \in unstarted

\* The current call's line is written, unless the scope gate failed it or its
\* provider never started.
Counted == n > 0 /\ n \notin strayed /\ n \notin unstarted => lines[n] = 1

Lines ==
  /\ \A i \in Call : i < n /\ i \notin strayed /\ i \notin unstarted => lines[i] = 1
  /\ ~Open => Counted
  /\ pc \in {"admit", "spawn", "undo", "undone", "unspawn", "adopt", "verify", "marking", "finish", "decide",
             "accept", "accepted", "restart", "reconciled", "replay", "again", "renew"} => Counted

\* A hold is the current call's until its close settles it, or its controller's death.
Holds ==
  \A i \in Call : hold[i] = "held" /\ i \notin orphaned =>
    \/ i = n + 1 /\ pc = "spawn"
    \/ i = n /\ pc \in {"intent", "release", "mark", "undo", "watch", "money"}

\* A restart is about to be recorded over the workspace as the snapshot left it.
Renewal == pc = "renew" => work = "clean"

IInv == TypeOK /\ Places /\ Future /\ Providers /\ Unstarted /\ Lines /\ Holds /\ Renewal

-----------------------------------------------------------------------------
USE OperationBounds, PolicyAssumption
  DEF Call, Unresolved, Resolved, Status, Settled, Dispatching, Closing, Finalizing, Killing,
      Recovering, PC, Calling

LEMMA InitIInv == Init => IInv
<1> SUFFICES ASSUME Init PROVE IInv
  OBVIOUS
<1> USE DEF Init
<1>1. TypeOK
  <2>1. file \in BOOLEAN /\ replayed \in BOOLEAN
    BY Zenon
  <2> QED
    BY <2>1 DEF TypeOK
<1>2. Places /\ Future /\ Providers /\ Unstarted
  BY DEF Places, Future, Providers, Unstarted, Open
<1>3. Lines /\ Holds /\ Renewal
  BY DEF Lines, Counted, Holds, Renewal, Open
<1> QED
  BY <1>1, <1>2, <1>3 DEF IInv

LEMMA NextTypeOK == TypeOK /\ Places /\ [Next]_vars => TypeOK'
<1> SUFFICES ASSUME TypeOK, Places, [Next]_vars PROVE TypeOK'
  OBVIOUS
<1> USE DEF TypeOK, Places, snapshot, ledger, tree, world, local, bounds, Step, Becomes,
            UNCHANGED_Controller, UNCHANGED_Env, UNCHANGED_Bounds
<1>1. CASE Begin
  BY <1>1 DEF Begin
<1>2. CASE Admit
  BY <1>2 DEF Admit
<1>3. CASE RefuseAdmission
  BY <1>3 DEF RefuseAdmission
<1>4. CASE Spawn
  BY <1>4 DEF Spawn
<1>5. CASE GiveBack
  BY <1>5 DEF GiveBack
<1>6. CASE SpawnFails
  BY <1>6 DEF SpawnFails
<1>7. CASE WriteIntent
  <2> USE <1>7 DEF WriteIntent
  <2>1. intent' \subseteq Call
    OBVIOUS
  <2>2. file' \in BOOLEAN /\ replayed' \in BOOLEAN
    BY Zenon
  <2> QED
    BY <2>1, <2>2
<1>8. CASE ReleaseGate
  <2> USE <1>8 DEF ReleaseGate
  <2>1. provider' \in [Call -> {"none", "running", "gone"}]
    OBVIOUS
  <2>2. file' \in BOOLEAN /\ replayed' \in BOOLEAN
    BY Zenon
  <2> QED
    BY <2>1, <2>2
<1>9. CASE MarkRunning
  BY <1>9 DEF MarkRunning
<1>10. CASE Close
  <2> USE <1>10 DEF Close
  <2>1. closed' \subseteq Call
    OBVIOUS
  <2>2. file' \in BOOLEAN /\ replayed' \in BOOLEAN
    BY Zenon
  <2> QED
    BY <2>1, <2>2
<1>11. CASE SettleHold
  BY <1>11 DEF SettleHold
<1>12. CASE SettleClose
  <2> USE <1>12 DEF SettleClose, Settles, Envelope
  <2>1. PICK s \in Envelope : Settles(s)
    BY Zenon
  <2>2. s \in {"done", "exhausted", "failed", "closed"}
    <3>1. n \in Call
      OBVIOUS
    <3> QED
      BY <2>1, <3>1
  <2>3. settled' \in [Call -> {"none"} \cup Unresolved \cup Resolved]
    BY <2>1, <2>2
  <2> QED
    BY <2>3
<1>13. CASE ScopeFails
  BY <1>13 DEF ScopeFails
<1>14. CASE SettleScope
  BY <1>14 DEF SettleScope, Settles
<1>15. CASE SettleFinal
  <2> USE <1>15 DEF SettleFinal, Envelope
  <2>1. PICK s \in Envelope \ {"closed"} : Settles(s)
    BY Zenon
  <2>2. s \in {"done", "exhausted", "failed"}
    <3>1. n \in Call
      OBVIOUS
    <3> QED
      BY <2>1, <3>1
  <2>3. settled' \in [Call -> {"none"} \cup Unresolved \cup Resolved]
    BY <2>1, <2>2 DEF Settles
  <2> QED
    BY <2>3
<1>16. CASE AppendUsage
  <2> USE <1>16 DEF AppendUsage, Counts
  <2>1. lines' \in [Call -> 0..1]
    OBVIOUS
  <2>2. file' \in BOOLEAN /\ replayed' \in BOOLEAN
    BY Zenon
  <2> QED
    BY <2>1, <2>2
<1>17. CASE AdoptFile
  BY <1>17 DEF AdoptFile, Settles
<1>18. CASE PersistResult
  BY <1>18 DEF PersistResult
<1>19. CASE Reroute
  BY <1>19 DEF Reroute
<1>20. CASE Verify
  <2> USE <1>20 DEF Verify
  <2>1. status' \in Status
    OBVIOUS
  <2>2. file' \in BOOLEAN /\ replayed' \in BOOLEAN
    BY Zenon
  <2> QED
    BY <2>1, <2>2
<1>21. CASE CountKilled
  <2> USE <1>21 DEF CountKilled, Counts
  <2>1. lines' \in [Call -> 0..1]
    OBVIOUS
  <2>2. file' \in BOOLEAN /\ replayed' \in BOOLEAN
    BY Zenon
  <2> QED
    BY <2>1, <2>2
<1>22. CASE ScopeFailsKilled
  BY <1>22 DEF ScopeFailsKilled
<1>23. CASE SettleKilled
  BY <1>23 DEF SettleKilled, Settles
<1>24. CASE EndKilled
  BY <1>24 DEF EndKilled
<1>25. CASE Classify
  <2> USE <1>25 DEF Classify, Settles, NeedsRecovery
  <2>1. doubtful' \subseteq Call
    <3>1. doubtful' = doubtful \/ doubtful' = doubtful \cup {n}
      OBVIOUS
    <3>2. n \in Call
      OBVIOUS
    <3> QED
      BY <3>1, <3>2
  <2>2. settled' \in [Call -> {"none"} \cup Unresolved \cup Resolved]
    OBVIOUS
  <2> QED
    BY <2>1, <2>2
<1>26. CASE DecidedBefore
  BY <1>26 DEF DecidedBefore, FromOverride
<1>27. CASE ExamineLive
  BY <1>27 DEF ExamineLive, Finds, ExamineEnv
<1>28. CASE ExamineExit
  BY <1>28 DEF ExamineExit, Finds, ExamineEnv
<1>29. CASE ExamineGone
  BY <1>29 DEF ExamineGone, Finds, ExamineEnv
<1>30. CASE Relog
  <2> USE <1>30 DEF Relog, Counts
  <2>1. lines' \in [Call -> 0..1]
    OBVIOUS
  <2>2. file' \in BOOLEAN /\ replayed' \in BOOLEAN
    BY Zenon
  <2> QED
    BY <2>1, <2>2
<1>31. CASE RecoverReconciled
  BY <1>31 DEF RecoverReconciled
<1>32. CASE RecoverExhausted
  BY <1>32 DEF RecoverExhausted, Settles
<1>33. CASE RerouteRecovered
  BY <1>33 DEF RerouteRecovered
<1>34. CASE AdoptRecovered
  BY <1>34 DEF AdoptRecovered
<1>35. CASE SettleAdopted
  BY <1>35 DEF SettleAdopted, Settles
<1>36. CASE RecordAdopted
  <2> USE <1>36 DEF RecordAdopted
  <2>1. closed' \subseteq Call
    OBVIOUS
  <2>2. file' \in BOOLEAN /\ replayed' \in BOOLEAN
    BY Zenon
  <2> QED
    BY <2>1, <2>2
<1>37. CASE DecideRestart
  <2> USE <1>37 DEF DecideRestart, Settles, NeedsRecovery
  <2>1. settled' \in {settled, [settled EXCEPT ![n] = "safe_replay"],
                      [settled EXCEPT ![n] = "reconciled"]}
    OBVIOUS
  <2>2. settled' \in [Call -> {"none"} \cup Unresolved \cup Resolved]
    BY <2>1
  <2> QED
    BY <2>2
<1>38. CASE RecordReplay
  BY <1>38 DEF RecordReplay
<1>39. CASE RestartDirty
  BY <1>39 DEF RestartDirty, Settles
<1>40. CASE RecordReconciled
  BY <1>40 DEF RecordReconciled
<1>41. CASE RestartClean
  BY <1>41 DEF RestartClean, Settles
<1>42. CASE RecordRestart
  <2> USE <1>42 DEF RecordRestart
  <2>1. closed' \subseteq Call
    OBVIOUS
  <2>2. file' \in BOOLEAN /\ replayed' \in BOOLEAN
    BY Zenon
  <2> QED
    BY <2>1, <2>2
<1>43. CASE Kill
  BY <1>43 DEF Kill
<1>44. CASE Crash
  <2> USE <1>44 DEF Crash
  <2>1. orphaned' \subseteq Call
    OBVIOUS
  <2>2. crashes' \in 0..MaxCrash
    OBVIOUS
  <2>3. file' \in BOOLEAN /\ replayed' \in BOOLEAN
    BY Zenon
  <2> QED
    BY <2>1, <2>2, <2>3
<1>45. CASE ResumeOpen
  BY <1>45 DEF ResumeOpen
<1>46. CASE ResumeParked
  BY <1>46 DEF ResumeParked
<1>47. CASE Works
  <2> USE <1>47 DEF Works
  <2>1. file' \in BOOLEAN /\ replayed' \in BOOLEAN
    BY Zenon
  <2> QED
    BY <2>1
<1>48. ASSUME NEW i \in Call, Answers(i) PROVE TypeOK'
  <2> USE <1>48 DEF Answers
  <2>1. answer' \in [Call -> {"none", "done", "exhausted", "failed"}]
    OBVIOUS
  <2>2. file' \in BOOLEAN /\ replayed' \in BOOLEAN
    BY Zenon
  <2> QED
    BY <2>1, <2>2
<1>49. ASSUME NEW i \in Call, Exits(i) PROVE TypeOK'
  BY <1>49 DEF Exits
<1>50. CASE IntentFails
  <2> USE <1>50 DEF IntentFails
  <2>1. intent' \subseteq Call /\ unstarted' \subseteq Call
    OBVIOUS
  <2>2. file' \in BOOLEAN /\ replayed' \in BOOLEAN
    BY Zenon
  <2> QED
    BY <2>1, <2>2
<1>51. CASE GateFails
  BY <1>51 DEF GateFails
<1>52. CASE SettleUnstarted
  <2> USE <1>52 DEF SettleUnstarted, Settles
  <2>1. settled' \in [Call -> {"none"} \cup Unresolved \cup Resolved]
    OBVIOUS
  <2>2. file' \in BOOLEAN /\ replayed' \in BOOLEAN
    BY Zenon
  <2> QED
    BY <2>1, <2>2
<1>53. CASE GateCloses
  BY <1>53 DEF GateCloses, Settles
<1>54. CASE SpawnErrors
  BY <1>54 DEF SpawnErrors, Settles
<1>55. CASE UNCHANGED vars
  BY <1>55 DEF vars
<1> QED
  BY <1>1, <1>2, <1>3, <1>4, <1>5, <1>6, <1>7, <1>8, <1>9, <1>10, <1>11, <1>12, <1>13, <1>14, <1>15, <1>16, <1>17, <1>18, <1>19, <1>20, <1>21, <1>22, <1>23, <1>24, <1>25, <1>26, <1>27, <1>28, <1>29, <1>30, <1>31, <1>32, <1>33, <1>34, <1>35, <1>36, <1>37, <1>38, <1>39, <1>40, <1>41, <1>42, <1>43, <1>44, <1>45, <1>46, <1>47, <1>48, <1>49, <1>50, <1>51, <1>52, <1>53, <1>54, <1>55
     DEF Next, Controller, Dispatches, Unstarts, Closes, Finalizes, EndsKilled, Recovers

LEMMA NextIInv == IInv /\ [Next]_vars => IInv'
<1> SUFFICES ASSUME IInv, [Next]_vars PROVE IInv'
  OBVIOUS
<1>0. TypeOK'
  BY NextTypeOK DEF IInv
<1> USE DEF IInv, TypeOK, Places, Future, Providers, Unstarted, Lines, Counted, Holds, Renewal, Open,
            snapshot, ledger, tree, world, local, bounds, Step, Becomes,
            UNCHANGED_Controller, UNCHANGED_Env, UNCHANGED_Bounds
<1>1. CASE Begin
  <2> USE <1>1 DEF Begin
  <2>1. Places' /\ Future'
    OBVIOUS
  <2>2. Providers' /\ Unstarted'
    OBVIOUS
  <2>3. Lines' /\ Holds' /\ Renewal'
    OBVIOUS
  <2> QED
    BY <1>0, <2>1, <2>2, <2>3 DEF IInv
<1>2. CASE Admit
  <2> USE <1>2 DEF Admit
  <2>1. Places' /\ Future'
    OBVIOUS
  <2>2. Providers' /\ Unstarted'
    OBVIOUS
  <2>3. Lines' /\ Holds' /\ Renewal'
    OBVIOUS
  <2> QED
    BY <1>0, <2>1, <2>2, <2>3 DEF IInv
<1>3. CASE RefuseAdmission
  <2> USE <1>3 DEF RefuseAdmission
  <2>1. Places' /\ Future'
    OBVIOUS
  <2>2. Providers' /\ Unstarted'
    OBVIOUS
  <2>3. Lines' /\ Holds' /\ Renewal'
    OBVIOUS
  <2> QED
    BY <1>0, <2>1, <2>2, <2>3 DEF IInv
<1>4. CASE Spawn
  <2> USE <1>4 DEF Spawn
  <2>1. Places' /\ Future'
    OBVIOUS
  <2>2. Providers' /\ Unstarted'
    OBVIOUS
  <2>3. Lines' /\ Holds' /\ Renewal'
    OBVIOUS
  <2> QED
    BY <1>0, <2>1, <2>2, <2>3 DEF IInv
<1>5. CASE GiveBack
  <2> USE <1>5 DEF GiveBack
  <2>1. Places' /\ Future'
    OBVIOUS
  <2>2. Providers' /\ Unstarted'
    OBVIOUS
  <2>3. Lines' /\ Holds' /\ Renewal'
    OBVIOUS
  <2> QED
    BY <1>0, <2>1, <2>2, <2>3 DEF IInv
<1>6. CASE SpawnFails
  <2> USE <1>6 DEF SpawnFails
  <2>1. Places' /\ Future'
    OBVIOUS
  <2>2. Providers' /\ Unstarted'
    OBVIOUS
  <2>3. Lines' /\ Holds' /\ Renewal'
    OBVIOUS
  <2> QED
    BY <1>0, <2>1, <2>2, <2>3 DEF IInv
<1>7. CASE WriteIntent
  <2> USE <1>7 DEF WriteIntent
  <2>1. Places' /\ Future'
    OBVIOUS
  <2>2. Providers' /\ Unstarted'
    OBVIOUS
  <2>3. Lines' /\ Holds' /\ Renewal'
    OBVIOUS
  <2> QED
    BY <1>0, <2>1, <2>2, <2>3 DEF IInv
<1>8. CASE ReleaseGate
  <2> USE <1>8 DEF ReleaseGate
  <2>1. Places' /\ Future'
    OBVIOUS
  <2>2. Providers' /\ Unstarted'
    OBVIOUS
  <2>3. Lines' /\ Holds' /\ Renewal'
    OBVIOUS
  <2> QED
    BY <1>0, <2>1, <2>2, <2>3 DEF IInv
<1>9. CASE MarkRunning
  <2> USE <1>9 DEF MarkRunning
  <2>1. Places' /\ Future'
    OBVIOUS
  <2>2. Providers' /\ Unstarted'
    OBVIOUS
  <2>3. Lines' /\ Holds' /\ Renewal'
    OBVIOUS
  <2> QED
    BY <1>0, <2>1, <2>2, <2>3 DEF IInv
<1>10. CASE Close
  <2> USE <1>10 DEF Close
  <2>1. Places' /\ Future'
    OBVIOUS
  <2>2. Providers' /\ Unstarted'
    OBVIOUS
  <2>3. Lines' /\ Holds' /\ Renewal'
    OBVIOUS
  <2> QED
    BY <1>0, <2>1, <2>2, <2>3 DEF IInv
<1>11. CASE SettleHold
  <2> USE <1>11 DEF SettleHold
  <2>1. Places' /\ Future'
    OBVIOUS
  <2>2. Providers' /\ Unstarted'
    OBVIOUS
  <2>3. Lines' /\ Holds' /\ Renewal'
    OBVIOUS
  <2> QED
    BY <1>0, <2>1, <2>2, <2>3 DEF IInv
<1>12. CASE SettleClose
  <2> USE <1>12 DEF SettleClose, Settles, Envelope
  <2>1. Places' /\ Future'
    OBVIOUS
  <2>2. Providers' /\ Unstarted'
    OBVIOUS
  <2>3. Lines' /\ Holds' /\ Renewal'
    OBVIOUS
  <2> QED
    BY <1>0, <2>1, <2>2, <2>3 DEF IInv
<1>13. CASE ScopeFails
  <2> USE <1>13 DEF ScopeFails
  <2>1. Places' /\ Future'
    OBVIOUS
  <2>2. Providers' /\ Unstarted'
    OBVIOUS
  <2>3. Lines' /\ Holds' /\ Renewal'
    OBVIOUS
  <2> QED
    BY <1>0, <2>1, <2>2, <2>3 DEF IInv
<1>14. CASE SettleScope
  <2> USE <1>14 DEF SettleScope, Settles
  <2>1. Places' /\ Future'
    OBVIOUS
  <2>2. Providers' /\ Unstarted'
    OBVIOUS
  <2>3. Lines' /\ Holds' /\ Renewal'
    OBVIOUS
  <2> QED
    BY <1>0, <2>1, <2>2, <2>3 DEF IInv
<1>15. CASE SettleFinal
  <2> USE <1>15 DEF SettleFinal
  <2>1. PICK s \in Envelope \ {"closed"} : Settles(s)
    BY Zenon
  <2>2. Places' /\ Future'
    BY <2>1 DEF Settles
  <2>3. Providers' /\ Unstarted'
    OBVIOUS
  <2>4. Lines' /\ Holds' /\ Renewal'
    OBVIOUS
  <2> QED
    BY <1>0, <2>2, <2>3, <2>4 DEF IInv
<1>16. CASE AppendUsage
  <2> USE <1>16 DEF AppendUsage, Counts
  <2>1. Places' /\ Future'
    OBVIOUS
  <2>2. Providers' /\ Unstarted'
    OBVIOUS
  <2>3. Lines' /\ Holds' /\ Renewal'
    OBVIOUS
  <2> QED
    BY <1>0, <2>1, <2>2, <2>3 DEF IInv
<1>17. CASE AdoptFile
  <2> USE <1>17 DEF AdoptFile, Settles
  <2>1. Places' /\ Future'
    OBVIOUS
  <2>2. Providers' /\ Unstarted'
    OBVIOUS
  <2>3. Lines' /\ Holds' /\ Renewal'
    OBVIOUS
  <2> QED
    BY <1>0, <2>1, <2>2, <2>3 DEF IInv
<1>18. CASE PersistResult
  <2> USE <1>18 DEF PersistResult
  <2>1. Places' /\ Future'
    OBVIOUS
  <2>2. Providers' /\ Unstarted'
    OBVIOUS
  <2>3. Lines' /\ Holds' /\ Renewal'
    OBVIOUS
  <2> QED
    BY <1>0, <2>1, <2>2, <2>3 DEF IInv
<1>19. CASE Reroute
  <2> USE <1>19 DEF Reroute
  <2>1. Places' /\ Future'
    OBVIOUS
  <2>2. Providers' /\ Unstarted'
    OBVIOUS
  <2>3. Lines' /\ Holds' /\ Renewal'
    OBVIOUS
  <2> QED
    BY <1>0, <2>1, <2>2, <2>3 DEF IInv
<1>20. CASE Verify
  <2> USE <1>20 DEF Verify
  <2>1. Places' /\ Future'
    OBVIOUS
  <2>2. Providers' /\ Unstarted'
    OBVIOUS
  <2>3. Lines' /\ Holds' /\ Renewal'
    OBVIOUS
  <2> QED
    BY <1>0, <2>1, <2>2, <2>3 DEF IInv
<1>21. CASE CountKilled
  <2> USE <1>21 DEF CountKilled, Counts
  <2>1. Places' /\ Future'
    OBVIOUS
  <2>2. Providers' /\ Unstarted'
    OBVIOUS
  <2>3. Lines' /\ Holds' /\ Renewal'
    OBVIOUS
  <2> QED
    BY <1>0, <2>1, <2>2, <2>3 DEF IInv
<1>22. CASE ScopeFailsKilled
  <2> USE <1>22 DEF ScopeFailsKilled
  <2>1. Places' /\ Future'
    OBVIOUS
  <2>2. Providers' /\ Unstarted'
    OBVIOUS
  <2>3. Lines' /\ Holds' /\ Renewal'
    OBVIOUS
  <2> QED
    BY <1>0, <2>1, <2>2, <2>3 DEF IInv
<1>23. CASE SettleKilled
  <2> USE <1>23 DEF SettleKilled, Settles
  <2>1. Places' /\ Future'
    OBVIOUS
  <2>2. Providers' /\ Unstarted'
    OBVIOUS
  <2>3. Lines' /\ Holds' /\ Renewal'
    OBVIOUS
  <2> QED
    BY <1>0, <2>1, <2>2, <2>3 DEF IInv
<1>24. CASE EndKilled
  <2> USE <1>24 DEF EndKilled
  <2>1. Places' /\ Future'
    OBVIOUS
  <2>2. Providers' /\ Unstarted'
    OBVIOUS
  <2>3. Lines' /\ Holds' /\ Renewal'
    OBVIOUS
  <2> QED
    BY <1>0, <2>1, <2>2, <2>3 DEF IInv
<1>25. CASE Classify
  <2> USE <1>25 DEF Classify, Settles, NeedsRecovery
  <2>1. Places' /\ Future'
    OBVIOUS
  <2>2. Providers' /\ Unstarted'
    OBVIOUS
  <2>3. Lines' /\ Holds' /\ Renewal'
    OBVIOUS
  <2> QED
    BY <1>0, <2>1, <2>2, <2>3 DEF IInv
<1>26. CASE DecidedBefore
  <2> USE <1>26 DEF DecidedBefore, FromOverride
  <2>1. Places' /\ Future'
    OBVIOUS
  <2>2. Providers' /\ Unstarted'
    OBVIOUS
  <2>3. Lines' /\ Holds' /\ Renewal'
    OBVIOUS
  <2> QED
    BY <1>0, <2>1, <2>2, <2>3 DEF IInv
<1>27. CASE ExamineLive
  <2> USE <1>27 DEF ExamineLive, Finds, ExamineEnv
  <2>1. Places' /\ Future'
    OBVIOUS
  <2>2. Providers' /\ Unstarted'
    OBVIOUS
  <2>3. Lines' /\ Holds' /\ Renewal'
    OBVIOUS
  <2> QED
    BY <1>0, <2>1, <2>2, <2>3 DEF IInv
<1>28. CASE ExamineExit
  <2> USE <1>28 DEF ExamineExit, Finds, ExamineEnv
  <2>1. Places' /\ Future'
    OBVIOUS
  <2>2. Providers' /\ Unstarted'
    OBVIOUS
  <2>3. Lines' /\ Holds' /\ Renewal'
    OBVIOUS
  <2> QED
    BY <1>0, <2>1, <2>2, <2>3 DEF IInv
<1>29. CASE ExamineGone
  <2> USE <1>29 DEF ExamineGone, Finds, ExamineEnv
  <2>1. Places' /\ Future'
    OBVIOUS
  <2>2. Providers' /\ Unstarted'
    OBVIOUS
  <2>3. Lines' /\ Holds' /\ Renewal'
    OBVIOUS
  <2> QED
    BY <1>0, <2>1, <2>2, <2>3 DEF IInv
<1>30. CASE Relog
  <2> USE <1>30 DEF Relog, Counts
  <2>1. Places' /\ Future'
    OBVIOUS
  <2>2. Providers' /\ Unstarted'
    OBVIOUS
  <2>3. Lines' /\ Holds' /\ Renewal'
    OBVIOUS
  <2> QED
    BY <1>0, <2>1, <2>2, <2>3 DEF IInv
<1>31. CASE RecoverReconciled
  <2> USE <1>31 DEF RecoverReconciled
  <2>1. Places' /\ Future'
    OBVIOUS
  <2>2. Providers' /\ Unstarted'
    OBVIOUS
  <2>3. Lines' /\ Holds' /\ Renewal'
    OBVIOUS
  <2> QED
    BY <1>0, <2>1, <2>2, <2>3 DEF IInv
<1>32. CASE RecoverExhausted
  <2> USE <1>32 DEF RecoverExhausted, Settles
  <2>1. Places' /\ Future'
    OBVIOUS
  <2>2. Providers' /\ Unstarted'
    OBVIOUS
  <2>3. Lines' /\ Holds' /\ Renewal'
    OBVIOUS
  <2> QED
    BY <1>0, <2>1, <2>2, <2>3 DEF IInv
<1>33. CASE RerouteRecovered
  <2> USE <1>33 DEF RerouteRecovered
  <2>1. Places' /\ Future'
    OBVIOUS
  <2>2. Providers' /\ Unstarted'
    OBVIOUS
  <2>3. Lines' /\ Holds' /\ Renewal'
    OBVIOUS
  <2> QED
    BY <1>0, <2>1, <2>2, <2>3 DEF IInv
<1>34. CASE AdoptRecovered
  <2> USE <1>34 DEF AdoptRecovered
  <2>1. Places' /\ Future'
    OBVIOUS
  <2>2. Providers' /\ Unstarted'
    OBVIOUS
  <2>3. Lines' /\ Holds' /\ Renewal'
    OBVIOUS
  <2> QED
    BY <1>0, <2>1, <2>2, <2>3 DEF IInv
<1>35. CASE SettleAdopted
  <2> USE <1>35 DEF SettleAdopted, Settles
  <2>1. Places' /\ Future'
    OBVIOUS
  <2>2. Providers' /\ Unstarted'
    OBVIOUS
  <2>3. Lines' /\ Holds' /\ Renewal'
    OBVIOUS
  <2> QED
    BY <1>0, <2>1, <2>2, <2>3 DEF IInv
<1>36. CASE RecordAdopted
  <2> USE <1>36 DEF RecordAdopted
  <2>1. Places' /\ Future'
    OBVIOUS
  <2>2. Providers' /\ Unstarted'
    OBVIOUS
  <2>3. Lines' /\ Holds' /\ Renewal'
    OBVIOUS
  <2> QED
    BY <1>0, <2>1, <2>2, <2>3 DEF IInv
<1>37. CASE DecideRestart
  <2> USE <1>37 DEF DecideRestart, Settles, NeedsRecovery
  <2>1. Places' /\ Future'
    OBVIOUS
  <2>2. Providers' /\ Unstarted'
    OBVIOUS
  <2>3. Lines' /\ Holds' /\ Renewal'
    OBVIOUS
  <2> QED
    BY <1>0, <2>1, <2>2, <2>3 DEF IInv
<1>38. CASE RecordReplay
  <2> USE <1>38 DEF RecordReplay
  <2>1. Places' /\ Future'
    OBVIOUS
  <2>2. Providers' /\ Unstarted'
    OBVIOUS
  <2>3. Lines' /\ Holds' /\ Renewal'
    OBVIOUS
  <2> QED
    BY <1>0, <2>1, <2>2, <2>3 DEF IInv
<1>39. CASE RestartDirty
  <2> USE <1>39 DEF RestartDirty, Settles
  <2>1. Places' /\ Future'
    OBVIOUS
  <2>2. Providers' /\ Unstarted'
    OBVIOUS
  <2>3. Lines' /\ Holds' /\ Renewal'
    OBVIOUS
  <2> QED
    BY <1>0, <2>1, <2>2, <2>3 DEF IInv
<1>40. CASE RecordReconciled
  <2> USE <1>40 DEF RecordReconciled
  <2>1. Places' /\ Future'
    OBVIOUS
  <2>2. Providers' /\ Unstarted'
    OBVIOUS
  <2>3. Lines' /\ Holds' /\ Renewal'
    OBVIOUS
  <2> QED
    BY <1>0, <2>1, <2>2, <2>3 DEF IInv
<1>41. CASE RestartClean
  <2> USE <1>41 DEF RestartClean, Settles
  <2>1. Places' /\ Future'
    OBVIOUS
  <2>2. Providers' /\ Unstarted'
    OBVIOUS
  <2>3. Lines' /\ Holds' /\ Renewal'
    OBVIOUS
  <2> QED
    BY <1>0, <2>1, <2>2, <2>3 DEF IInv
<1>42. CASE RecordRestart
  <2> USE <1>42 DEF RecordRestart
  <2>1. Places' /\ Future'
    OBVIOUS
  <2>2. Providers' /\ Unstarted'
    OBVIOUS
  <2>3. Lines' /\ Holds' /\ Renewal'
    OBVIOUS
  <2> QED
    BY <1>0, <2>1, <2>2, <2>3 DEF IInv
<1>43. CASE Kill
  <2> USE <1>43 DEF Kill
  <2>1. Places' /\ Future'
    OBVIOUS
  <2>2. Providers' /\ Unstarted'
    OBVIOUS
  <2>3. Lines' /\ Holds' /\ Renewal'
    OBVIOUS
  <2> QED
    BY <1>0, <2>1, <2>2, <2>3 DEF IInv
<1>44. CASE Crash
  <2> USE <1>44 DEF Crash
  <2>1. Places' /\ Future'
    OBVIOUS
  <2>2. Providers' /\ Unstarted'
    OBVIOUS
  <2>3. Lines' /\ Holds' /\ Renewal'
    OBVIOUS
  <2> QED
    BY <1>0, <2>1, <2>2, <2>3 DEF IInv
<1>45. CASE ResumeOpen
  <2> USE <1>45 DEF ResumeOpen
  <2>1. Places' /\ Future'
    OBVIOUS
  <2>2. Providers' /\ Unstarted'
    OBVIOUS
  <2>3. Lines' /\ Holds' /\ Renewal'
    OBVIOUS
  <2> QED
    BY <1>0, <2>1, <2>2, <2>3 DEF IInv
<1>46. CASE ResumeParked
  <2> USE <1>46 DEF ResumeParked
  <2>1. Places' /\ Future'
    OBVIOUS
  <2>2. Providers' /\ Unstarted'
    OBVIOUS
  <2>3. Lines' /\ Holds' /\ Renewal'
    OBVIOUS
  <2> QED
    BY <1>0, <2>1, <2>2, <2>3 DEF IInv
<1>47. CASE Works
  <2> USE <1>47 DEF Works
  <2>1. Places' /\ Future'
    OBVIOUS
  <2>2. Providers' /\ Unstarted'
    OBVIOUS
  <2>3. Lines' /\ Holds' /\ Renewal'
    OBVIOUS
  <2> QED
    BY <1>0, <2>1, <2>2, <2>3 DEF IInv
<1>48. ASSUME NEW i \in Call, Answers(i) PROVE IInv'
  <2> USE <1>48 DEF Answers
  <2>1. Places' /\ Future'
    OBVIOUS
  <2>2. Providers' /\ Unstarted'
    OBVIOUS
  <2>3. Lines' /\ Holds' /\ Renewal'
    OBVIOUS
  <2> QED
    BY <1>0, <2>1, <2>2, <2>3 DEF IInv
<1>49. ASSUME NEW i \in Call, Exits(i) PROVE IInv'
  <2> USE <1>49 DEF Exits
  <2>1. Places' /\ Future'
    OBVIOUS
  <2>2. Providers' /\ Unstarted'
    OBVIOUS
  <2>3. Lines' /\ Holds' /\ Renewal'
    OBVIOUS
  <2> QED
    BY <1>0, <2>1, <2>2, <2>3 DEF IInv
<1>50. CASE IntentFails
  <2> USE <1>50 DEF IntentFails
  <2>1. Places' /\ Future'
    OBVIOUS
  <2>2. Providers' /\ Unstarted'
    OBVIOUS
  <2>3. Lines' /\ Holds' /\ Renewal'
    OBVIOUS
  <2> QED
    BY <1>0, <2>1, <2>2, <2>3 DEF IInv
<1>51. CASE GateFails
  <2> USE <1>51 DEF GateFails
  <2>1. Places' /\ Future'
    OBVIOUS
  <2>2. Providers' /\ Unstarted'
    OBVIOUS
  <2>3. Lines' /\ Holds' /\ Renewal'
    OBVIOUS
  <2> QED
    BY <1>0, <2>1, <2>2, <2>3 DEF IInv
<1>52. CASE SettleUnstarted
  <2> USE <1>52 DEF SettleUnstarted, Settles
  <2>1. Places' /\ Future'
    OBVIOUS
  <2>2. Providers' /\ Unstarted'
    OBVIOUS
  <2>3. Lines' /\ Holds' /\ Renewal'
    OBVIOUS
  <2> QED
    BY <1>0, <2>1, <2>2, <2>3 DEF IInv
<1>53. CASE GateCloses
  <2> USE <1>53 DEF GateCloses, Settles
  <2>1. Places' /\ Future'
    OBVIOUS
  <2>2. Providers' /\ Unstarted'
    OBVIOUS
  <2>3. Lines' /\ Holds' /\ Renewal'
    OBVIOUS
  <2> QED
    BY <1>0, <2>1, <2>2, <2>3 DEF IInv
<1>54. CASE SpawnErrors
  <2> USE <1>54 DEF SpawnErrors, Settles
  <2>1. Places' /\ Future'
    OBVIOUS
  <2>2. Providers' /\ Unstarted'
    OBVIOUS
  <2>3. Lines' /\ Holds' /\ Renewal'
    OBVIOUS
  <2> QED
    BY <1>0, <2>1, <2>2, <2>3 DEF IInv
<1>55. CASE UNCHANGED vars
  <2> USE <1>55 DEF vars
  <2>1. Places' /\ Future'
    OBVIOUS
  <2>2. Providers' /\ Unstarted'
    OBVIOUS
  <2>3. Lines' /\ Holds' /\ Renewal'
    OBVIOUS
  <2> QED
    BY <1>0, <2>1, <2>2, <2>3 DEF IInv
<1> QED
  BY <1>1, <1>2, <1>3, <1>4, <1>5, <1>6, <1>7, <1>8, <1>9, <1>10, <1>11, <1>12, <1>13, <1>14, <1>15, <1>16, <1>17, <1>18, <1>19, <1>20, <1>21, <1>22, <1>23, <1>24, <1>25, <1>26, <1>27, <1>28, <1>29, <1>30, <1>31, <1>32, <1>33, <1>34, <1>35, <1>36, <1>37, <1>38, <1>39, <1>40, <1>41, <1>42, <1>43, <1>44, <1>45, <1>46, <1>47, <1>48, <1>49, <1>50, <1>51, <1>52, <1>53, <1>54, <1>55
     DEF Next, Controller, Dispatches, Unstarts, Closes, Finalizes, EndsKilled, Recovers

\* Every reachable state satisfies the invariant.
LEMMA Invariant == Spec => []IInv
<1> QED
  BY InitIInv, NextIInv, PTL DEF Spec

\* Type correctness: each file, provider and place keeps its kind.
THEOREM TypeCorrect == Spec => []TypeOK
<1>1. IInv => TypeOK
  BY DEF IInv
<1> QED
  BY <1>1, Invariant, PTL

\* Two workers never live in one node (recover.mjs:4).
THEOREM WorkersAreOne == Spec => []OneWorker
<1>1. IInv => OneWorker
  <2> SUFFICES ASSUME IInv PROVE Cardinality({i \in Call : provider[i] = "running"}) <= 1
    BY DEF OneWorker
  <2>1. {i \in Call : provider[i] = "running"} \subseteq {n}
    BY DEF IInv, Providers
  <2>2. IsFiniteSet({n}) /\ Cardinality({n}) = 1
    BY FS_Singleton
  <2> QED
    BY <2>1, <2>2, FS_Subset
<1> QED
  BY <1>1, Invariant, PTL

\* A call that is over is counted once and holds nothing, whatever died, but for
\* one the scope gate failed and one that is taken for unstarted: of the latter
\* no provider is left, and none ever answered.
THEOREM SpendIsSettled == Spec => []SpendSettles
<1>1. IInv => SpendSettles
  <2> SUFFICES ASSUME IInv PROVE SpendIsCounted /\ HoldsSettle
    BY DEF SpendSettles
  <2>1. SpendIsCounted
    BY DEF SpendIsCounted, Over, IInv, TypeOK, Lines, Counted, Places, Unstarted
  <2>2. HoldsSettle
    BY DEF HoldsSettle, Over, IInv, TypeOK, Holds, Places
  <2> QED
    BY <2>1, <2>2
<1> QED
  BY <1>1, Invariant, PTL

\* A resolved outcome is never again taken for an open one (operations.mjs:99).
THEOREM ResolvedForGood == Spec => ResolvedStaysResolved
<1>1. IInv /\ [Next]_vars => [\A i \in Call : settled[i] \in Resolved => settled'[i] \in Resolved]_vars
  <2> SUFFICES ASSUME IInv, [Next]_vars, NEW i \in Call, settled[i] \in Resolved
               PROVE  settled'[i] \in Resolved
    OBVIOUS
  <2>1. CASE settled' = settled
    BY <2>1
  <2>2. ASSUME NEW s, Settles(s), s \in Resolved PROVE settled'[i] \in Resolved
    BY <2>2 DEF Settles, IInv, TypeOK
  <2>3. CASE SettleClose
    BY <2>3 DEF SettleClose, Settles, Step, IInv, TypeOK, Future, Places
  <2>4. CASE Classify
    BY <2>4 DEF Classify, Settles, NeedsRecovery, IInv, TypeOK, Places
  <2>5. CASE SettleFinal
    <3>1. PICK s \in Envelope \ {"closed"} : Settles(s)
      BY <2>5, Zenon DEF SettleFinal
    <3>2. n \in Call
      BY <2>5 DEF SettleFinal, Step, IInv, TypeOK, Places
    <3>3. s \in Resolved
      BY <3>1, <3>2 DEF Envelope, IInv, TypeOK
    <3> QED
      BY <2>2, <3>1, <3>3
  <2>6. Dispatches \/ Finalizes => settled' = settled \/ SettleFinal \/ \E s \in Resolved : Settles(s)
    BY DEF Dispatches, Begin, Admit, RefuseAdmission, Spawn, WriteIntent, ReleaseGate,
           MarkRunning, Finalizes, ScopeFails, SettleScope, AppendUsage, AdoptFile,
           PersistResult, Reroute, Verify, snapshot, ledger
  <2>7. Closes \/ EndsKilled => settled' = settled \/ SettleClose \/ \E s \in Resolved : Settles(s)
    BY DEF Closes, Close, SettleHold, EndsKilled, CountKilled, ScopeFailsKilled, SettleKilled,
           EndKilled, ledger
  <2>8. Recovers => settled' = settled \/ Classify \/ \E s \in Resolved : Settles(s)
    BY DEF Recovers, DecidedBefore, ExamineLive, ExamineExit, ExamineGone, ExamineEnv, Relog,
           RecoverReconciled, RecoverExhausted, RerouteRecovered, AdoptRecovered, SettleAdopted,
           RecordAdopted, DecideRestart, RecordReplay, RestartDirty, RecordReconciled,
           RestartClean, RecordRestart, ledger
  <2>9. Kill \/ Crash \/ ResumeOpen \/ ResumeParked \/ Works
        \/ (\E j \in Call : Answers(j) \/ Exits(j)) \/ UNCHANGED vars => settled' = settled
    BY DEF Kill, Crash, ResumeOpen, ResumeParked, Works, Answers, Exits, UNCHANGED_Controller,
           vars, ledger
  <2>10. Unstarts => settled' = settled \/ \E s \in Resolved : Settles(s)
    BY DEF Unstarts, IntentFails, GateFails, GiveBack, SettleUnstarted, SpawnFails, GateCloses,
           SpawnErrors, ledger
  <2> QED
    BY <2>1, <2>2, <2>3, <2>4, <2>5, <2>6, <2>7, <2>8, <2>9, <2>10 DEF Next, Controller
<1> QED
  BY <1>1, Invariant, PTL DEF Spec, ResolvedStaysResolved

\* Nothing is re-dispatched over a changed workspace (operations.mjs:6).
THEOREM ReplayIsNotBlind == Spec => NoBlindReplay
<1>1. IInv /\ [Next]_vars =>
        [(pc \in {"restart", "renew"} /\ status' = "pending") =>
          (work = "clean" /\ (\A i \in Call : provider[i] # "running"))]_vars
  <2> SUFFICES ASSUME IInv, [Next]_vars, pc \in {"restart", "renew"}, status' = "pending"
               PROVE  work = "clean" /\ \A i \in Call : provider[i] # "running"
    OBVIOUS
  <2>1. \A i \in Call : provider[i] # "running"
    BY DEF IInv, Providers
  <2>2. status # "pending"
    BY DEF IInv, Places
  <2>3. pc # "restart"
    <3> SUFFICES ASSUME pc = "restart" PROVE status' = status
      BY <2>2
    <3>1. ~Dispatches /\ ~Unstarts /\ ~Closes /\ ~Finalizes /\ ~EndsKilled
      BY DEF Step, Dispatches, Begin, Admit, RefuseAdmission, Spawn, WriteIntent, ReleaseGate,
             MarkRunning, Unstarts, IntentFails, GateFails, GiveBack, SettleUnstarted,
             SpawnFails, GateCloses, SpawnErrors, Closes, Close, SettleHold, SettleClose,
             Finalizes, ScopeFails, SettleScope, SettleFinal, AppendUsage, AdoptFile,
             PersistResult, Reroute, Verify, EndsKilled, CountKilled, ScopeFailsKilled,
             SettleKilled, EndKilled
    <3>2. Recovers => RestartDirty \/ RestartClean
      BY DEF Step, Finds, Recovers, Classify, DecidedBefore, ExamineLive, ExamineExit, ExamineGone,
             Relog, RecoverReconciled, RecoverExhausted, RerouteRecovered, AdoptRecovered,
             SettleAdopted, RecordAdopted, DecideRestart, RecordReplay, RecordReconciled,
             RecordRestart
    <3>3. RestartDirty \/ RestartClean \/ UNCHANGED vars => status' = status
      BY DEF RestartDirty, RestartClean, vars, snapshot
    <3>4. Kill \/ Crash \/ ResumeOpen \/ ResumeParked \/ Works
          \/ (\E j \in Call : Answers(j) \/ Exits(j)) => status' = status
      BY DEF Step, Kill, Crash, ResumeOpen, ResumeParked, Works, Answers, Exits,
             UNCHANGED_Controller, snapshot
    <3> QED
      BY <3>1, <3>2, <3>3, <3>4 DEF Next, Controller
  <2> QED
    BY <2>1, <2>3 DEF IInv, Renewal
<1> QED
  BY <1>1, Invariant, PTL DEF Spec, NoBlindReplay
=============================================================================
