------------------------ MODULE SessionMailboxProofs ------------------------
(***************************************************************************)
(* Theorems about SessionMailbox, for every value of its constants.        *)
(***************************************************************************)
EXTENDS SessionMailbox, TLAPS


(* TypeOK in four parts, for the steps that change several of them.        *)
RowTypes ==
    /\ status \in [Messages -> {"absent", "pending", "completed", "failed"}]
    /\ kind \in [Messages -> AllKinds \cup {"none"}]
    /\ tries \in [Messages -> 0..MaxTries]
    /\ deferred \in [Messages -> BOOLEAN]

AckTypes == ack \in [Messages -> Processing \cup {"none", "completed", "script-error"}]

RunnerTypes ==
    /\ pc \in {"none", "boot", "poll", "script", "query", "dispatch"}
    /\ first \in BOOLEAN
    /\ batch \subseteq Messages
    /\ follow \subseteq Messages
    /\ late \subseteq Messages
    /\ ending \in BOOLEAN
    /\ hung \in BOOLEAN
    /\ owed \subseteq Messages

HostTypes ==
    /\ beat \in {"none", "fresh", "stale"}
    /\ tracked \in BOOLEAN
    /\ spawning \in BOOLEAN
    /\ respawn \in BOOLEAN
    /\ hpc \in {"idle", "count", "await", "check", "kill", "stop"}

CountTypes ==
    /\ hands \in [Messages -> Nat]
    /\ upsets \in 0..MaxUpsets

(* What the reset of a dead container's claims leaves behind.              *)
LEMMA ResetTypes ==
    ASSUME TypeOK, ResetStuckProcessingRows
    PROVE  /\ status' \in [Messages -> {"absent", "pending", "completed", "failed"}]
           /\ tries' \in [Messages -> 0..MaxTries]
           /\ deferred' \in [Messages -> BOOLEAN]
           /\ AckTypes'
BY ConstantsOK DEF TypeOK, ResetStuckProcessingRows, AckTypes, Processing

(* The types hold at the start.                                            *)
LEMMA InitTypes == Init => TypeOK
<1> SUFFICES ASSUME Init PROVE TypeOK
  OBVIOUS
<1>1. RowTypes /\ AckTypes
  BY ConstantsOK DEF Init, RowTypes, AckTypes
<1>2. RunnerTypes
  BY DEF Init, RunnerTypes
<1>3. HostTypes
  BY DEF Init, HostTypes
<1>4. CountTypes
  BY ConstantsOK DEF Init, CountTypes
<1> QED
  BY <1>1, <1>2, <1>3, <1>4 DEF TypeOK, RowTypes, AckTypes, RunnerTypes, HostTypes, CountTypes

(* Every step keeps the types.                                             *)
LEMMA TypeStep == TypeOK /\ [Next]_vars => TypeOK'
<1> SUFFICES ASSUME TypeOK, [Next]_vars PROVE TypeOK'
  OBVIOUS
<1> USE ConstantsOK DEF TypeOK, rowVars, runnerVars, hostVars, AllKinds, AllFaults, Processing
<1>1. ASSUME NEW m \in Messages, NEW k \in Kinds \ {"wake", "task"}, RouteMessage(m, k)
      PROVE TypeOK'
  <2>1. RowTypes'
    BY <1>1, ConstantsOK DEF RouteMessage, InsertMessage, Wake, RowTypes
  <2>2. AckTypes'
    BY <1>1, ConstantsOK DEF RouteMessage, InsertMessage, Wake, AckTypes
  <2>3. RunnerTypes'
    BY <1>1, ConstantsOK DEF RouteMessage, InsertMessage, Wake, RunnerTypes
  <2>4. HostTypes'
    BY <1>1, ConstantsOK DEF RouteMessage, InsertMessage, Wake, HostTypes
  <2>5. CountTypes'
    BY <1>1, ConstantsOK DEF RouteMessage, InsertMessage, Wake, CountTypes
  <2> QED
    BY <2>1, <2>2, <2>3, <2>4, <2>5 DEF RowTypes, AckTypes, RunnerTypes, HostTypes, CountTypes
<1>2. ASSUME NEW m \in Messages, ScheduleTask(m) PROVE TypeOK'
  BY <1>2 DEF ScheduleTask, InsertMessage
<1>3. ASSUME NEW m \in Messages, RestartContainer(m) PROVE TypeOK'
  BY <1>3 DEF RestartContainer, InsertMessage, Upset
<1>4. CASE RestartQuietly
  BY <1>4 DEF RestartQuietly, Upset
<1>5. CASE ContainerStopped
  BY <1>5 DEF ContainerStopped, ContainerDies
<1>6. CASE SpawnContainer
  BY <1>6 DEF SpawnContainer, Processing
<1>7. CASE SpawnFails
  <2>1. RowTypes'
    BY <1>7, ResetTypes, ConstantsOK DEF SpawnFails, Upset, Claimed, Processing, RowTypes
  <2>2. AckTypes'
    BY <1>7, ResetTypes, ConstantsOK DEF SpawnFails, Upset, Claimed, Processing, AckTypes
  <2>3. RunnerTypes'
    BY <1>7, ResetTypes, ConstantsOK DEF SpawnFails, Upset, Claimed, Processing, RunnerTypes
  <2>4. HostTypes'
    BY <1>7, ResetTypes, ConstantsOK DEF SpawnFails, Upset, Claimed, Processing, HostTypes
  <2>5. CountTypes'
    BY <1>7, ResetTypes, ConstantsOK DEF SpawnFails, Upset, Claimed, Processing, CountTypes
  <2> QED
    BY <2>1, <2>2, <2>3, <2>4, <2>5 DEF RowTypes, AckTypes, RunnerTypes, HostTypes, CountTypes
<1>8. CASE ContainerClosed
  BY <1>8 DEF ContainerClosed
<1>9. CASE HostRestart
  <2>1. RowTypes'
    BY <1>9, ConstantsOK DEF HostRestart, Upset, ContainerDies, RowTypes
  <2>2. AckTypes'
    BY <1>9, ConstantsOK DEF HostRestart, Upset, ContainerDies, AckTypes
  <2>3. RunnerTypes'
    BY <1>9, ConstantsOK DEF HostRestart, Upset, ContainerDies, RunnerTypes
  <2>4. HostTypes'
    BY <1>9, ConstantsOK DEF HostRestart, Upset, ContainerDies, HostTypes
  <2>5. CountTypes'
    BY <1>9, ConstantsOK DEF HostRestart, Upset, ContainerDies, CountTypes
  <2> QED
    BY <2>1, <2>2, <2>3, <2>4, <2>5 DEF RowTypes, AckTypes, RunnerTypes, HostTypes, CountTypes
<1>10. CASE SweepSync
  BY <1>10 DEF SweepSync
<1>11. CASE SweepWake
  BY <1>11 DEF SweepWake, Wake
<1>12. CASE SweepNoWake
  BY <1>12 DEF SweepNoWake
<1>13. CASE SweepDecide
  BY <1>13 DEF SweepDecide
<1>14. CASE SweepKill
  <2>1. RowTypes'
    BY <1>14, ResetTypes, ConstantsOK DEF SweepKill, ContainerDies, RowTypes
  <2>2. AckTypes'
    BY <1>14, ResetTypes, ConstantsOK DEF SweepKill, ContainerDies, AckTypes
  <2>3. RunnerTypes'
    BY <1>14, ResetTypes, ConstantsOK DEF SweepKill, ContainerDies, RunnerTypes
  <2>4. HostTypes'
    BY <1>14, ResetTypes, ConstantsOK DEF SweepKill, ContainerDies, HostTypes
  <2>5. CountTypes'
    BY <1>14, ResetTypes, ConstantsOK DEF SweepKill, ContainerDies, CountTypes
  <2> QED
    BY <2>1, <2>2, <2>3, <2>4, <2>5 DEF RowTypes, AckTypes, RunnerTypes, HostTypes, CountTypes
<1>15. CASE SweepCleanup
  BY <1>15 DEF SweepCleanup, ResetStuckProcessingRows
<1>16. CASE Boot
  BY <1>16 DEF Boot
<1>17. CASE PollNothing
  BY <1>17 DEF PollNothing
<1>18. CASE PollClaim
  <2>1. RowTypes'
    BY <1>18, ConstantsOK DEF PollClaim, Hand, TouchedByScripts, Touched, BeatAfterScripts,
       WithoutSystem, PendingMessages, RowTypes
  <2>2. AckTypes'
    BY <1>18, ConstantsOK DEF PollClaim, Hand, TouchedByScripts, Touched, BeatAfterScripts,
       WithoutSystem, PendingMessages, AckTypes
  <2>3. RunnerTypes'
    BY <1>18, ConstantsOK DEF PollClaim, Hand, TouchedByScripts, Touched, BeatAfterScripts,
       WithoutSystem, PendingMessages, RunnerTypes
  <2>4. HostTypes'
    BY <1>18, ConstantsOK DEF PollClaim, Hand, TouchedByScripts, Touched, BeatAfterScripts,
       WithoutSystem, PendingMessages, HostTypes
  <2>5. CountTypes'
    BY <1>18, ConstantsOK DEF PollClaim, Hand, TouchedByScripts, Touched, BeatAfterScripts,
       WithoutSystem, PendingMessages, CountTypes
  <2> QED
    BY <2>1, <2>2, <2>3, <2>4, <2>5 DEF RowTypes, AckTypes, RunnerTypes, HostTypes, CountTypes
<1>19. CASE ScriptsDone
  <2>1. RowTypes'
    BY <1>19, ConstantsOK DEF ScriptsDone, Hand, TouchedByScripts, Touched,
       BeatAfterScripts, SkippedAcks, RowTypes
  <2>2. AckTypes'
    BY <1>19, ConstantsOK DEF ScriptsDone, Hand, TouchedByScripts, Touched,
       BeatAfterScripts, SkippedAcks, AckTypes
  <2>3. RunnerTypes'
    BY <1>19, ConstantsOK DEF ScriptsDone, Hand, TouchedByScripts, Touched,
       BeatAfterScripts, SkippedAcks, RunnerTypes
  <2>4. HostTypes'
    BY <1>19, ConstantsOK DEF ScriptsDone, Hand, TouchedByScripts, Touched,
       BeatAfterScripts, SkippedAcks, HostTypes
  <2>5. CountTypes'
    BY <1>19, ConstantsOK DEF ScriptsDone, Hand, TouchedByScripts, Touched,
       BeatAfterScripts, SkippedAcks, CountTypes
  <2> QED
    BY <2>1, <2>2, <2>3, <2>4, <2>5 DEF RowTypes, AckTypes, RunnerTypes, HostTypes, CountTypes
<1>20. CASE QueryEvent
  BY <1>20 DEF QueryEvent, Touched
<1>21. CASE QueryResult
  BY <1>21 DEF QueryResult, Touched
<1>22. CASE DispatchResult
  BY <1>22 DEF DispatchResult
<1>23. CASE QueryEnds
  BY <1>23 DEF QueryEnds
<1>24. CASE ProviderHangs
  BY <1>24 DEF ProviderHangs
<1>25. CASE FollowUpCommand
  BY <1>25 DEF FollowUpCommand
<1>26. CASE FollowUpClaim
  BY <1>26 DEF FollowUpClaim, TouchedByScripts, Touched, BeatAfterScripts, WithoutSystem,
     PendingMessages
<1>27. CASE FollowUpPush
  <2>1. RowTypes'
    BY <1>27, ConstantsOK DEF FollowUpPush, Hand, TouchedByScripts, Touched,
       BeatAfterScripts, SkippedAcks, RowTypes
  <2>2. AckTypes'
    BY <1>27, ConstantsOK DEF FollowUpPush, Hand, TouchedByScripts, Touched,
       BeatAfterScripts, SkippedAcks, AckTypes
  <2>3. RunnerTypes'
    BY <1>27, ConstantsOK DEF FollowUpPush, Hand, TouchedByScripts, Touched,
       BeatAfterScripts, SkippedAcks, RunnerTypes
  <2>4. HostTypes'
    BY <1>27, ConstantsOK DEF FollowUpPush, Hand, TouchedByScripts, Touched,
       BeatAfterScripts, SkippedAcks, HostTypes
  <2>5. CountTypes'
    BY <1>27, ConstantsOK DEF FollowUpPush, Hand, TouchedByScripts, Touched,
       BeatAfterScripts, SkippedAcks, CountTypes
  <2> QED
    BY <2>1, <2>2, <2>3, <2>4, <2>5 DEF RowTypes, AckTypes, RunnerTypes, HostTypes, CountTypes
<1>28. CASE FollowUpTooLate
  BY <1>28 DEF FollowUpTooLate, Hand, TouchedByScripts, Touched, BeatAfterScripts, SkippedAcks
<1>29. ASSUME NEW m \in Messages, QuestionAnswered(m) PROVE TypeOK'
  BY <1>29 DEF QuestionAnswered, Hand
<1>30. CASE Crash
  <2>1. RowTypes'
    BY <1>30, ConstantsOK DEF Crash, Upset, ContainerDies, RowTypes
  <2>2. AckTypes'
    BY <1>30, ConstantsOK DEF Crash, Upset, ContainerDies, AckTypes
  <2>3. RunnerTypes'
    BY <1>30, ConstantsOK DEF Crash, Upset, ContainerDies, RunnerTypes
  <2>4. HostTypes'
    BY <1>30, ConstantsOK DEF Crash, Upset, ContainerDies, HostTypes
  <2>5. CountTypes'
    BY <1>30, ConstantsOK DEF Crash, Upset, ContainerDies, CountTypes
  <2> QED
    BY <2>1, <2>2, <2>3, <2>4, <2>5 DEF RowTypes, AckTypes, RunnerTypes, HostTypes, CountTypes
<1>31. CASE ClaimsAge
  BY <1>31 DEF ClaimsAge, Aged
<1>32. CASE HeartbeatAges
  BY <1>32 DEF HeartbeatAges, Aged
<1>33. ASSUME NEW m \in Messages, BackoffElapses(m) PROVE TypeOK'
  BY <1>33 DEF BackoffElapses
<1>34. CASE UNCHANGED vars
  BY <1>34 DEF vars
<1> HIDE DEF TypeOK, rowVars, runnerVars, hostVars, AllKinds, AllFaults, Processing
<1> QED
  BY <1>1, <1>2, <1>3, <1>4, <1>5, <1>6, <1>7, <1>8, <1>9, <1>10, <1>11, <1>12, <1>13,
     <1>14, <1>15, <1>16, <1>17, <1>18, <1>19, <1>20, <1>21, <1>22, <1>23, <1>24, <1>25,
     <1>26, <1>27, <1>28, <1>29, <1>30, <1>31, <1>32, <1>33, <1>34
     DEF Next, HostEvent, Sweep, MainLoop, SideLoop, Clock, Arrive

-----------------------------------------------------------------------------
(* The inductive invariant.                                                *)

(* Without a container that has polled there is no work in hand.           *)
NothingInHand ==
    pc \in {"none", "boot"} => batch = {} /\ follow = {} /\ late = {} /\ owed = {}

Placement == NoDuplicateContainer /\ NothingInHand

Possession == WorkStaysClaimed /\ OnePairOfHands

(* A claimed row is pending and due: no claim outlives its row, and a row  *)
(* that has been deferred has no claim.                                    *)
ClaimsAreDue == \A m \in Messages : Claimed(m) => Due(m)

Settlement == ClaimsAreDue /\ FailedOnlyExhausted

(* A restart has been counted when docker stop begins, and the container   *)
(* still works until docker stop is done.                                  *)
Stopping == IF hpc = "stop" THEN 1 ELSE 0

(* A row that may be given out again: unclaimed, or claimed and not yet    *)
(* given to the agent.                                                     *)
Waiting(m) ==
    /\ status[m] \in {"absent", "pending"}
    /\ ack[m] = "none" \/ (Claimed(m) /\ m \notin owed)

OwedClaims == \A m \in owed : Claimed(m) => m \in batch /\ pc = "query"

(* One may be handed out again only once its last hand-out has been paid.  *)
Accounts ==
    \A m \in Messages :
        /\ hands[m] + Stopping <= 1 + tries[m] + upsets
        /\ Waiting(m) => hands[m] + Stopping <= tries[m] + upsets

IInv ==
    /\ TypeOK
    /\ Placement
    /\ Possession
    /\ Settlement
    /\ OwedClaims
    /\ Accounts

(* The acknowledgements after a round of pre-task scripts: the skipped     *)
(* rows are settled, every other row is claimed or not as before.          *)
LEMMA ScriptAcks ==
    ASSUME TypeOK, NEW S \in SUBSET Messages, NEW a \in SUBSET Messages,
           NEW b \in SUBSET Messages, ack' = TouchedByScripts(S, SkippedAcks(a, b))
    PROVE  \A m \in Messages :
              /\ m \in a \cup b => ack'[m] \in {"completed", "script-error"}
              /\ m \notin a \cup b =>
                    /\ Claimed(m)' <=> Claimed(m)
                    /\ ack'[m] = "none" <=> ack[m] = "none"
BY DEF TypeOK, TouchedByScripts, Touched, SkippedAcks, Claimed, Processing

(* A container starts only where none is, and starts with empty hands.     *)
LEMMA PlacementStep ==
    ASSUME TypeOK, Placement, [Next]_vars
    PROVE  Placement'
<1> USE ConstantsOK DEF Placement, NoDuplicateContainer, NothingInHand, rowVars, runnerVars,
        hostVars
<1>1. ASSUME NEW m \in Messages, NEW k \in Kinds \ {"wake", "task"}, RouteMessage(m, k)
      PROVE Placement'
  BY <1>1 DEF RouteMessage, InsertMessage, NextSeq, Wake
<1>2. ASSUME NEW m \in Messages, ScheduleTask(m) PROVE Placement'
  BY <1>2 DEF ScheduleTask, InsertMessage, NextSeq
<1>3. ASSUME NEW m \in Messages, RestartContainer(m) PROVE Placement'
  BY <1>3 DEF RestartContainer, InsertMessage, NextSeq, Upset
<1>4. CASE RestartQuietly
  BY <1>4 DEF RestartQuietly, Upset
<1>5. CASE ContainerStopped
  BY <1>5 DEF ContainerStopped, ContainerDies
<1>6. CASE SpawnContainer
  BY <1>6 DEF SpawnContainer, HostFree
<1>7. CASE SpawnFails
  BY <1>7 DEF SpawnFails, Upset, ResetStuckProcessingRows, Retried, HostFree
<1>8. CASE ContainerClosed
  BY <1>8 DEF ContainerClosed
<1>9. CASE HostRestart
  BY <1>9 DEF HostRestart, Upset, ContainerDies
<1>10. CASE SweepSync
  BY <1>10 DEF SweepSync
<1>11. CASE SweepWake
  BY <1>11 DEF SweepWake, Wake
<1>12. CASE SweepNoWake
  BY <1>12 DEF SweepNoWake
<1>13. CASE SweepDecide
  BY <1>13 DEF SweepDecide
<1>14. CASE SweepKill
  BY <1>14 DEF SweepKill, ContainerDies, ResetStuckProcessingRows, Retried
<1>15. CASE SweepCleanup
  BY <1>15 DEF SweepCleanup, ResetStuckProcessingRows, Retried
<1>16. CASE Boot
  BY <1>16 DEF Boot
<1>17. CASE PollNothing
  BY <1>17 DEF PollNothing
<1>18. CASE PollClaim
  BY <1>18 DEF PollClaim, Hand, TouchedByScripts, Touched, WithoutSystem, PendingMessages
<1>19. CASE ScriptsDone
  BY <1>19 DEF ScriptsDone, Verdicts, Tasks, Hand, TouchedByScripts, Touched, SkippedAcks
<1>20. CASE QueryEvent
  BY <1>20 DEF QueryEvent, Touched
<1>21. CASE QueryResult
  BY <1>21 DEF QueryResult, Touched
<1>22. CASE DispatchResult
  BY <1>22 DEF DispatchResult
<1>23. CASE QueryEnds
  BY <1>23 DEF QueryEnds
<1>24. CASE ProviderHangs
  BY <1>24 DEF ProviderHangs
<1>25. CASE FollowUpCommand
  BY <1>25 DEF FollowUpCommand
<1>26. CASE FollowUpClaim
  BY <1>26 DEF FollowUpClaim, FollowUpIdle, TouchedByScripts, Touched, WithoutSystem,
     PendingMessages
<1>27. CASE FollowUpPush
  BY <1>27 DEF FollowUpPush, Verdicts, Tasks, Hand, TouchedByScripts, Touched, SkippedAcks
<1>28. CASE FollowUpTooLate
  BY <1>28 DEF FollowUpTooLate, Verdicts, Tasks, Hand, TouchedByScripts, Touched, SkippedAcks
<1>29. ASSUME NEW m \in Messages, QuestionAnswered(m) PROVE Placement'
  BY <1>29 DEF QuestionAnswered, Hand
<1>30. CASE Crash
  BY <1>30 DEF Crash, Upset, ContainerDies
<1>31. CASE ClaimsAge
  BY <1>31 DEF ClaimsAge, Aged
<1>32. CASE HeartbeatAges
  BY <1>32 DEF HeartbeatAges, Aged
<1>33. ASSUME NEW m \in Messages, BackoffElapses(m) PROVE Placement'
  BY <1>33 DEF BackoffElapses
<1>34. CASE UNCHANGED vars
  BY <1>34 DEF vars
<1> HIDE DEF Placement, NoDuplicateContainer, NothingInHand, rowVars, runnerVars, hostVars
<1> QED
  BY <1>1, <1>2, <1>3, <1>4, <1>5, <1>6, <1>7, <1>8, <1>9, <1>10, <1>11,
     <1>12, <1>13, <1>14, <1>15, <1>16, <1>17, <1>18, <1>19, <1>20, <1>21,
     <1>22, <1>23, <1>24, <1>25, <1>26, <1>27, <1>28, <1>29, <1>30, <1>31,
     <1>32, <1>33, <1>34
     DEF Next, HostEvent, Sweep, MainLoop, SideLoop, Clock, Arrive

(* Rows change hands only through a claim, an ack or the end of the        *)
(* container.                                                              *)
LEMMA PossessionStep ==
    ASSUME TypeOK, Placement, Possession, [Next]_vars
    PROVE  Possession'
<1> USE ConstantsOK DEF TypeOK, Placement, NoDuplicateContainer, NothingInHand, Possession,
        WorkStaysClaimed, OnePairOfHands, Claimed, Processing, rowVars, runnerVars, hostVars
<1>1. ASSUME NEW m \in Messages, NEW k \in Kinds \ {"wake", "task"}, RouteMessage(m, k)
      PROVE Possession'
  BY <1>1 DEF RouteMessage, InsertMessage, NextSeq, Wake
<1>2. ASSUME NEW m \in Messages, ScheduleTask(m) PROVE Possession'
  BY <1>2 DEF ScheduleTask, InsertMessage, NextSeq
<1>3. ASSUME NEW m \in Messages, RestartContainer(m) PROVE Possession'
  BY <1>3 DEF RestartContainer, InsertMessage, NextSeq, Upset
<1>4. CASE RestartQuietly
  BY <1>4 DEF RestartQuietly, Upset
<1>5. CASE ContainerStopped
  BY <1>5 DEF ContainerStopped, ContainerDies
<1>6. CASE SpawnContainer
  BY <1>6 DEF SpawnContainer, HostFree
<1>7. CASE SpawnFails
  BY <1>7 DEF SpawnFails, Upset, ResetStuckProcessingRows, Retried, HostFree
<1>8. CASE ContainerClosed
  BY <1>8 DEF ContainerClosed
<1>9. CASE HostRestart
  BY <1>9 DEF HostRestart, Upset, ContainerDies
<1>10. CASE SweepSync
  BY <1>10 DEF SweepSync
<1>11. CASE SweepWake
  BY <1>11 DEF SweepWake, Wake
<1>12. CASE SweepNoWake
  BY <1>12 DEF SweepNoWake
<1>13. CASE SweepDecide
  BY <1>13 DEF SweepDecide
<1>14. CASE SweepKill
  BY <1>14 DEF SweepKill, ContainerDies, ResetStuckProcessingRows, Retried
<1>15. CASE SweepCleanup
  BY <1>15 DEF SweepCleanup, ResetStuckProcessingRows, Retried
<1>16. CASE Boot
  BY <1>16 DEF Boot
<1>17. CASE PollNothing
  BY <1>17 DEF PollNothing
<1>18. CASE PollClaim
  BY <1>18 DEF PollClaim, Hand, TouchedByScripts, Touched, WithoutSystem, PendingMessages
<1>19. CASE ScriptsDone
  <2>1. PICK v \in Verdicts(batch) :
           /\ ack' = TouchedByScripts(batch, SkippedAcks(v[1], v[2]))
           /\ owed' = owed \cup (batch \ (v[1] \cup v[2]))
           /\ batch' = batch \ (v[1] \cup v[2])
           /\ pc' = (IF batch \ (v[1] \cup v[2]) = {} THEN "poll" ELSE "query")
    BY <1>19, Zenon DEF ScriptsDone
  <2>2. v[1] \subseteq batch /\ v[2] \subseteq batch
    BY DEF Verdicts, Tasks
  <2>3. UNCHANGED <<follow, late>>
    BY <1>19 DEF ScriptsDone
  <2>a. PICK skipped \in SUBSET batch : skipped = v[1] \cup v[2]
    BY <2>2
  <2>4. \A m \in Messages :
           /\ m \in skipped => ack'[m] \notin Processing \cup {"none"}
           /\ m \notin skipped =>
                 /\ ack'[m] \in Processing <=> ack[m] \in Processing
                 /\ ack'[m] = "none" <=> ack[m] = "none"
    <3>1. batch \in SUBSET Messages /\ v[1] \in SUBSET Messages /\ v[2] \in SUBSET Messages
      BY <2>2
    <3> HIDE DEF TypeOK, WorkStaysClaimed, OnePairOfHands, Placement, NoDuplicateContainer
    <3> QED
      BY <2>1, <2>a, <3>1, ScriptAcks
  <2>5. skipped \subseteq batch
    BY <2>a
  <2>6. WorkStaysClaimed'
    <3>1. /\ batch \subseteq Messages /\ follow \subseteq Messages
          /\ late \subseteq Messages /\ owed \subseteq Messages
          /\ \A m \in batch \cup follow \cup late : ack[m] \in Processing
          /\ \A m \in batch \cup owed : ack[m] # "none"
          /\ batch \cap (follow \cup late) = {} /\ follow \cap late = {}
      BY <1>19 DEF ScriptsDone
    <3> HIDE DEF TypeOK, Placement, NoDuplicateContainer, NothingInHand, Possession,
                 WorkStaysClaimed, OnePairOfHands, Processing
    <3>2. ASSUME NEW m \in batch' PROVE Claimed(m)'
      <4>1. m \in batch /\ m \notin skipped /\ m \in Messages
        BY <2>1, <3>1, <2>a
      <4> QED
        BY <2>4, <3>1, <4>1, Zenon
    <3>3. ASSUME NEW m \in follow' \cup late' PROVE Claimed(m)'
      <4>1. m \in follow \cup late /\ m \notin skipped /\ m \in Messages
        BY <2>3, <2>5, <3>1
      <4> QED
        BY <2>4, <3>1, <4>1, Zenon
    <3>4. ASSUME NEW m \in batch' \cup owed' PROVE ack'[m] # "none"
      <4>1. ack[m] # "none" \/ m \in skipped
        BY <2>1, <3>1, <2>a
      <4>2. m \in Messages
        BY <2>1, <3>1, <2>a
      <4> QED
        BY <2>4, <4>1, <4>2, Zenon
    <3> QED
      BY <3>2, <3>3, <3>4 DEF WorkStaysClaimed
  <2>7. OnePairOfHands'
    BY <1>19, <2>1, <2>3, <2>5 DEF ScriptsDone
  <2> QED
    BY <2>6, <2>7
<1>20. CASE QueryEvent
  BY <1>20 DEF QueryEvent, Touched
<1>21. CASE QueryResult
  BY <1>21 DEF QueryResult, Touched
<1>22. CASE DispatchResult
  BY <1>22 DEF DispatchResult
<1>23. CASE QueryEnds
  BY <1>23 DEF QueryEnds
<1>24. CASE ProviderHangs
  BY <1>24 DEF ProviderHangs
<1>25. CASE FollowUpCommand
  BY <1>25 DEF FollowUpCommand
<1>26. CASE FollowUpClaim
  BY <1>26 DEF FollowUpClaim, FollowUpIdle, TouchedByScripts, Touched, WithoutSystem,
     PendingMessages
<1>27. CASE FollowUpPush
  <2>1. PICK v \in Verdicts(follow) :
           /\ ack' = TouchedByScripts(follow, SkippedAcks(v[1] \cup (follow \ (v[1] \cup v[2])), v[2]))
           /\ owed' = owed \cup (follow \ (v[1] \cup v[2]))
           /\ follow' = {}
    BY <1>27, Zenon DEF FollowUpPush
  <2>2. v[1] \subseteq follow /\ v[2] \subseteq follow
    BY DEF Verdicts, Tasks
  <2>3. UNCHANGED <<batch, late, pc>>
    BY <1>27 DEF FollowUpPush
  <2>a. PICK skipped \in SUBSET follow : skipped = v[1] \cup (follow \ (v[1] \cup v[2])) \cup v[2]
    BY <2>2
  <2>4. \A m \in Messages :
           /\ m \in skipped => ack'[m] \notin Processing \cup {"none"}
           /\ m \notin skipped =>
                 /\ ack'[m] \in Processing <=> ack[m] \in Processing
                 /\ ack'[m] = "none" <=> ack[m] = "none"
    <3>1. /\ v[1] \cup (follow \ (v[1] \cup v[2])) \in SUBSET Messages
          /\ v[2] \in SUBSET Messages /\ follow \in SUBSET Messages
      BY <2>2
    <3> HIDE DEF TypeOK, WorkStaysClaimed, OnePairOfHands, Placement, NoDuplicateContainer
    <3> QED
      BY <2>1, <2>a, <3>1, ScriptAcks
  <2>5. skipped \subseteq follow
    BY <2>a
  <2>6. WorkStaysClaimed'
    <3>1. /\ batch \subseteq Messages /\ follow \subseteq Messages
          /\ late \subseteq Messages /\ owed \subseteq Messages
          /\ \A m \in batch \cup follow \cup late : ack[m] \in Processing
          /\ \A m \in batch \cup owed : ack[m] # "none"
          /\ batch \cap (follow \cup late) = {} /\ follow \cap late = {}
      BY <1>27 DEF FollowUpPush
    <3> HIDE DEF TypeOK, Placement, NoDuplicateContainer, NothingInHand, Possession,
                 WorkStaysClaimed, OnePairOfHands, Processing
    <3>2. ASSUME NEW m \in batch' PROVE Claimed(m)'
      <4>1. m \in batch /\ m \notin skipped /\ m \in Messages
        BY <2>3, <2>5, <3>1
      <4> QED
        BY <2>4, <3>1, <4>1, Zenon
    <3>3. ASSUME NEW m \in follow' \cup late' PROVE Claimed(m)'
      <4>1. m \in follow \cup late /\ m \notin skipped /\ m \in Messages
        BY <2>1, <2>3, <2>5, <3>1
      <4> QED
        BY <2>4, <3>1, <4>1, Zenon
    <3>4. ASSUME NEW m \in batch' \cup owed' PROVE ack'[m] # "none"
      <4>1. ack[m] # "none" \/ m \in skipped
        BY <2>1, <2>3, <3>1, <2>a
      <4>2. m \in Messages
        BY <2>1, <2>3, <3>1, <2>a
      <4> QED
        BY <2>4, <4>1, <4>2, Zenon
    <3> QED
      BY <3>2, <3>3, <3>4 DEF WorkStaysClaimed
  <2>7. OnePairOfHands'
    BY <1>27, <2>1, <2>3, <2>5 DEF FollowUpPush
  <2> QED
    BY <2>6, <2>7
<1>28. CASE FollowUpTooLate
  BY <1>28 DEF FollowUpTooLate, Verdicts, Tasks, Hand, TouchedByScripts, Touched, SkippedAcks
<1>29. ASSUME NEW m \in Messages, QuestionAnswered(m) PROVE Possession'
  BY <1>29 DEF QuestionAnswered, Hand
<1>30. CASE Crash
  BY <1>30 DEF Crash, Upset, ContainerDies
<1>31. CASE ClaimsAge
  BY <1>31 DEF ClaimsAge, Aged
<1>32. CASE HeartbeatAges
  BY <1>32 DEF HeartbeatAges, Aged
<1>33. ASSUME NEW m \in Messages, BackoffElapses(m) PROVE Possession'
  BY <1>33 DEF BackoffElapses
<1>34. CASE UNCHANGED vars
  BY <1>34 DEF vars
<1> HIDE DEF TypeOK, Placement, NoDuplicateContainer, NothingInHand, Possession,
             WorkStaysClaimed, OnePairOfHands, Claimed, Processing, rowVars, runnerVars,
             hostVars
<1> QED
  BY <1>1, <1>2, <1>3, <1>4, <1>5, <1>6, <1>7, <1>8, <1>9, <1>10, <1>11,
     <1>12, <1>13, <1>14, <1>15, <1>16, <1>17, <1>18, <1>19, <1>20, <1>21,
     <1>22, <1>23, <1>24, <1>25, <1>26, <1>27, <1>28, <1>29, <1>30, <1>31,
     <1>32, <1>33, <1>34
     DEF Next, HostEvent, Sweep, MainLoop, SideLoop, Clock, Arrive

(* Claims are on due rows, and a row fails only when its tries are used    *)
(* up.                                                                     *)
LEMMA SettlementStep ==
    ASSUME TypeOK, Placement, Possession, Settlement, [Next]_vars
    PROVE  Settlement'
<1> USE ConstantsOK DEF TypeOK, Placement, NoDuplicateContainer, NothingInHand, Possession,
        WorkStaysClaimed, OnePairOfHands, Settlement, ClaimsAreDue, FailedOnlyExhausted,
        Claimed, Due, Processing, rowVars, runnerVars, hostVars
<1>1. ASSUME NEW m \in Messages, NEW k \in Kinds \ {"wake", "task"}, RouteMessage(m, k)
      PROVE Settlement'
  BY <1>1 DEF RouteMessage, InsertMessage, NextSeq, Wake
<1>2. ASSUME NEW m \in Messages, ScheduleTask(m) PROVE Settlement'
  BY <1>2 DEF ScheduleTask, InsertMessage, NextSeq
<1>3. ASSUME NEW m \in Messages, RestartContainer(m) PROVE Settlement'
  BY <1>3 DEF RestartContainer, InsertMessage, NextSeq, Upset
<1>4. CASE RestartQuietly
  BY <1>4 DEF RestartQuietly, Upset
<1>5. CASE ContainerStopped
  BY <1>5 DEF ContainerStopped, ContainerDies
<1>6. CASE SpawnContainer
  BY <1>6 DEF SpawnContainer, HostFree
<1>7. CASE SpawnFails
  BY <1>7 DEF SpawnFails, Upset, ResetStuckProcessingRows, Retried, HostFree
<1>8. CASE ContainerClosed
  BY <1>8 DEF ContainerClosed
<1>9. CASE HostRestart
  BY <1>9 DEF HostRestart, Upset, ContainerDies
<1>10. CASE SweepSync
  BY <1>10 DEF SweepSync
<1>11. CASE SweepWake
  BY <1>11 DEF SweepWake, Wake
<1>12. CASE SweepNoWake
  BY <1>12 DEF SweepNoWake
<1>13. CASE SweepDecide
  BY <1>13 DEF SweepDecide
<1>14. CASE SweepKill
  BY <1>14 DEF SweepKill, ContainerDies, ResetStuckProcessingRows, Retried
<1>15. CASE SweepCleanup
  BY <1>15 DEF SweepCleanup, ResetStuckProcessingRows, Retried
<1>16. CASE Boot
  BY <1>16 DEF Boot
<1>17. CASE PollNothing
  BY <1>17 DEF PollNothing
<1>18. CASE PollClaim
  BY <1>18 DEF PollClaim, Hand, TouchedByScripts, Touched, WithoutSystem, PendingMessages
<1>19. CASE ScriptsDone
  BY <1>19 DEF ScriptsDone, Verdicts, Tasks, Hand, TouchedByScripts, Touched, SkippedAcks
<1>20. CASE QueryEvent
  BY <1>20 DEF QueryEvent, Touched
<1>21. CASE QueryResult
  BY <1>21 DEF QueryResult, Touched
<1>22. CASE DispatchResult
  BY <1>22 DEF DispatchResult
<1>23. CASE QueryEnds
  BY <1>23 DEF QueryEnds
<1>24. CASE ProviderHangs
  BY <1>24 DEF ProviderHangs
<1>25. CASE FollowUpCommand
  BY <1>25 DEF FollowUpCommand
<1>26. CASE FollowUpClaim
  BY <1>26 DEF FollowUpClaim, FollowUpIdle, TouchedByScripts, Touched, WithoutSystem,
     PendingMessages
<1>27. CASE FollowUpPush
  BY <1>27 DEF FollowUpPush, Verdicts, Tasks, Hand, TouchedByScripts, Touched, SkippedAcks
<1>28. CASE FollowUpTooLate
  BY <1>28 DEF FollowUpTooLate, Verdicts, Tasks, Hand, TouchedByScripts, Touched, SkippedAcks
<1>29. ASSUME NEW m \in Messages, QuestionAnswered(m) PROVE Settlement'
  BY <1>29 DEF QuestionAnswered, Hand
<1>30. CASE Crash
  BY <1>30 DEF Crash, Upset, ContainerDies
<1>31. CASE ClaimsAge
  BY <1>31 DEF ClaimsAge, Aged
<1>32. CASE HeartbeatAges
  BY <1>32 DEF HeartbeatAges, Aged
<1>33. ASSUME NEW m \in Messages, BackoffElapses(m) PROVE Settlement'
  BY <1>33 DEF BackoffElapses
<1>34. CASE UNCHANGED vars
  BY <1>34 DEF vars
<1> HIDE DEF TypeOK, Placement, NoDuplicateContainer, NothingInHand, Possession,
             WorkStaysClaimed, OnePairOfHands, Settlement, ClaimsAreDue,
             FailedOnlyExhausted, Claimed, Due, Processing, rowVars, runnerVars, hostVars
<1> QED
  BY <1>1, <1>2, <1>3, <1>4, <1>5, <1>6, <1>7, <1>8, <1>9, <1>10, <1>11,
     <1>12, <1>13, <1>14, <1>15, <1>16, <1>17, <1>18, <1>19, <1>20, <1>21,
     <1>22, <1>23, <1>24, <1>25, <1>26, <1>27, <1>28, <1>29, <1>30, <1>31,
     <1>32, <1>33, <1>34
     DEF Next, HostEvent, Sweep, MainLoop, SideLoop, Clock, Arrive

(* A claim without an owner is one that a container is about to settle.    *)
LEMMA OwedStep ==
    ASSUME TypeOK, Placement, Possession, OwedClaims, [Next]_vars
    PROVE  OwedClaims'
<1> USE ConstantsOK DEF TypeOK, Placement, NoDuplicateContainer, NothingInHand, Possession,
        WorkStaysClaimed, OnePairOfHands, OwedClaims, Claimed, Processing, rowVars,
        runnerVars, hostVars
<1>1. ASSUME NEW m \in Messages, NEW k \in Kinds \ {"wake", "task"}, RouteMessage(m, k)
      PROVE OwedClaims'
  BY <1>1 DEF RouteMessage, InsertMessage, NextSeq, Wake
<1>2. ASSUME NEW m \in Messages, ScheduleTask(m) PROVE OwedClaims'
  BY <1>2 DEF ScheduleTask, InsertMessage, NextSeq
<1>3. ASSUME NEW m \in Messages, RestartContainer(m) PROVE OwedClaims'
  BY <1>3 DEF RestartContainer, InsertMessage, NextSeq, Upset
<1>4. CASE RestartQuietly
  BY <1>4 DEF RestartQuietly, Upset
<1>5. CASE ContainerStopped
  BY <1>5 DEF ContainerStopped, ContainerDies
<1>6. CASE SpawnContainer
  BY <1>6 DEF SpawnContainer, HostFree
<1>7. CASE SpawnFails
  BY <1>7 DEF SpawnFails, Upset, ResetStuckProcessingRows, Retried, HostFree
<1>8. CASE ContainerClosed
  BY <1>8 DEF ContainerClosed
<1>9. CASE HostRestart
  BY <1>9 DEF HostRestart, Upset, ContainerDies
<1>10. CASE SweepSync
  BY <1>10 DEF SweepSync
<1>11. CASE SweepWake
  BY <1>11 DEF SweepWake, Wake
<1>12. CASE SweepNoWake
  BY <1>12 DEF SweepNoWake
<1>13. CASE SweepDecide
  BY <1>13 DEF SweepDecide
<1>14. CASE SweepKill
  BY <1>14 DEF SweepKill, ContainerDies, ResetStuckProcessingRows, Retried
<1>15. CASE SweepCleanup
  BY <1>15 DEF SweepCleanup, ResetStuckProcessingRows, Retried
<1>16. CASE Boot
  BY <1>16 DEF Boot
<1>17. CASE PollNothing
  BY <1>17 DEF PollNothing
<1>18. CASE PollClaim
  BY <1>18 DEF PollClaim, Hand, TouchedByScripts, Touched, WithoutSystem, PendingMessages
<1>19. CASE ScriptsDone
  <2>1. PICK v \in Verdicts(batch) :
           /\ ack' = TouchedByScripts(batch, SkippedAcks(v[1], v[2]))
           /\ owed' = owed \cup (batch \ (v[1] \cup v[2]))
           /\ batch' = batch \ (v[1] \cup v[2])
           /\ pc' = (IF batch \ (v[1] \cup v[2]) = {} THEN "poll" ELSE "query")
    BY <1>19, Zenon DEF ScriptsDone
  <2>2. v[1] \subseteq batch /\ v[2] \subseteq batch
    BY DEF Verdicts, Tasks
  <2>3. ASSUME NEW m \in owed', Claimed(m)' PROVE m \in batch' /\ pc' = "query"
    <3>1. CASE m \in owed
      <4>1. Claimed(m)
        BY <2>1, <2>2, <2>3, <3>1 DEF TouchedByScripts, Touched, SkippedAcks
      <4> QED
        BY <1>19, <2>1, <3>1, <4>1 DEF ScriptsDone
    <3>2. CASE m \in batch \ (v[1] \cup v[2])
      BY <1>19, <2>1, <2>2, <2>3, <3>2 DEF ScriptsDone, TouchedByScripts, Touched, SkippedAcks
    <3> QED
      BY <2>1, <2>3, <3>1, <3>2
  <2> QED
    BY <2>3
<1>20. CASE QueryEvent
  BY <1>20 DEF QueryEvent, Touched
<1>21. CASE QueryResult
  BY <1>21 DEF QueryResult, Touched
<1>22. CASE DispatchResult
  BY <1>22 DEF DispatchResult
<1>23. CASE QueryEnds
  BY <1>23 DEF QueryEnds
<1>24. CASE ProviderHangs
  BY <1>24 DEF ProviderHangs
<1>25. CASE FollowUpCommand
  BY <1>25 DEF FollowUpCommand
<1>26. CASE FollowUpClaim
  BY <1>26 DEF FollowUpClaim, FollowUpIdle, TouchedByScripts, Touched, WithoutSystem,
     PendingMessages
<1>27. CASE FollowUpPush
  <2>1. PICK v \in Verdicts(follow) :
           /\ ack' = TouchedByScripts(follow, SkippedAcks(v[1] \cup (follow \ (v[1] \cup v[2])), v[2]))
           /\ owed' = owed \cup (follow \ (v[1] \cup v[2]))
           /\ UNCHANGED <<batch, pc>>
    BY <1>27, Zenon DEF FollowUpPush
  <2>2. v[1] \subseteq follow /\ v[2] \subseteq follow
    BY DEF Verdicts, Tasks
  <2>3. ASSUME NEW m \in owed', Claimed(m)' PROVE m \in batch' /\ pc' = "query"
    <3>1. CASE m \in owed
      <4>1. Claimed(m)
        BY <2>1, <2>2, <2>3, <3>1 DEF TouchedByScripts, Touched, SkippedAcks
      <4> QED
        BY <1>27, <2>1, <3>1, <4>1 DEF FollowUpPush
    <3>2. CASE m \in follow \ (v[1] \cup v[2])
      BY <1>27, <2>1, <2>2, <2>3, <3>2 DEF FollowUpPush, TouchedByScripts, Touched, SkippedAcks
    <3> QED
      BY <2>1, <2>3, <3>1, <3>2
  <2> QED
    BY <2>3
<1>28. CASE FollowUpTooLate
  BY <1>28 DEF FollowUpTooLate, Verdicts, Tasks, Hand, TouchedByScripts, Touched, SkippedAcks
<1>29. ASSUME NEW m \in Messages, QuestionAnswered(m) PROVE OwedClaims'
  BY <1>29 DEF QuestionAnswered, Hand
<1>30. CASE Crash
  BY <1>30 DEF Crash, Upset, ContainerDies
<1>31. CASE ClaimsAge
  BY <1>31 DEF ClaimsAge, Aged
<1>32. CASE HeartbeatAges
  BY <1>32 DEF HeartbeatAges, Aged
<1>33. ASSUME NEW m \in Messages, BackoffElapses(m) PROVE OwedClaims'
  BY <1>33 DEF BackoffElapses
<1>34. CASE UNCHANGED vars
  BY <1>34 DEF vars
<1> HIDE DEF TypeOK, Placement, NoDuplicateContainer, NothingInHand, Possession,
             WorkStaysClaimed, OnePairOfHands, OwedClaims, Claimed, Processing, rowVars,
             runnerVars, hostVars
<1> QED
  BY <1>1, <1>2, <1>3, <1>4, <1>5, <1>6, <1>7, <1>8, <1>9, <1>10, <1>11,
     <1>12, <1>13, <1>14, <1>15, <1>16, <1>17, <1>18, <1>19, <1>20, <1>21,
     <1>22, <1>23, <1>24, <1>25, <1>26, <1>27, <1>28, <1>29, <1>30, <1>31,
     <1>32, <1>33, <1>34
     DEF Next, HostEvent, Sweep, MainLoop, SideLoop, Clock, Arrive

(* A row is given out again only for a try or for an upset.                *)
LEMMA AccountsStep ==
    ASSUME TypeOK, Placement, Possession, Settlement, OwedClaims, Accounts, [Next]_vars
    PROVE  Accounts'
<1> USE ConstantsOK DEF TypeOK, Placement, NoDuplicateContainer, NothingInHand, Possession,
        WorkStaysClaimed, OnePairOfHands, Settlement, ClaimsAreDue, OwedClaims, Accounts,
        Waiting, Stopping, Claimed, Due, Processing, rowVars, runnerVars, hostVars
<1>1. ASSUME NEW m \in Messages, NEW k \in Kinds \ {"wake", "task"}, RouteMessage(m, k)
      PROVE Accounts'
  BY <1>1 DEF RouteMessage, InsertMessage, NextSeq, Wake
<1>2. ASSUME NEW m \in Messages, ScheduleTask(m) PROVE Accounts'
  BY <1>2 DEF ScheduleTask, InsertMessage, NextSeq
<1>3. ASSUME NEW m \in Messages, RestartContainer(m) PROVE Accounts'
  BY <1>3 DEF RestartContainer, InsertMessage, NextSeq, Upset
<1>4. CASE RestartQuietly
  BY <1>4 DEF RestartQuietly, Upset
<1>5. CASE ContainerStopped
  BY <1>5 DEF ContainerStopped, ContainerDies
<1>6. CASE SpawnContainer
  BY <1>6 DEF SpawnContainer, HostFree
<1>7. CASE SpawnFails
  BY <1>7 DEF SpawnFails, Upset, ResetStuckProcessingRows, Retried, HostFree
<1>8. CASE ContainerClosed
  BY <1>8 DEF ContainerClosed
<1>9. CASE HostRestart
  BY <1>9 DEF HostRestart, Upset, ContainerDies
<1>10. CASE SweepSync
  BY <1>10 DEF SweepSync
<1>11. CASE SweepWake
  BY <1>11 DEF SweepWake, Wake
<1>12. CASE SweepNoWake
  BY <1>12 DEF SweepNoWake
<1>13. CASE SweepDecide
  BY <1>13 DEF SweepDecide
<1>14. CASE SweepKill
  BY <1>14 DEF SweepKill, ContainerDies, ResetStuckProcessingRows, Retried
<1>15. CASE SweepCleanup
  BY <1>15 DEF SweepCleanup, ResetStuckProcessingRows, Retried
<1>16. CASE Boot
  BY <1>16 DEF Boot
<1>17. CASE PollNothing
  BY <1>17 DEF PollNothing
<1>18. CASE PollClaim
  BY <1>18 DEF PollClaim, Hand, TouchedByScripts, Touched, WithoutSystem, PendingMessages
<1>19. CASE ScriptsDone
  <2>1. PICK v \in Verdicts(batch) :
           /\ ack' = TouchedByScripts(batch, SkippedAcks(v[1], v[2]))
           /\ Hand((batch \ (v[1] \cup v[2])) \cup v[1])
           /\ owed' = owed \cup (batch \ (v[1] \cup v[2]))
    BY <1>19, Zenon DEF ScriptsDone
  <2>2. v[1] \subseteq batch /\ v[2] \subseteq batch
    BY DEF Verdicts, Tasks
  <2>3. UNCHANGED <<status, kind, tries, deferred, upsets, hpc>>
    BY <1>19 DEF ScriptsDone
  <2>4. ASSUME NEW m \in Messages
        PROVE  /\ hands'[m] + Stopping' <= 1 + tries'[m] + upsets'
               /\ Waiting(m)' => hands'[m] + Stopping' <= tries'[m] + upsets'
    <3>1. CASE m \in batch
      <4>1. Waiting(m)
        BY <1>19, <3>1 DEF ScriptsDone
      <4>2. ~Waiting(m)'
        BY <2>1, <2>2, <3>1 DEF TouchedByScripts, Touched, SkippedAcks
      <4>3. hands'[m] <= hands[m] + 1
        BY <2>1 DEF Hand
      <4>4. hands[m] + Stopping <= tries[m] + upsets
        BY <4>1
      <4>5. /\ tries'[m] = tries[m] /\ upsets' = upsets /\ Stopping' = Stopping
            /\ hands[m] \in Nat /\ hands'[m] \in Nat /\ Stopping \in Nat
            /\ tries[m] \in Nat /\ upsets \in Nat
        BY <2>1, <2>3 DEF Hand
      <4> HIDE DEF TypeOK, Accounts, Stopping, Waiting
      <4> QED
        BY <4>2, <4>3, <4>4, <4>5
    <3>2. CASE m \notin batch
      <4>1. hands'[m] = hands[m]
        BY <2>1, <2>2, <3>2 DEF Hand
      <4>2. Waiting(m)' => Waiting(m)
        BY <2>1, <2>2, <2>3, <3>2 DEF TouchedByScripts, Touched, SkippedAcks
      <4> QED
        BY <4>1, <4>2, <2>3
    <3> QED
      BY <3>1, <3>2
  <2> QED
    BY <2>4
<1>20. CASE QueryEvent
  BY <1>20 DEF QueryEvent, Touched
<1>21. CASE QueryResult
  BY <1>21 DEF QueryResult, Touched
<1>22. CASE DispatchResult
  BY <1>22 DEF DispatchResult
<1>23. CASE QueryEnds
  BY <1>23 DEF QueryEnds
<1>24. CASE ProviderHangs
  BY <1>24 DEF ProviderHangs
<1>25. CASE FollowUpCommand
  BY <1>25 DEF FollowUpCommand
<1>26. CASE FollowUpClaim
  BY <1>26 DEF FollowUpClaim, FollowUpIdle, TouchedByScripts, Touched, WithoutSystem,
     PendingMessages
<1>27. CASE FollowUpPush
  <2>1. PICK v \in Verdicts(follow) :
           /\ ack' = TouchedByScripts(follow, SkippedAcks(v[1] \cup (follow \ (v[1] \cup v[2])), v[2]))
           /\ Hand((follow \ (v[1] \cup v[2])) \cup v[1])
           /\ owed' = owed \cup (follow \ (v[1] \cup v[2]))
    BY <1>27, Zenon DEF FollowUpPush
  <2>2. v[1] \subseteq follow /\ v[2] \subseteq follow
    BY DEF Verdicts, Tasks
  <2>3. UNCHANGED <<status, kind, tries, deferred, upsets, hpc>>
    BY <1>27 DEF FollowUpPush
  <2>4. ASSUME NEW m \in Messages
        PROVE  /\ hands'[m] + Stopping' <= 1 + tries'[m] + upsets'
               /\ Waiting(m)' => hands'[m] + Stopping' <= tries'[m] + upsets'
    <3>1. CASE m \in follow
      <4>1. Waiting(m)
        BY <1>27, <3>1 DEF FollowUpPush
      <4>2. ~Waiting(m)'
        BY <2>1, <2>2, <3>1 DEF TouchedByScripts, Touched, SkippedAcks
      <4>3. hands'[m] <= hands[m] + 1
        BY <2>1 DEF Hand
      <4>4. hands[m] + Stopping <= tries[m] + upsets
        BY <4>1
      <4>5. /\ tries'[m] = tries[m] /\ upsets' = upsets /\ Stopping' = Stopping
            /\ hands[m] \in Nat /\ hands'[m] \in Nat /\ Stopping \in Nat
            /\ tries[m] \in Nat /\ upsets \in Nat
        BY <2>1, <2>3 DEF Hand
      <4> HIDE DEF TypeOK, Accounts, Stopping, Waiting
      <4> QED
        BY <4>2, <4>3, <4>4, <4>5
    <3>2. CASE m \notin follow
      <4>1. hands'[m] = hands[m]
        BY <2>1, <2>2, <3>2 DEF Hand
      <4>2. Waiting(m)' => Waiting(m)
        BY <2>1, <2>2, <2>3, <3>2 DEF TouchedByScripts, Touched, SkippedAcks
      <4> QED
        BY <4>1, <4>2, <2>3
    <3> QED
      BY <3>1, <3>2
  <2> QED
    BY <2>4
<1>28. CASE FollowUpTooLate
  BY <1>28 DEF FollowUpTooLate, Verdicts, Tasks, Hand, TouchedByScripts, Touched, SkippedAcks
<1>29. ASSUME NEW m \in Messages, QuestionAnswered(m) PROVE Accounts'
  BY <1>29 DEF QuestionAnswered, Hand
<1>30. CASE Crash
  BY <1>30 DEF Crash, Upset, ContainerDies
<1>31. CASE ClaimsAge
  BY <1>31 DEF ClaimsAge, Aged
<1>32. CASE HeartbeatAges
  BY <1>32 DEF HeartbeatAges, Aged
<1>33. ASSUME NEW m \in Messages, BackoffElapses(m) PROVE Accounts'
  BY <1>33 DEF BackoffElapses
<1>34. CASE UNCHANGED vars
  BY <1>34 DEF vars
<1> HIDE DEF TypeOK, Placement, NoDuplicateContainer, NothingInHand, Possession,
             WorkStaysClaimed, OnePairOfHands, Settlement, ClaimsAreDue, OwedClaims,
             Accounts, Waiting, Stopping, Claimed, Due, Processing, rowVars, runnerVars,
             hostVars
<1> QED
  BY <1>1, <1>2, <1>3, <1>4, <1>5, <1>6, <1>7, <1>8, <1>9, <1>10, <1>11,
     <1>12, <1>13, <1>14, <1>15, <1>16, <1>17, <1>18, <1>19, <1>20, <1>21,
     <1>22, <1>23, <1>24, <1>25, <1>26, <1>27, <1>28, <1>29, <1>30, <1>31,
     <1>32, <1>33, <1>34
     DEF Next, HostEvent, Sweep, MainLoop, SideLoop, Clock, Arrive

-----------------------------------------------------------------------------
(* TypeOK and the other parts of the invariant hold of every reachable     *)
(* state of every instance.                                                *)
THEOREM TypeCorrect == Spec => []TypeOK
<1>1. Init => TypeOK
  BY InitTypes
<1> QED
  BY <1>1, TypeStep, PTL DEF Spec

(* The inductive invariant holds.                                          *)
LEMMA Invariance == Spec => []IInv
<1>1. Init => IInv
  <2> SUFFICES ASSUME Init PROVE IInv
    OBVIOUS
  <2> USE ConstantsOK DEF Init
  <2>1. TypeOK
    BY InitTypes
  <2>2. Placement /\ Possession
    BY DEF Placement, NoDuplicateContainer, NothingInHand, Possession, WorkStaysClaimed,
           OnePairOfHands
  <2>3. Settlement /\ OwedClaims
    BY DEF Settlement, ClaimsAreDue, FailedOnlyExhausted, OwedClaims, Claimed, Processing
  <2>4. Accounts
    BY DEF Accounts, Stopping
  <2> QED
    BY <2>1, <2>2, <2>3, <2>4 DEF IInv
<1>2. IInv /\ [Next]_vars => IInv'
  BY TypeStep, PlacementStep, PossessionStep, SettlementStep, OwedStep, AccountsStep DEF IInv
<1> QED
  BY <1>1, <1>2, PTL DEF Spec

(* Two containers never work on the same session (host maps, close event). *)
THEOREM OneContainer == Spec => []NoDuplicateContainer
BY Invariance, PTL DEF IInv, Placement

(* What a container works on stays claimed for as long as it holds it.     *)
THEOREM NoDoublePickUp == Spec => []WorkStaysClaimed
BY Invariance, PTL DEF IInv, Possession

(* No row is picked up while another poll of the same container holds it.  *)
THEOREM OneHolder == Spec => []OnePairOfHands
BY Invariance, PTL DEF IInv, Possession

(* Only used-up tries and a broken script fail a row.                      *)
THEOREM FailureIsEarned == Spec => []FailedOnlyExhausted
BY Invariance, PTL DEF IInv, Settlement

(* A row is handed out once, plus once for each try charged and each fault.*)
THEOREM HandOutsAreCharged == Spec => []RedeliveryIsCharged
<1>1. IInv => RedeliveryIsCharged
  BY DEF IInv, TypeOK, Accounts, Stopping, RedeliveryIsCharged
<1> QED
  BY <1>1, Invariance, PTL

-----------------------------------------------------------------------------
(* SessionMailbox implements AtLeastOnceQueue, and the host never takes a  *)
(* claim from a live container.                                            *)

(* A turn in progress has been given to the agent.                         *)
TurnHandedOver == pc = "query" => \A m \in batch : hands[m] > 0

(* A query opens with rows that this very step hands to the agent.         *)
LEMMA HandedOverStep ==
    ASSUME TypeOK, TurnHandedOver, [Next]_vars
    PROVE  TurnHandedOver'
<1> USE ConstantsOK DEF TypeOK, TurnHandedOver, rowVars, runnerVars, hostVars
<1>1. ASSUME NEW m \in Messages, NEW k \in Kinds \ {"wake", "task"}, RouteMessage(m, k)
      PROVE TurnHandedOver'
  BY <1>1 DEF RouteMessage, InsertMessage, NextSeq, Wake
<1>2. ASSUME NEW m \in Messages, ScheduleTask(m) PROVE TurnHandedOver'
  BY <1>2 DEF ScheduleTask, InsertMessage, NextSeq
<1>3. ASSUME NEW m \in Messages, RestartContainer(m) PROVE TurnHandedOver'
  BY <1>3 DEF RestartContainer, InsertMessage, NextSeq, Upset
<1>4. CASE RestartQuietly
  BY <1>4 DEF RestartQuietly, Upset
<1>5. CASE ContainerStopped
  BY <1>5 DEF ContainerStopped, ContainerDies
<1>6. CASE SpawnContainer
  BY <1>6 DEF SpawnContainer, HostFree
<1>7. CASE SpawnFails
  BY <1>7 DEF SpawnFails, Upset, ResetStuckProcessingRows, Retried, HostFree
<1>8. CASE ContainerClosed
  BY <1>8 DEF ContainerClosed
<1>9. CASE HostRestart
  BY <1>9 DEF HostRestart, Upset, ContainerDies
<1>10. CASE SweepSync
  BY <1>10 DEF SweepSync
<1>11. CASE SweepWake
  BY <1>11 DEF SweepWake, Wake
<1>12. CASE SweepNoWake
  BY <1>12 DEF SweepNoWake
<1>13. CASE SweepDecide
  BY <1>13 DEF SweepDecide
<1>14. CASE SweepKill
  BY <1>14 DEF SweepKill, ContainerDies, ResetStuckProcessingRows, Retried
<1>15. CASE SweepCleanup
  BY <1>15 DEF SweepCleanup, ResetStuckProcessingRows, Retried
<1>16. CASE Boot
  BY <1>16 DEF Boot
<1>17. CASE PollNothing
  BY <1>17 DEF PollNothing
<1>18. CASE PollClaim
  BY <1>18 DEF PollClaim, Hand, TouchedByScripts, Touched, WithoutSystem, PendingMessages
<1>19. CASE ScriptsDone
  BY <1>19 DEF ScriptsDone, Verdicts, Tasks, Hand, TouchedByScripts, Touched, SkippedAcks
<1>20. CASE QueryEvent
  BY <1>20 DEF QueryEvent, Touched
<1>21. CASE QueryResult
  BY <1>21 DEF QueryResult, Touched
<1>22. CASE DispatchResult
  BY <1>22 DEF DispatchResult
<1>23. CASE QueryEnds
  BY <1>23 DEF QueryEnds
<1>24. CASE ProviderHangs
  BY <1>24 DEF ProviderHangs
<1>25. CASE FollowUpCommand
  BY <1>25 DEF FollowUpCommand
<1>26. CASE FollowUpClaim
  BY <1>26 DEF FollowUpClaim, FollowUpIdle, TouchedByScripts, Touched, WithoutSystem,
     PendingMessages
<1>27. CASE FollowUpPush
  BY <1>27 DEF FollowUpPush, Verdicts, Tasks, Hand, TouchedByScripts, Touched, SkippedAcks
<1>28. CASE FollowUpTooLate
  BY <1>28 DEF FollowUpTooLate, Verdicts, Tasks, Hand, TouchedByScripts, Touched, SkippedAcks
<1>29. ASSUME NEW m \in Messages, QuestionAnswered(m) PROVE TurnHandedOver'
  BY <1>29 DEF QuestionAnswered, Hand
<1>30. CASE Crash
  BY <1>30 DEF Crash, Upset, ContainerDies
<1>31. CASE ClaimsAge
  BY <1>31 DEF ClaimsAge, Aged
<1>32. CASE HeartbeatAges
  BY <1>32 DEF HeartbeatAges, Aged
<1>33. ASSUME NEW m \in Messages, BackoffElapses(m) PROVE TurnHandedOver'
  BY <1>33 DEF BackoffElapses
<1>34. CASE UNCHANGED vars
  BY <1>34 DEF vars
<1> HIDE DEF TypeOK, TurnHandedOver, rowVars, runnerVars, hostVars
<1> QED
  BY <1>1, <1>2, <1>3, <1>4, <1>5, <1>6, <1>7, <1>8, <1>9, <1>10, <1>11,
     <1>12, <1>13, <1>14, <1>15, <1>16, <1>17, <1>18, <1>19, <1>20, <1>21,
     <1>22, <1>23, <1>24, <1>25, <1>26, <1>27, <1>28, <1>29, <1>30, <1>31,
     <1>32, <1>33, <1>34
     DEF Next, HostEvent, Sweep, MainLoop, SideLoop, Clock, Arrive

(* A row that was never posted has no acknowledgement.                     *)
AbsentUnacked == \A m \in Messages : status[m] = "absent" => ack[m] = "none"

(* Only rows that were written are claimed and acknowledged.               *)
LEMMA AbsentStep ==
    ASSUME TypeOK, Placement, Possession, ClaimsAreDue, AbsentUnacked, [Next]_vars
    PROVE  AbsentUnacked'
<1> USE ConstantsOK DEF TypeOK, Placement, NoDuplicateContainer, NothingInHand, Possession,
        WorkStaysClaimed, OnePairOfHands, ClaimsAreDue, AbsentUnacked, Claimed, Due,
        Processing, rowVars, runnerVars, hostVars
<1>1. ASSUME NEW m \in Messages, NEW k \in Kinds \ {"wake", "task"}, RouteMessage(m, k)
      PROVE AbsentUnacked'
  BY <1>1 DEF RouteMessage, InsertMessage, NextSeq, Wake
<1>2. ASSUME NEW m \in Messages, ScheduleTask(m) PROVE AbsentUnacked'
  BY <1>2 DEF ScheduleTask, InsertMessage, NextSeq
<1>3. ASSUME NEW m \in Messages, RestartContainer(m) PROVE AbsentUnacked'
  BY <1>3 DEF RestartContainer, InsertMessage, NextSeq, Upset
<1>4. CASE RestartQuietly
  BY <1>4 DEF RestartQuietly, Upset
<1>5. CASE ContainerStopped
  BY <1>5 DEF ContainerStopped, ContainerDies
<1>6. CASE SpawnContainer
  BY <1>6 DEF SpawnContainer, HostFree
<1>7. CASE SpawnFails
  BY <1>7 DEF SpawnFails, Upset, ResetStuckProcessingRows, Retried, HostFree
<1>8. CASE ContainerClosed
  BY <1>8 DEF ContainerClosed
<1>9. CASE HostRestart
  BY <1>9 DEF HostRestart, Upset, ContainerDies
<1>10. CASE SweepSync
  BY <1>10 DEF SweepSync
<1>11. CASE SweepWake
  BY <1>11 DEF SweepWake, Wake
<1>12. CASE SweepNoWake
  BY <1>12 DEF SweepNoWake
<1>13. CASE SweepDecide
  BY <1>13 DEF SweepDecide
<1>14. CASE SweepKill
  BY <1>14 DEF SweepKill, ContainerDies, ResetStuckProcessingRows, Retried
<1>15. CASE SweepCleanup
  BY <1>15 DEF SweepCleanup, ResetStuckProcessingRows, Retried
<1>16. CASE Boot
  BY <1>16 DEF Boot
<1>17. CASE PollNothing
  BY <1>17 DEF PollNothing
<1>18. CASE PollClaim
  BY <1>18 DEF PollClaim, Hand, TouchedByScripts, Touched, WithoutSystem, PendingMessages
<1>19. CASE ScriptsDone
  BY <1>19 DEF ScriptsDone, Verdicts, Tasks, Hand, TouchedByScripts, Touched, SkippedAcks
<1>20. CASE QueryEvent
  BY <1>20 DEF QueryEvent, Touched
<1>21. CASE QueryResult
  BY <1>21 DEF QueryResult, Touched
<1>22. CASE DispatchResult
  BY <1>22 DEF DispatchResult
<1>23. CASE QueryEnds
  BY <1>23 DEF QueryEnds
<1>24. CASE ProviderHangs
  BY <1>24 DEF ProviderHangs
<1>25. CASE FollowUpCommand
  BY <1>25 DEF FollowUpCommand
<1>26. CASE FollowUpClaim
  BY <1>26 DEF FollowUpClaim, FollowUpIdle, TouchedByScripts, Touched, WithoutSystem,
     PendingMessages
<1>27. CASE FollowUpPush
  BY <1>27 DEF FollowUpPush, Verdicts, Tasks, Hand, TouchedByScripts, Touched, SkippedAcks
<1>28. CASE FollowUpTooLate
  BY <1>28 DEF FollowUpTooLate, Verdicts, Tasks, Hand, TouchedByScripts, Touched, SkippedAcks
<1>29. ASSUME NEW m \in Messages, QuestionAnswered(m) PROVE AbsentUnacked'
  BY <1>29 DEF QuestionAnswered, Hand
<1>30. CASE Crash
  BY <1>30 DEF Crash, Upset, ContainerDies
<1>31. CASE ClaimsAge
  BY <1>31 DEF ClaimsAge, Aged
<1>32. CASE HeartbeatAges
  BY <1>32 DEF HeartbeatAges, Aged
<1>33. ASSUME NEW m \in Messages, BackoffElapses(m) PROVE AbsentUnacked'
  BY <1>33 DEF BackoffElapses
<1>34. CASE UNCHANGED vars
  BY <1>34 DEF vars
<1> HIDE DEF TypeOK, Placement, NoDuplicateContainer, NothingInHand, Possession,
             WorkStaysClaimed, OnePairOfHands, ClaimsAreDue, AbsentUnacked, Claimed, Due,
             Processing, rowVars, runnerVars, hostVars
<1> QED
  BY <1>1, <1>2, <1>3, <1>4, <1>5, <1>6, <1>7, <1>8, <1>9, <1>10, <1>11,
     <1>12, <1>13, <1>14, <1>15, <1>16, <1>17, <1>18, <1>19, <1>20, <1>21,
     <1>22, <1>23, <1>24, <1>25, <1>26, <1>27, <1>28, <1>29, <1>30, <1>31,
     <1>32, <1>33, <1>34
     DEF Next, HostEvent, Sweep, MainLoop, SideLoop, Clock, Arrive

(* Whatever the host does in one step, a container that has begun to poll  *)
(* and lives on keeps its claims.                                          *)
LiveStep ==
    pc \notin {"none", "boot"} /\ pc' # "none"
        => \A m \in Messages : Claimed(m) => ack'[m] # "none"

(* The host drops no claim of a container that runs.                       *)
LEMMA LiveClaimsStep ==
    ASSUME TypeOK, Placement, [Next]_vars
    PROVE  LiveStep
<1> USE ConstantsOK DEF TypeOK, Placement, NoDuplicateContainer, LiveStep, Claimed,
        Processing, rowVars, runnerVars, hostVars
<1>1. ASSUME NEW m \in Messages, NEW k \in Kinds \ {"wake", "task"}, RouteMessage(m, k)
      PROVE LiveStep
  BY <1>1 DEF RouteMessage, InsertMessage, NextSeq, Wake
<1>2. ASSUME NEW m \in Messages, ScheduleTask(m) PROVE LiveStep
  BY <1>2 DEF ScheduleTask, InsertMessage, NextSeq
<1>3. ASSUME NEW m \in Messages, RestartContainer(m) PROVE LiveStep
  BY <1>3 DEF RestartContainer, InsertMessage, NextSeq, Upset
<1>4. CASE RestartQuietly
  BY <1>4 DEF RestartQuietly, Upset
<1>5. CASE ContainerStopped
  BY <1>5 DEF ContainerStopped, ContainerDies
<1>6. CASE SpawnContainer
  BY <1>6 DEF SpawnContainer, HostFree
<1>7. CASE SpawnFails
  BY <1>7 DEF SpawnFails, Upset, ResetStuckProcessingRows, Retried, HostFree
<1>8. CASE ContainerClosed
  BY <1>8 DEF ContainerClosed
<1>9. CASE HostRestart
  BY <1>9 DEF HostRestart, Upset, ContainerDies
<1>10. CASE SweepSync
  BY <1>10 DEF SweepSync
<1>11. CASE SweepWake
  BY <1>11 DEF SweepWake, Wake
<1>12. CASE SweepNoWake
  BY <1>12 DEF SweepNoWake
<1>13. CASE SweepDecide
  BY <1>13 DEF SweepDecide
<1>14. CASE SweepKill
  BY <1>14 DEF SweepKill, ContainerDies, ResetStuckProcessingRows, Retried
<1>15. CASE SweepCleanup
  BY <1>15 DEF SweepCleanup, ResetStuckProcessingRows, Retried
<1>16. CASE Boot
  BY <1>16 DEF Boot
<1>17. CASE PollNothing
  BY <1>17 DEF PollNothing
<1>18. CASE PollClaim
  BY <1>18 DEF PollClaim, Hand, TouchedByScripts, Touched, WithoutSystem, PendingMessages
<1>19. CASE ScriptsDone
  BY <1>19 DEF ScriptsDone, Verdicts, Tasks, Hand, TouchedByScripts, Touched, SkippedAcks
<1>20. CASE QueryEvent
  BY <1>20 DEF QueryEvent, Touched
<1>21. CASE QueryResult
  BY <1>21 DEF QueryResult, Touched
<1>22. CASE DispatchResult
  BY <1>22 DEF DispatchResult
<1>23. CASE QueryEnds
  BY <1>23 DEF QueryEnds
<1>24. CASE ProviderHangs
  BY <1>24 DEF ProviderHangs
<1>25. CASE FollowUpCommand
  BY <1>25 DEF FollowUpCommand
<1>26. CASE FollowUpClaim
  BY <1>26 DEF FollowUpClaim, FollowUpIdle, TouchedByScripts, Touched, WithoutSystem,
     PendingMessages
<1>27. CASE FollowUpPush
  BY <1>27 DEF FollowUpPush, Verdicts, Tasks, Hand, TouchedByScripts, Touched, SkippedAcks
<1>28. CASE FollowUpTooLate
  BY <1>28 DEF FollowUpTooLate, Verdicts, Tasks, Hand, TouchedByScripts, Touched, SkippedAcks
<1>29. ASSUME NEW m \in Messages, QuestionAnswered(m) PROVE LiveStep
  BY <1>29 DEF QuestionAnswered, Hand
<1>30. CASE Crash
  BY <1>30 DEF Crash, Upset, ContainerDies
<1>31. CASE ClaimsAge
  BY <1>31 DEF ClaimsAge, Aged
<1>32. CASE HeartbeatAges
  BY <1>32 DEF HeartbeatAges, Aged
<1>33. ASSUME NEW m \in Messages, BackoffElapses(m) PROVE LiveStep
  BY <1>33 DEF BackoffElapses
<1>34. CASE UNCHANGED vars
  BY <1>34 DEF vars
<1> HIDE DEF TypeOK, Placement, NoDuplicateContainer, LiveStep, Claimed, Processing,
             rowVars, runnerVars, hostVars
<1> QED
  BY <1>1, <1>2, <1>3, <1>4, <1>5, <1>6, <1>7, <1>8, <1>9, <1>10, <1>11,
     <1>12, <1>13, <1>14, <1>15, <1>16, <1>17, <1>18, <1>19, <1>20, <1>21,
     <1>22, <1>23, <1>24, <1>25, <1>26, <1>27, <1>28, <1>29, <1>30, <1>31,
     <1>32, <1>33, <1>34
     DEF Next, HostEvent, Sweep, MainLoop, SideLoop, Clock, Arrive

(* resetStuckProcessingRows deletes the claims of a session only when no   *)
(* container of that session is at work on them.                           *)
THEOREM LiveClaimsAreKept == Spec => LiveClaimsKept
<1>1. IInv /\ [Next]_vars
      => [pc \notin {"none", "boot"} /\ pc' # "none"
            => \A m \in Messages : Claimed(m) => ack'[m] # "none"]_vars
  BY LiveClaimsStep DEF IInv, LiveStep
<1> QED
  BY <1>1, Invariance, PTL DEF LiveClaimsKept, Spec

-----------------------------------------------------------------------------
(* The refinement.  A step of the mailbox posts a row, works on rows, or   *)
(* leaves the queue as it is.                                              *)

RInv == IInv /\ TurnHandedOver /\ AbsentUnacked

(* The invariant that the refinement rests on holds.                       *)
LEMMA RInvariance == Spec => []RInv
<1>1. Init => TurnHandedOver /\ AbsentUnacked
  BY DEF Init, TurnHandedOver, AbsentUnacked
<1>2. IInv /\ TurnHandedOver /\ AbsentUnacked /\ [Next]_vars
      => TurnHandedOver' /\ AbsentUnacked'
  BY HandedOverStep, AbsentStep DEF IInv, Settlement
<1> QED
  BY <1>1, <1>2, Invariance, PTL DEF Spec, RInv

QueueStutters ==
    /\ \A m \in Messages : Settled(m)' = Settled(m)
    /\ hands' = hands

QueuePosts(m) ==
    /\ Settled(m) = "absent" /\ Settled(m)' = "queued"
    /\ \A n \in Messages \ {m} : Settled(n)' = Settled(n)
    /\ hands' = hands

QueueWorks(handled, done, dead) ==
    /\ \A m \in handled \cup done \cup dead : m \in Messages /\ Settled(m) = "queued"
    /\ \A m \in done \ handled : hands[m] > 0
    /\ done \cap dead = {}
    /\ \A m \in Messages :
          Settled(m)' = IF m \in done THEN "done"
                        ELSE IF m \in dead THEN "dead"
                        ELSE Settled(m)
    /\ Hand(handled)

(* Each of the three is a step of the abstract queue.                      *)
LEMMA QueueSteps ==
    ASSUME \/ QueueStutters
           \/ \E m \in Messages : QueuePosts(m)
           \/ \E handled, done, dead \in SUBSET Messages : QueueWorks(handled, done, dead)
    PROVE  [Queue!Next]_(Queue!vars)
<1>1. CASE QueueStutters
  BY <1>1 DEF QueueStutters, Queue!vars
<1>2. ASSUME NEW m \in Messages, QueuePosts(m) PROVE Queue!Next
  BY <1>2 DEF QueuePosts, Queue!Next, Queue!Post
<1>3. ASSUME NEW handled \in SUBSET Messages, NEW done \in SUBSET Messages,
             NEW dead \in SUBSET Messages, QueueWorks(handled, done, dead)
      PROVE  Queue!Next
  <2>1. Queue!Work(handled, done, dead)
    BY <1>3 DEF QueueWorks, Queue!Work, Hand
  <2>2. handled \in SUBSET Queue!Queued /\ done \in SUBSET Queue!Queued
        /\ dead \in SUBSET Queue!Queued
    BY <1>3 DEF QueueWorks, Queue!Queued
  <2> QED
    BY <2>1, <2>2 DEF Queue!Next
<1> QED
  BY <1>1, <1>2, <1>3

(* The steps that leave the abstract queue alone.                          *)
LEMMA StutterSteps ==
    ASSUME RInv,
           \/ RestartQuietly
           \/ ContainerStopped
           \/ SpawnContainer
           \/ ContainerClosed
           \/ HostRestart
           \/ SweepSync
           \/ SweepWake
           \/ SweepNoWake
           \/ SweepDecide
           \/ Boot
           \/ PollNothing
           \/ QueryEvent
           \/ DispatchResult
           \/ ProviderHangs
           \/ FollowUpCommand
           \/ FollowUpClaim
           \/ Crash
           \/ ClaimsAge
           \/ HeartbeatAges
           \/ \E m \in Messages : BackoffElapses(m)
           \/ UNCHANGED vars
    PROVE  QueueStutters
<1> USE DEF RInv, IInv, QueueStutters, TypeOK, Placement, NoDuplicateContainer,
            NothingInHand, Settlement, ClaimsAreDue, FailedOnlyExhausted, Possession,
            WorkStaysClaimed, OnePairOfHands, TurnHandedOver, AbsentUnacked, Claimed, Due,
            Processing, Settled, rowVars, runnerVars, hostVars
<1>1. CASE RestartQuietly
  BY <1>1 DEF RestartQuietly, Upset
<1>2. CASE ContainerStopped
  BY <1>2 DEF ContainerStopped, ContainerDies
<1>3. CASE SpawnContainer
  BY <1>3 DEF SpawnContainer, HostFree
<1>4. CASE ContainerClosed
  BY <1>4 DEF ContainerClosed
<1>5. CASE HostRestart
  BY <1>5 DEF HostRestart, Upset, ContainerDies
<1>6. CASE SweepSync
  BY <1>6 DEF SweepSync
<1>7. CASE SweepWake
  BY <1>7 DEF SweepWake, Wake
<1>8. CASE SweepNoWake
  BY <1>8 DEF SweepNoWake
<1>9. CASE SweepDecide
  BY <1>9 DEF SweepDecide
<1>10. CASE Boot
  BY <1>10 DEF Boot
<1>11. CASE PollNothing
  BY <1>11 DEF PollNothing
<1>12. CASE QueryEvent
  BY <1>12 DEF QueryEvent, Touched
<1>13. CASE DispatchResult
  BY <1>13 DEF DispatchResult
<1>14. CASE ProviderHangs
  BY <1>14 DEF ProviderHangs
<1>15. CASE FollowUpCommand
  BY <1>15 DEF FollowUpCommand
<1>16. CASE FollowUpClaim
  BY <1>16 DEF FollowUpClaim, FollowUpIdle, TouchedByScripts, Touched, WithoutSystem,
     PendingMessages
<1>17. CASE Crash
  BY <1>17 DEF Crash, Upset, ContainerDies
<1>18. CASE ClaimsAge
  BY <1>18 DEF ClaimsAge, Aged
<1>19. CASE HeartbeatAges
  BY <1>19 DEF HeartbeatAges, Aged
<1>20. ASSUME NEW m \in Messages, BackoffElapses(m) PROVE QueueStutters
  BY <1>20 DEF BackoffElapses
<1>21. CASE UNCHANGED vars
  BY <1>21 DEF vars
<1> HIDE DEF RInv, IInv, QueueStutters, TypeOK, Placement, NoDuplicateContainer,
             NothingInHand, Settlement, ClaimsAreDue, FailedOnlyExhausted, Possession,
             WorkStaysClaimed, OnePairOfHands, TurnHandedOver, AbsentUnacked, Claimed, Due,
             Processing, Settled, rowVars, runnerVars, hostVars
<1> QED
  BY <1>1, <1>2, <1>3, <1>4, <1>5, <1>6, <1>7, <1>8, <1>9, <1>10, <1>11, <1>12, <1>13,
     <1>14, <1>15, <1>16, <1>17, <1>18, <1>19, <1>20, <1>21

(* Writing a row posts it.                                                 *)
LEMMA PostSteps ==
    ASSUME RInv, NEW m \in Messages,
           Arrive(m) \/ RestartContainer(m)
    PROVE  QueuePosts(m)
<1> USE DEF RInv, IInv, QueuePosts, TypeOK, Placement, NoDuplicateContainer,
            NothingInHand, Settlement, ClaimsAreDue, FailedOnlyExhausted, Possession,
            WorkStaysClaimed, OnePairOfHands, TurnHandedOver, AbsentUnacked, Claimed, Due,
            Processing, Settled, rowVars, runnerVars, hostVars
<1>1. ASSUME NEW k \in Kinds \ {"wake", "task"}, RouteMessage(m, k) PROVE QueuePosts(m)
  BY <1>1 DEF RouteMessage, InsertMessage, NextSeq, Wake
<1>2. ASSUME ScheduleTask(m) PROVE QueuePosts(m)
  BY <1>2 DEF ScheduleTask, InsertMessage, NextSeq
<1>3. ASSUME RestartContainer(m) PROVE QueuePosts(m)
  BY <1>3 DEF RestartContainer, InsertMessage, NextSeq, Upset
<1> HIDE DEF RInv, IInv, QueuePosts, TypeOK, Placement, NoDuplicateContainer,
             NothingInHand, Settlement, ClaimsAreDue, FailedOnlyExhausted, Possession,
             WorkStaysClaimed, OnePairOfHands, TurnHandedOver, AbsentUnacked, Claimed, Due,
             Processing, Settled, rowVars, runnerVars, hostVars
<1> QED
  BY <1>1, <1>2, <1>3 DEF Arrive

(* Handing out no row leaves the counts alone.                             *)
LEMMA HandNothing ==
    ASSUME TypeOK, hands' = hands
    PROVE  Hand({})
BY DEF TypeOK, Hand

(* A pending row without a final ack is queued.                            *)
LEMMA QueuedRows ==
    ASSUME RInv, NEW m \in Messages,
           Claimed(m) \/ (status[m] = "pending" /\ ack[m] = "none")
    PROVE  Settled(m) = "queued"
BY DEF RInv, IInv, Settlement, ClaimsAreDue, Claimed, Due, Processing, Settled

(* A step of the container that settles rows through processing_ack.       *)
LEMMA AckedWork ==
    ASSUME RInv, NEW handled \in SUBSET Messages, NEW done \in SUBSET Messages,
           NEW dead \in SUBSET Messages,
           \A m \in handled \cup done \cup dead :
              Claimed(m) \/ (status[m] = "pending" /\ ack[m] = "none"),
           \A m \in done \ handled : hands[m] > 0, done \cap dead = {},
           Hand(handled), status' = status,
           \A m \in done : ack'[m] = "completed",
           \A m \in dead : ack'[m] = "script-error",
           \A m \in Messages \ (done \cup dead) :
              /\ ack'[m] = "completed" <=> ack[m] = "completed"
              /\ ack'[m] = "script-error" <=> ack[m] = "script-error"
    PROVE  QueueWorks(handled, done, dead)
<1>1. \A m \in handled \cup done \cup dead : Settled(m) = "queued"
  BY QueuedRows
<1>2. \A m \in done \cup dead : status[m] = "pending"
  BY DEF RInv, IInv, Settlement, ClaimsAreDue, Due
<1>3. ASSUME NEW m \in Messages
      PROVE  Settled(m)' = IF m \in done THEN "done"
                           ELSE IF m \in dead THEN "dead"
                           ELSE Settled(m)
  <2>1. CASE m \in done
    BY <1>2, <2>1 DEF Settled
  <2>2. CASE m \in dead
    BY <1>2, <2>2 DEF Settled
  <2>3. CASE m \notin done \cup dead
    BY <2>3 DEF Settled
  <2> QED
    BY <2>1, <2>2, <2>3
<1> QED
  BY <1>1, <1>3 DEF QueueWorks

(* A round of scripts over S: a task is gated, failed or kept.             *)
LEMMA ScriptVerdicts ==
    ASSUME TypeOK, NEW S \in SUBSET Messages, NEW a \in SUBSET Messages,
           NEW b \in SUBSET Messages, a \cap b = {},
           ack' = TouchedByScripts(S, SkippedAcks(a, b))
    PROVE  /\ \A m \in a : ack'[m] = "completed"
           /\ \A m \in b : ack'[m] = "script-error"
           /\ \A m \in Messages \ (a \cup b) :
                 /\ ack'[m] = "completed" <=> ack[m] = "completed"
                 /\ ack'[m] = "script-error" <=> ack[m] = "script-error"
BY DEF TypeOK, TouchedByScripts, Touched, SkippedAcks, Processing

Works == \E handled, done, dead \in SUBSET Messages : QueueWorks(handled, done, dead)

(* Resetting claims gives up on rows or leaves them queued.                *)
LEMMA ResetSteps ==
    ASSUME RInv, SpawnFails \/ SweepKill \/ SweepCleanup
    PROVE  Works
<1> DEFINE exhausted == {m \in Messages : m \in Retried /\ tries[m] >= MaxTries}
<1>1. ASSUME ResetStuckProcessingRows, hands' = hands PROVE QueueWorks({}, {}, exhausted)
  BY <1>1 DEF RInv, IInv, TypeOK, ResetStuckProcessingRows, Retried, QueueWorks, Hand,
              Settled, Claimed, Due, Processing
<1>2. ASSUME UNCHANGED <<status, ack, hands>> PROVE QueueWorks({}, {}, {})
  BY <1>2, HandNothing DEF RInv, IInv, QueueWorks, Settled
<1>3. QueueWorks({}, {}, exhausted) \/ QueueWorks({}, {}, {})
  BY <1>1, <1>2 DEF SpawnFails, SweepKill, SweepCleanup
<1> QED
  BY <1>3 DEF Works

(* The steps of the main loop that hand rows out or settle them.           *)
LEMMA MainSteps ==
    ASSUME RInv, PollClaim \/ QueryResult \/ QueryEnds
    PROVE  Works
<1> DEFINE commands == {m \in WithoutSystem(PendingMessages(first)) : kind[m] = "clear"}
<1>0. /\ TypeOK
      /\ batch \in SUBSET Messages
      /\ pc = "query" => \A m \in batch : Claimed(m) /\ hands[m] > 0
      /\ commands \in SUBSET Messages
      /\ \A m \in commands : status[m] = "pending" /\ ack[m] = "none"
  BY DEF RInv, IInv, TypeOK, Possession, WorkStaysClaimed, TurnHandedOver,
         WithoutSystem, PendingMessages, Due
<1>1. CASE PollClaim
  <2>1. status' = status /\ Hand(commands)
    BY <1>1 DEF PollClaim, rowVars
  <2>2. /\ \A m \in commands : ack'[m] = "completed"
        /\ \A m \in Messages \ commands :
              /\ ack'[m] = "completed" <=> ack[m] = "completed"
              /\ ack'[m] = "script-error" <=> ack[m] = "script-error"
    BY <1>0, <1>1 DEF PollClaim, TouchedByScripts, Touched, Processing, WithoutSystem,
                      PendingMessages, TypeOK
  <2> HIDE DEF commands
  <2>3. QueueWorks(commands, commands, {})
    BY <1>0, <2>1, <2>2, AckedWork
  <2> QED
    BY <1>0, <2>3 DEF Works
<1>2. CASE QueryResult \/ QueryEnds
  <2>1. status' = status /\ Hand({}) /\ pc = "query"
    BY <1>0, <1>2, HandNothing DEF QueryResult, QueryEnds, rowVars
  <2>2. /\ \A m \in batch : ack'[m] = "completed"
        /\ \A m \in Messages \ batch :
              /\ ack'[m] = "completed" <=> ack[m] = "completed"
              /\ ack'[m] = "script-error" <=> ack[m] = "script-error"
    BY <1>0, <1>2 DEF QueryResult, QueryEnds, Touched, Processing, TypeOK
  <2>3. QueueWorks({}, batch, {})
    BY <1>0, <2>1, <2>2, AckedWork
  <2> QED
    BY <1>0, <2>3 DEF Works
<1> QED
  BY <1>1, <1>2

(* The ends of the pre-task scripts, in both loops.                        *)
LEMMA ScriptSteps ==
    ASSUME RInv, ScriptsDone \/ FollowUpPush \/ FollowUpTooLate
    PROVE  Works
<1> DEFINE Round(S, handled, done, dead) ==
              /\ S \in SUBSET Messages
              /\ \A m \in S : Claimed(m)
              /\ handled \subseteq S /\ done \subseteq handled /\ dead \subseteq S
              /\ done \cap dead = {}
              /\ ack' = TouchedByScripts(S, SkippedAcks(done, dead))
              /\ Hand(handled)
              /\ status' = status
<1>1. ASSUME NEW S, NEW handled, NEW done, NEW dead, Round(S, handled, done, dead)
      PROVE  Works
  <2>1. /\ handled \in SUBSET Messages /\ done \in SUBSET Messages /\ dead \in SUBSET Messages
        /\ \A m \in handled \cup done \cup dead : Claimed(m)
    BY <1>1
  <2>2. Hand(handled) /\ status' = status /\ done \cap dead = {} /\ done \ handled = {}
    BY <1>1
  <2>3. /\ \A m \in done : ack'[m] = "completed"
        /\ \A m \in dead : ack'[m] = "script-error"
        /\ \A m \in Messages \ (done \cup dead) :
              /\ ack'[m] = "completed" <=> ack[m] = "completed"
              /\ ack'[m] = "script-error" <=> ack[m] = "script-error"
    BY <1>1, <2>1, ScriptVerdicts DEF RInv, IInv
  <2>4. QueueWorks(handled, done, dead)
    BY <1>1, <2>1, <2>2, <2>3, AckedWork
  <2> QED
    BY <2>1, <2>4 DEF Works
<1>2. CASE ScriptsDone
  <2>1. PICK v \in Verdicts(batch) :
           /\ ack' = TouchedByScripts(batch, SkippedAcks(v[1], v[2]))
           /\ Hand((batch \ (v[1] \cup v[2])) \cup v[1])
    BY <1>2, Zenon DEF ScriptsDone
  <2>2. Round(batch, (batch \ (v[1] \cup v[2])) \cup v[1], v[1], v[2])
    BY <1>2, <2>1 DEF Verdicts, Tasks, ScriptsDone, rowVars, RInv, IInv, TypeOK, Possession,
                      WorkStaysClaimed
  <2> HIDE DEF Round
  <2> QED
    BY <1>1, <2>2
<1>3. CASE FollowUpPush
  <2>1. PICK v \in Verdicts(follow) :
           /\ ack' = TouchedByScripts(follow,
                        SkippedAcks(v[1] \cup (follow \ (v[1] \cup v[2])), v[2]))
           /\ Hand((follow \ (v[1] \cup v[2])) \cup v[1])
    BY <1>3, Zenon DEF FollowUpPush
  <2>2. Round(follow, (follow \ (v[1] \cup v[2])) \cup v[1],
              v[1] \cup (follow \ (v[1] \cup v[2])), v[2])
    BY <1>3, <2>1 DEF Verdicts, Tasks, FollowUpPush, rowVars, RInv, IInv, TypeOK, Possession,
                      WorkStaysClaimed
  <2> HIDE DEF Round
  <2> QED
    BY <1>1, <2>2
<1>4. CASE FollowUpTooLate
  <2>1. PICK v \in Verdicts(late) :
           /\ ack' = TouchedByScripts(late, SkippedAcks(v[1], v[2]))
           /\ Hand(v[1])
    BY <1>4, Zenon DEF FollowUpTooLate
  <2>2. Round(late, v[1], v[1], v[2])
    BY <1>4, <2>1 DEF Verdicts, Tasks, FollowUpTooLate, rowVars, RInv, IInv, TypeOK,
                      Possession, WorkStaysClaimed
  <2> HIDE DEF Round
  <2> QED
    BY <1>1, <2>2
<1> QED
  BY <1>2, <1>3, <1>4

(* A tool that takes its answer handles that row and settles it.           *)
LEMMA AnswerSteps ==
    ASSUME RInv, NEW m \in Messages, QuestionAnswered(m)
    PROVE  Works
<1>1. /\ status' = status /\ status[m] = "pending" /\ ack[m] = "none"
      /\ ack' = [ack EXCEPT ![m] = "completed"]
      /\ Hand({m}) /\ TypeOK
  BY DEF QuestionAnswered, rowVars, RInv, IInv
<1>2. /\ \A n \in {m} : ack'[n] = "completed"
      /\ \A n \in Messages \ {m} : ack'[n] = ack[n]
  BY <1>1 DEF TypeOK
<1>3. QueueWorks({m}, {m}, {})
  BY <1>1, <1>2, AckedWork
<1> QED
  BY <1>3 DEF Works

-----------------------------------------------------------------------------
(* The mailbox implements the abstract queue: what is acked was handled at *)
(* least once, nothing settled is handled again, nothing settled is undone,*)
(* whatever crashes, kills and restarts happen.                            *)
THEOREM MailboxImplementsQueue == Spec => ImplementsQueue
<1>1. Init => Queue!Init
  BY DEF Init, Queue!Init, Settled
<1>2. RInv /\ [Next]_vars => [Queue!Next]_(Queue!vars)
  <2> SUFFICES ASSUME RInv, [Next]_vars PROVE [Queue!Next]_(Queue!vars)
    OBVIOUS
  <2>1. ASSUME NEW m \in Messages, Arrive(m) \/ RestartContainer(m)
        PROVE  [Queue!Next]_(Queue!vars)
    BY <2>1, PostSteps, QueueSteps
  <2>2. ASSUME Works PROVE [Queue!Next]_(Queue!vars)
    BY <2>2, QueueSteps DEF Works
  <2>3. CASE \/ SpawnFails \/ SweepKill \/ SweepCleanup \/ PollClaim \/ QueryResult
             \/ QueryEnds \/ ScriptsDone \/ FollowUpPush \/ FollowUpTooLate
             \/ \E m \in Messages : QuestionAnswered(m)
    BY <2>2, <2>3, ResetSteps, MainSteps, ScriptSteps, AnswerSteps
  <2>4. ASSUME QueueStutters PROVE [Queue!Next]_(Queue!vars)
    BY <2>4, QueueSteps
  <2> QED
    BY <2>1, <2>3, <2>4, StutterSteps
       DEF Next, HostEvent, Sweep, MainLoop, SideLoop, Clock
<1> QED
  BY <1>1, <1>2, RInvariance, PTL DEF Spec, ImplementsQueue, Queue!Spec

(* What the abstract queue promises holds of the rows of messages_in: a    *)
(* row that is acknowledged as completed was given to the agent, or its    *)
(* script or command was run.                                              *)
THEOREM CompletedWasHandled == Spec => []Queue!DoneWasHandled
<1>1. Queue!Init => Queue!TypeOK /\ Queue!DoneWasHandled
  BY DEF Queue!Init, Queue!TypeOK, Queue!DoneWasHandled
<1>2. Queue!TypeOK /\ Queue!DoneWasHandled /\ [Queue!Next]_(Queue!vars)
      => (Queue!TypeOK /\ Queue!DoneWasHandled)'
  <2> SUFFICES ASSUME Queue!TypeOK, Queue!DoneWasHandled, [Queue!Next]_(Queue!vars)
               PROVE  Queue!TypeOK' /\ Queue!DoneWasHandled'
    OBVIOUS
  <2> USE DEF Queue!TypeOK, Queue!DoneWasHandled
  <2>1. ASSUME NEW i \in Messages, Queue!Post(i) PROVE Queue!TypeOK' /\ Queue!DoneWasHandled'
    BY <2>1 DEF Queue!Post
  <2>2. ASSUME NEW handled \in SUBSET Queue!Queued, NEW done \in SUBSET Queue!Queued,
               NEW dead \in SUBSET Queue!Queued, Queue!Work(handled, done, dead)
        PROVE  Queue!TypeOK' /\ Queue!DoneWasHandled'
    BY <2>2 DEF Queue!Work, Queue!Queued
  <2>3. CASE UNCHANGED Queue!vars
    BY <2>3 DEF Queue!vars
  <2> QED
    BY <2>1, <2>2, <2>3 DEF Queue!Next
<1> QED
  BY <1>1, <1>2, MailboxImplementsQueue, PTL DEF ImplementsQueue, Queue!Spec

(* And a row that is completed or has failed stays so and is not given out *)
(* again, whatever is restarted, killed or lost.                           *)
THEOREM SettledRowsRest == Spec => Queue!SettledIsFinal
<1>1. [Queue!Next]_(Queue!vars) => [Queue!LeavesSettled]_(Queue!vars)
  BY DEF Queue!LeavesSettled, Queue!Next, Queue!Post, Queue!Work, Queue!Queued, Queue!vars
<1> QED
  BY <1>1, MailboxImplementsQueue, PTL DEF ImplementsQueue, Queue!Spec, Queue!SettledIsFinal
=============================================================================
