--------------------------- MODULE SessionMailbox ---------------------------
(***************************************************************************)
(* One session of the host: the rows of its inbound.db (messages_in), the  *)
(* claims of its outbound.db (processing_ack), the container that works on *)
(* them, and the host that spawns, watches, kills and respawns it.         *)
(*                                                                         *)
(*   host       router, restart helper, sweep, container map               *)
(*              (src/router.ts, container-restart.ts, host-sweep.ts,       *)
(*              container-runner.ts, db/session-db.ts)                     *)
(*   container  poll loop, follow-up poller, pre-task scripts              *)
(*              (agent-runner/src/poll-loop.ts, poll-batch.ts,             *)
(*              poll-query.ts, db/messages-in.ts)                          *)
(*                                                                         *)
(* The two run in different processes and share only the two databases and *)
(* the heartbeat file, so their steps interleave freely.  The host is one  *)
(* JavaScript thread: its handlers run only between two turns of the sweep *)
(* (HostFree).  Rows are numbered by seq, the order of insertion.  Time is *)
(* abstract: process_after is "in the future" or not, a claim is older     *)
(* than its tolerance or not, the heartbeat is older than the ceiling or   *)
(* not, and the actions of the clock turn the one into the other.          *)
(***************************************************************************)
EXTENDS Naturals, FiniteSets

CONSTANTS
    Messages,   \* the rows of messages_in, numbered by seq
    Kinds,      \* the kinds of row the environment sends
    MaxPrompt,  \* maxMessagesPerPrompt, the LIMIT of getPendingMessages
    MaxTries,   \* MAX_TRIES of the host sweep
    Faults,     \* the kinds of fault the environment commits
    MaxUpsets   \* bound: how many faults, operator restarts included

(* "chat" wakes the agent, "context" is stored with trigger = 0, "task"    *)
(* carries a pre-task script, "clear" is a command the runner handles      *)
(* itself, "slash" one it passes to a fresh query, "wake" is an on_wake    *)
(* row, "system" the answer to a question asked through an MCP tool.       *)
AllKinds == {"chat", "context", "task", "clear", "slash", "wake", "system"}

AllFaults == {"crash", "host-restart", "spawn", "restart"}

ASSUME ConstantsOK ==
    /\ Messages \subseteq Nat
    /\ Kinds \subseteq AllKinds
    /\ MaxPrompt \in Nat \ {0}
    /\ MaxTries \in Nat
    /\ Faults \subseteq AllFaults
    /\ MaxUpsets \in Nat

VARIABLES
    status,     \* messages_in.status
    kind,       \* messages_in.kind, trigger and on_wake, as one of Kinds
    tries,      \* messages_in.tries
    deferred,   \* messages_in.process_after lies in the future
    ack,        \* processing_ack; a 'processing' row is one of Processing
    pc,         \* where the container's main loop is; "none": no process
    first,      \* isFirstPoll
    batch,      \* rows of the turn in progress, claimed by the main loop
    follow,     \* rows the follow-up poller of the open query has claimed
    late,       \* the same, of a query that has ended meanwhile
    ending,     \* endedForCommand: the open query is being aborted
    hung,       \* the provider emits nothing any more
    owed,       \* rows given to the agent whose outcome is not written yet
    beat,       \* heartbeat file: "none", "fresh" or "stale" (past the ceiling)
    tracked,    \* activeContainers.has(session)
    spawning,   \* wakePromises.has(session)
    respawn,    \* an onExit callback is registered
    hpc,        \* where the host is: a sweep of the session, or docker stop
    hands,      \* history: how often a row was given to the agent or run
    upsets      \* how many upsets have happened

rowVars == <<status, kind, tries, deferred>>
runnerVars == <<first, batch, follow, late, ending, hung, owed>>
hostVars == <<tracked, spawning, respawn, hpc>>
vars == <<status, kind, tries, deferred, ack, pc, first, batch, follow, late,
          ending, hung, owed, beat, tracked, spawning, respawn, hpc, hands,
          upsets>>

(* A claim is "new" until it is older than its tolerance ("stuck"), unless *)
(* the heartbeat has been touched since ("beaten").                        *)
Processing == {"new", "stuck", "beaten"}

TypeOK ==
    /\ status \in [Messages -> {"absent", "pending", "completed", "failed"}]
    /\ kind \in [Messages -> AllKinds \cup {"none"}]
    /\ tries \in [Messages -> 0..MaxTries]
    /\ deferred \in [Messages -> BOOLEAN]
    /\ ack \in [Messages -> Processing \cup {"none", "completed", "script-error"}]
    /\ pc \in {"none", "boot", "poll", "script", "query", "dispatch"}
    /\ first \in BOOLEAN
    /\ batch \subseteq Messages
    /\ follow \subseteq Messages
    /\ late \subseteq Messages
    /\ ending \in BOOLEAN
    /\ hung \in BOOLEAN
    /\ owed \subseteq Messages
    /\ beat \in {"none", "fresh", "stale"}
    /\ tracked \in BOOLEAN
    /\ spawning \in BOOLEAN
    /\ respawn \in BOOLEAN
    /\ hpc \in {"idle", "count", "await", "check", "kill", "stop"}
    /\ hands \in [Messages -> Nat]
    /\ upsets \in 0..MaxUpsets

Init ==
    /\ status = [m \in Messages |-> "absent"]
    /\ kind = [m \in Messages |-> "none"]
    /\ tries = [m \in Messages |-> 0]
    /\ deferred = [m \in Messages |-> FALSE]
    /\ ack = [m \in Messages |-> "none"]
    /\ pc = "none"
    /\ first = FALSE
    /\ batch = {} /\ follow = {} /\ late = {} /\ owed = {}
    /\ ending = FALSE /\ hung = FALSE
    /\ beat = "none"
    /\ tracked = FALSE /\ spawning = FALSE /\ respawn = FALSE
    /\ hpc = "idle"
    /\ hands = [m \in Messages |-> 0]
    /\ upsets = 0

-----------------------------------------------------------------------------
(* Helpers.                                                                *)

Claimed(m) == ack[m] \in Processing

Due(m) == status[m] = "pending" /\ ~deferred[m]

(* countDueMessages: what wakes a container from cold.                     *)
DueTriggers == {m \in Messages : Due(m) /\ kind[m] # "context"}

(* Bug: processing_ack is not consulted.                                   *)
PendingUnfiltered(isFirst) ==
    LET visible == {m \in Messages : Due(m) /\ (kind[m] = "wake" => isFirst)}
    IN {m \in visible : Cardinality({n \in visible : n > m}) < MaxPrompt}

(* getPendingMessages: the newest MaxPrompt due rows, and of these the     *)
(* ones without an acknowledgement of any status.                          *)
PendingMessages(isFirst) ==
    LET visible == {m \in Messages : Due(m) /\ (kind[m] = "wake" => isFirst)}
        newest == {m \in visible :
                      Cardinality({n \in visible : n > m}) < MaxPrompt}
    IN {m \in newest : ack[m] = "none"}

WithoutSystem(S) == {m \in S : kind[m] # "system"}
Triggers(S) == {m \in S : kind[m] # "context"}
Tasks(S) == {m \in S : kind[m] = "task"}
RunnerCommands(S) == {m \in S : kind[m] \in {"clear", "slash"}}

Hand(S) == hands' = [m \in Messages |-> IF m \in S THEN hands[m] + 1 ELSE hands[m]]

(* touchHeartbeat, as the claims in `acks` see it.                         *)
Touched(acks) == [m \in Messages |-> IF acks[m] \in Processing THEN "beaten" ELSE acks[m]]

(* applyPreTaskScripts touches the heartbeat around every script it runs.  *)
TouchedByScripts(S, acks) == IF Tasks(S) = {} THEN acks ELSE Touched(acks)
BeatAfterScripts(S) == IF Tasks(S) = {} THEN beat ELSE "fresh"

(* Bug: a wake does not look at activeContainers.                          *)
WakeUnguarded == spawning' = TRUE

(* wakeContainer: a no-op while a container is tracked or being spawned.   *)
Wake == spawning' = (spawning \/ ~tracked)

(* The container process is gone, and all that lived in its memory.        *)
ContainerDies ==
    /\ pc' = "none"
    /\ first' = FALSE
    /\ batch' = {} /\ follow' = {} /\ late' = {} /\ owed' = {}
    /\ ending' = FALSE /\ hung' = FALSE

Retried == {m \in Messages : Claimed(m) /\ Due(m)}

(* Bug: the limit is one too low.                                          *)
ResetTooStrict ==
    /\ status' = [m \in Messages |->
                     IF m \in Retried /\ tries[m] + 1 >= MaxTries THEN "failed" ELSE status[m]]
    /\ tries' = [m \in Messages |->
                     IF m \in Retried /\ tries[m] + 1 < MaxTries THEN tries[m] + 1 ELSE tries[m]]
    /\ deferred' = [m \in Messages |->
                     deferred[m] \/ (m \in Retried /\ tries[m] + 1 < MaxTries)]
    /\ ack' = [m \in Messages |-> IF Claimed(m) THEN "none" ELSE ack[m]]

(* Bug: the row is deferred, its try is not counted.                       *)
ResetUncharged ==
    /\ deferred' = [m \in Messages |-> deferred[m] \/ m \in Retried]
    /\ ack' = [m \in Messages |-> IF Claimed(m) THEN "none" ELSE ack[m]]
    /\ UNCHANGED <<status, tries>>

(* resetStuckProcessingRows: every claimed row still pending and not yet   *)
(* rescheduled costs a try and is deferred, or fails when its tries are    *)
(* used up; then all claims are dropped.                                   *)
ResetStuckProcessingRows ==
    /\ status' = [m \in Messages |->
                     IF m \in Retried /\ tries[m] >= MaxTries THEN "failed" ELSE status[m]]
    /\ tries' = [m \in Messages |->
                     IF m \in Retried /\ tries[m] < MaxTries THEN tries[m] + 1 ELSE tries[m]]
    /\ deferred' = [m \in Messages |->
                     deferred[m] \/ (m \in Retried /\ tries[m] < MaxTries)]
    /\ ack' = [m \in Messages |-> IF Claimed(m) THEN "none" ELSE ack[m]]

(* The JavaScript thread of the host is not inside a handler.              *)
HostFree == hpc \in {"idle", "await"}

Upset(fault) ==
    /\ fault \in Faults
    /\ upsets < MaxUpsets
    /\ upsets' = upsets + 1

-----------------------------------------------------------------------------
(* Host: rows come in.                                                     *)

NextSeq(m) == status[m] = "absent" /\ \A n \in Messages : n < m => status[n] # "absent"

(* writeSessionMessage with insertMessage.                                 *)
InsertMessage(m, k, inFuture) ==
    /\ NextSeq(m)
    /\ status' = [status EXCEPT ![m] = "pending"]
    /\ kind' = [kind EXCEPT ![m] = k]
    /\ deferred' = [deferred EXCEPT ![m] = inFuture]
    /\ UNCHANGED tries

(* deliverToAgent, handleInteractiveResponse: store the row; wake the      *)
(* container unless the row is accumulated context.                        *)
RouteMessage(m, k) ==
    /\ HostFree
    /\ InsertMessage(m, k, FALSE)
    /\ IF k = "context" THEN UNCHANGED spawning ELSE Wake
    /\ UNCHANGED <<ack, pc, runnerVars, beat, tracked, respawn, hpc, hands, upsets>>

(* createScheduledTask: due now or later, and left to the sweep.           *)
ScheduleTask(m) ==
    /\ HostFree
    /\ \E inFuture \in BOOLEAN : InsertMessage(m, "task", inFuture)
    /\ UNCHANGED <<ack, pc, runnerVars, beat, hostVars, hands, upsets>>

Arrive(m) ==
    \/ \E k \in Kinds \ {"wake", "task"} : RouteMessage(m, k)
    \/ "task" \in Kinds /\ ScheduleTask(m)

(* restartAgentGroupContainers: write the on_wake row, if the caller gave  *)
(* a message, then kill with an onExit callback that wakes a successor     *)
(* when there is anything due, the new row included.  The container runs   *)
(* on until docker stop, which blocks the host, has stopped it.            *)
RestartContainer(m) ==
    /\ hpc = "idle" /\ tracked /\ Upset("restart")
    /\ "wake" \in Kinds /\ InsertMessage(m, "wake", FALSE)
    /\ respawn' = TRUE
    /\ hpc' = "stop"
    /\ UNCHANGED <<ack, pc, runnerVars, beat, tracked, spawning, hands>>

RestartQuietly ==
    /\ hpc = "idle" /\ tracked /\ Upset("restart")
    /\ respawn' = (respawn \/ DueTriggers # {})
    /\ hpc' = "stop"
    /\ UNCHANGED <<rowVars, ack, pc, runnerVars, beat, tracked, spawning, hands>>

ContainerStopped ==
    /\ hpc = "stop"
    /\ ContainerDies
    /\ hpc' = "idle"
    /\ UNCHANGED <<rowVars, ack, beat, tracked, spawning, respawn, hands, upsets>>

-----------------------------------------------------------------------------
(* Host: the container's life.                                             *)

(* The tail of spawnContainer: the old heartbeat file is removed, so no    *)
(* left-over claim counts as beaten any more.  A sweep that waited for     *)
(* this spawn ends its round (justWoke).                                   *)
SpawnContainer ==
    /\ spawning
    /\ HostFree
    /\ spawning' = FALSE
    /\ tracked' = TRUE
    /\ beat' = "none"
    /\ ack' = [m \in Messages |-> IF ack[m] = "beaten" THEN "new" ELSE ack[m]]
    /\ pc' = "boot"
    /\ hpc' = "idle"
    /\ UNCHANGED <<rowVars, runnerVars, respawn, hands, upsets>>

(* wakeContainer resolves to false.  A sweep that waited goes on to the    *)
(* crashed-container cleanup.                                              *)
SpawnFails ==
    /\ spawning /\ Upset("spawn")
    /\ HostFree
    /\ spawning' = FALSE
    /\ hpc' = "idle"
    /\ IF hpc = "await" THEN ResetStuckProcessingRows
                        ELSE UNCHANGED <<status, tries, deferred, ack>>
    /\ UNCHANGED <<kind, pc, runnerVars, beat, tracked, respawn, hands>>

(* The 'close' event: forget the container, then run the onExit callback.  *)
ContainerClosed ==
    /\ HostFree
    /\ tracked /\ pc = "none"
    /\ tracked' = FALSE
    /\ respawn' = FALSE
    /\ spawning' = (spawning \/ respawn)
    /\ UNCHANGED <<rowVars, ack, pc, runnerVars, beat, hpc, hands, upsets>>

(* The host process dies and comes back: the maps are empty, cleanupOrphans*)
(* has stopped the container, the databases are as they were.              *)
HostRestart ==
    /\ Upset("host-restart")
    /\ ContainerDies
    /\ tracked' = FALSE /\ spawning' = FALSE /\ respawn' = FALSE
    /\ hpc' = "idle"
    /\ UNCHANGED <<rowVars, ack, beat, hands>>

-----------------------------------------------------------------------------
(* Host: sweepSession, one step per stretch between two looks at what the  *)
(* container may have changed.                                             *)

(* Bug: a script-skip:error acknowledgement is not mirrored.               *)
SyncCompletedOnly ==
    /\ hpc = "idle"
    /\ status' = [m \in Messages |->
                     IF status[m] = "pending" /\ ack[m] = "completed" THEN "completed"
                     ELSE status[m]]
    /\ hpc' = "count"
    /\ UNCHANGED <<kind, tries, deferred, ack, pc, runnerVars, beat, tracked,
                   spawning, respawn, hands, upsets>>

(* syncProcessingAcks.                                                     *)
SweepSync ==
    /\ hpc = "idle"
    /\ status' = [m \in Messages |->
                     IF status[m] = "pending" /\ ack[m] = "completed" THEN "completed"
                     ELSE IF status[m] = "pending" /\ ack[m] = "script-error" THEN "failed"
                     ELSE status[m]]
    /\ hpc' = "count"
    /\ UNCHANGED <<kind, tries, deferred, ack, pc, runnerVars, beat, tracked,
                   spawning, respawn, hands, upsets>>

(* Due work and no container: wake one and wait for it.                    *)
SweepWake ==
    /\ hpc = "count"
    /\ DueTriggers # {} /\ ~tracked
    /\ Wake
    /\ hpc' = "await"
    /\ UNCHANGED <<rowVars, ack, pc, runnerVars, beat, tracked, respawn, hands, upsets>>

SweepNoWake ==
    /\ hpc = "count"
    /\ DueTriggers = {} \/ tracked
    /\ hpc' = "check"
    /\ UNCHANGED <<rowVars, ack, pc, runnerVars, beat, tracked, spawning, respawn,
                   hands, upsets>>

(* decideStuckAction.                                                      *)
Stuck == beat = "stale" \/ \E m \in Messages : ack[m] = "stuck"

SweepDecide ==
    /\ hpc = "check" /\ tracked
    /\ hpc' = (IF Stuck THEN "kill" ELSE "idle")
    /\ UNCHANGED <<rowVars, ack, pc, runnerVars, beat, tracked, spawning, respawn,
                   hands, upsets>>

(* Bug: the claims are reset while the container is still being stopped.   *)
ResetBeforeKill ==
    /\ hpc = "kill"
    /\ ResetStuckProcessingRows
    /\ hpc' = "stop"
    /\ UNCHANGED <<kind, pc, runnerVars, beat, tracked, spawning, respawn, hands, upsets>>

(* killContainer returns when the container has stopped; then its claims   *)
(* are read again and reset.                                               *)
SweepKill ==
    /\ hpc = "kill"
    /\ ContainerDies
    /\ ResetStuckProcessingRows
    /\ hpc' = "idle"
    /\ UNCHANGED <<kind, beat, tracked, spawning, respawn, hands, upsets>>

(* Bug: the cleanup runs although a container is alive.                    *)
CleanupUnguarded ==
    /\ hpc = "check"
    /\ ResetStuckProcessingRows
    /\ hpc' = "idle"
    /\ UNCHANGED <<kind, pc, runnerVars, beat, tracked, spawning, respawn, hands, upsets>>

(* Crashed-container cleanup.                                              *)
SweepCleanup ==
    /\ hpc = "check" /\ ~tracked
    /\ ResetStuckProcessingRows
    /\ hpc' = "idle"
    /\ UNCHANGED <<kind, pc, runnerVars, beat, tracked, spawning, respawn, hands, upsets>>

-----------------------------------------------------------------------------
(* Container: the main loop.                                               *)

(* clearStaleProcessingAcks.                                               *)
Boot ==
    /\ pc = "boot"
    /\ ack' = [m \in Messages |-> IF Claimed(m) THEN "none" ELSE ack[m]]
    /\ pc' = "poll"
    /\ first' = TRUE
    /\ UNCHANGED <<rowVars, batch, follow, late, ending, hung, owed, beat, hostVars,
                   hands, upsets>>

(* preparePollBatch, nothing to engage on: only the first poll counts.     *)
PollNothing ==
    /\ pc = "poll" /\ first
    /\ Triggers(WithoutSystem(PendingMessages(first))) = {}
    /\ first' = FALSE
    /\ UNCHANGED <<rowVars, ack, pc, batch, follow, late, ending, hung, owed, beat,
                   hostVars, hands, upsets>>

(* preparePollBatch up to the scripts: claim the batch, run the commands   *)
(* the runner handles itself, and go on if anything else is in the batch.  *)
PollClaim ==
    LET claimed == WithoutSystem(PendingMessages(first))
        commands == {m \in claimed : kind[m] = "clear"}
        normal == claimed \ commands
        acks == [m \in Messages |-> IF m \in commands THEN "completed"
                                    ELSE IF m \in normal THEN "new"
                                    ELSE ack[m]]
    IN /\ pc = "poll"
       /\ Triggers(claimed) # {}
       /\ Hand(commands)
       /\ ack' = TouchedByScripts(normal, acks)
       /\ beat' = BeatAfterScripts(normal)
       /\ batch' = normal
       /\ pc' = (IF normal = {} THEN "poll" ELSE "script")
       /\ first' = FALSE
       /\ UNCHANGED <<rowVars, follow, late, ending, hung, owed, hostVars, upsets>>

(* What applyPreTaskScripts decides for the rows of S: each task is kept,  *)
(* gated (wakeAgent = false) or skipped because its script failed.         *)
Verdicts(S) == {v \in (SUBSET Tasks(S)) \X (SUBSET Tasks(S)) : v[1] \cap v[2] = {}}

SkippedAcks(gated, failed) ==
    [m \in Messages |-> IF m \in gated THEN "completed"
                        ELSE IF m \in failed THEN "script-error"
                        ELSE ack[m]]

(* The scripts of the batch are over: skip or open a query with the rest.  *)
ScriptsDone ==
    /\ pc = "script"
    /\ \E v \in Verdicts(batch) :
          LET keep == batch \ (v[1] \cup v[2])
          IN /\ ack' = TouchedByScripts(batch, SkippedAcks(v[1], v[2]))
             /\ Hand(keep \cup v[1])
             /\ batch' = keep
             /\ owed' = owed \cup keep
             /\ pc' = (IF keep = {} THEN "poll" ELSE "query")
    /\ beat' = BeatAfterScripts(batch)
    /\ UNCHANGED <<rowVars, first, follow, late, ending, hung, hostVars, upsets>>

(* An event of the open query other than its result.                       *)
QueryEvent ==
    /\ pc = "query" /\ ~hung
    /\ beat' = "fresh"
    /\ ack' = Touched(ack)
    /\ UNCHANGED <<rowVars, pc, runnerVars, hostVars, hands, upsets>>

(* A result event first acks the initial batch ...                         *)
QueryResult ==
    /\ pc = "query" /\ ~hung
    /\ owed # {}
    /\ beat' = "fresh"
    /\ ack' = Touched([m \in Messages |-> IF m \in batch THEN "completed" ELSE ack[m]])
    /\ pc' = "dispatch"
    /\ UNCHANGED <<rowVars, runnerVars, hostVars, hands, upsets>>

(* ... and then dispatchResultText writes the reply: to the initial batch  *)
(* if it is still unanswered, else to some of the rows pushed since.       *)
DispatchResult ==
    /\ pc = "dispatch"
    /\ IF batch # {} THEN owed' = owed \ batch
       ELSE \E answered \in (SUBSET owed) \ {{}} : owed' = owed \ answered
    /\ batch' = {}
    /\ pc' = "query"
    /\ UNCHANGED <<rowVars, ack, first, follow, late, ending, hung, beat, hostVars,
                   hands, upsets>>

(* The stream ends, fails or is aborted: processQuery returns or throws,   *)
(* and the batch is acked whatever happened.  A follow-up poll still in    *)
(* flight goes on with `done` set.                                         *)
QueryEnds ==
    /\ pc = "query"
    /\ ending \/ ~hung
    /\ ack' = [m \in Messages |-> IF m \in batch THEN "completed" ELSE ack[m]]
    /\ batch' = {} /\ owed' = {}
    /\ late' = late \cup follow /\ follow' = {}
    /\ ending' = FALSE /\ hung' = FALSE
    /\ pc' = "poll"
    /\ UNCHANGED <<rowVars, first, beat, hostVars, hands, upsets>>

(* The provider falls silent for good.                                     *)
ProviderHangs ==
    /\ pc = "query" /\ ~hung
    /\ hung' = TRUE
    /\ UNCHANGED <<rowVars, ack, pc, first, batch, follow, late, ending, owed, beat,
                   hostVars, hands, upsets>>

-----------------------------------------------------------------------------
(* Container: the follow-up poller of the open query, and the MCP server.  *)

FollowUpIdle == pc = "query" /\ ~ending /\ follow = {}

(* A slash command needs a fresh query: abort this one, leave the row.     *)
FollowUpCommand ==
    /\ FollowUpIdle
    /\ RunnerCommands(PendingMessages(FALSE)) # {}
    /\ ending' = TRUE
    /\ UNCHANGED <<rowVars, ack, pc, first, batch, follow, late, hung, owed, beat,
                   hostVars, hands, upsets>>

FollowUpClaim ==
    LET claimed == WithoutSystem(PendingMessages(FALSE))
        acks == [m \in Messages |-> IF m \in claimed THEN "new" ELSE ack[m]]
    IN /\ FollowUpIdle
       /\ RunnerCommands(PendingMessages(FALSE)) = {}
       /\ Triggers(claimed) # {}
       /\ ack' = TouchedByScripts(claimed, acks)
       /\ beat' = BeatAfterScripts(claimed)
       /\ follow' = claimed
       /\ UNCHANGED <<rowVars, pc, first, batch, late, ending, hung, owed, hostVars,
                      hands, upsets>>

(* The scripts are over and the query is still open: push the rest into it *)
(* and ack it at once.                                                     *)
FollowUpPush ==
    /\ pc = "query" /\ follow # {}
    /\ \E v \in Verdicts(follow) :
          LET keep == follow \ (v[1] \cup v[2])
          IN /\ ack' = TouchedByScripts(follow, SkippedAcks(v[1] \cup keep, v[2]))
             /\ Hand(keep \cup v[1])
             /\ owed' = owed \cup keep
    /\ follow' = {}
    /\ beat' = BeatAfterScripts(follow)
    /\ UNCHANGED <<rowVars, pc, first, batch, late, ending, hung, hostVars, upsets>>

(* Bug: rows that could not be pushed any more are acked all the same.     *)
FollowUpAckedUnpushed ==
    /\ pc \in {"poll", "script", "query"} /\ late # {}
    /\ \E v \in Verdicts(late) :
          /\ ack' = TouchedByScripts(late, SkippedAcks(late \ v[2], v[2]))
          /\ Hand(v[1])
    /\ late' = {}
    /\ beat' = BeatAfterScripts(late)
    /\ UNCHANGED <<rowVars, pc, first, batch, follow, ending, hung, owed, hostVars,
                   upsets>>

(* The scripts are over but the query has ended: only the skips are acked. *)
FollowUpTooLate ==
    /\ pc \in {"poll", "script", "query"} /\ late # {}
    /\ \E v \in Verdicts(late) :
          /\ ack' = TouchedByScripts(late, SkippedAcks(v[1], v[2]))
          /\ Hand(v[1])
    /\ late' = {}
    /\ beat' = BeatAfterScripts(late)
    /\ UNCHANGED <<rowVars, pc, first, batch, follow, ending, hung, owed, hostVars,
                   upsets>>

(* ask_user_question is still waiting and finds its answer.                *)
QuestionAnswered(m) ==
    /\ pc = "query" /\ ~hung
    /\ status[m] = "pending" /\ kind[m] = "system" /\ ack[m] = "none"
    /\ ack' = [ack EXCEPT ![m] = "completed"]
    /\ Hand({m})
    /\ UNCHANGED <<rowVars, pc, runnerVars, beat, hostVars, upsets>>

-----------------------------------------------------------------------------
(* Failures and the clock.                                                 *)

(* The container process exits by itself (out of memory, exit(75), ...).   *)
Crash ==
    /\ pc # "none" /\ Upset("crash")
    /\ ContainerDies
    /\ UNCHANGED <<rowVars, ack, beat, hostVars, hands>>

BackoffElapses(m) ==
    /\ deferred[m]
    /\ deferred' = [deferred EXCEPT ![m] = FALSE]
    /\ UNCHANGED <<status, kind, tries, ack, pc, runnerVars, beat, hostVars, hands, upsets>>

Aged == [m \in Messages |-> IF ack[m] = "new" THEN "stuck" ELSE ack[m]]

(* More than CLAIM_STUCK_MS without a heartbeat since the claim.           *)
ClaimsAge ==
    /\ \E m \in Messages : ack[m] = "new"
    /\ ack' = Aged
    /\ UNCHANGED <<rowVars, pc, runnerVars, beat, hostVars, hands, upsets>>

(* More than ABSOLUTE_CEILING_MS without a heartbeat.                      *)
HeartbeatAges ==
    /\ beat = "fresh"
    /\ beat' = "stale"
    /\ ack' = Aged
    /\ UNCHANGED <<rowVars, pc, runnerVars, hostVars, hands, upsets>>

-----------------------------------------------------------------------------
HostEvent ==
    \/ \E m \in Messages : Arrive(m) \/ RestartContainer(m)
    \/ RestartQuietly \/ ContainerStopped \/ SpawnContainer \/ SpawnFails
    \/ ContainerClosed \/ HostRestart

Sweep == SweepSync \/ SweepWake \/ SweepNoWake \/ SweepDecide \/ SweepKill \/ SweepCleanup

MainLoop ==
    \/ Boot \/ PollNothing \/ PollClaim \/ ScriptsDone
    \/ QueryEvent \/ QueryResult \/ DispatchResult \/ QueryEnds \/ ProviderHangs

SideLoop ==
    \/ FollowUpCommand \/ FollowUpClaim \/ FollowUpPush \/ FollowUpTooLate
    \/ \E m \in Messages : QuestionAnswered(m)

Clock == ClaimsAge \/ HeartbeatAges \/ \E m \in Messages : BackoffElapses(m)

Next == HostEvent \/ Sweep \/ MainLoop \/ SideLoop \/ Crash \/ Clock

Spec == Init /\ [][Next]_vars

(* The two event loops, the pollers and timers of both processes run on;   *)
(* a query that is aborted ends, a provider that has not fallen silent     *)
(* answers, a queue of host events is drained between two sweeps.  Nothing *)
(* is assumed of arrivals, faults, restarts and other provider events.     *)
Fairness ==
    /\ SF_vars(SpawnContainer) /\ SF_vars(ContainerClosed)
    /\ WF_vars(ContainerStopped) /\ WF_vars(Sweep)
    /\ WF_vars(Boot) /\ WF_vars(PollNothing) /\ WF_vars(PollClaim) /\ WF_vars(ScriptsDone)
    /\ WF_vars(QueryResult) /\ WF_vars(DispatchResult) /\ WF_vars(ending /\ QueryEnds)
    /\ WF_vars(FollowUpCommand) /\ WF_vars(FollowUpClaim)
    /\ WF_vars(FollowUpPush) /\ WF_vars(FollowUpTooLate)
    /\ WF_vars(ClaimsAge) /\ WF_vars(HeartbeatAges)
    /\ \A m \in Messages : WF_vars(BackoffElapses(m))

FairSpec == Spec /\ Fairness

-----------------------------------------------------------------------------
(* Properties.                                                             *)

(* At most one container works on the session: while one is being spawned  *)
(* none runs and none is known, and a running one is known to the host     *)
(* (wakePromises, activeContainers and the close event agree).             *)
NoDuplicateContainer ==
    /\ spawning => pc = "none" /\ ~tracked
    /\ pc # "none" => tracked

(* A row the container works on keeps its claim or, once it has been acked,*)
(* its acknowledgement: no poll of the same container can pick it up again,*)
(* whatever the host does to processing_ack meanwhile.                     *)
WorkStaysClaimed ==
    /\ pc \in {"script", "query"} => \A m \in batch : Claimed(m)
    /\ \A m \in follow \cup late : Claimed(m)
    /\ \A m \in batch \cup owed : ack[m] # "none"

(* The main loop, the follow-up poller of the open query and those of      *)
(* queries that have ended never work on the same row.                     *)
OnePairOfHands ==
    /\ batch \cap (follow \cup late) = {}
    /\ follow \cap late = {}
    /\ owed \cap (follow \cup late) = {}

(* A row fails when its tries are used up or its own script broke, and for *)
(* no other reason: no crash, restart or lost answer fails it earlier.     *)
FailedOnlyExhausted ==
    \A m \in Messages :
        status[m] = "failed" => tries[m] = MaxTries \/ ack[m] = "script-error"

(* A row is given to the agent once, once more for every try the sweep has *)
(* charged it, and once more for every fault: nothing else in the retry    *)
(* machinery repeats work.                                                 *)
RedeliveryIsCharged ==
    \A m \in Messages : hands[m] <= 1 + tries[m] + upsets

(* The host drops claims only when no container can hold them ("the host   *)
(* only writes to outbound.db when no container is running").              *)
LiveClaimsKept ==
    [][pc \notin {"none", "boot"} /\ pc' # "none"
        => \A m \in Messages : Claimed(m) => ack'[m] # "none"]_vars

(* A row of the mailbox as an item of the abstract queue.                  *)
Settled(m) ==
    IF status[m] = "absent" THEN "absent"
    ELSE IF status[m] = "completed" \/ ack[m] = "completed" THEN "done"
    ELSE IF status[m] = "failed" \/ ack[m] = "script-error" THEN "dead"
    ELSE "queued"

Queue == INSTANCE AtLeastOnceQueue
    WITH Items <- Messages,
         state <- [m \in Messages |-> Settled(m)],
         times <- hands

(* The mailbox implements the queue: every row acked completed was given   *)
(* to the agent, or its script or command was run, before or by that step; *)
(* a settled row is never given out again, whatever faults occur.          *)
ImplementsQueue == Queue!Spec

(* A claim that nobody in the running container holds: the follow-up       *)
(* poller came back too late for its query and left it.                    *)
Abandoned(m) ==
    /\ Claimed(m) /\ pc \notin {"none", "boot"}
    /\ m \notin batch \cup follow \cup late

(* The newest due rows, as many as a poll reads, are accumulated context   *)
(* and abandoned claims, and m is older than all of them.                  *)
Hidden(m) ==
    Due(m) /\ Cardinality({n \in Messages :
                 n > m /\ Due(n) /\ (kind[n] = "context" \/ Abandoned(n))}) >= MaxPrompt

Unsettled(m) == status[m] = "pending" /\ kind[m] \in {"chat", "task", "clear", "slash"}

(* A row the agent is to act on ends up completed or failed, or else it is *)
(* hidden from the polls for ever, or its claim is abandoned and a         *)
(* heartbeat of its container is never long in coming.                     *)
WorkSettles ==
    \A m \in Messages :
        <>[]Unsettled(m) => \/ <>[]Hidden(m)
                            \/ <>[]Abandoned(m) /\ []<>(beat = "fresh")

(* What the comment of the follow-up poller says of a claim it comes back  *)
(* too late with: "the claimed messages get released by the host's         *)
(* processing-claim sweep".                                                *)
LateClaimsReleased == \A m \in Messages : Abandoned(m) ~> ~Claimed(m)
=============================================================================
