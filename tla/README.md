# TLA+ models of NanoClaw

NanoClaw runs language-model agents in containers and connects them to chat
channels. One host process (Node.js, one thread) owns the channels, a central
SQLite database and a folder per session; one container per session runs the
agent. Host and container talk through two SQLite files of the session folder
and a heartbeat file, nothing else: there is no lock, no transaction and no
acknowledged message between the two processes. What can go wrong is therefore
a matter of interleavings, crashes and stale reads, and that is what the modules
in this directory are about. They are translated from the code under
`src/nanoclaw/src` (host) and `src/nanoclaw/container/agent-runner/src`
(container); `PROJECT.json` gives, for every definition, the lines it stands for.

- [1. The system](#1-the-system)
- [2. The modules](#2-the-modules)
- [3. What the runs check](#3-what-the-runs-check)
- [4. What is proved](#4-what-is-proved)
- [5. Where code and documentation disagree](#5-where-code-and-documentation-disagree)
- [6. What is not modelled](#6-what-is-not-modelled)
- [7. Plan](#7-plan)

To check everything by hand: `tlc -config MailboxSafety.cfg MCSessionMailbox.tla`
for each run of `PROJECT.json`, `tlapm SessionMailboxProofs.tla` for each proof
module.

## 1. The system

    channels --> router --> inbound.db --> poll loop --> provider (agent)
       ^           |            ^   |          |             |
       |           v            |   v          v             v
       |      wakeContainer   sweep <--- processing_ack   messages_out
       |           |            |        heartbeat           |
       |           v            v                            |
       |       container <-- kill / spawn                    |
       +------------------ delivery <------------------------+

The components, the state each keeps, what it does, and what makes it correct.

| component | state | operations | hard behaviour | correct when |
|---|---|---|---|---|
| Session databases (`db/session-db.ts`, `db/messages-in.ts`, `db/messages-out.ts`) | `messages_in` (status, tries, process_after, trigger, on_wake), `processing_ack`, `messages_out`, `delivered` | insert, claim, ack, mirror, reset, mark delivered | two processes, no transaction across the two files | a settled row is never worked on again, an unsettled one is never forgotten |
| Router (`router.ts`, `routing/engage.ts`) | messaging groups, wirings, sessions | fan-out to the wired agents, engagement, gates, slash commands, store and wake | the fan-out awaits a wake-up per agent while wirings, members and cards change | every admitted message reaches the agents it was admitted to, a refused one none |
| Permissions (`modules/permissions`) | users, roles, members, pending senders and channels | access gate, approval card, replay of the stored event | several requests await the approver's DM at once; the card holds one message and is answered long after | an approver is asked once, an approved message is heard, a refused one stays out |
| Container life cycle (`container-runner.ts`, `container-restart.ts`) | `activeContainers`, `wakePromises`, onExit callbacks | wake, spawn, close, kill, restart, orphan cleanup | several callers around awaits | one container per session, no lost wake |
| Host sweep (`host-sweep.ts`) | none of its own | mirror acks, wake, decide stuck, kill and reset, cleanup after a crash, recurrence, close spent task sessions | decides on what it read earlier | work is retried a bounded number of times and ends |
| Poll loop (`poll-loop.ts`, `poll-batch.ts`, `poll-query.ts`) | batch, follow-up poller, open query | claim, commands, pre-task scripts, query, ack, push follow-ups | main loop and timer interleave at awaits | no row in two hands, no claim for ever |
| Pre-task scripts (`scheduling/task-script.ts`) | none | keep, gate or fail a task | run while rows are claimed | a script decides over its own task only |
| Sequence numbers (`db/session-db.ts`, `db/messages-out.ts`, `session-manager.ts`) | `seq` of both tables | even for the host, odd for the container | three writers, two databases | a number names one row |
| Delivery (`delivery.ts`) | in-flight set, attempts, `delivered`, `pending_questions` | drain a session from three drivers, retry, give up | sends are awaited; crash after a send | in order, once unless something forces a repeat, nothing given up on silently |
| Interactive questions (`mcp-tools/interactive.ts`, `modules/interactive`) | `pending_questions`, an inbound row of kind system | ask, answer, time out | late answers | a card on the screen can be answered |
| Approvals (`modules/approvals`) | `pending_approvals`, status pending / awaiting_reason, armed DMs, promises of the credential gateway | request, approve, reject, reject with reason, expiry | reason typed against the expiring sweep; two administrators; a second click while an action is applied; restart in between | a request is decided once and its requester told |
| Scheduling (`modules/scheduling`) | task rows of a series | create, pause, resume, cancel, update, delete, recurrence with back-off | agent acks against operator commands; the web interface, another process, writes back what it read; crash between insert and clear | a live series has exactly one next occurrence, a stopped one none |
| Agent to agent routing (`modules/agent-to-agent`) | destinations, policies, `source_session_id`, held messages | route, return path, gate and replay, create agent | several sessions per group that come and go; destinations and policies change while a message is held | a reply goes where the question came from, nothing passes without its destination and approval, nothing disappears |
| Self modification (`modules/self-mod`) | approvals, image rebuild | install packages, add MCP server, restart | rebuild against running container | the agent is told of the outcome |
| Guard and delivery actions (`guard`, `delivery-actions.ts`) | catalogue | allow, hold, deny | hold across an approval | an action runs only as its entry permits |
| Typing indicator (`modules/typing`) | timers per session | start, refresh, pause, stop | refresh against container exit | no timer outlives its container |
| Telegram pairing (`channels/telegram-pairing.ts`) | pairing codes in a file | create, consume, supersede, expire | concurrent consumers | a code is used at most once |
| Conversations and sync turns (`conversations`, `commands`, `gateway/sync-turn-*`) | sessions active or archived, continuations, history cutoff | new, resume with a summary, clear; synchronous prompt and reply | a summary is awaited while the conversation goes on; a container outlives its session | one conversation at a time, an archived one is closed |
| Turn orchestrator (`agents`, `orchestrator`, `execution` of the runner) | plan of the turn, ledger of a worker | triage, delegate, call tools, reply | a language model answers anything, or nothing | rounds, budgets and repetitions are limited |
| Start-up (`index.ts`, circuit breaker, upgrade marker) | crash log, marker | back-off, orphan cleanup, migrations | crash loops | a restart finds consistent maps |
| Central database, CLI, templates, web UI, clients, scripts | tables and files | create, read, update, delete | none of its own | |

How they interact: the router and the restart helper write inbound rows and call
`wakeContainer`; the sweep reads everything and is the only one to charge a
try; the container claims and acks in its own database, which the host mirrors
into `messages_in.status`; the container writes `messages_out`, which the two
delivery polls and slash commands drain; approvals and questions come back as
inbound rows. The container reads `messages_in` and never writes it; the host
reads `outbound.db` and, by its own rule, writes it only when no container runs.

The hazards, each at the line where it bites and with the properties that would
catch it, are listed in `PROJECT.json`.

## 2. The modules

| module | what it is |
|---|---|
| `AtLeastOnceQueue` | what a table of messages promises: abstract specification |
| `SessionMailbox` | one session: inbound rows, claims, container, sweep, poll loop |
| `SessionMailboxProofs` | its invariants, proved inductive; it keeps live claims and implements the queue |
| `Delivery` | outbound rows, the three drivers, failures and crashes |
| `SeqNumbers` | the numbers of the rows of a session |
| `OutboxProofs` | the invariants of both, the order of delivery and of the numbers, and that `Delivery` implements the queue |
| `Scheduling`, `SchedulingProofs` | one series of scheduled tasks; its invariants, proved |
| `Approvals`, `ApprovalsProofs` | requests that an administrator decides; its invariants, proved |
| `Admission`, `AdmissionProofs` | router and permissions: which messages reach which agents; its invariants, proved |
| `Conversations`, `ConversationsProofs` | the conversations of one chat with one agent; its invariants, proved |
| `AgentRouting` | messages between agents, from the sender's session to one of the addressed group |
| `AgentRoutingProofs` | its invariants and action properties, and that it implements the queue |
| `Turn`, `TurnProofs` | one turn of the orchestrator; its invariants, proved |
| `MCSessionMailbox`, `MCDelivery`, `MCAdmission`, `MCAgentRouting` | give the rows, messages, wirings and groups their values for TLC |

How they fit together. `SessionMailbox` and `Delivery` are two halves of a
session and share no variable: what a container writes to `messages_out` does not
influence what it claims. Both instantiate `AtLeastOnceQueue` through a
refinement mapping that counts how often a row is handled (`hands`, `sends`), so
the promise to whoever posts a row reads the same in both directions; so does
`AgentRouting` for the messages that agents send each other, where handling means
that an agent or a person hears of it. The other modules stand on one of their actions each: `Admission`
decides which `RouteMessage` happens, `Scheduling` refines `ScheduleTask` and the
sweep's part that concerns task rows (its claims and acks are those of the
mailbox, without tries), `Conversations` is about which session a row goes into
and takes the container of a session as `Wake`, a spawn and an end, `AgentRouting`
is what `Delivery` sends when a row addresses an agent, across sessions, `Turn` is what
happens inside a query between `QueryEvent` and `QueryResult`, and the handlers of
`Approvals` are reached from a row of `Delivery` (a request) and answered by rows
of the mailbox.

A definition whose comment begins with "Bug:" is a plausible wrong version of
the one that follows it. No specification uses it; it serves to see that a
property notices the difference (`mutants` in `PROJECT.json`).

### SessionMailbox

State. A row has `status`, `kind` (kind, trigger and on_wake in one), `tries`,
`deferred` (process_after in the future). `ack` is its row in `processing_ack`:
none, a claim, completed or script-error. A claim is "new", "stuck" once it is
older than its tolerance, or "beaten" when the heartbeat was touched since; the
clock turns new into stuck, and `beat` from fresh to stale. `pc` is the place of
the container's main loop, `batch`, `follow`, `late` and `owed` its memory. The
host has its maps (`tracked`, `spawning`, `respawn`) and the stretch of the sweep
it is in (`hpc`). `hands` and `upsets` are history.

| action | code |
|---|---|
| `RouteMessage`, `ScheduleTask` | `deliverToAgent`, `handleInteractiveResponse`, `createScheduledTask` with `insertMessage` |
| `RestartContainer`, `RestartQuietly`, `ContainerStopped` | `restartAgentGroupContainers` with and without a message, and the `docker stop` in it |
| `SpawnContainer`, `SpawnFails`, `ContainerClosed` | tail of `spawnContainer`, rejected spawn, `close` event with onExit |
| `HostRestart` | loss of the maps and `cleanupOrphans` |
| `SweepSync`, `SweepWake`, `SweepNoWake`, `SweepDecide`, `SweepKill`, `SweepCleanup` | `sweepSession`, cut wherever the container may have changed something between two reads |
| `Boot`, `PollNothing`, `PollClaim`, `ScriptsDone` | start-up, `preparePollBatch` before and after the scripts |
| `QueryEvent`, `QueryResult`, `DispatchResult`, `QueryEnds`, `ProviderHangs` | the event loop of `processQuery` |
| `FollowUpCommand`, `FollowUpClaim`, `FollowUpPush`, `FollowUpTooLate` | the follow-up poller, before and after its await |
| `QuestionAnswered` | `ask_user_question` finding its answer |
| `Crash`, `BackoffElapses`, `ClaimsAge`, `HeartbeatAges` | failures and time |

Grain. JavaScript runs to the next await, so a stretch between two awaits is one
step where only that process can see the difference. Where the other process
can, the stretch is cut: the sweep reads the acks, the due rows and the claims in
different steps, and the container moves between them.

Simplifications. `docker stop` succeeds. While the host is down it takes no
step: `HostRestart` stands for the whole outage. Clearing the claims after a kill
cannot fail (the code logs that and goes on). The widening of the tolerance for
a running Bash tool is one of the outcomes of the abstract clock. Several late
follow-up polls are merged into one (`late`). A script yields one verdict per
task. Continuations, formatting, and which text answers which row are data.

### Delivery

State. Rows of `messages_out` with their `kind` and `owner`, `delivered`,
`pending_questions`; sessions with their status (`open`), container status and whether a
container is alive; `attempts` and `inflight` in the memory of the host; for each
driver the sessions it still visits, the session it drains, the snapshot and
whether it awaits the adapter. `shown` and `sends` belong to the platform, which
may show a message and then report an error, or not answer before a crash.

| action | code |
|---|---|
| `ContainerWrites`, `SlashReply` | `writeMessageOut`; `writeOutboundDirect` followed by a drain |
| `PollActive`, `PollSweep` | the session lists of the two polls |
| `Visit`, `Leave` | `deliverSessionMessages` around `drainSession`, with the in-flight guard |
| `Send`, `ThrowBarred`, `DropUnaddressed` | `deliverMessage` up to its await, its throws, its early return |
| `Show` | the platform |
| `Sent`, `SendFails` | `markDelivered`, and the catch clause with attempts and `markDeliveryFailed` |
| `Answer` | `handleInteractiveResponse` |
| `ContainerStarts`, `ContainerStops`, `TaskSettles`, `TaskSessionCloses`, `HostRestart` | container status, the last row of a task settled, the close of its session, loss of the memory of the host |

Simplifications. Rows are numbered in the order of their timestamps, and
`deliver_after` is not modelled since nothing sets it. System actions and
agent-to-agent rows are sent like any other row: their handlers are awaited and
may throw. A message that is still in the network when the host dies is not
shown afterwards. A task session is created with its task row and has one series;
`live` says that a row of it is still pending or paused, and `TaskSettles` stands
for its acknowledgement (mirrored by the sweep), cancellation or deletion.
`Openings` gives the sets of sessions that are open at the start, and a session that
is not stays so: the run starts with one open session of either sort, and what the
proofs of section 4 say of safety holds for any set of them.

### SeqNumbers

State. The numbers in the two tables, and for each process of the container that
writes (`Writers`: the poll loop and the MCP tool server) how far it is in
`writeMessageOut` and what it has read. Every SQLite statement of that function
is a step. `insertMessage`, `writeOutboundDirect` and `deleteTask` are single
steps: the host is one thread and the only writer of `messages_in`, and
`writeOutboundDirect` is one statement. `direct`, `before` and `overtaken` are
history. Its specification is called `NumbersSpec` (and so on), so that one
module can prove about both halves of the outbox.

### Scheduling

State. The rows of one series in the `inbound.db` of its session: `status`,
`armed` (the row has a recurrence), `ack`. The session is `open`, its container
`alive`. The sweep is "idle", "waking" or "rearming", with the finished rows it
has read (`todo`) and the one whose successor exists already (`inserted`).
`editArm` and `editClear` are the rows the web interface has read and is about to
write back. `stop`, `failures`, `clashes` and `faults` are history.

| action | code |
|---|---|
| `ContainerStarts`, `ContainerStops`, `Claim`, `Acknowledge` | claims and acks of the runner |
| `SyncProcessingAcks`, `BeginRearm`, `CollectSession` | the steps of `sweepSession` |
| `InsertRecurrence`, `ClearRecurrence`, `RearmFails` | `handleRecurrence`: its two statements and its catch clause |
| `RunTask`, `PauseTask`, `ResumeTask`, `CancelTask`, `DeleteTask`, `SetRecurrence`, `DropRecurrence` | the `ncl tasks` commands with `modules/scheduling/db.ts` |
| `ReadForEdit`, `WriteRecurrence`, `WriteNull` | `updateScheduledTask` of the web interface, which reads and then writes row by row |
| `HostRestart` | loss of the sweep's memory and `cleanupOrphans` |

Simplifications. Times, cron expressions and back-off are left out: a pending row
may be due at any moment. Whether a row's tries are used up is a choice
(`SessionMailbox` counts them). An ack that has been mirrored is forgotten.

### Approvals

State. Of each request: how far its card is (`stage`, `shown`), its `row` in
`pending_approvals` and whether its deadline has `lapsed`, the handlers of the
approved action that have not returned (`applying`), the administrators whose
reason prompt is being delivered (`prompting`) or whose DM is `armed`, the rows
the sweep has read (`ghosts`), the promise of a credential (`waiter`). `executed`,
`refused`, `told` and `overlaps` are history.

| action | code |
|---|---|
| `NobodyToAsk`, `RequestApproval`, `CardSent`, `CardFails` | `requestApproval` around the delivery of the card |
| `Approve`, `Applied`, `Reject` | `handleApprovalsResponse`, before and after the handler of the action, with the guard's replay |
| `RejectWithReason`, `ArmReason`, `PromptFails`, `CaptureReason` | `armReasonCapture`, `captureReasonReply` |
| `ReadGhosts`, `FinalizeGhost`, `WindowElapses` | `sweepAwaitingReasonRejects`, five minutes |
| `RequestCredential`, `CredentialAsked`, `CredentialDenied`, `ResolveCredential`, `CredentialExpires`, `DropCredential` | `onecli-approvals.ts` |
| `Revoke`, `HostRestart`, `ShowCard` | a change of what the guard checks, a crash, the platform |

Simplifications. A click by someone without authority changes nothing and is left
out. What an action does is counted, not modelled.

### Admission

State. One chat: `isGroup`, `policy`, `denied`, `members`, and its `wirings`, one
per agent (`mode`, `known` and `keeps` for sender_scope and the policy on ignored
messages, `priority`); of every message its row with each agent (`stored`); running
calls of `routeInbound` (`queue`: the wirings the fan-out has still to see, each with
the policy of the chat, as they were when the call began); the requests that await the
approver's DM and the rows and cards they become (`senderReqs`, `senderRow`,
`senderCard` and the same for the chat), a name prompt (`naming`). `promised`, `cut`,
`turnedAway` and `overdue` are history.

| action | code |
|---|---|
| `Arrive`, `FanOut` | `routeInbound` with escalation, `evaluateEngage`, the gates of `permissions`, `deliverToAgent` up to the wake |
| `SenderGivenUp`, `SenderAsked`, `SenderCardSent`, `AllowSender`, `DenySender` | `sender-approval.ts` and its response handler |
| `ChatGivenUp`, `ChatAsked`, `ChatCardSent`, `ConnectChat`, `RejectChat`, `AskName`, `NamePromptFails`, `NameReply` | `channel-approval.ts`, `wireApprovedChannel`, the interceptor for names |
| `WireAgent`, `UpdateWiring`, `UnwireAgent` | `ncl wirings create`, `update`, `delete` |
| `SetPolicy`, `SetDenied`, `AddMember`, `RemoveMember`, `HostRestart` | `ncl messaging-groups update`, `ncl members`, a crash |

Simplifications. Each agent of a fan-out is a step of its own, in the order of the
priorities; a message is replayed by one call at a time. Senders are always
identified. The 24 hours between two decline notes are left out: a stamp may be
renewed at any time. A pattern is ".", `is_group` of a chat does not change. The
interceptors of channel adapters and the automatic creation of the messaging
group are left out.

### Conversations

State. Sessions of one chat, numbered as they are made; which are `active`; the
messages of each (`inbox`, `answered`, `forgotten`, `handoff`); the continuation
(`memory`), the `container` and what it has in its context (`thread`, `begun`);
"/clear" between its statements, the sweep's list, summaries that are awaited
(`resumes`) and synchronous turns (`turns`).

| action | code |
|---|---|
| `Arrive`, `Turn`, `TurnReplies`, `TurnFails` | router and `processSyncTurn` with `resolveSession` |
| `SpawnSucceeds`, `SpawnFails`, `Engage`, `StoreContinuation`, `Answer`, `Crash`, `Closed` | a container from wake to close |
| `New`, `NewResume`, `SummaryComes`, `SummaryFails`, `Clear`, `ClearStops` | the commands, cut at the await of the summary and around the deletion of the continuation |
| `SweepStarts`, `SweepVisits`, `HostRestart` | the list of active sessions, a wake per session; a crash |

Simplifications. What the summary says is the set of messages it was written
from. The acknowledgement of a command, the limits on the length of the history
and a crash of the host inside `startNewConversation` (between the archiving and
the new row) are left out.

### AgentRouting

State. `sessions` of all groups in the order they were made, open or archived;
`inbound` and `outbound`, the rows of all sessions that matter here, each with
its `peer` and `source` (platform_id and source_session_id), `reply`
(in_reply_to) and the outbound row it came from (`via`, history); which rows are
`taken`, and the open `query` of a session with the row its routing comes from;
`state` and `attempts` of an outbound row; for each session the `drain` that is
running (the rows of its snapshot that are left, processed in the order in which
they were written) and what it awaits; the `holds` of the gate; `links` and
`policies`, the tables of destinations and message policies. `restarts` is
history.

| action | code |
|---|---|
| `Arrive`, `ArriveNew` | a message of a chat, into a session of its group or a new one |
| `Engage`, `FollowUp`, `QueryEnds`, `QueryFails`, `ContainerDies` | the poll loop, as far as it decides which row a message answers |
| `SendBlock`, `SendTool`, `SendPlain` | `sendToDestination`, `send_message` and `send_file`, a result without a block |
| `DrainSession`, `Routes`, `Woken`, `Throws` | `drainSession` with `routeAgentMessage`, `guard(a2aSend)` and `performAgentRoute`, cut at the awaits |
| `Holds`, `RequestApproval`, `NobodyToAsk`, `CardSent`, `CardFails` | a held message: `requestApproval` around its two awaits |
| `ReplayRoutes`, `ReplayRefused`, `Applied`, `Reject` | `applyA2aMessageGate` with the guard's grant, `finalizeReject` |
| `AddDestination`, `RemoveDestination`, `SetPolicy`, `RemovePolicy`, `ArchiveSession`, `HostRestart` | the commands of the operator, "/new", a crash |

`ResolveTargetSession` is the choice of the session: the session the answered row
came from, else the one of the group that wrote here last, else the newest, else a
new one.

Simplifications. All groups exist throughout, and attachments are data. An agent
sees a changed destination at once: the code writes the copy in its session right
after the table, and a message that was written in between is refused like one
written before. What goes to chats is `Delivery`, claims and retries of inbound
rows are `SessionMailbox`. A hold that is rejected with a reason, or expires, is
`Approvals`; here it ends in `Reject`. A batch takes everything that is pending
(fewer rows than the prompt limit), at most two drains run, one per poll, and a
card that failed has not been clicked.

### Turn

State. What the turn waits for (`phase`), misunderstood answers (`attempt`), the
`hint` of the triage, the `steps` done, the `worker` with its round, the tool calls
still to make, its ledger (`calls`, `seen`), its findings. `ran`, `asked` and
`again` are history: what was really executed.

| action | code |
|---|---|
| `TriageDecides`, `TriageUnclear` | `resolveRouting`, `runTurn` |
| `SupervisorDelegates`, `SupervisorFinishes`, `SupervisorUnclear` | `runDelegation`, `resolveDecision`, `shouldForceFinish` |
| `AnswerWithTools`, `AnswerWithSummary`, `RoundsUsedUp` | the loop of `WorkerAgentRunner.execute` |
| `Call` | `ToolGateway.execute` with `evaluate`, `executeTool` and `record` |
| `SenderReplies`, `ModelFails` | `SenderAgent.deliver`, the catch clause of the provider |

Simplifications. An answer of a model is a choice among those the code can
understand, plus one it cannot. A query or address is a key as the ledger compares
it. Tools, prompts, memos and the audit log are data. What a worker has done is
recorded by its executionProfile, what it would do is its first capability
(`turn-supervisor.ts:307`): `Same` takes them for one, which is true of every
`AGENT.md` in the repository and is enforced nowhere.

## 3. What the runs check

Passing runs (times on two workers):

| run | instance | states | checks |
|---|---|---|---|
| `mailbox_safety` | 2 rows of any of 7 kinds, prompt limit 2, 1 try, 1 fault of any of 4 kinds | 818 000, 15 s | `NoDuplicateContainer`, `WorkStaysClaimed`, `OnePairOfHands`, `FailedOnlyExhausted`, `RedeliveryIsCharged`, `LiveClaimsKept`, `ImplementsQueue` |
| `mailbox_liveness` | 3 rows of 4 kinds (messages, tasks, slash commands, context), prompt limit 2, no retries, 1 row handed in late by a command, provider may hang | 504 000, 118 s | `WorkSettles` |
| `delivery` | 1 session, of a task or of a chat with slash commands, 3 rows of 4 kinds, both polls, 2 attempts, 1 upset | 1 886 000, 195 s | `NoUnforcedDuplicate`, `FailedMeansUnseen`, `CardsAreAnswerable`, `ShownInOrder`, `ImplementsOutbox`, `RowsSettle` |
| `seq_numbers` | 2 writers, numbers up to 6 | 576 000, 8 s | `OnlyRepliesCollide`, `RefusedOnlyWhenOvertaken`, `SortsAfter` |
| `scheduling` | 1 series, 3 rows, pause after 1 failure, 1 clash, 1 failed insertion | 3 857 000, 100 s | `OneCarrier`, `SeriesSurvives`, `StopsHold`, `BrokenSeriesPauses` |
| `approvals` | 2 requests, 1 credential, 2 administrators, 3 clicks, 1 crash | 1 085 000, 90 s | `OneOutcome`, `AnswersNeverMissing`, `DecisionsAreFinal`, `HoldsSettle` |
| `admission` | 2 agents, 4 chats as they may be set up (wired or not, group or not), 3 wirings the operator may give the second agent or the first, 3 messages of 2 senders, 1 command of the operator or crash | 2 317 000, 75 s | `ApprovedIsHeard`, `TurnedAwayStaysOut`, `OnlyOverdueAsk` |
| `conversations` | 2 messages, 3 sessions, 2 commands, 1 upset | 209 000, 91 s | `OneConversation`, `ArchivedIsClosed`, `MessagesSettle`, `ForgottenStaysOut` |
| `agent_routing` | 3 groups, 3 sessions and 1 more, 1 message of a chat, 3 between agents, 4 inbound rows, 2 attempts, 1 event (fault or act of an operator) | 1 722 000, 100 s | `OneCopy`, `NothingVanishes`, `LandsWhereAddressed`, `RouteIsAuthorised`, `AnswersReturn` |
| `turn` | 2 researchers, 1 agent for metrics, 1 other, 2 keys, 2 delegations, 2 calls in an answer | 442 000, 48 s | `BudgetsHold`, `SatisfiedIsNotRedone`, `TurnEnds` |

The type invariants are all proved (section 4) and not repeated in a run.

What they show.

*Mailbox.* Every interleaving of router, restart, sweep, poll loop, follow-up
poller, tool server and clock keeps one container per session, keeps every row in
at most one pair of hands, fails a row only when its tries are used up, and
charges every repeat to a try or a fault. `ImplementsQueue` puts this in one
sentence: nothing is acknowledged that was not given to the agent (or whose
script or command was not run), and nothing settled is given out again.

`WorkSettles` says what becomes of a row the agent is to act on, when the host is
not restarted: it is completed or failed in the end, but for two cases, and each of
them does occur (without the one or the other the property fails on this instance).
The row is *hidden*: as many newer rows as a poll reads are accumulated context or
abandoned claims, which nobody settles (`messages-in.ts:71`). Or its claim is
*abandoned*: a follow-up poll took it, came back too late (`poll-query.ts:147`), and
the container goes on to touch its heartbeat for later queries, so that the sweep
passes the claim over (`host-sweep.ts:114`) and never finds the container silent. Three
rows against a prompt of two is the smallest instance with both. With one crash
besides, over messages, tasks and context rows, it holds as well (1 100 000 states,
four minutes; in no run).

*Delivery.* A message is shown once unless a crash or a doubtful failure forces a
repeat, in order unless a row failed, and no card is on the screen without its
question. Of the rows of a session that stays open none is left for good: they are
delivered or given up.

*Numbers.* The numbers of the container never collide with inbound ones and
always sort after them; only replies the host writes itself collide.

*Scheduling.* Sweep, runner and operator together never make a second next
occurrence and never lose the only one, except where `clashes` counts it: a crash
between the two statements of the sweep, an edit that also meets the row of a run
on demand, and an edit of the web interface that writes a recurrence to a row
that finished meanwhile. A stopped series stays stopped, a failing one pauses.

*Approvals.* Deciding while a decision is still being carried out, or after a
crash in the middle of it, is the only way to a second outcome (`overlaps` counts
it; section 5 says that a comment promises more). Nobody waits in vain for an
answer, nothing runs after a refusal, and a held reject comes to its end without
the administrator.

*Admission.* What was approved is heard by the agent it was approved for, if that
agent is wired at the click and would take the message: whatever the operator does to
wirings and policy from then on, since the replay goes by what it has read. A wiring
that is deleted between card and click takes the message with it: the approver's click
makes a member and the replay goes to the agents that are wired. Two things end the
promise: a replay that fails at an agent which has the message already (`cut`; a row
has one id per message and agent), and, with the approval itself, the removal of the
member or the loss of the running replay in a crash. What was refused stays out of
every agent until its sender is admitted there or the rules that refused it are
changed, by a policy, a new or another wiring. About a chat that is turned down or
wired, cards may still be shown, those of requests that were awaiting the approver's
DM when it was decided (`channel-approval.ts:193`); `OnlyOverdueAsk` says that there are
no others: neither the message it was decided for, whose replay asks for the
registration of a chat without wirings like any message, nor a later one.

*Conversations.* Two commands that await their summaries do not leave two open
conversations behind, nothing goes into an archived one, and a message of a
channel is answered through failed spawns, kills and restarts. What a container
did not store before it went does not come back with a later one.

*Agent routing.* Whatever a message answers, and whichever sessions were made or
archived since, it goes into an open session of the group it addresses; it
returns to the session that asked as long as that is the only one this session
has heard of. A destination that was revoked stops a message that a person has
approved. A row is recorded as delivered only if somebody got it, was told, or
will be asked, and a row nobody was asked about is written once, and once more
only if the host was restarted between writing and recording it.

*Turn.* No order of names and calls exceeds a budget, and no answer of a model
makes satisfied research or metrics be done again. Whatever the models answer, the
turn ends with a reply or an error: the rounds, the repeated questions and the
delegations run out.

Bounds. `MaxUpsets`, `MaxCrashes`, `MaxFaults` and `MaxClashes` count crashes,
restarts, failures and (in delivery) errors after the platform had shown the
message; `MaxTries` is the code's 5, `MaxAttempts` its 3, `MaxPrompt` its 10,
`PauseCap` its 8, `MaxSteps` its 4, all made small so that the limits are reached;
`MaxEvents` is the same for `AgentRouting`, with the acts of operators;
the rows, messages, clicks, commands and sessions are bounds on arrivals; `MaxSeq`
and `MaxRow` bound the numbers, and `hands` and `sends` are bounded by the others.
They are large enough for what the properties tell apart: a batch with a gated and
a kept row, a follow-up against a batch, a row overtaking another, a retry that
reaches the limit, a row that two drivers read; an occurrence, its successor and a
run on demand beside them; two administrators at one card, and a third click; a
message refused by one agent and replayed for another; a summary that comes after
another command has archived its conversation; a worker that asks under both names
of a tool; a question, its answer and a further question between two agents, with a
second session of the first. The proofs of section 4 remove them for every safety
property of these runs. What is checked of liveness rests on the instances alone:
three rows against a prompt of two, and three rows of one session before two polls.

Deadlock is checked for the mailbox, delivery and the numbers: there is always a
sweep, a round or a write to begin. In the other runs it is not, because the
system may really stop: a turn ends; a series is over when its session is closed;
requests have been decided; messages have arrived, the bounded clicks and commands
are used up, and nobody has anything left to do.

Fairness. *Mailbox*: weak fairness for the sweep, the poll loop, the follow-up
poller and the clock, which run on timers; strong fairness for `SpawnContainer`
and `ContainerClosed`, which are promises and events that the host handles
between two stretches of the sweep, so that they are enabled again and again but
not continuously. `HeartbeatAges` is fair, which says that the clock moves on: when
no event comes the file gets older than the ceiling. It does not say that the
events of a query end. They may touch the file again before each sweep comes by,
and this is the second exception of `WorkSettles`. None for arrivals, faults, restarts and events of the
provider. A query that is being aborted ends (`ending /\ QueryEnds`), another one
need not. *Delivery*: weak fairness for both polls and for each driver, which
says that every adapter call ends one way or the other; nothing about what the
platform shows, about containers, users and crashes. That adapter calls end is an
assumption, not a fact: the code has no time limit, and a call that never settles
stops both polls. *Approvals*: weak fairness for the deadline and the two halves
of the sweep, which are a clock and a timer; nothing is assumed of administrators,
the platform and the actions that are applied. *Conversations*: weak fairness for
the sweep and its visits, for the second statement of "/clear", for a spawn to end
one way or the other, for a container to take what waits and to answer it, and for
the host to hear of its end; a summary, a synchronous turn, a crash and a command
need not come. That a query ends is the assumption of the mailbox's clock, which
kills the container of one that does not. *Turn*: weak fairness of the next step,
which says that every awaited call of a model or a tool returns or throws. The tools
that use the network or a shell set a time limit (`web-search.ts:61`, `system.ts:26`);
the calls of the models leave it to their library, and one that hangs is the
business of the mailbox (`ProviderHangs`), which kills the container.

## 4. What is proved

All theorems hold for any set of rows (finite in Delivery), any sessions,
writers, requests, messages, agents, task rows and limits; their assumptions are the named
ASSUMEs of the modules (`ConstantsOK`, `MaxSeqIsNat`, `TurnConstants`), which say
that limits are numbers and that sets that must differ do.

**SessionMailbox.** The properties are not inductive. `IInv` adds to `TypeOK`
where a row can be: `Placement` ties the memory of the container to its process
(a dead container holds nothing, a starting one nothing yet) and the host's maps
to the process; `Possession` says rows at work are claimed and never in two
hands; `Settlement` that a claim belongs to a row that is due, and a failed row
has used its tries up; `OwedClaims` that a row the agent owes an answer for is
acked, or claimed by the open turn; `Accounts` balances the hand-outs of a row
against its tries and the faults. The core of the argument is `Accounts`: a row
that may be given out (again) has one hand-out less than the property allows. It
comes back only when its claim is dropped, by a reset, which charges a try, or by
the boot of a successor, whose predecessor a fault has ended; a row nobody had
handed out yet has nothing to pay.

- `TypeCorrect`, `OneContainer`, `NoDoublePickUp`, `OneHolder`, `FailureIsEarned`,
  `HandOutsAreCharged`, `LiveClaimsAreKept` (an action property) and
  `MailboxImplementsQueue` in `SessionMailboxProofs`. The refinement needs two more
  invariants: `TurnHandedOver`, rows in a query were handed to the agent, and
  `AbsentUnacked`. Each action maps to a stutter, a post or a step of work; the
  lemmas are grouped that way.
- From the refinement follow `CompletedWasHandled` and `SettledRowsRest` (an action
  property): the queue's own `DoneWasHandled` and `SettledIsFinal`, carried over to
  `messages_in`. The second says that `hands` of a settled row never grows.

**Delivery.** `IInv` adds `OneDriver` (a session in flight is drained by exactly
one driver), `Snapshots` (a driver's queue holds undelivered rows of its session:
nobody else settles them), `InHand` (what is known of the row being sent: it is a
chat or a card, and a card has its question), `Accounts` (a row was shown once more
than there were upsets only while its driver waits for the adapter, or after it
was recorded as delivered), `WrittenInOrder`, and `PassedOver` (a row that comes
before what is left of a snapshot has been settled or has a failed attempt).

- `TypeCorrect`, `DuplicatesAreForced`, `FailuresAreUnseen`, `QuestionsComeFirst`,
  `OrderIsKept` (action property), `DeliveryImplementsOutbox` in `OutboxProofs`, and
  from the last one `DeliveredWasShown` and `RecordedRowsRest`: what is recorded is
  never shown again.

**SeqNumbers.** `IInv` adds `ContainerOdd` (a number not given by the host itself
is odd), `KnowsTop` (a writer that was not overtaken knows the largest number)
and `CoversBefore` (what it has read covers all that was there when it began).

- `NumbersTypeCorrect`, `ContainerNeverCollides`, `LoneWriterNeverRefused`,
  `ContainerSortsAfter` in `OutboxProofs`.

**Approvals.** `OneOutcome` is not inductive: the rejections that are still on
their way must be counted with it. `Outstanding` does so (a prompt being
delivered, a held row or one the sweep has read), and `Story` says of every
request that its outcomes and those outstanding are at most one more than the
overlaps, and not more at all while it is at rest with its row in the table. A
click at rest adds one, a click at another time is an overlap, a crash turns what
was being applied into one, and every end of a rejection moves one from
outstanding to refused. `Promise` says that a credential does not wait before its
row is there.

- `TypeCorrect`, `DecidedOnce`, `EveryRequestIsAnswered`, `OutcomesAreFinal`
  (action property) in `ApprovalsProofs`.

**Conversations.** `LatestOnly`: only the latest row can be active, because a
conversation is made either when none is active or together with the archiving
of all of them.

That the forgotten stays out needs an argument of its own. Its invariant is not
about one state but about one message: once it is `Gone` from a conversation
(neither the stored continuation nor the running container knows it), no step
brings it back, because a container begins with the stored continuation and stores
only what it has in its context. That the containers of earlier spawns knew more
does not matter.

- `TypeCorrect`, `OneAtATime`, `ArchivedStaysClosed` and `ForgottenIsForgotten`
  (action properties) in `ConversationsProofs`.

**Turn.** `Phases` says in which phase a worker is at work and that there is room
for its result; `LedgerIsTrue` that the ledger counts exactly what was really run
and has seen all that was asked for, because it knows a tool by the name under
which it runs (`SameName`).

Why a turn ends is proved as far as safety goes. `Left` is a number made of the
delegations, rounds, calls and misunderstood answers that the limits still allow; a
delegation is given as much in advance as the longest worker can use (six rounds,
each with its calls), and gives back what it does not need. Every step makes `Left`
smaller, so no turn takes more than `MaxSteps * Delegation + 6` steps; that a turn
does take its steps is the fairness of `TurnEnds`. TLC has checked both on the
instance of `turn`; they are in no run.

- `TypeCorrect`, `BudgetsAreKept`, `NothingIsRedone`, `EveryStepIsCounted` (an action
  property) and `TurnsAreBounded` in `TurnProofs`.

**Scheduling.** The carriers alone cannot be counted: a cancelled row to which the
web interface has written a recurrence (`Dormant`) becomes a carrier when its
acknowledgement is mirrored late. `Counted` bounds both kinds together by one plus
`clashes`, and then no step adds to the one side without the other. `AtWork` says
that the sweep holds finished rows only, that a closed session has no live row, and
that there is no acknowledgement without a row. `GoesOn`, for a series nobody stopped:
some row has a recurrence of its own (`Sure`; what the sweep remembers may have been
overwritten with NULL), and while the sweep is about to close the session such a row
is live or still to be re-armed, unless an insertion failed. `Stopped` adds to
`StopsHold` that the paused carriers of a held series have no acknowledgement.

The failures of a series are counted by `failures`, the code looks at the last
rows (`TrailingFailedRuns`). `Pausing` relates the two: the failures and the
scheduled rows that may still fail are at most the limit, one more, and two for
every clash; and while the series is not deleted, failures that are not trailing
ones are matched by one run out of turn or by a clash. So a clash counts twice: it
makes one more row that may fail, and one whose failure a success of a later row
hides. A bound of one for every clash, stated before, could not be proved and is
false. `Tidy` says that rows are inserted in order and deleted together.

- `TypeCorrect`, `OneOccurrence`, `NobodyLosesASeries`, `StoppedStaysStopped`,
  `FailuresPause` in `SchedulingProofs`.

**Admission.** The history sets are turned into statements about the present.
`Refusals`: every wiring that could give a refused message to its agent, of a call
under way or of one that would begin now, engages on the message and refuses it. A
fan-out only consumes such wirings; what adds one, the operator or an approval, takes
the agent's refusals back, a new member those of the member, a public policy those of
wirings that let strangers in. `Admissions`: an admitted message has its sender among
the members of the agent, and a wiring of that agent that engages on it or keeps it is
still among what its replay has to see; or it has been stored, or the replay was cut
short. Since the replay goes by what it has read, changes of the wirings do not matter
to it, and since rows are never taken away a sticky wiring that engages goes on doing
so. `Holds` says that the card for a sender holds a message of that sender, so that the
one who becomes a member is the one who wrote. `Requests`: in a chat that is decided
whoever is about to ask was about to ask when it was decided; a replay after an approval
adds nobody because the wiring is there before it begins, and any other because a chat
that is decided without a wiring has been turned down.

- `TypeCorrect`, `RefusedStaysOut`, `AdmittedIsHeard`, `LateCardsOnly` in
  `AdmissionProofs`.

**AgentRouting.** `Drains` is the core: what a drain has left are rows of its own
session that are due. A session has one drain, so nobody else settles them, and a
row that was settled is in no drain. `Accounted` says what a row has behind it when
the host resumes from an await: it was written to an inbox, or an administrator
still has its card; and a hold that is being applied has its row in an inbox, so
that closing it loses nothing. `Peers` gives every row the group of the session it
came from, `Queries` an open query the rows of its own inbox; both are what the
return path rests on. `Copied` counts: the copies of a row nobody was asked about
are at most the restarts, and one more if it was written and is not yet recorded
anew. The tables only grow and rows are never changed (`Grown`), which is proved
once for every action and cited by all the rest.

- `TypeCorrect`, `NeverVanishes`, `WrittenOnce`, and the action properties
  `LandsRight`, `Authorised`, `Returns` in `AgentRoutingProofs`.
- `RoutingImplementsLetters`: a message between agents is an item of the queue. It
  is recorded as delivered only when an agent or a person has heard of it, and,
  `RoutedRowsRest`, nobody hears of one that was given up. An approval that comes
  after the row was settled writes what a person has been asked about. The
  refinement is in no run, TLC has checked it on the instance of `agent_routing`.

Only model-checked: `WorkSettles`, `RowsSettle`, `HoldsSettle`, `MessagesSettle`
and `TurnEnds` (but for its safety half, above), since liveness under fairness is
beyond the prover; and the disagreements of section 5, which are counterexamples.

## 5. Where code and documentation disagree

Two runs check a statement of the repository each, and TLC finds a behaviour of the
code against it. `PROJECT.json` quotes the lines.

| run | the statement | what the code does |
|---|---|---|
| `approvals_twice` | an approved replay is executed exactly once | the row is deleted only when the action has been applied: a second click, or a click after a crash, carries it out again |
| `mailbox_late` | claims of a follow-up that came too late are released by the sweep (`poll-query.ts:145`) | the sweep passes over a claim that is older than the heartbeat (`host-sweep.ts:114`), and the next query of the container touches the heartbeat: until that container ends or falls silent for thirty minutes the row stays claimed and nobody sees it, however often the sweep comes by |

Others met while modelling; the modules do what the code does.

- After "/clear" the session in memory "cannot survive" (`docs/slash-commands.md:33`):
  an open query may store its continuation after the deletion and before its
  container is stopped (`backend-node.ts:78`, `poll-query.ts:200`), and then it does.
  `ForgottenStaysOut` says what remains true.
- An answer should land in the session that asked "even when the target has
  multiple active sessions" (`agent-route.ts:195`): a block takes the newest row of
  that group for its in_reply_to, read or not (`message-dispatch.ts:227`), so with
  two sessions of the group in one inbox it goes to the one that wrote last.
  `AnswersReturn` is about one.
- Deleting a destination drops its policy, so that there is "no ghost gate on
  re-wire" (`agent-destinations.ts:94`); the command deletes the row itself
  (`destinations.ts:129`), and the policy survives.
- "Only this user (or an owner) can approve" (`policies.ts:18`): an owner who is not
  named cannot (`response-handler.ts:139`).
- A note of the host to an agent carries the agent's own group as its origin
  (`primitive.ts:192`), so that a result without a block, written in answer to it,
  is sent to the agent itself.
- Rows that are due when their session is archived are never delivered: both polls
  list active sessions (`delivery.ts:159`).
- A message that crashes its container can be retried without a try: the sweep
  wakes a successor, which drops the claim, before it looks at claims.
- A follow-up is acked when it is pushed (`poll-query.ts:156`) and is not reset
  when the container is killed.
- The grace of a freshly woken container is only for one that this sweep has woken
  (`host-sweep.ts:229`).
- Context rows engage the agent when a script gates the task they rode along with
  (`poll-batch.ts:135`).
- The window of pending messages is limited before acked rows are dropped and
  triggers looked for (`messages-in.ts:71`): a due row can stay hidden behind newer
  context rows and abandoned claims. `WorkSettles` names the case.
- `denied_at` is said to be "cleared by any explicit wiring mutation"
  (`cli/resources/messaging-groups.ts:67`); no command on wirings touches it (`wirings.ts:263`,
  `crud.ts:312`), so that a chat which was turned down, then wired and then unwired is
  silent again.
- The session of a task can be closed before its notification is delivered
  (`host-sweep.ts:259`).
- A reply the host writes to `messages_out` takes the number of an inbound row
  (`session-manager.ts:444`).
- A run on demand has no recurrence, so that no phantom series comes of it
  (`cli/resources/tasks.ts:459`); an update of the recurrence before it has run
  reaches it as well (`scheduling/db.ts:148`), and then there are two.
- An admitted message is replayed to every wiring, not only to the agent it was
  admitted to (`sender-approval.ts:14` against `permissions/index.ts:310`). The
  gates keep the others safe: `TurnedAwayStaysOut`.
- "mention-sticky" is documented per thread the agent was mentioned in
  (`wirings.ts:75`); the code asks whether a session exists (`router.ts:445`),
  which context rows create as well.
- The headers of `sender-approval.ts` and `channel-approval.ts` say no row is made
  without a delivery adapter; it is made before the adapter is asked for, and stays.
- A container that is started for a session while it is being archived is stopped
  by nobody (`lifecycle.ts:5`, `backend-node.ts:69`): the sweep visits active
  sessions only.
- The budget of tools "per turn" is one per worker: a new delegation begins with
  a new ledger (`budget-ledger.ts:22`). A researcher that has used exactly its
  budget and says it is done counts as exhausted, so it can be delegated to again.

## 6. What is not modelled

`PROJECT.json` lists every component with its status. Left out for good: the
central database's plain operations and migrations, most of the command line,
templates, skills, the web interface but for its edit of a series, the macOS
client, deployment scripts and channel adapters. They are input and output, forms
or formatting without a protocol of their own, and make up most of the lines of
the repository; of the model providers the modules assume only that a query emits
events, a result, an end, or nothing.

Also left out, because they are one synchronous handler or have no effect on what
is stored or sent: the typing indicator, message parsing in the runner, Telegram
pairing (one file behind one lock), the start-up back-off and the upgrade marker.

Known gaps of what is modelled:

- Pausing, cancelling and recurrence of tasks, which change `messages_in.status`
  too, are in `Scheduling` and not in `SessionMailbox`.
- The acknowledgement before the reply (`poll-query.ts:216`) is in the mailbox,
  and no property relates it to the delivery of the reply.
- The answer to a question that comes after the tool has stopped waiting stays
  pending (`interactive.ts:112`), as in the code; no property speaks of it.
- An adapter call that never returns stops both polls (`delivery.ts:146`): the
  fairness of delivery excludes it, since nothing in the code bounds it.
- Deleting the newest task rows frees their numbers (`scheduling/db.ts:129`), and
  an agent that still knows one edits or reacts to another row; the numbers are
  in `SeqNumbers`, what an agent knows is not.
- Conversations: a crash between the archiving and the new row; messages that
  arrive during a summary are not in it and are archived unanswered, which is
  allowed by `MessagesSettle`; answers of an archived session that were not
  delivered yet.
- Agents that create agents, and the copy of the destinations in each session: what
  `create_agent` writes is refreshed in the requesting session only, although
  `agent-destinations.ts:25` asks for every session that is affected.
- Attachments are data, and so is routing but for messages between agents.

## 7. Plan

Done, in this order: the queue, the mailbox and delivery with their proofs; the
numbers with theirs; scheduling, approvals, admission, conversations and the turn
with theirs; messages between agents with theirs. Every safety property of the
runs is proved.

What is left, the most useful first:

1. A joint module of mailbox and delivery, for the reply against its
   acknowledgement, and with it the drivers of a session that is archived or
   closed with rows undelivered.
2. Abstract specifications for what is decided rather than delivered (a request
   of `Approvals`, a series of `Scheduling`), and that those modules implement them.
3. Pairing codes, typing timers, the start-up circuit breaker, if they grow a
   protocol that tests do not reach.

Every module has its limits as CONSTANTS with a named assumption, one action per
operation and no recursive operator, so that what TLC finds true of a small
instance can be proved of all.
