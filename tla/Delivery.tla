------------------------------ MODULE Delivery ------------------------------
(***************************************************************************)
(* Outbound delivery (src/delivery.ts): rows that containers and slash     *)
(* commands write to messages_out are sent through the channel adapters    *)
(* and recorded in `delivered`.                                            *)
(*                                                                         *)
(* Three drivers drain the sessions on the one thread of the host: the     *)
(* active poll (sessions whose container runs), the sweep poll (sessions   *)
(* that are active) and a slash command (its own session).  They interleave*)
(* at every await, that is while a row is being sent.  Rows are numbered   *)
(* in the order of their timestamps.  The platform is external: it may     *)
(* show a message and report an error, or not answer before a crash.       *)
(***************************************************************************)
EXTENDS Naturals, FiniteSets, FiniteSetsExt

CONSTANTS
    Rows,           \* the rows of messages_out, in timestamp order
    Kinds,          \* the kinds of row that are written
    Sessions,
    TaskSessions,   \* the sessions that belong to one scheduled task
    Openings,       \* sets of sessions that may be active to begin with
    NoSession,
    MaxAttempts,    \* MAX_DELIVERY_ATTEMPTS
    MaxUpsets       \* bound: crashes of the host and doubtful failures

(* "chat" goes to a channel, to another agent or to a host action; "card"  *)
(* is an ask_question card; "barred" has a destination that is unknown,    *)
(* not permitted or without adapter; "unaddressed" has no address at all.  *)
AllKinds == {"chat", "card", "barred", "unaddressed"}

Drivers == {"active", "sweep", "slash"}

ASSUME ConstantsOK ==
    /\ Rows \subseteq Nat /\ IsFiniteSet(Rows)
    /\ Kinds \subseteq AllKinds
    /\ TaskSessions \subseteq Sessions /\ Openings \subseteq SUBSET Sessions
    /\ NoSession \notin Sessions
    /\ MaxAttempts \in Nat \ {0}
    /\ MaxUpsets \in Nat

VARIABLES
    kind,       \* of a row; "none" until it is written
    owner,      \* the session a row belongs to
    delivered,  \* delivered.status, or "none"
    question,   \* pending_questions has a row for this card
    open,       \* sessions.status = 'active'
    live,       \* the task sessions with a pending or paused task row
    status,     \* sessions.container_status
    alive,      \* activeContainers.has(session)
    attempts,   \* deliveryAttempts
    inflight,   \* inflightDeliveries
    todo,       \* sessions a driver still has to visit in this round
    at,         \* the session a driver is draining
    queue,      \* the rows of its snapshot it has not settled with
    sending,    \* it awaits adapter.deliver for the first row of its queue
    shown,      \* the platform has shown that row
    sends,      \* history: how often a row was shown
    answered,   \* history: the cards that have been answered
    upsets

rowVars == <<kind, owner, delivered, question>>
sessionVars == <<open, live, status, alive>>
driverVars == <<inflight, todo, at, queue, sending, shown>>
historyVars == <<sends, answered, upsets>>
vars == <<kind, owner, delivered, question, open, live, status, alive, attempts,
          inflight, todo, at, queue, sending, shown, sends, answered, upsets>>

TypeOK ==
    /\ kind \in [Rows -> AllKinds \cup {"none"}]
    /\ owner \in [Rows -> Sessions \cup {NoSession}]
    /\ delivered \in [Rows -> {"none", "delivered", "failed"}]
    /\ question \in [Rows -> BOOLEAN]
    /\ open \in [Sessions -> BOOLEAN]
    /\ live \subseteq TaskSessions
    /\ status \in [Sessions -> {"running", "stopped"}]
    /\ alive \in [Sessions -> BOOLEAN]
    /\ attempts \in [Rows -> 0..(MaxAttempts - 1)]
    /\ inflight \subseteq Sessions
    /\ todo \in [Drivers -> SUBSET Sessions]
    /\ at \in [Drivers -> Sessions \cup {NoSession}]
    /\ queue \in [Drivers -> SUBSET Rows]
    /\ sending \in [Drivers -> BOOLEAN]
    /\ shown \in [Drivers -> BOOLEAN]
    /\ sends \in [Rows -> Nat]
    /\ answered \subseteq Rows
    /\ upsets \in 0..MaxUpsets

Init ==
    /\ kind = [m \in Rows |-> "none"]
    /\ owner = [m \in Rows |-> NoSession]
    /\ delivered = [m \in Rows |-> "none"]
    /\ question = [m \in Rows |-> FALSE]
    /\ \E o \in Openings : /\ open = [s \in Sessions |-> s \in o]
                          /\ live = TaskSessions \cap o
    /\ status = [s \in Sessions |-> "stopped"]
    /\ alive = [s \in Sessions |-> FALSE]
    /\ attempts = [m \in Rows |-> 0]
    /\ inflight = {}
    /\ todo = [d \in Drivers |-> {}]
    /\ at = [d \in Drivers |-> NoSession]
    /\ queue = [d \in Drivers |-> {}]
    /\ sending = [d \in Drivers |-> FALSE]
    /\ shown = [d \in Drivers |-> FALSE]
    /\ sends = [m \in Rows |-> 0]
    /\ answered = {}
    /\ upsets = 0

Written(m) == kind[m] # "none"

(* getDueOutboundMessages without getDeliveredIds.                         *)
Undelivered(s) == {m \in Rows : owner[m] = s /\ delivered[m] = "none"}

-----------------------------------------------------------------------------
(* Sessions and rows.                                                      *)

NextRow(m) == ~Written(m) /\ \A n \in Rows : n < m => Written(n)

WriteRow(m, s, k) ==
    /\ NextRow(m)
    /\ kind' = [kind EXCEPT ![m] = k]
    /\ owner' = [owner EXCEPT ![m] = s]
    /\ UNCHANGED <<delivered, question>>

(* writeMessageOut, by the container of the session.                       *)
ContainerWrites(m, s) ==
    /\ alive[s]
    /\ \E k \in Kinds : WriteRow(m, s, k)
    /\ UNCHANGED <<sessionVars, attempts, driverVars, historyVars>>

(* markContainerRunning when the container has been spawned.               *)
ContainerStarts(s) ==
    /\ ~alive[s] /\ open[s]
    /\ alive' = [alive EXCEPT ![s] = TRUE]
    /\ status' = [status EXCEPT ![s] = "running"]
    /\ UNCHANGED <<rowVars, open, live, attempts, driverVars, historyVars>>

(* The close event.                                                        *)
ContainerStops(s) ==
    /\ alive[s]
    /\ alive' = [alive EXCEPT ![s] = FALSE]
    /\ status' = [status EXCEPT ![s] = "stopped"]
    /\ UNCHANGED <<rowVars, open, live, attempts, driverVars, historyVars>>

(* The last row of the task is settled: the sweep has mirrored its         *)
(* acknowledgement, or it was cancelled or deleted.                        *)
TaskSettles(s) ==
    /\ s \in live
    /\ live' = live \ {s}
    /\ UNCHANGED <<rowVars, open, status, alive, attempts, driverVars, historyVars>>

(* The host sweep closes the session of a spent task: no task row is live  *)
(* and no container runs.                                                  *)
TaskSessionCloses(s) ==
    /\ s \in TaskSessions \ live /\ open[s] /\ ~alive[s]
    /\ open' = [open EXCEPT ![s] = FALSE]
    /\ UNCHANGED <<rowVars, live, status, alive, attempts, driverVars, historyVars>>

-----------------------------------------------------------------------------
(* Drivers.  `Idle` is the time between two rounds.                        *)

Idle(d) == at[d] = NoSession /\ todo[d] = {}

(* pollActive, pollSweep: read the sessions of this round.                 *)
Round(d, sessions) ==
    /\ Idle(d)
    /\ todo' = [todo EXCEPT ![d] = sessions]
    /\ UNCHANGED <<rowVars, sessionVars, attempts, inflight, at, queue, sending,
                   shown, historyVars>>

PollActive == Round("active", {s \in Sessions : status[s] = "running"})
PollSweep == Round("sweep", {s \in Sessions : open[s]})

(* A slash command replies through writeOutboundDirect and drains its own  *)
(* session, a chat.  Bound: one command at a time.                         *)
SlashReply(m, s) ==
    /\ Idle("slash") /\ open[s] /\ s \notin TaskSessions
    /\ WriteRow(m, s, "chat")
    /\ todo' = [todo EXCEPT !["slash"] = {s}]
    /\ UNCHANGED <<sessionVars, attempts, inflight, at, queue, sending, shown,
                   historyVars>>

(* Bug: two drivers may drain the same session.                            *)
VisitUnguarded(d, s) ==
    /\ at[d] = NoSession /\ s \in todo[d]
    /\ todo' = [todo EXCEPT ![d] = @ \ {s}]
    /\ IF Undelivered(s) = {}
       THEN UNCHANGED <<inflight, at, queue>>
       ELSE /\ inflight' = inflight \cup {s}
            /\ at' = [at EXCEPT ![d] = s]
            /\ queue' = [queue EXCEPT ![d] = Undelivered(s)]
    /\ UNCHANGED <<rowVars, sessionVars, attempts, sending, shown, historyVars>>

(* deliverSessionMessages, and drainSession up to its loop: skip a session *)
(* that is being drained, else read its undelivered rows.                  *)
Visit(d, s) ==
    /\ at[d] = NoSession /\ s \in todo[d]
    /\ todo' = [todo EXCEPT ![d] = @ \ {s}]
    /\ IF s \in inflight \/ Undelivered(s) = {}
       THEN UNCHANGED <<inflight, at, queue>>
       ELSE /\ inflight' = inflight \cup {s}
            /\ at' = [at EXCEPT ![d] = s]
            /\ queue' = [queue EXCEPT ![d] = Undelivered(s)]
    /\ UNCHANGED <<rowVars, sessionVars, attempts, sending, shown, historyVars>>

(* Bug: the rows are not read in the order of their timestamps.            *)
LastOf(S) == Max(S)

FirstOf(S) == Min(S)

(* The loop turns to the next row of the snapshot.                         *)
Row(d) == FirstOf(queue[d])

Turn(d) == at[d] # NoSession /\ queue[d] # {} /\ ~sending[d]

Dequeue(d) ==
    /\ queue' = [queue EXCEPT ![d] = @ \ {Row(d)}]
    /\ sending' = [sending EXCEPT ![d] = FALSE]
    /\ shown' = [shown EXCEPT ![d] = FALSE]

(* markDelivered and markDeliveryFailed insert or ignore.                  *)
Record(m, outcome) ==
    delivered' = [delivered EXCEPT ![m] = IF @ = "none" THEN outcome ELSE @]

MarkDelivered(m) ==
    /\ Record(m, "delivered")
    /\ attempts' = [attempts EXCEPT ![m] = 0]

(* The catch clause of drainSession.                                       *)
CountAttempt(m) ==
    IF attempts[m] + 1 >= MaxAttempts
    THEN /\ Record(m, "failed")
         /\ attempts' = [attempts EXCEPT ![m] = 0]
    ELSE /\ attempts' = [attempts EXCEPT ![m] = @ + 1]
         /\ UNCHANGED delivered

(* Bug: the question is recorded when the card has been delivered.         *)
SendBeforeQuestion(d) ==
    /\ Turn(d) /\ kind[Row(d)] \in {"chat", "card"}
    /\ sending' = [sending EXCEPT ![d] = TRUE]
    /\ UNCHANGED <<kind, owner, delivered, question, sessionVars, attempts, inflight,
                   todo, at, queue, shown, historyVars>>

(* deliverMessage up to the await of the adapter; a card first gets its    *)
(* pending_questions row.                                                  *)
Send(d) ==
    /\ Turn(d) /\ kind[Row(d)] \in {"chat", "card"}
    /\ sending' = [sending EXCEPT ![d] = TRUE]
    /\ question' = [question EXCEPT ![Row(d)] = @ \/ kind[Row(d)] = "card"]
    /\ UNCHANGED <<kind, owner, delivered, sessionVars, attempts, inflight, todo, at,
                   queue, shown, historyVars>>

(* Bug: a barred row returns silently and counts as delivered.             *)
ReturnBarred(d) ==
    /\ Turn(d) /\ kind[Row(d)] = "barred"
    /\ MarkDelivered(Row(d))
    /\ Dequeue(d)
    /\ UNCHANGED <<kind, owner, question, sessionVars, inflight, todo, at, historyVars>>

(* deliverMessage throws before anything is sent.                          *)
ThrowBarred(d) ==
    /\ Turn(d) /\ kind[Row(d)] = "barred"
    /\ CountAttempt(Row(d))
    /\ Dequeue(d)
    /\ UNCHANGED <<kind, owner, question, sessionVars, inflight, todo, at, historyVars>>

(* "Message missing routing fields": a return, so the row is recorded.     *)
DropUnaddressed(d) ==
    /\ Turn(d) /\ kind[Row(d)] = "unaddressed"
    /\ MarkDelivered(Row(d))
    /\ Dequeue(d)
    /\ UNCHANGED <<kind, owner, question, sessionVars, inflight, todo, at, historyVars>>

(* The platform shows the message.                                         *)
Show(d) ==
    /\ sending[d] /\ ~shown[d]
    /\ shown' = [shown EXCEPT ![d] = TRUE]
    /\ sends' = [sends EXCEPT ![Row(d)] = @ + 1]
    /\ UNCHANGED <<rowVars, sessionVars, attempts, inflight, todo, at, queue, sending,
                   answered, upsets>>

(* Bug: an error of clearOutbox reaches the catch clause of drainSession.  *)
CleanupThrows(d) ==
    /\ sending[d] /\ shown[d]
    /\ MarkDelivered(Row(d)) \/ CountAttempt(Row(d))
    /\ Dequeue(d)
    /\ UNCHANGED <<kind, owner, question, sessionVars, inflight, todo, at, historyVars>>

(* adapter.deliver resolves; clearOutbox never throws.                     *)
Sent(d) ==
    /\ sending[d] /\ shown[d]
    /\ MarkDelivered(Row(d))
    /\ Dequeue(d)
    /\ UNCHANGED <<kind, owner, question, sessionVars, inflight, todo, at, historyVars>>

(* adapter.deliver rejects, with or without having shown the message.      *)
SendFails(d) ==
    /\ sending[d]
    /\ shown[d] => upsets < MaxUpsets
    /\ upsets' = (IF shown[d] THEN upsets + 1 ELSE upsets)
    /\ CountAttempt(Row(d))
    /\ Dequeue(d)
    /\ UNCHANGED <<kind, owner, question, sessionVars, inflight, todo, at, sends, answered>>

(* Bug: the session stays in flight when its last row was not delivered.   *)
LeaveInFlight(d) ==
    /\ at[d] # NoSession /\ queue[d] = {}
    /\ at' = [at EXCEPT ![d] = NoSession]
    /\ inflight' = (IF Undelivered(at[d]) = {} THEN inflight \ {at[d]} ELSE inflight)
    /\ UNCHANGED <<rowVars, sessionVars, attempts, todo, queue, sending, shown, historyVars>>

(* The end of drainSession, and the finally of deliverSessionMessages.     *)
Leave(d) ==
    /\ at[d] # NoSession /\ queue[d] = {}
    /\ at' = [at EXCEPT ![d] = NoSession]
    /\ inflight' = inflight \ {at[d]}
    /\ UNCHANGED <<rowVars, sessionVars, attempts, todo, queue, sending, shown, historyVars>>

-----------------------------------------------------------------------------
(* Answers and crashes.                                                    *)

(* handleInteractiveResponse: the user picks an option of a card that is   *)
(* on the screen.                                                          *)
Answer(m) ==
    /\ sends[m] > 0 /\ question[m]
    /\ question' = [question EXCEPT ![m] = FALSE]
    /\ answered' = answered \cup {m}
    /\ UNCHANGED <<kind, owner, delivered, sessionVars, attempts, driverVars, sends, upsets>>

(* The host dies and comes back; cleanupOrphans stops the containers, the  *)
(* container_status in the central database stays what it was.             *)
HostRestart ==
    /\ upsets < MaxUpsets
    /\ upsets' = upsets + 1
    /\ alive' = [s \in Sessions |-> FALSE]
    /\ attempts' = [m \in Rows |-> 0]
    /\ inflight' = {}
    /\ todo' = [d \in Drivers |-> {}]
    /\ at' = [d \in Drivers |-> NoSession]
    /\ queue' = [d \in Drivers |-> {}]
    /\ sending' = [d \in Drivers |-> FALSE]
    /\ shown' = [d \in Drivers |-> FALSE]
    /\ UNCHANGED <<rowVars, open, live, status, sends, answered>>

-----------------------------------------------------------------------------
Drain(d) ==
    \/ \E s \in Sessions : Visit(d, s)
    \/ Send(d) \/ ThrowBarred(d) \/ DropUnaddressed(d)
    \/ Sent(d) \/ SendFails(d) \/ Leave(d)

Environment ==
    \/ \E m \in Rows, s \in Sessions : ContainerWrites(m, s) \/ SlashReply(m, s)
    \/ \E s \in Sessions : ContainerStarts(s) \/ ContainerStops(s)
    \/ \E s \in Sessions : TaskSettles(s) \/ TaskSessionCloses(s)
    \/ \E m \in Rows : Answer(m)
    \/ \E d \in Drivers : Show(d)
    \/ HostRestart

Next == PollActive \/ PollSweep \/ (\E d \in Drivers : Drain(d)) \/ Environment

Spec == Init /\ [][Next]_vars

(* The timers of both polls fire and every call of an adapter ends one way *)
(* or the other.  Nothing is assumed of what the platform shows, of the    *)
(* containers, of users and of crashes.                                    *)
Fairness ==
    /\ WF_vars(PollActive) /\ WF_vars(PollSweep)
    /\ \A d \in Drivers : WF_vars(Drain(d))

FairSpec == Spec /\ Fairness

-----------------------------------------------------------------------------
(* Properties.                                                             *)

(* A message is shown once, and once more for each crash of the host and   *)
(* each doubtful failure of the platform: the drivers never both send it,  *)
(* and no bookkeeping after a successful send brings it back.              *)
NoUnforcedDuplicate == \A m \in Rows : sends[m] <= 1 + upsets

(* A row recorded as failed was not quietly received: every time it was    *)
(* shown, a crash or a doubtful failure hid that from the host.            *)
FailedMeansUnseen == \A m \in Rows : delivered[m] = "failed" => sends[m] <= upsets

(* A card on the screen can be answered, unless it has been already: its   *)
(* pending_questions row exists before the platform can show it.           *)
CardsAreAnswerable ==
    \A m \in Rows : kind[m] = "card" /\ sends[m] > 0 => question[m] \/ m \in answered

(* The messages of a session appear in the order they were written; only a *)
(* row whose last attempt failed may be overtaken.                         *)
ShownInOrder ==
    [][\A m \in Rows : sends'[m] > sends[m] =>
          \A n \in Rows : n < m /\ owner[n] = owner[m]
                            => delivered[n] # "none" \/ attempts[n] > 0]_vars

(* A row of messages_out as an item of the abstract queue: it is handled   *)
(* when the platform shows it; a row without an address counts as dropped. *)
Fate(m) ==
    IF kind[m] = "none" THEN "absent"
    ELSE IF delivered[m] = "none" THEN "queued"
    ELSE IF delivered[m] = "delivered" /\ kind[m] # "unaddressed" THEN "done"
    ELSE "dead"

Outbox == INSTANCE AtLeastOnceQueue
    WITH Items <- Rows,
         state <- [m \in Rows |-> Fate(m)],
         times <- sends

(* Delivery implements the queue: a row recorded as delivered has been     *)
(* shown, and a settled row is neither shown again nor settled differently.*)
ImplementsOutbox == Outbox!Spec

(* Every row of a session that stays active is delivered or given up, also *)
(* when its container has stopped, the host has crashed or the drivers keep*)
(* finding the session in flight: time and again there is nothing left to  *)
(* do.                                                                     *)
RowsSettle ==
    []<>(\A m \in Rows : \/ kind[m] = "none" \/ delivered[m] # "none"
                         \/ \E s \in Sessions : owner[m] = s /\ ~open[s])
=============================================================================
