---------------------------- MODULE AgentRouting ----------------------------
(***************************************************************************)
(* Messages between agents (src/modules/agent-to-agent): an agent group    *)
(* has several sessions, an agent addresses a group, and the host chooses  *)
(* the session of that group that gets the message, so that an answer      *)
(* returns to the session that asked.  A message needs a row of            *)
(* agent_destinations; a row of agent_message_policies makes it wait for   *)
(* the approval of a person, which replays it through the same guard.      *)
(*                                                                         *)
(* The host runs one handler at a time up to its next await: the wake of   *)
(* the target, and for a message that is held the channel to the approver  *)
(* and the delivery of the card.                                           *)
(* The agents run next to it.  What a session answers to a chat is not     *)
(* modelled, nor are claims and retries of inbound rows (SessionMailbox).  *)
(***************************************************************************)
EXTENDS Naturals, Sequences, FiniteSetsExt

CONSTANTS
    Groups,        \* agent groups; all of them exist throughout
    Chat,          \* where a message comes from that no agent wrote
    Chatters,      \* agent groups that are wired to chats
    Start,         \* the groups of the first sessions, oldest first
    Links,         \* the first rows of agent_destinations
    Gated,         \* the first rows of agent_message_policies
    Edges,         \* the edges whose rows operators change
    MaxAttempts,   \* MAX_DELIVERY_ATTEMPTS
    MaxSessions,   \* bound: sessions ever made
    MaxChats,      \* bound: messages of chats
    MaxRows,       \* bound: inbound rows
    MaxSends,      \* bound: outbound rows
    MaxEvents      \* bound: faults and acts of operators, see Event

ASSUME ConstantsOK ==
    /\ Chat \notin Groups /\ Chatters \subseteq Groups /\ Start \in Seq(Groups)
    /\ Links \subseteq Groups \X Groups /\ Gated \subseteq Groups \X Groups
    /\ Edges \subseteq Groups \X Groups
    /\ MaxAttempts \in Nat \ {0}
    /\ MaxSessions \in Nat /\ Len(Start) <= MaxSessions
    /\ MaxRows \in Nat /\ MaxSends \in Nat /\ MaxEvents \in Nat

VARIABLES
    sessions,   \* rows of the table sessions in the order of created_at
    inbound,    \* rows of all messages_in in the order they were written
    taken,      \* inbound rows an agent has taken
    query,      \* the open query of a session
    outbound,   \* rows of all messages_out that address an agent group
    state,      \* of an outbound row: "due", or its row in the table delivered
    attempts,   \* deliveryAttempts
    drain,      \* the rows the running drainSession of a session has still to do
    waits,      \* what the first of them awaits: "none", "wake", "ask" or "card"
    holds,      \* rows of pending_approvals for a2a_message_gate, ever made
    links,      \* agent_destinations between agent groups
    policies,   \* agent_message_policies
    events,     \* faults and acts of operators so far
    restarts    \* history: those that were restarts of the host

agentVars == <<taken, query>>
rowVars == <<outbound, state>>
hostVars == <<attempts, drain, waits>>
ruleVars == <<links, policies>>
eventVars == <<events, restarts>>
vars == <<sessions, inbound, agentVars, rowVars, hostVars, holds, ruleVars, eventVars>>

Made == DOMAIN sessions
Idle == [first |-> 0, batch |-> {}]

TypeOK ==
    /\ sessions \in Seq([group : Groups, active : BOOLEAN]) /\ Len(sessions) <= MaxSessions
    /\ inbound \in Seq([session : Made, peer : Groups \cup {Chat}, source : {0} \cup Made,
                        via : {0} \cup DOMAIN outbound])
    /\ taken \subseteq DOMAIN inbound
    /\ query \in [1..MaxSessions -> [first : {0} \cup taken, batch : SUBSET taken]]
    /\ outbound \in Seq([session : Made, to : Groups, reply : {0} \cup DOMAIN inbound])
    /\ state \in [DOMAIN outbound -> {"due", "delivered", "failed"}]
    /\ attempts \in [1..MaxSends -> 0..MaxAttempts - 1]
    /\ drain \in [1..MaxSessions -> SUBSET DOMAIN outbound]
    /\ waits \in [1..MaxSessions -> {"none", "wake", "ask", "card"}]
    /\ holds \in Seq([row : DOMAIN outbound, state : {"asked", "applying", "closed"}])
    /\ links \subseteq Groups \X Groups /\ policies \subseteq Groups \X Groups
    /\ events \in 0..MaxEvents /\ restarts \in 0..events

Init ==
    /\ sessions = [s \in DOMAIN Start |-> [group |-> Start[s], active |-> TRUE]]
    /\ inbound = <<>> /\ taken = {} /\ outbound = <<>> /\ state = <<>> /\ holds = <<>>
    /\ query = [s \in 1..MaxSessions |-> Idle]
    /\ attempts = [o \in 1..MaxSends |-> 0]
    /\ drain = [s \in 1..MaxSessions |-> {}]
    /\ waits = [s \in 1..MaxSessions |-> "none"]
    /\ links = Links /\ policies = Gated
    /\ events = 0 /\ restarts = 0

GroupOf(s) == sessions[s].group
Active(s) == s \in Made /\ sessions[s].active

(* A container dies, the host restarts, a card fails or finds no receiver, *)
(* a session is archived, a destination or a policy changes.               *)
Event == events < MaxEvents /\ events' = events + 1 /\ UNCHANGED restarts

-----------------------------------------------------------------------------
(* The agents: the poll loop and what a turn sends.                        *)

FromChat(s) ==
    /\ Cardinality({r \in DOMAIN inbound : inbound[r].peer = Chat}) < MaxChats
    /\ Len(inbound) < MaxRows
    /\ inbound' = Append(inbound, [session |-> s, peer |-> Chat, source |-> 0, via |-> 0])

(* The router stores a message of a chat in a session of the group ...     *)
Arrive(s) ==
    /\ Active(s) /\ GroupOf(s) \in Chatters
    /\ FromChat(s)
    /\ UNCHANGED <<sessions, agentVars, rowVars, hostVars, holds, ruleVars, eventVars>>

(* ... or in a new one, when another chat or thread begins.                *)
ArriveNew(g) ==
    /\ Len(sessions) < MaxSessions
    /\ sessions' = Append(sessions, [group |-> g, active |-> TRUE])
    /\ FromChat(Len(sessions) + 1)
    /\ UNCHANGED <<agentVars, rowVars, hostVars, holds, ruleVars, eventVars>>

Pending(s) == {r \in DOMAIN inbound : inbound[r].session = s} \ taken
Open(s) == query[s] # Idle

(* A query begins with all pending rows (fewer than maxMessagesPerPrompt); *)
(* the oldest one gives it its routing and its in_reply_to.                *)
Engage(s) ==
    /\ Active(s) /\ ~Open(s) /\ Pending(s) # {}
    /\ query' = [query EXCEPT ![s] = [first |-> Min(Pending(s)), batch |-> Pending(s)]]
    /\ taken' = taken \cup Pending(s)
    /\ UNCHANGED <<sessions, inbound, rowVars, hostVars, holds, ruleVars, eventVars>>

(* Rows pushed into the open query are acknowledged at once and leave its  *)
(* routing as it is.                                                       *)
FollowUp(s) ==
    /\ Open(s) /\ Pending(s) # {}
    /\ taken' = taken \cup Pending(s)
    /\ UNCHANGED <<sessions, inbound, query, rowVars, hostVars, holds, ruleVars, eventVars>>

WriteMessageOut(s, g, r) ==
    /\ Len(outbound) < MaxSends
    /\ outbound' = Append(outbound, [session |-> s, to |-> g, reply |-> r])
    /\ state' = Append(state, "due")

(* resolveDestinationThread: the newest row from that agent group, taken   *)
(* or not.                                                                 *)
NewestFrom(s, g) ==
    LET rows == {r \in DOMAIN inbound : inbound[r].session = s /\ inbound[r].peer = g}
    IN  IF rows = {} THEN query[s].first ELSE Max(rows)

(* A block <message to="name"> of the final text.                          *)
SendBlock(s, g) ==
    /\ Open(s) /\ <<GroupOf(s), g>> \in links
    /\ WriteMessageOut(s, g, NewestFrom(s, g))
    /\ UNCHANGED <<sessions, inbound, agentVars, hostVars, holds, ruleVars, eventVars>>

(* send_message and send_file stamp the in_reply_to of the query.          *)
SendTool(s, g) ==
    /\ Open(s) /\ <<GroupOf(s), g>> \in links
    /\ WriteMessageOut(s, g, query[s].first)
    /\ UNCHANGED <<sessions, inbound, agentVars, hostVars, holds, ruleVars, eventVars>>

(* Text without a block goes where the first row came from: to the group   *)
(* that wrote it, or to the own group if it was a note of the host.        *)
SendPlain(s) ==
    /\ Open(s) /\ inbound[query[s].first].peer # Chat
    /\ WriteMessageOut(s, inbound[query[s].first].peer, query[s].first)
    /\ UNCHANGED <<sessions, inbound, agentVars, hostVars, holds, ruleVars, eventVars>>

(* The query throws: the notice of it carries no in_reply_to.              *)
QueryFails(s) ==
    /\ Open(s) /\ inbound[query[s].first].peer # Chat
    /\ WriteMessageOut(s, inbound[query[s].first].peer, 0)
    /\ query' = [query EXCEPT ![s] = Idle]
    /\ UNCHANGED <<sessions, inbound, taken, hostVars, holds, ruleVars, eventVars>>

QueryEnds(s) ==
    /\ Open(s)
    /\ query' = [query EXCEPT ![s] = Idle]
    /\ UNCHANGED <<sessions, inbound, taken, rowVars, hostVars, holds, ruleVars, eventVars>>

(* The container dies: before the result of the turn the rows it began     *)
(* with are given back, afterwards they are acknowledged.                  *)
ContainerDies(s) ==
    /\ Open(s) /\ Event
    /\ taken' \in {taken, taken \ query[s].batch}
    /\ query' = [query EXCEPT ![s] = Idle]
    /\ UNCHANGED <<sessions, inbound, rowVars, hostVars, holds, ruleVars>>

-----------------------------------------------------------------------------
(* The choice of the session, resolveTargetSession.                        *)

(* source_session_id of the row that is answered, 0 for NULL.              *)
ReplySource(o) == IF outbound[o].reply = 0 THEN 0 ELSE inbound[outbound[o].reply].source

(* getMostRecentPeerSourceSessionId: who of the group wrote here last.     *)
PeerSource(o) ==
    LET rows == {r \in DOMAIN inbound : /\ inbound[r].session = outbound[o].session
                                        /\ inbound[r].peer = outbound[o].to
                                        /\ inbound[r].source # 0}
    IN  IF rows = {} THEN 0 ELSE inbound[Max(rows)].source

(* Bug: a message without a usable in_reply_to is not matched to the peer. *)
ReplySourceOnly(o) == ReplySource(o)

Origin(o) == IF ReplySource(o) # 0 THEN ReplySource(o) ELSE PeerSource(o)

ActiveOf(g) == {s \in Made : GroupOf(s) = g /\ Active(s)}

(* resolveSession(..., 'agent-shared'): the newest active session, or one  *)
(* that is made for the message.                                           *)
Newest(g) == IF ActiveOf(g) = {} THEN Len(sessions) + 1 ELSE Max(ActiveOf(g))

(* Bug: the origin is used whatever its group.                             *)
ResolveAnyGroup(o) ==
    IF Active(Origin(o)) THEN Origin(o) ELSE Newest(outbound[o].to)

ResolveTargetSession(o) ==
    IF Origin(o) \in ActiveOf(outbound[o].to) THEN Origin(o) ELSE Newest(outbound[o].to)

-----------------------------------------------------------------------------
(* The host.                                                               *)

Sender(o) == GroupOf(outbound[o].session)
Edge(o) == <<Sender(o), outbound[o].to>>
Self(o) == Sender(o) = outbound[o].to

(* The decision of a2a.send: deny, else allow a message to oneself, else   *)
(* hold if a policy says so.  A grant satisfies a hold and never a deny.   *)
Denied(o) == ~Self(o) /\ Edge(o) \notin links
Held(o) == ~Self(o) /\ Edge(o) \in links \cap policies

(* performAgentRoute up to the await of wakeContainer.                     *)
PerformAgentRoute(o) ==
    LET t == ResolveTargetSession(o)
    IN  /\ t <= MaxSessions /\ Len(inbound) < MaxRows
        /\ sessions' = IF t \in Made THEN sessions
                       ELSE Append(sessions, [group |-> outbound[o].to, active |-> TRUE])
        /\ inbound' = Append(inbound, [session |-> t, peer |-> Sender(o),
                                       source |-> outbound[o].session, via |-> o])

(* notifyAgent: a note from the own group, without source_session_id.      *)
NotifyAgent(o) ==
    /\ Len(inbound) < MaxRows
    /\ inbound' = Append(inbound, [session |-> outbound[o].session, peer |-> Sender(o),
                                   source |-> 0, via |-> o])
    /\ UNCHANGED sessions

IsDue(o) == state[o] = "due"

OwnDue(s) == {o \in DOMAIN outbound : outbound[o].session = s /\ IsDue(o)}

(* drainSession of one of the two polls reads the rows that are due.       *)
DrainSession(s) ==
    /\ Active(s) /\ drain[s] = {} /\ OwnDue(s) # {}
    /\ Cardinality({d \in Made : drain[d] # {}}) < 2
    /\ drain' = [drain EXCEPT ![s] = OwnDue(s)]
    /\ UNCHANGED <<sessions, inbound, agentVars, rowVars, attempts, waits, holds, ruleVars,
                   eventVars>>

(* They are done in the order in which they were written.                  *)
Turn(s) == drain[s] # {} /\ waits[s] = "none"
Row(s) == Min(drain[s])

Await(s, what) == waits' = [waits EXCEPT ![s] = what] /\ UNCHANGED <<drain, attempts>>

Dequeue(s) ==
    /\ drain' = [drain EXCEPT ![s] = @ \ {Row(s)}]
    /\ waits' = [waits EXCEPT ![s] = "none"]

MarkDelivered(s) ==
    /\ state' = [state EXCEPT ![Row(s)] = "delivered"]
    /\ attempts' = [attempts EXCEPT ![Row(s)] = 0]
    /\ Dequeue(s)
    /\ UNCHANGED outbound

Routes(s) ==
    /\ Turn(s) /\ ~Denied(Row(s)) /\ ~Held(Row(s))
    /\ PerformAgentRoute(Row(s)) /\ Await(s, "wake")
    /\ UNCHANGED <<agentVars, rowVars, holds, ruleVars, eventVars>>

(* Bug: the row is not recorded as delivered.                              *)
WokenUnmarked(s) ==
    /\ waits[s] = "wake" /\ Dequeue(s)
    /\ UNCHANGED <<sessions, inbound, agentVars, rowVars, attempts, holds, ruleVars, eventVars>>

Woken(s) ==
    /\ waits[s] = "wake" /\ MarkDelivered(s)
    /\ UNCHANGED <<sessions, inbound, agentVars, holds, ruleVars, eventVars>>

(* Bug: a refusal returns, and the row counts as delivered.                *)
ReturnsRefused(s) ==
    /\ Turn(s) /\ Denied(Row(s)) /\ MarkDelivered(s)
    /\ UNCHANGED <<sessions, inbound, agentVars, holds, ruleVars, eventVars>>

(* GuardDenyError: the row is tried again, and given up in the end.        *)
Throws(s) ==
    /\ Turn(s) /\ Denied(Row(s))
    /\ LET n == attempts[Row(s)] + 1
       IN  IF n < MaxAttempts
           THEN attempts' = [attempts EXCEPT ![Row(s)] = n] /\ UNCHANGED state
           ELSE /\ attempts' = [attempts EXCEPT ![Row(s)] = 0]
                /\ state' = [state EXCEPT ![Row(s)] = "failed"]
    /\ Dequeue(s)
    /\ UNCHANGED <<sessions, inbound, agentVars, outbound, holds, ruleVars, eventVars>>

(* The message is held: pickApprovalDelivery may have to open the channel. *)
Holds(s) ==
    /\ Turn(s) /\ Held(Row(s)) /\ Await(s, "ask")
    /\ UNCHANGED <<sessions, inbound, agentVars, rowVars, holds, ruleVars, eventVars>>

(* requestApproval up to the await of the card.                            *)
RequestApproval(s) ==
    /\ waits[s] = "ask"
    /\ holds' = Append(holds, [row |-> Row(s), state |-> "asked"])
    /\ Await(s, "card")
    /\ UNCHANGED <<sessions, inbound, agentVars, rowVars, ruleVars, eventVars>>

(* No direct channel to the approver: the agent is told, the row is done.  *)
NobodyToAsk(s) ==
    /\ waits[s] = "ask" /\ Event
    /\ NotifyAgent(Row(s)) /\ MarkDelivered(s)
    /\ UNCHANGED <<agentVars, holds, ruleVars>>

CardSent(s) ==
    /\ waits[s] = "card" /\ MarkDelivered(s)
    /\ UNCHANGED <<sessions, inbound, agentVars, holds, ruleVars, eventVars>>

CloseHold(k) == holds' = [holds EXCEPT ![k].state = "closed"]
Newer(k) == {j \in DOMAIN holds : j > k /\ holds[j].row = holds[k].row}

(* The card was not seen: its row is deleted and the agent told.           *)
CardFails(s) ==
    /\ waits[s] = "card" /\ Event
    /\ \E k \in DOMAIN holds :
        /\ holds[k] = [row |-> Row(s), state |-> "asked"] /\ Newer(k) = {}
        /\ CloseHold(k)
    /\ NotifyAgent(Row(s)) /\ MarkDelivered(s)
    /\ UNCHANGED <<agentVars, ruleVars>>

(* A click finds the row, also while an earlier one is being applied.      *)
Live(k) == k \in DOMAIN holds /\ holds[k].state # "closed"

(* Bug: the replay of a held message skips the guard.                      *)
ReplayUnchecked(k) ==
    /\ Live(k)
    /\ PerformAgentRoute(holds[k].row)
    /\ holds' = [holds EXCEPT ![k].state = "applying"]
    /\ UNCHANGED <<agentVars, rowVars, hostVars, ruleVars, eventVars>>

(* applyA2aMessageGate: the grant satisfies the hold; then the wake.       *)
ReplayRoutes(k) ==
    /\ Live(k) /\ ~Denied(holds[k].row)
    /\ PerformAgentRoute(holds[k].row)
    /\ holds' = [holds EXCEPT ![k].state = "applying"]
    /\ UNCHANGED <<agentVars, rowVars, hostVars, ruleVars, eventVars>>

(* The destination is gone: the agent is told.                             *)
ReplayRefused(k) ==
    /\ Live(k) /\ Denied(holds[k].row)
    /\ NotifyAgent(holds[k].row) /\ CloseHold(k)
    /\ UNCHANGED <<agentVars, rowVars, hostVars, ruleVars, eventVars>>

Applied(k) ==
    /\ Live(k) /\ holds[k].state = "applying" /\ CloseHold(k)
    /\ UNCHANGED <<sessions, inbound, agentVars, rowVars, hostVars, ruleVars, eventVars>>

(* finalizeReject.                                                         *)
Reject(k) ==
    /\ Live(k)
    /\ NotifyAgent(holds[k].row) /\ CloseHold(k)
    /\ UNCHANGED <<agentVars, rowVars, hostVars, ruleVars, eventVars>>

(* The host restarts: what is in memory is lost, containers are removed.   *)
HostRestart ==
    /\ events < MaxEvents /\ events' = events + 1 /\ restarts' = restarts + 1
    /\ attempts' = [o \in 1..MaxSends |-> 0]
    /\ drain' = [s \in 1..MaxSessions |-> {}]
    /\ waits' = [s \in 1..MaxSessions |-> "none"]
    /\ query' = [s \in 1..MaxSessions |-> Idle]
    /\ \E given \in SUBSET {s \in Made : Open(s)} :
        taken' = taken \ UNION {query[s].batch : s \in given}
    /\ holds' = [k \in DOMAIN holds |->
                    IF Live(k) THEN [holds[k] EXCEPT !.state = "asked"] ELSE holds[k]]
    /\ UNCHANGED <<sessions, inbound, rowVars, ruleVars>>

-----------------------------------------------------------------------------
(* Operators.                                                              *)

(* archiveSession of "/new": the container is killed, and the rows of the  *)
(* session that are due stay so.                                           *)
ArchiveSession(s) ==
    /\ Active(s) /\ Event
    /\ sessions' = [sessions EXCEPT ![s].active = FALSE]
    /\ query' = [query EXCEPT ![s] = Idle]
    /\ UNCHANGED <<inbound, taken, rowVars, hostVars, holds, ruleVars>>

AddDestination(e) ==
    /\ e \notin links /\ Event
    /\ links' = links \cup {e}
    /\ UNCHANGED <<sessions, inbound, agentVars, rowVars, hostVars, holds, policies>>

(* The command removes the row alone: a policy of that edge survives.      *)
RemoveDestination(e) ==
    /\ e \in links /\ Event
    /\ links' = links \ {e}
    /\ UNCHANGED <<sessions, inbound, agentVars, rowVars, hostVars, holds, policies>>

SetPolicy(e) ==
    /\ e[1] # e[2] /\ e \notin policies /\ Event
    /\ policies' = policies \cup {e}
    /\ UNCHANGED <<sessions, inbound, agentVars, rowVars, hostVars, holds, links>>

RemovePolicy(e) ==
    /\ e \in policies /\ Event
    /\ policies' = policies \ {e}
    /\ UNCHANGED <<sessions, inbound, agentVars, rowVars, hostVars, holds, links>>

-----------------------------------------------------------------------------
Agent(s) ==
    \/ Engage(s) \/ FollowUp(s) \/ SendPlain(s)
    \/ QueryFails(s) \/ QueryEnds(s) \/ ContainerDies(s)
    \/ \E g \in Groups : SendBlock(s, g) \/ SendTool(s, g)

Delivery(s) ==
    \/ DrainSession(s) \/ Routes(s) \/ Woken(s) \/ Throws(s)
    \/ Holds(s) \/ RequestApproval(s) \/ NobodyToAsk(s) \/ CardSent(s) \/ CardFails(s)

Decision(k) == ReplayRoutes(k) \/ ReplayRefused(k) \/ Applied(k) \/ Reject(k)

Rules(e) == AddDestination(e) \/ RemoveDestination(e) \/ SetPolicy(e) \/ RemovePolicy(e)

(* Every row is asked about again at most once per event.                  *)
Asked == 1..MaxSends * (1 + MaxEvents)

Next ==
    \/ \E s \in 1..MaxSessions : Arrive(s) \/ Agent(s) \/ Delivery(s) \/ ArchiveSession(s)
    \/ \E g \in Chatters : ArriveNew(g)
    \/ \E k \in Asked : Decision(k)
    \/ \E e \in Edges : Rules(e)
    \/ HostRestart

Spec == Init /\ [][Next]_vars

-----------------------------------------------------------------------------
(* Properties.                                                             *)

(* The rows that a step adds to an inbox on behalf of another agent.       *)
Routed == {r \in DOMAIN inbound' \ DOMAIN inbound : inbound'[r].source # 0}

(* A message between agents is written into a session of the group it is   *)
(* addressed to, that is open, whoever was answered and whichever sessions *)
(* have been archived meanwhile (agent-route.ts, resolveTargetSession).    *)
LandsWhereAddressed ==
    [][\A r \in Routed :
        LET to == sessions'[inbound'[r].session]
        IN  to.active /\ to.group = outbound[inbound'[r].via].to]_vars

(* What reaches another group is allowed at that moment: the destination   *)
(* still exists, and where a policy asks for a person, one has just said   *)
(* yes to this very message (guard.ts, message-gate.ts).                   *)
RouteIsAuthorised ==
    [][\A r \in Routed :
        LET o == inbound'[r].via
        IN  Self(o) \/ /\ Edge(o) \in links
                       /\ Edge(o) \in policies =>
                            \E k \in DOMAIN holds : holds[k].row = o /\ Live(k)]_vars

(* If every row that a session has from a group came from one session of   *)
(* it, and the message does not answer a row of a third party, it returns  *)
(* to that session while it is open, also when it answers nothing or a     *)
(* chat, or newer sessions exist (the return path and the peer affinity).  *)
AnswersReturn ==
    [][\A r \in Routed :
        LET o == inbound'[r].via
            partners == {inbound[q].source : q \in {q \in DOMAIN inbound :
                            /\ inbound[q].session = outbound[o].session
                            /\ inbound[q].peer = outbound[o].to
                            /\ inbound[q].source # 0}}
        IN  \A t \in Made :
                /\ partners = {t} /\ Active(t)
                /\ ReplySource(o) \in {0, t}
                => inbound'[r].session = t]_vars

(* A row that counts as delivered has reached a session, awaits a decision *)
(* or its agent has been told why it did not (delivery.ts: failures throw, *)
(* where a silent return would mark a message delivered that was not).     *)
NothingVanishes ==
    \A o \in DOMAIN outbound :
        state[o] = "delivered" =>
            \/ \E r \in DOMAIN inbound : inbound[r].via = o
            \/ \E k \in DOMAIN holds : holds[k].row = o /\ Live(k)

(* A message that no person was asked about is written into one inbox, and *)
(* once; a second time only if the host was restarted between writing and  *)
(* recording it (delivery.ts, drainSession, markDelivered).                *)
Copies(o) == {r \in DOMAIN inbound : inbound[r].via = o /\ inbound[r].source # 0}

OneCopy ==
    \A o \in DOMAIN outbound :
        (\A k \in DOMAIN holds : holds[k].row # o) => Cardinality(Copies(o)) <= 1 + restarts

(* What has become of an outbound row.                                     *)
Fate(o) ==
    IF o \notin DOMAIN outbound THEN "absent"
    ELSE IF IsDue(o) THEN "queued"
    ELSE IF state[o] = "delivered" THEN "done"
    ELSE "dead"

(* It was brought before an agent or a person.                             *)
Brought(o) ==
    \/ \E r \in DOMAIN inbound : inbound[r].via = o
    \/ \E k \in DOMAIN holds : holds[k].row = o

Letters == INSTANCE AtLeastOnceQueue
    WITH Items <- 1..MaxSends,
         state <- [o \in 1..MaxSends |-> Fate(o)],
         times <- [o \in 1..MaxSends |-> IF Brought(o) THEN 1 ELSE 0]

(* Messages between agents implement the queue as well, counting whether a *)
(* message was brought before anybody: a row recorded as delivered was, one*)
(* that was given up never is, and no settled row is settled differently.  *)
(* What an approval writes after the row is settled adds nothing to it.    *)
ImplementsLetters == Letters!Spec
=============================================================================
