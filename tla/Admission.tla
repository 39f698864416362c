----------------------------- MODULE Admission -----------------------------
(***************************************************************************)
(* Admission of messages to agents (src/router.ts, src/modules/permissions)*)
(* in one chat with one thread: which messages the router hands to which   *)
(* of the agents wired to the chat, and how an approver admits an unknown  *)
(* sender or an unknown chat with a card that holds the first message.     *)
(*                                                                         *)
(* The handlers share the one thread of the host.  A fan-out awaits the    *)
(* wake of every agent it hands the message to, a request for approval     *)
(* awaits the lookup of the approver's DM and the delivery of the card.    *)
(* A fan-out goes by the wirings and the policy there were when it began;  *)
(* members and pending rows are looked up when it comes to an agent.       *)
(***************************************************************************)
EXTENDS Integers, FiniteSets

CONSTANTS
    Agents,        \* agent groups
    Messages,
    From,          \* the sender of a message
    Mentions,      \* the messages that address the bot
    Connectable,   \* agent groups the card of a chat can connect it to
    CardMode,      \* engage_mode of the wirings the card makes
    Setups,        \* chats as the operator may have set them up
    Choices,       \* wirings the operator may give it later
    Known,         \* memberships the operator may change
    None,
    MaxUpsets      \* bound: commands of the operator and restarts of the host

Senders == {From[e] : e \in Messages}
Policies == {"public", "request_approval", "strict", "decline_notify"}
Modes == {"pattern", "mention", "sticky"}   \* engage_mode; the pattern is '.'

(* known: sender_scope = 'known'; keeps: ignored_message_policy =          *)
(* 'accumulate'.                                                           *)
Wirings == [agent : Agents, mode : Modes, known : BOOLEAN, keeps : BOOLEAN, priority : Int]

ASSUME ConstantsOK ==
    /\ MaxUpsets \in Nat
    /\ Known \subseteq Agents \X Senders
    /\ Mentions \subseteq Messages /\ None \notin Messages
    /\ Connectable \subseteq Agents /\ CardMode \in Modes
    /\ Choices \subseteq Wirings
    /\ Setups \subseteq [isGroup : BOOLEAN, wirings : SUBSET Wirings,
                        members : [Agents -> SUBSET Senders]]

Calls == Messages \X {"live", "replay"}
Visits == [wiring : Wirings, policy : Policies]
Stamp == [kind |-> "stamp"]
Card(a, e) == [kind |-> "card", agent |-> a, event |-> e]
SenderRows == {None, Stamp} \cup {Card(a, e) : a \in Agents, e \in Messages}
CardStates == {"sending", "shown", "dead"}

VARIABLES
    isGroup,     \* messaging_groups.is_group
    policy,      \* messaging_groups.unknown_sender_policy
    denied,      \* messaging_groups.denied_at is set
    wirings,     \* messaging_group_agents of the chat, one per agent
    members,     \* who may talk to an agent group: owners, admins, members
    arrived,     \* the messages the adapter has handed over
    queue,       \* of a running routeInbound: what its fan-out has not seen
    stored,      \* the row of a message in the session of an agent
    senderReqs,  \* requestSenderApproval awaiting the approver's DM
    senderRow,   \* pending_sender_approvals, unique by sender
    senderCard,  \* the card of that row
    chatReqs,    \* requestChannelApproval awaiting the approver's DM
    chatRow,     \* pending_channel_approvals: the message it holds
    chatCard,
    naming,      \* awaitingNameInput: the approver is asked for a name
    promised,    \* history: messages admitted to an agent that is to take them
    cut,         \* history: those whose replay ended before it came to the agent
    turnedAway,  \* history: messages refused to an agent by rules still in force
    overdue,     \* history: messages about to ask when the chat was decided
    upsets

cardVars == <<chatRow, chatCard, naming>>
chatVars == <<chatReqs, cardVars>>
senderVars == <<senderReqs, senderRow, senderCard>>
adminVars == <<isGroup, policy, denied, wirings, members>>
history == <<promised, cut, turnedAway, overdue>>
vars == <<isGroup, policy, denied, wirings, members, arrived, queue, stored, senderReqs,
          senderRow, senderCard, chatReqs, chatRow, chatCard, naming, promised, cut,
          turnedAway, overdue, upsets>>

TypeOK ==
    /\ isGroup \in BOOLEAN /\ policy \in Policies /\ denied \in BOOLEAN
    /\ wirings \subseteq Wirings
    /\ members \in [Agents -> SUBSET Senders]
    /\ arrived \subseteq Messages
    /\ queue \in [Calls -> SUBSET Visits]
    /\ stored \in [Agents -> [Messages -> {"none", "context", "trigger"}]]
    /\ senderReqs \subseteq Messages \X Agents
    /\ senderRow \in [Senders -> SenderRows]
    /\ senderCard \in [Senders -> CardStates]
    /\ chatReqs \subseteq Messages
    /\ chatRow \in Messages \cup {None} /\ chatCard \in CardStates
    /\ naming \in BOOLEAN
    /\ promised \subseteq Messages \X Agents /\ cut \subseteq Messages \X Agents
    /\ turnedAway \subseteq Messages \X Agents /\ overdue \subseteq Messages
    /\ upsets \in 0..MaxUpsets

(* The chat is wired to some agents by the operator, or not at all.        *)
Init ==
    /\ \E c \in Setups : isGroup = c.isGroup /\ wirings = c.wirings /\ members = c.members
    /\ policy = "request_approval" /\ denied = FALSE
    /\ arrived = {}
    /\ queue = [c \in Calls |-> {}]
    /\ stored = [a \in Agents |-> [e \in Messages |-> "none"]]
    /\ senderReqs = {} /\ chatReqs = {}
    /\ senderRow = [s \in Senders |-> None] /\ chatRow = None
    /\ senderCard = [s \in Senders |-> "dead"] /\ chatCard = "dead"
    /\ naming = FALSE
    /\ promised = {} /\ cut = {} /\ turnedAway = {} /\ overdue = {}
    /\ upsets = 0

-----------------------------------------------------------------------------
(* routeInbound.                                                           *)

Idle(c) == queue[c] = {}
WiringsOf(a) == {w \in wirings : w.agent = a}

(* What a call is to see: the wirings, with the policy of the chat.        *)
VisitsTo(ws) == [wiring : ws, policy : {policy}]

(* A chat without wirings: a mention asks for its registration, once (the  *)
(* row as the handler leaves it), and not after a denial.                  *)
Escalate(e) ==
    IF e \in Mentions /\ ~denied /\ chatRow' = None
    THEN chatReqs' = chatReqs \cup {e} ELSE UNCHANGED chatReqs

(* The fan-out of a call over the wirings ws begins.                       *)
Route(c, ws) ==
    IF ws = {}
    THEN Escalate(c[1]) /\ UNCHANGED queue
    ELSE queue' = [queue EXCEPT ![c] = VisitsTo(ws)] /\ UNCHANGED chatReqs

(* A message arrives.                                                      *)
Arrive(e) ==
    /\ e \notin arrived /\ arrived' = arrived \cup {e}
    /\ UNCHANGED <<adminVars, stored, senderVars, cardVars, history, upsets>>
    /\ Route(<<e, "live">>, wirings)

(* A sticky wiring keeps firing where the agent has a session.             *)
HasSession(a) == \E e \in Messages : stored[a][e] # "none"

Engages(w, e) ==
    \/ w.mode = "pattern" \/ e \in Mentions
    \/ w.mode = "sticky" /\ isGroup /\ HasSession(w.agent)

(* The access gate of the chat and the sender scope of the wiring.         *)
AccessOk(v, e) == v.policy = "public" \/ From[e] \in members[v.wiring.agent]
ScopeOk(v, e) == ~v.wiring.known \/ From[e] \in members[v.wiring.agent]

Refuses(v, e) == Engages(v.wiring, e) /\ ~(AccessOk(v, e) /\ ScopeOk(v, e))

(* The rules a message meets at an agent: those of the calls under way and *)
(* those a replay would begin with.                                        *)
Rules(a, e) ==
    VisitsTo(WiringsOf(a))
      \cup {v \in queue[<<e, "live">>] \cup queue[<<e, "replay">>] : v.wiring.agent = a}

TurnAway(a, e) ==
    turnedAway' = IF stored[a][e] = "none" /\ \A v \in Rules(a, e) : Refuses(v, e)
                  THEN turnedAway \cup {<<e, a>>} ELSE turnedAway

(* The refusals a decision about a sender or about an agent takes back.    *)
Reprieve(s, a) == turnedAway' = {t \in turnedAway : From[t[1]] # s \/ t[2] # a}
Reopen(a) == turnedAway' = {t \in turnedAway : t[2] # a}

(* The requests and the card that are under way when a chat without        *)
(* wirings is turned down or wired.                                        *)
Decided == denied \/ wirings # {}

NoteDecision ==
    overdue' = IF ~Decided' THEN {}
               ELSE IF Decided THEN overdue
               ELSE (chatReqs \cap chatReqs') \cup ({chatRow'} \ {None})

Proceed(c, v) == queue' = [queue EXCEPT ![c] = @ \ {v}]

(* A call that throws leaves the rest of its fan-out undone.               *)
CutShort(c, v) ==
    /\ queue' = [queue EXCEPT ![c] = {}]
    /\ cut' = IF c[2] # "replay" THEN cut
              ELSE cut \cup {p \in promised : /\ p[1] = c[1]
                                             /\ \E u \in queue[c] \ {v} : u.wiring.agent = p[2]}

(* deliverToAgent.  The id of a row is the message and the agent: a second *)
(* insertion throws, which ends the fan-out.                               *)
Store(c, v, trigger) ==
    LET e == c[1] a == v.wiring.agent IN
    IF stored[a][e] = "none"
    THEN stored' = [stored EXCEPT ![a][e] = trigger] /\ Proceed(c, v) /\ UNCHANGED cut
    ELSE CutShort(c, v) /\ UNCHANGED stored

(* The gate refuses a sender: requestSenderApproval up to its first await, *)
(* or declineAndNotify, whose stamp takes the place of a card.             *)
RefuseSender(v, e) ==
    LET s == From[e] IN
    \/ /\ v.policy = "request_approval"
       /\ senderRow' = [senderRow EXCEPT ![s] = IF @ = Stamp THEN None ELSE @]
       /\ senderReqs' = IF senderRow'[s] = None THEN senderReqs \cup {<<e, v.wiring.agent>>}
                        ELSE senderReqs
    \/ /\ v.policy = "decline_notify" /\ ~isGroup
       /\ senderRow' = [senderRow EXCEPT ![s] = Stamp]
       /\ UNCHANGED senderReqs
    \/ /\ v.policy = "strict" \/ (v.policy = "decline_notify" /\ isGroup)
       /\ UNCHANGED <<senderRow, senderReqs>>

(* One turn of the fan-out.  A refused message is not kept as context.     *)
RouteTo(c, v) ==
    LET e == c[1] IN
    \/ /\ Engages(v.wiring, e) /\ AccessOk(v, e) /\ ScopeOk(v, e)
       /\ Store(c, v, "trigger") /\ UNCHANGED <<senderRow, senderReqs, turnedAway>>
    \/ /\ Engages(v.wiring, e) /\ ~AccessOk(v, e)
       /\ RefuseSender(v, e) /\ TurnAway(v.wiring.agent, e) /\ Proceed(c, v)
       /\ UNCHANGED <<stored, cut>>
    \/ /\ Engages(v.wiring, e) /\ AccessOk(v, e) /\ ~ScopeOk(v, e)
       /\ TurnAway(v.wiring.agent, e) /\ Proceed(c, v)
       /\ UNCHANGED <<stored, cut, senderRow, senderReqs>>
    \/ /\ ~Engages(v.wiring, e) /\ v.wiring.keeps
       /\ Store(c, v, "context") /\ UNCHANGED <<senderRow, senderReqs, turnedAway>>
    \/ /\ ~Engages(v.wiring, e) /\ ~v.wiring.keeps /\ Proceed(c, v)
       /\ UNCHANGED <<stored, cut, senderRow, senderReqs, turnedAway>>

(* ORDER BY priority DESC.                                                 *)
Foremost(vs) == {v \in vs : \A u \in vs : u.wiring.priority <= v.wiring.priority}

FanOut(c) ==
    /\ \E v \in Foremost(queue[c]) : RouteTo(c, v)
    /\ UNCHANGED <<adminVars, arrived, senderCard, chatVars, promised, overdue, upsets>>

-----------------------------------------------------------------------------
(* The card for an unknown sender.                                         *)

(* No approver, or no DM for any of them.                                  *)
SenderGivenUp(e, a) ==
    /\ <<e, a>> \in senderReqs /\ senderReqs' = senderReqs \ {<<e, a>>}
    /\ UNCHANGED <<adminVars, arrived, queue, stored, senderRow, senderCard, chatVars,
                   history, upsets>>

(* The row is inserted; it is refused if the sender has one by now.        *)
SenderAsked(e, a) ==
    LET s == From[e] IN
    /\ <<e, a>> \in senderReqs /\ senderReqs' = senderReqs \ {<<e, a>>}
    /\ IF senderRow[s] = None
       THEN /\ senderRow' = [senderRow EXCEPT ![s] = Card(a, e)]
            /\ senderCard' = [senderCard EXCEPT ![s] = "sending"]
       ELSE UNCHANGED <<senderRow, senderCard>>
    /\ UNCHANGED <<adminVars, arrived, queue, stored, chatVars, history, upsets>>

(* The card is shown, or its delivery fails and the row stays.             *)
SenderCardSent(s, result) ==
    /\ senderCard[s] = "sending"
    /\ senderCard' = [senderCard EXCEPT ![s] = result]
    /\ UNCHANGED <<adminVars, arrived, queue, stored, senderReqs, senderRow, chatVars,
                   history, upsets>>

Answerable(s) == senderRow[s] \notin {None, Stamp} /\ senderCard[s] = "shown"

Admit(s, a) == members' = [members EXCEPT ![a] = @ \cup {s}]

CloseSender(s) ==
    /\ senderRow' = [senderRow EXCEPT ![s] = None]
    /\ senderCard' = [senderCard EXCEPT ![s] = "dead"]
    /\ UNCHANGED senderReqs

(* An agent that is wired and may have the message would have a row of it. *)
Takes(a, e, ws) == \E w \in ws : w.agent = a /\ (Engages(w, e) \/ w.keeps)

(* routeInbound once more for a message that was held, over the wirings ws.*)
Replay(e, a, ws) ==
    /\ Idle(<<e, "replay">>)
    /\ Route(<<e, "replay">>, ws)
    /\ IF Takes(a, e, ws)
       THEN promised' = promised \cup {<<e, a>>} /\ cut' = cut \ {<<e, a>>}
       ELSE UNCHANGED <<promised, cut>>

(* Bug: the sender is not made a member before the message is replayed.    *)
AllowReplayOnly(s) ==
    /\ Answerable(s) /\ CloseSender(s)
    /\ UNCHANGED <<adminVars, arrived, stored, cardVars, turnedAway, overdue, upsets>>
    /\ Replay(senderRow[s].event, senderRow[s].agent, wirings)

(* Bug: the sender becomes a member of every agent of the chat.            *)
AllowEverywhere(s) ==
    /\ Answerable(s) /\ CloseSender(s)
    /\ Reprieve(s, senderRow[s].agent)
    /\ members' = [a \in Agents |-> IF a = senderRow[s].agent \/ WiringsOf(a) # {}
                                    THEN members[a] \cup {s} ELSE members[a]]
    /\ UNCHANGED <<isGroup, policy, denied, wirings, arrived, stored, cardVars, overdue, upsets>>
    /\ Replay(senderRow[s].event, senderRow[s].agent, wirings)

(* "Allow": a member, no row, and the message once more to every wiring    *)
(* there is by now.                                                        *)
AllowSender(s) ==
    /\ Answerable(s) /\ CloseSender(s)
    /\ Admit(s, senderRow[s].agent) /\ Reprieve(s, senderRow[s].agent)
    /\ UNCHANGED <<isGroup, policy, denied, wirings, arrived, stored, cardVars, overdue, upsets>>
    /\ Replay(senderRow[s].event, senderRow[s].agent, wirings)

DenySender(s) ==
    /\ Answerable(s) /\ CloseSender(s)
    /\ UNCHANGED <<adminVars, arrived, queue, stored, chatVars, history, upsets>>

-----------------------------------------------------------------------------
(* The card for an unknown chat.                                           *)

ChatGivenUp(e) ==
    /\ e \in chatReqs /\ chatReqs' = chatReqs \ {e}
    /\ UNCHANGED <<adminVars, arrived, queue, stored, senderVars, chatRow, chatCard, naming,
                   history, upsets>>

ChatAsked(e) ==
    /\ e \in chatReqs /\ chatReqs' = chatReqs \ {e}
    /\ IF chatRow = None THEN chatRow' = e /\ chatCard' = "sending"
       ELSE UNCHANGED <<chatRow, chatCard>>
    /\ UNCHANGED <<adminVars, arrived, queue, stored, senderVars, naming, history, upsets>>

ChatCardSent(result) ==
    /\ chatCard = "sending" /\ chatCard' = result
    /\ UNCHANGED <<adminVars, arrived, queue, stored, senderVars, chatReqs, chatRow, naming,
                   history, upsets>>

(* What the card fixes, whatever the defaults of the channel.              *)
CardWiring(a) == [agent |-> a, mode |-> CardMode, known |-> TRUE, keeps |-> TRUE,
                  priority |-> 0]

(* Bug: the message is routed before the wiring is there.                  *)
WireTooLate(a) ==
    IF WiringsOf(a) # {}
    THEN UNCHANGED <<wirings, members, promised, cut, turnedAway, queue, chatReqs, chatRow>>
    ELSE /\ wirings' = wirings \cup {CardWiring(a)}
         /\ Admit(From[chatRow], a) /\ Reopen(a)
         /\ chatRow' = None
         /\ Replay(chatRow, a, wirings)

(* wireApprovedChannel: the wiring, the sender of the held message as a    *)
(* member, no row, and the message once more.  An agent that is wired to   *)
(* the chat makes it throw and leaves the row.                             *)
WireApproved(a) ==
    IF WiringsOf(a) # {}
    THEN UNCHANGED <<wirings, members, promised, cut, turnedAway, queue, chatReqs, chatRow>>
    ELSE /\ wirings' = wirings \cup {CardWiring(a)}
         /\ Admit(From[chatRow], a) /\ Reopen(a)
         /\ chatRow' = None
         /\ Replay(chatRow, a, wirings')

(* The buttons are gone once one of them has been used.                    *)
UseChatCard == chatRow # None /\ chatCard = "shown" /\ chatCard' = "dead"

ConnectChat(a) ==
    /\ UseChatCard
    /\ UNCHANGED <<isGroup, policy, denied, arrived, stored, senderVars, naming, upsets>>
    /\ WireApproved(a) /\ NoteDecision

RejectChat ==
    /\ UseChatCard /\ denied' = TRUE /\ chatRow' = None
    /\ UNCHANGED <<isGroup, policy, wirings, members, arrived, queue, stored, senderVars,
                   chatReqs, naming, promised, cut, turnedAway, upsets>>
    /\ NoteDecision

(* "Connect new agent": the next DM of the approver is the name ...        *)
AskName ==
    /\ UseChatCard /\ naming' = TRUE
    /\ UNCHANGED <<adminVars, arrived, queue, stored, senderVars, chatReqs, chatRow,
                   history, upsets>>

(* ... unless the prompt cannot be delivered; the row stays.               *)
NamePromptFails ==
    /\ naming /\ naming' = FALSE
    /\ UNCHANGED <<adminVars, arrived, queue, stored, senderVars, chatReqs, chatRow,
                   chatCard, history, upsets>>

(* The agent is created and connected if the chat still has a row.         *)
NameReply(a) ==
    /\ naming /\ naming' = FALSE
    /\ UNCHANGED <<isGroup, policy, denied, arrived, stored, senderVars, chatCard, upsets>>
    /\ IF chatRow = None
       THEN UNCHANGED <<wirings, members, promised, cut, turnedAway, queue, chatReqs, chatRow>>
       ELSE WiringsOf(a) = {} /\ WireApproved(a)
    /\ NoteDecision

-----------------------------------------------------------------------------
(* The operator (ncl), and a restart of the host.                          *)

Upset == upsets < MaxUpsets /\ upsets' = upsets + 1

(* ncl messaging-groups update.                                            *)
SetPolicy(p) ==
    /\ Upset /\ policy' = p
    /\ turnedAway' = {t \in turnedAway : p = "public" => \A w \in WiringsOf(t[2]) : w.known}
    /\ UNCHANGED <<isGroup, denied, wirings, members, arrived, queue, stored, senderVars,
                   chatVars, promised, cut, overdue>>

SetDenied(d) ==
    /\ Upset /\ denied' = d
    /\ UNCHANGED <<isGroup, policy, wirings, members, arrived, queue, stored, senderVars,
                   chatVars, promised, cut, turnedAway>>
    /\ NoteDecision

AddMember(s, a) ==
    /\ Upset /\ Admit(s, a) /\ Reprieve(s, a)
    /\ UNCHANGED <<isGroup, policy, denied, wirings, arrived, queue, stored, senderVars,
                   chatVars, promised, cut, overdue>>

(* What an approver has allowed is taken back with the membership.         *)
RemoveMember(s, a) ==
    /\ Upset /\ members' = [members EXCEPT ![a] = @ \ {s}]
    /\ promised' = {p \in promised : From[p[1]] # s \/ p[2] # a}
    /\ UNCHANGED <<isGroup, policy, denied, wirings, arrived, queue, stored, senderVars,
                   chatVars, cut, turnedAway, overdue>>

(* ncl wirings create, update and delete.  denied_at stays as it is.       *)
SetWirings(ws) ==
    /\ Upset /\ wirings' = ws
    /\ UNCHANGED <<isGroup, policy, denied, members, arrived, queue, stored, senderVars,
                   chatVars, promised, cut>>
    /\ NoteDecision

WireAgent(w) ==
    /\ WiringsOf(w.agent) = {}
    /\ SetWirings(wirings \cup {w}) /\ Reopen(w.agent)

UpdateWiring(w) ==
    /\ WiringsOf(w.agent) \notin {{}, {w}}
    /\ SetWirings((wirings \ WiringsOf(w.agent)) \cup {w}) /\ Reopen(w.agent)

UnwireAgent(a) ==
    /\ WiringsOf(a) # {}
    /\ SetWirings(wirings \ WiringsOf(a)) /\ UNCHANGED turnedAway

(* Running calls, the requests that await a DM and the name prompt are     *)
(* lost; rows and cards stay.                                              *)
HostRestart ==
    /\ Upset
    /\ queue' = [c \in Calls |-> {}]
    /\ senderReqs' = {} /\ chatReqs' = {} /\ naming' = FALSE
    /\ promised' = {p \in promised : Idle(<<p[1], "replay">>)}
    /\ UNCHANGED <<adminVars, arrived, stored, senderRow, senderCard, chatRow, chatCard,
                   cut, turnedAway, overdue>>

-----------------------------------------------------------------------------
SenderFlow ==
    \/ \E e \in Messages, a \in Agents : SenderGivenUp(e, a) \/ SenderAsked(e, a)
    \/ \E s \in Senders, r \in {"shown", "dead"} : SenderCardSent(s, r)
    \/ \E s \in Senders : AllowSender(s) \/ DenySender(s)

ChatFlow ==
    \/ \E e \in Messages : ChatGivenUp(e) \/ ChatAsked(e)
    \/ \E r \in {"shown", "dead"} : ChatCardSent(r)
    \/ \E a \in Connectable : ConnectChat(a) \/ NameReply(a)
    \/ RejectChat \/ AskName \/ NamePromptFails

Operator ==
    \/ \E p \in Policies : SetPolicy(p)
    \/ \E d \in BOOLEAN : SetDenied(d)
    \/ \E w \in Choices : WireAgent(w) \/ UpdateWiring(w)
    \/ \E a \in Agents : UnwireAgent(a)
    \/ \E k \in Known : AddMember(k[2], k[1]) \/ RemoveMember(k[2], k[1])

Next ==
    \/ \E e \in Messages : Arrive(e)
    \/ \E c \in Calls : FanOut(c)
    \/ SenderFlow \/ ChatFlow \/ Operator \/ HostRestart

Spec == Init /\ [][Next]_vars

-----------------------------------------------------------------------------
(* Properties.                                                             *)

(* A message for which an approver admitted its sender or its chat reaches *)
(* the agent it was admitted to, if that agent was wired to the chat at the*)
(* click and would take the message: whatever is done to wirings and policy*)
(* during the replay, unless the replay ended at another agent that has the*)
(* message already.                                                        *)
ApprovedIsHeard ==
    \A p \in promised : Idle(<<p[1], "replay">>) => stored[p[2]][p[1]] # "none" \/ p \in cut

(* A message that an agent was refused does not reach it, neither when it  *)
(* is replayed for another agent nor as context, before its sender is      *)
(* admitted to that very agent or the rules that refused it are changed.   *)
TurnedAwayStaysOut == \A t \in turnedAway : stored[t[2]][t[1]] = "none"

(* While a chat is turned down or wired, the only cards about it are those *)
(* of messages that were about to ask, or had asked, when it was decided:  *)
(* no message that comes later, a replay or the message it was decided for *)
(* asks again.                                                             *)
OnlyOverdueAsk == Decided => chatRow \in overdue \cup {None}
=============================================================================
