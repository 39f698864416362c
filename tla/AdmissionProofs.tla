-------------------------- MODULE AdmissionProofs --------------------------
(***************************************************************************)
(* Theorems about Admission, for any agents, messages, wirings and bounds. *)
(*                                                                         *)
(* Rows of the sessions never shrink and, because a sticky wiring looks    *)
(* only at those rows, a wiring that engages on a message goes on doing so.*)
(* A message was refused by every wiring and every call under way that     *)
(* could give it to its agent, so no other call can: what changes the      *)
(* wirings, the policy or the members takes the refusal out of the history.*)
(* A message was promised to an agent whose wiring is among those the      *)
(* replay has yet to see, and the replay keeps what it has seen; so        *)
(* changes of the wirings do not matter any more.                          *)
(***************************************************************************)
EXTENDS Admission, TLAPS

(* Whatever may still bring a refused message to its agent refuses it.     *)
Refusals ==
    \A t \in turnedAway :
        /\ stored[t[2]][t[1]] = "none"
        /\ \A v \in Rules(t[2], t[1]) : Refuses(v, t[1])

(* What a replay has yet to do for a promise.                              *)
OnItsWay(p) ==
    /\ From[p[1]] \in members[p[2]]
    /\ \E v \in queue[<<p[1], "replay">>] :
         v.wiring.agent = p[2] /\ (Engages(v.wiring, p[1]) \/ v.wiring.keeps)

Heard(p) == stored[p[2]][p[1]] # "none"

Admissions == \A p \in promised : Heard(p) \/ p \in cut \/ OnItsWay(p)

(* What is still about to ask was about to ask when the chat was decided.  *)
Requests == Decided => chatReqs \subseteq overdue /\ chatRow \in overdue \cup {None}

(* The card for a sender holds a message of that sender.                   *)
Holds == \A s \in Senders : senderRow[s] \in {None, Stamp} \/ From[senderRow[s].event] = s

IInv == TypeOK /\ Refusals /\ Holds /\ Admissions /\ Requests

-----------------------------------------------------------------------------
(* Types.                                                                  *)

LEMMA CallsOf == \A e \in Messages : <<e, "live">> \in Calls /\ <<e, "replay">> \in Calls
BY DEF Calls

LEMMA SendersOf == \A e \in Messages : From[e] \in Senders
BY DEF Senders

LEMMA VisitTypes ==
    ASSUME NEW v \in Visits
    PROVE  /\ v.wiring \in Wirings /\ v.policy \in Policies
           /\ v.wiring.agent \in Agents
           /\ v.wiring.known \in BOOLEAN /\ v.wiring.keeps \in BOOLEAN
BY DEF Visits, Wirings

LEMMA VisitsToTypes ==
    ASSUME TypeOK, NEW ws, ws \subseteq Wirings
    PROVE  VisitsTo(ws) \subseteq Visits
BY DEF TypeOK, VisitsTo, Visits

(* What one turn of the fan-out does to the rows of the sessions.          *)
LEMMA RouteStores ==
    ASSUME NEW c, NEW v, RouteTo(c, v)
    PROVE  \/ stored' = stored
           \/ /\ stored[v.wiring.agent][c[1]] = "none"
              /\ \E r \in {"context", "trigger"} :
                   stored' = [stored EXCEPT ![v.wiring.agent][c[1]] = r]
BY DEF RouteTo, Store

(* It gives the message to its agent, if to any.                           *)
LEMMA RouteRows ==
    ASSUME TypeOK, NEW c \in Calls, NEW v \in queue[c], RouteTo(c, v),
           NEW b \in Agents, NEW f \in Messages
    PROVE  \/ stored'[b][f] = stored[b][f]
           \/ /\ b = v.wiring.agent /\ f = c[1]
              /\ stored[b][f] = "none" /\ stored'[b][f] # "none"
<1>1. v.wiring.agent \in Agents /\ c[1] \in Messages
  BY VisitTypes DEF TypeOK, Calls
<1>2. CASE stored' = stored
  BY <1>2
<1>3. ASSUME NEW r \in {"context", "trigger"}, stored[v.wiring.agent][c[1]] = "none",
             stored' = [stored EXCEPT ![v.wiring.agent][c[1]] = r]
      PROVE  \/ stored'[b][f] = stored[b][f]
             \/ /\ b = v.wiring.agent /\ f = c[1]
                /\ stored[b][f] = "none" /\ stored'[b][f] # "none"
  BY <1>1, <1>3 DEF TypeOK
<1> QED
  BY <1>2, <1>3, RouteStores

(* A fan-out only gets shorter.                                            *)
LEMMA RouteQueues ==
    ASSUME TypeOK, NEW c \in Calls, NEW v \in queue[c], RouteTo(c, v)
    PROVE  /\ queue' \in [Calls -> SUBSET Visits]
           /\ \A d \in Calls : queue'[d] \subseteq queue[d]
           /\ \A d \in Calls : d # c => queue'[d] = queue[d]
BY DEF TypeOK, RouteTo, Store, Proceed, CutShort

LEMMA FanOutTypes ==
    ASSUME TypeOK, NEW c \in Calls, FanOut(c)
    PROVE  TypeOK'
<1> USE ConstantsOK DEF TypeOK
<1>1. PICK v \in queue[c] : RouteTo(c, v)
  BY DEF FanOut, Foremost
<1> DEFINE a == v.wiring.agent
<1>2. a \in Agents /\ c[1] \in Messages /\ From[c[1]] \in Senders
  BY SendersOf, VisitTypes DEF Calls
<1>3. queue' \in [Calls -> SUBSET Visits]
  BY <1>1, RouteQueues
<1>4. stored' \in [Agents -> [Messages -> {"none", "context", "trigger"}]]
  <2>1. ASSUME NEW r \in {"context", "trigger"}, stored' = [stored EXCEPT ![a][c[1]] = r]
        PROVE  stored' \in [Agents -> [Messages -> {"none", "context", "trigger"}]]
    <3>1. [stored[a] EXCEPT ![c[1]] = r] \in [Messages -> {"none", "context", "trigger"}]
      BY <1>2
    <3> QED
      BY <1>2, <2>1, <3>1
  <2> QED
    BY <1>1, <2>1, RouteStores
<1>5. senderRow' \in [Senders -> SenderRows] /\ senderReqs' \subseteq Messages \X Agents
  <2>1. None \in SenderRows /\ Stamp \in SenderRows
    BY DEF SenderRows
  <2> QED
    BY <1>1, <1>2, <2>1 DEF RouteTo, RefuseSender
<1>6. turnedAway' \subseteq Messages \X Agents
  BY <1>1, <1>2 DEF RouteTo, TurnAway
<1>7. cut' \subseteq Messages \X Agents
  BY <1>1 DEF RouteTo, Store, CutShort
<1> QED
  BY <1>3, <1>4, <1>5, <1>6, <1>7 DEF FanOut, adminVars, chatVars, cardVars

(* A card that can be answered holds a message for an agent.               *)
LEMMA CardHolds ==
    ASSUME TypeOK, NEW s \in Senders, Answerable(s)
    PROVE  \E a \in Agents, e \in Messages :
             /\ senderRow[s] = Card(a, e)
             /\ senderRow[s].agent = a /\ senderRow[s].event = e
<1>1. senderRow[s] \in {Card(a, e) : a \in Agents, e \in Messages}
  BY DEF TypeOK, SenderRows, Answerable
<1> QED
  BY <1>1 DEF Card

LEMMA RouteTypes ==
    ASSUME TypeOK, NEW c \in Calls, NEW ws, ws \subseteq Wirings, Route(c, ws)
    PROVE  queue' \in [Calls -> SUBSET Visits] /\ chatReqs' \subseteq Messages
<1>1. c[1] \in Messages
  BY DEF Calls
<1> QED
  BY <1>1, VisitsToTypes DEF TypeOK, Route, Escalate

LEMMA ReplayTypes ==
    ASSUME TypeOK, NEW e \in Messages, NEW a \in Agents, NEW ws, ws \subseteq Wirings,
           Replay(e, a, ws)
    PROVE  /\ promised' \subseteq Messages \X Agents /\ cut' \subseteq Messages \X Agents
           /\ queue' \in [Calls -> SUBSET Visits] /\ chatReqs' \subseteq Messages
<1>1. promised' \subseteq Messages \X Agents /\ cut' \subseteq Messages \X Agents
  <2>1. <<e, a>> \in Messages \X Agents
    OBVIOUS
  <2> QED
    BY <2>1 DEF Replay, TypeOK
<1>2. Route(<<e, "replay">>, ws)
  BY DEF Replay
<1> QED
  BY <1>1, <1>2, CallsOf, RouteTypes

LEMMA SenderFlowTypes ==
    ASSUME TypeOK, SenderFlow
    PROVE  TypeOK'
<1> USE ConstantsOK, SendersOf, CallsOf
    DEF TypeOK, adminVars, chatVars, cardVars, senderVars, history
<1>1. None \in SenderRows
  BY DEF SenderRows
<1>2. ASSUME NEW e \in Messages, NEW a \in Agents, SenderGivenUp(e, a) \/ SenderAsked(e, a)
      PROVE  TypeOK'
  <2>1. Card(a, e) \in SenderRows
    BY DEF SenderRows
  <2>2. CASE SenderGivenUp(e, a)
    BY <2>2 DEF SenderGivenUp
  <2>3. CASE SenderAsked(e, a)
    <3>1. /\ senderReqs' \subseteq senderReqs
          /\ senderRow' \in [Senders -> SenderRows] /\ senderCard' \in [Senders -> CardStates]
      BY <2>1, <2>3 DEF SenderAsked, CardStates
    <3> QED
      BY <2>3, <3>1 DEF SenderAsked
  <2> QED
    BY <1>2, <2>2, <2>3
<1>3. ASSUME NEW s \in Senders, NEW r \in {"shown", "dead"}, SenderCardSent(s, r)
      PROVE  TypeOK'
  BY <1>3 DEF SenderCardSent, CardStates
<1>4. ASSUME NEW s \in Senders, AllowSender(s)
      PROVE  TypeOK'
  <2>1. PICK a \in Agents, e \in Messages :
          senderRow[s].agent = a /\ senderRow[s].event = e
    BY <1>4, CardHolds DEF AllowSender
  <2>2. members' \in [Agents -> SUBSET Senders] /\ turnedAway' \subseteq Messages \X Agents
    BY <1>4, <2>1 DEF AllowSender, Admit, Reprieve
  <2>3. /\ promised' \subseteq Messages \X Agents /\ cut' \subseteq Messages \X Agents
        /\ queue' \in [Calls -> SUBSET Visits] /\ chatReqs' \subseteq Messages
    <3>1. Replay(e, a, wirings)
      BY <1>4, <2>1 DEF AllowSender
    <3> QED
      BY <3>1, ReplayTypes
  <2> QED
    BY <1>1, <1>4, <2>2, <2>3 DEF AllowSender, CloseSender, CardStates
<1>5. ASSUME NEW s \in Senders, DenySender(s)
      PROVE  TypeOK'
  BY <1>1, <1>5 DEF DenySender, CloseSender, CardStates
<1> QED
  BY <1>2, <1>3, <1>4, <1>5 DEF SenderFlow

(* A chat is connected, if it is, to one more agent.                       *)
LEMMA WireApprovedTypes ==
    ASSUME TypeOK, NEW a \in Agents, chatRow # None, WireApproved(a)
    PROVE  /\ wirings' \subseteq Wirings /\ members' \in [Agents -> SUBSET Senders]
           /\ promised' \subseteq Messages \X Agents /\ cut' \subseteq Messages \X Agents
           /\ turnedAway' \subseteq Messages \X Agents
           /\ queue' \in [Calls -> SUBSET Visits] /\ chatReqs' \subseteq Messages
           /\ chatRow' \in Messages \cup {None}
<1> USE ConstantsOK, SendersOf, CallsOf
<1>1. CASE WiringsOf(a) # {}
  BY <1>1 DEF WireApproved, TypeOK
<1>2. CASE WiringsOf(a) = {}
  <2>1. /\ wirings' = wirings \cup {CardWiring(a)}
        /\ Admit(From[chatRow], a) /\ Reopen(a) /\ chatRow' = None
        /\ Replay(chatRow, a, wirings') /\ chatRow \in Messages
    BY <1>2 DEF WireApproved, TypeOK
  <2>2. wirings' \subseteq Wirings
    <3>1. CardWiring(a) \in Wirings
      BY DEF CardWiring, Wirings
    <3> QED
      BY <2>1, <3>1 DEF TypeOK
  <2>3. members' \in [Agents -> SUBSET Senders] /\ turnedAway' \subseteq Messages \X Agents
    BY <2>1 DEF Admit, Reopen, TypeOK
  <2> QED
    BY <2>1, <2>2, <2>3, ReplayTypes
<1> QED
  BY <1>1, <1>2

(* What was overdue is a message that asked.                               *)
LEMMA NoteTypes ==
    ASSUME TypeOK, NoteDecision, chatReqs' \subseteq Messages, chatRow' \in Messages \cup {None}
    PROVE  overdue' \subseteq Messages
BY DEF TypeOK, NoteDecision

LEMMA ChatFlowTypes ==
    ASSUME TypeOK, ChatFlow
    PROVE  TypeOK'
<1> USE ConstantsOK DEF TypeOK, adminVars, senderVars, history, CardStates
<1>1. ASSUME NEW e \in Messages, ChatGivenUp(e) \/ ChatAsked(e)
      PROVE  TypeOK'
  BY <1>1 DEF ChatGivenUp, ChatAsked
<1>2. ASSUME NEW r \in {"shown", "dead"}, ChatCardSent(r)
      PROVE  TypeOK'
  BY <1>2 DEF ChatCardSent
<1>3. ASSUME NEW a \in Connectable, ConnectChat(a)
      PROVE  TypeOK'
  <2>1. a \in Agents /\ chatRow # None /\ WireApproved(a) /\ NoteDecision
    BY <1>3 DEF ConnectChat, UseChatCard
  <2> QED
    BY <1>3, <2>1, WireApprovedTypes, NoteTypes DEF ConnectChat, UseChatCard
<1>4. ASSUME NEW a \in Connectable, NameReply(a)
      PROVE  TypeOK'
  <2>1. CASE chatRow = None
    BY <1>4, <2>1, NoteTypes DEF NameReply
  <2>2. CASE chatRow # None
    <3>1. a \in Agents /\ WireApproved(a) /\ NoteDecision
      BY <1>4, <2>2 DEF NameReply
    <3> QED
      BY <1>4, <2>2, <3>1, WireApprovedTypes, NoteTypes DEF NameReply
  <2> QED
    BY <2>1, <2>2
<1>5. CASE RejectChat
  BY <1>5, NoteTypes DEF RejectChat, UseChatCard
<1>6. CASE AskName \/ NamePromptFails
  BY <1>6 DEF AskName, NamePromptFails, UseChatCard
<1> QED
  BY <1>1, <1>2, <1>3, <1>4, <1>5, <1>6 DEF ChatFlow

LEMMA SetWiringsTypes ==
    ASSUME TypeOK, NEW ws, ws \subseteq Wirings, SetWirings(ws),
           turnedAway' \subseteq turnedAway
    PROVE  TypeOK'
<1>1. overdue' \subseteq Messages
  BY NoteTypes DEF SetWirings, chatVars, cardVars, TypeOK
<1> QED
  BY <1>1, ConstantsOK DEF SetWirings, Upset, chatVars, cardVars, senderVars, TypeOK

LEMMA OperatorTypes ==
    ASSUME TypeOK, Operator
    PROVE  TypeOK'
<1> USE ConstantsOK
<1>1. ASSUME NEW p \in Policies, SetPolicy(p)
      PROVE  TypeOK'
  BY <1>1 DEF SetPolicy, TypeOK, chatVars, cardVars, senderVars, Upset
<1>2. ASSUME NEW d \in BOOLEAN, SetDenied(d)
      PROVE  TypeOK'
  BY <1>2, NoteTypes DEF SetDenied, TypeOK, chatVars, cardVars, senderVars, Upset
<1>3. ASSUME NEW w \in Choices, WireAgent(w) \/ UpdateWiring(w)
      PROVE  TypeOK'
  <2>1. PICK ws : ws \subseteq Wirings /\ SetWirings(ws) /\ Reopen(w.agent)
    BY <1>3 DEF WireAgent, UpdateWiring, TypeOK
  <2> QED
    BY <2>1, SetWiringsTypes DEF Reopen
<1>4. ASSUME NEW a \in Agents, UnwireAgent(a)
      PROVE  TypeOK'
  <2>1. wirings \ WiringsOf(a) \subseteq Wirings
    BY DEF TypeOK
  <2> QED
    BY <1>4, <2>1, SetWiringsTypes DEF UnwireAgent
<1>5. ASSUME NEW k \in Known, AddMember(k[2], k[1]) \/ RemoveMember(k[2], k[1])
      PROVE  TypeOK'
  <2>1. k[1] \in Agents /\ k[2] \in Senders
    OBVIOUS
  <2> QED
    BY <1>5, <2>1 DEF AddMember, RemoveMember, Admit, Reprieve, TypeOK, chatVars, cardVars,
                      senderVars, Upset
<1> QED
  BY <1>1, <1>2, <1>3, <1>4, <1>5 DEF Operator

LEMMA TypeStep ==
    ASSUME TypeOK, [Next]_vars
    PROVE  TypeOK'
<1>1. ASSUME NEW e \in Messages, Arrive(e)
      PROVE  TypeOK'
  <2>1. queue' \in [Calls -> SUBSET Visits] /\ chatReqs' \subseteq Messages
    BY <1>1, CallsOf, RouteTypes DEF Arrive, TypeOK
  <2> QED
    BY <1>1, <2>1 DEF Arrive, adminVars, senderVars, cardVars, history, TypeOK
<1>2. CASE HostRestart
  <2>1. promised' \subseteq promised /\ queue' \in [Calls -> SUBSET Visits]
    BY <1>2 DEF HostRestart
  <2>2. upsets' \in 0..MaxUpsets
    BY <1>2, ConstantsOK DEF HostRestart, Upset, TypeOK
  <2>3. /\ UNCHANGED <<isGroup, policy, denied, wirings, members, arrived, stored>>
        /\ UNCHANGED <<senderRow, senderCard, chatRow, chatCard, cut, turnedAway, overdue>>
        /\ senderReqs' = {} /\ chatReqs' = {} /\ naming' = FALSE
    BY <1>2 DEF HostRestart, adminVars
  <2> QED
    BY <2>1, <2>2, <2>3 DEF TypeOK
<1>3. CASE UNCHANGED vars
  BY <1>3 DEF vars, TypeOK
<1> QED
  BY <1>1, <1>2, <1>3, FanOutTypes, SenderFlowTypes, ChatFlowTypes, OperatorTypes DEF Next

-----------------------------------------------------------------------------
(* What never shrinks.                                                     *)

RowsStay ==
    \A a \in Agents, e \in Messages : stored[a][e] # "none" => stored'[a][e] # "none"

Growth == isGroup' = isGroup /\ RowsStay

LEMMA FanOutGrowth ==
    ASSUME TypeOK, NEW c \in Calls, FanOut(c)
    PROVE  Growth
<1>1. PICK v \in queue[c] : RouteTo(c, v)
  BY DEF FanOut, Foremost
<1>2. v.wiring.agent \in Agents /\ c[1] \in Messages
  BY VisitTypes DEF TypeOK, Calls
<1>3. RowsStay
  BY <1>1, RouteRows DEF RowsStay
<1> QED
  BY <1>3 DEF FanOut, adminVars, Growth

LEMMA OtherStepsStore ==
    ASSUME [Next]_vars, ~ \E c \in Calls : FanOut(c)
    PROVE  isGroup' = isGroup /\ stored' = stored
<1> USE DEF adminVars
<1>1. ASSUME SenderFlow
      PROVE  isGroup' = isGroup /\ stored' = stored
  BY <1>1 DEF SenderFlow, SenderGivenUp, SenderAsked, SenderCardSent, AllowSender, DenySender
<1>2. ASSUME ChatFlow
      PROVE  isGroup' = isGroup /\ stored' = stored
  BY <1>2 DEF ChatFlow, ChatGivenUp, ChatAsked, ChatCardSent, ConnectChat, NameReply,
              RejectChat, AskName, NamePromptFails
<1>3. ASSUME Operator
      PROVE  isGroup' = isGroup /\ stored' = stored
  BY <1>3 DEF Operator, SetPolicy, SetDenied, WireAgent, UpdateWiring, UnwireAgent, SetWirings,
              AddMember, RemoveMember
<1>4. ASSUME NEW e \in Messages, Arrive(e)
      PROVE  isGroup' = isGroup /\ stored' = stored
  BY <1>4 DEF Arrive
<1>5. CASE HostRestart
  BY <1>5 DEF HostRestart
<1>6. CASE UNCHANGED vars
  BY <1>6 DEF vars
<1> QED
  BY <1>1, <1>2, <1>3, <1>4, <1>5, <1>6 DEF Next

LEMMA StepGrowth ==
    ASSUME TypeOK, [Next]_vars
    PROVE  Growth
BY OtherStepsStore, FanOutGrowth DEF Growth, RowsStay

LEMMA StillEngages ==
    ASSUME Growth, NEW w, w.agent \in Agents, NEW e \in Messages, Engages(w, e)
    PROVE  Engages(w, e)'
BY DEF Engages, HasSession, Growth, RowsStay

-----------------------------------------------------------------------------
(* Refusals.                                                               *)

(* A rule under which a message is refused stays one, whatever the policy  *)
(* is, unless that becomes public or the sender becomes a member.          *)
LEMMA StillRefuses ==
    ASSUME TypeOK, Growth, NEW e \in Messages, NEW u \in Visits, NEW v,
           Refuses(u, e), v.wiring = u.wiring,
           v.policy = u.policy \/ v.policy # "public" \/ v.wiring.known,
           From[e] \in members'[v.wiring.agent] => From[e] \in members[v.wiring.agent]
    PROVE  Refuses(v, e)'
<1>1. Engages(v.wiring, e)'
  BY VisitTypes, StillEngages DEF Refuses
<1> QED
  BY <1>1 DEF Refuses, AccessOk, ScopeOk

LEMMA RulesAre ==
    ASSUME TypeOK, NEW a, NEW e \in Messages
    PROVE  Rules(a, e) \subseteq Visits /\ \A v \in Rules(a, e) : v.wiring.agent = a
<1>1. WiringsOf(a) \subseteq Wirings
  BY DEF WiringsOf, TypeOK
<1>2. VisitsTo(WiringsOf(a)) \subseteq Visits
  BY <1>1, VisitsToTypes
<1>3. \A v \in VisitsTo(WiringsOf(a)) : v.wiring.agent = a
  BY DEF VisitsTo, WiringsOf
<1> QED
  BY <1>2, <1>3, CallsOf DEF Rules, TypeOK

(* The rules for a message at an agent after a step are old ones, or have  *)
(* another policy that is not public or does not matter.                   *)
Milder(v, u) ==
    v.wiring = u.wiring /\ (v.policy = u.policy \/ v.policy # "public" \/ v.wiring.known)

LEMMA RefusalsKept ==
    ASSUME TypeOK, Growth, Refusals, stored' = stored, turnedAway' \subseteq turnedAway,
           \A t \in turnedAway' :
             /\ From[t[1]] \in members'[t[2]] => From[t[1]] \in members[t[2]]
             /\ \A v \in Rules(t[2], t[1])' : \E u \in Rules(t[2], t[1]) : Milder(v, u)
    PROVE  Refusals'
<1> SUFFICES ASSUME NEW t \in turnedAway'
             PROVE  /\ stored'[t[2]][t[1]] = "none"
                    /\ \A v \in Rules(t[2], t[1])' : Refuses(v, t[1])'
  BY DEF Refusals
<1>1. t \in turnedAway /\ t[1] \in Messages /\ t[2] \in Agents
  BY DEF TypeOK
<1>2. ASSUME NEW v \in Rules(t[2], t[1])'
      PROVE  Refuses(v, t[1])'
  <2>1. PICK u \in Rules(t[2], t[1]) : Milder(v, u)
    BY <1>2
  <2>2. u \in Visits /\ u.wiring.agent = t[2] /\ Refuses(u, t[1])
    BY <1>1, <2>1, RulesAre DEF Refusals
  <2> QED
    BY <1>1, <2>1, <2>2, StillRefuses DEF Milder
<1> QED
  BY <1>1, <1>2 DEF Refusals

(* The rules after a step that begins no call but over the wirings there   *)
(* are by then.                                                            *)
LEMMA RulesShrink ==
    ASSUME NEW a, NEW e \in Messages, policy' = policy, WiringsOf(a)' \subseteq WiringsOf(a),
           \A c \in {<<e, "live">>, <<e, "replay">>} :
             queue'[c] \subseteq queue[c] \cup VisitsTo(wirings)'
    PROVE  Rules(a, e)' \subseteq Rules(a, e)
<1> SUFFICES ASSUME NEW v \in Rules(a, e)'
             PROVE  v \in Rules(a, e)
  OBVIOUS
<1>1. CASE v \in VisitsTo(WiringsOf(a))'
  BY <1>1 DEF Rules, VisitsTo
<1>2. CASE v \notin VisitsTo(WiringsOf(a))'
  <2>1. PICK c \in {<<e, "live">>, <<e, "replay">>} : v \in queue'[c] /\ v.wiring.agent = a
    BY <1>2 DEF Rules
  <2>2. CASE v \in queue[c]
    BY <2>1, <2>2 DEF Rules
  <2>3. CASE v \in VisitsTo(wirings)'
    BY <1>2, <2>1, <2>3 DEF VisitsTo, WiringsOf
  <2> QED
    BY <2>1, <2>2, <2>3
<1> QED
  BY <1>1, <1>2

LEMMA RouteBegins ==
    ASSUME TypeOK, NEW c \in Calls, NEW ws, ws = wirings', policy' = policy, Route(c, ws)
    PROVE  /\ queue'[c] \subseteq queue[c] \cup VisitsTo(wirings)'
           /\ \A d \in Calls : d # c => queue'[d] = queue[d]
           /\ ws # {} => queue'[c] = VisitsTo(wirings)'
BY DEF TypeOK, Route, VisitsTo

(* One turn of the fan-out refuses a message, or hands over another one.   *)
LEMMA FanOutRefusals ==
    ASSUME TypeOK, Refusals, NEW c \in Calls, FanOut(c)
    PROVE  Refusals'
<1>1. PICK v \in queue[c] : RouteTo(c, v)
  BY DEF FanOut, Foremost
<1> DEFINE a == v.wiring.agent
<1>2. a \in Agents /\ c[1] \in Messages /\ (c = <<c[1], "live">> \/ c = <<c[1], "replay">>)
  BY VisitTypes DEF TypeOK, Calls
<1>3. Growth /\ members' = members /\ policy' = policy /\ wirings' = wirings
  BY FanOutGrowth DEF FanOut, adminVars
<1>4. ASSUME NEW t \in turnedAway
      PROVE  /\ t[1] \in Messages /\ t[2] \in Agents /\ stored'[t[2]][t[1]] = "none"
             /\ \A u \in Rules(t[2], t[1]) : Refuses(u, t[1])
  <2>1. /\ t[1] \in Messages /\ t[2] \in Agents /\ stored[t[2]][t[1]] = "none"
        /\ \A u \in Rules(t[2], t[1]) : Refuses(u, t[1])
    BY DEF TypeOK, Refusals
  <2>2. CASE t[1] = c[1] /\ t[2] = a
    <3>1. v \in Rules(t[2], t[1])
      BY <1>2, <2>2 DEF Rules
    <3>2. Refuses(v, c[1])
      BY <2>1, <2>2, <3>1
    <3> QED
      BY <1>1, <2>1, <3>2 DEF RouteTo, Refuses
  <2>3. CASE t[1] # c[1] \/ t[2] # a
    BY <1>1, <2>1, <2>3, RouteRows
  <2> QED
    BY <2>1, <2>2, <2>3
<1>5. ASSUME NEW t \in turnedAway', t \notin turnedAway
      PROVE  /\ t[1] \in Messages /\ t[2] \in Agents /\ stored'[t[2]][t[1]] = "none"
             /\ \A u \in Rules(t[2], t[1]) : Refuses(u, t[1])
  <2>1. TurnAway(a, c[1]) /\ stored' = stored
    BY <1>1, <1>5 DEF RouteTo
  <2>2. t = <<c[1], a>> /\ stored[a][c[1]] = "none" /\ \A u \in Rules(a, c[1]) : Refuses(u, c[1])
    BY <1>5, <2>1 DEF TurnAway
  <2> QED
    BY <1>2, <2>1, <2>2
<1>6. ASSUME NEW t \in turnedAway', NEW u \in Rules(t[2], t[1])'
      PROVE  Refuses(u, t[1])'
  <2>1. /\ t[1] \in Messages /\ t[2] \in Agents
        /\ \A w \in Rules(t[2], t[1]) : Refuses(w, t[1])
    BY <1>4, <1>5
  <2>2. u \in Rules(t[2], t[1])
    <3>1. WiringsOf(t[2])' \subseteq WiringsOf(t[2])
      BY <1>3 DEF WiringsOf
    <3>2. \A d \in Calls : queue'[d] \subseteq queue[d]
      BY <1>1, RouteQueues
    <3> QED
      BY <1>3, <2>1, <3>1, <3>2, CallsOf, RulesShrink
  <2> QED
    BY <1>3, <2>1, <2>2, RulesAre, StillRefuses
<1> QED
  BY <1>4, <1>5, <1>6 DEF Refusals

(* Steps that leave the wirings and the policy alone and admit nobody, or  *)
(* only the sender of the refusals they take back.                         *)
LEMMA SteadyRefusals ==
    ASSUME TypeOK, Growth, Refusals, stored' = stored, turnedAway' \subseteq turnedAway,
           policy' = policy, \A t \in turnedAway' : WiringsOf(t[2])' \subseteq WiringsOf(t[2]),
           \A c \in Calls : queue'[c] \subseteq queue[c] \cup VisitsTo(wirings)',
           \A t \in turnedAway' : From[t[1]] \in members'[t[2]] => From[t[1]] \in members[t[2]]
    PROVE  Refusals'
<1>1. ASSUME NEW t \in turnedAway', NEW v \in Rules(t[2], t[1])'
      PROVE  v \in Rules(t[2], t[1])
  <2>1. t[1] \in Messages
    BY DEF TypeOK
  <2> QED
    BY <1>1, <2>1, CallsOf, RulesShrink
<1> QED
  BY <1>1, RefusalsKept DEF Milder

(* Who is admitted to an agent: the sender.                                *)
LEMMA Admitted ==
    ASSUME TypeOK, NEW s \in Senders, NEW a \in Agents, Admit(s, a)
    PROVE  /\ \A b \in Agents : members[b] \subseteq members'[b]
           /\ \A b \in Agents, r \in Senders :
                r \in members'[b] => r \in members[b] \/ (r = s /\ b = a)
           /\ s \in members'[a]
BY DEF TypeOK, Admit

LEMMA RefusalsStep ==
    ASSUME TypeOK, Refusals, [Next]_vars
    PROVE  Refusals'
<1> USE StepGrowth DEF adminVars, history
<1>p. \A t \in turnedAway : t[1] \in Messages /\ t[2] \in Agents /\ From[t[1]] \in Senders
  BY SendersOf DEF TypeOK
<1>q. ASSUME UNCHANGED <<wirings, policy, members, stored>>, turnedAway' \subseteq turnedAway,
             \A c \in Calls : queue'[c] \subseteq queue[c] \cup VisitsTo(wirings)'
      PROVE  Refusals'
  BY <1>q, SteadyRefusals DEF WiringsOf
<1>1. ASSUME NEW s \in Senders, AllowSender(s)
      PROVE  Refusals'
  <2>1. PICK a \in Agents, e \in Messages : Admit(s, a) /\ Reprieve(s, a) /\ Replay(e, a, wirings)
    BY <1>1, CardHolds DEF AllowSender
  <2>2. wirings' = wirings /\ policy' = policy /\ stored' = stored
    BY <1>1 DEF AllowSender
  <2>3. \A c \in Calls : queue'[c] \subseteq queue[c] \cup VisitsTo(wirings)'
    BY <2>1, <2>2, CallsOf, RouteBegins DEF Replay
  <2>4. turnedAway' \subseteq turnedAway /\ \A t \in turnedAway' : From[t[1]] # s \/ t[2] # a
    BY <2>1 DEF Reprieve
  <2> QED
    BY <1>p, <2>1, <2>2, <2>3, <2>4, Admitted, SteadyRefusals DEF WiringsOf
<1>2. ASSUME NEW a \in Agents, WiringsOf(a) = {}, chatRow \in Messages, WireApproved(a),
             stored' = stored, policy' = policy
      PROVE  Refusals'
  <2>1. /\ wirings' = wirings \cup {CardWiring(a)} /\ Reopen(a)
        /\ Admit(From[chatRow], a) /\ Replay(chatRow, a, wirings')
    BY <1>2 DEF WireApproved
  <2>2. turnedAway' \subseteq turnedAway /\ \A t \in turnedAway' : t[2] # a
    BY <2>1 DEF Reopen
  <2>3. \A t \in turnedAway' : WiringsOf(t[2])' \subseteq WiringsOf(t[2])
    BY <2>1, <2>2 DEF WiringsOf, CardWiring
  <2>4. \A c \in Calls : queue'[c] \subseteq queue[c] \cup VisitsTo(wirings)'
    BY <1>2, <2>1, CallsOf, RouteBegins DEF Replay
  <2> QED
    BY <1>p, <1>2, <2>1, <2>2, <2>3, <2>4, SendersOf, Admitted, SteadyRefusals
<1>3. ASSUME NEW a \in Connectable, ConnectChat(a) \/ NameReply(a)
      PROVE  Refusals'
  <2>1. a \in Agents /\ stored' = stored /\ policy' = policy
    BY <1>3, ConstantsOK DEF ConnectChat, NameReply
  <2>2. CASE chatRow = None \/ WiringsOf(a) # {}
    <3>1. UNCHANGED <<wirings, members, turnedAway, queue>>
      BY <1>3, <2>2 DEF ConnectChat, NameReply, UseChatCard, WireApproved
    <3> QED
      BY <2>1, <3>1, <1>q
  <2>3. CASE chatRow # None /\ WiringsOf(a) = {}
    <3>1. WireApproved(a) /\ chatRow \in Messages
      BY <1>3, <2>3 DEF ConnectChat, NameReply, UseChatCard, TypeOK
    <3> QED
      BY <1>2, <2>1, <2>3, <3>1
  <2> QED
    BY <2>2, <2>3
<1>4. ASSUME NEW p \in Policies, SetPolicy(p)
      PROVE  Refusals'
  <2>1. ASSUME NEW t \in turnedAway', NEW v \in Rules(t[2], t[1])'
        PROVE  \E u \in Rules(t[2], t[1]) : Milder(v, u)
    <3>1. queue' = queue /\ wirings' = wirings /\ policy' = p
      BY <1>4 DEF SetPolicy
    <3>2. CASE v \in VisitsTo(WiringsOf(t[2]))'
      <4>1. v.wiring \in WiringsOf(t[2]) /\ v.policy = p
        BY <3>1, <3>2 DEF VisitsTo, WiringsOf
      <4>2. p = "public" => v.wiring.known
        BY <1>4, <2>1, <4>1 DEF SetPolicy
      <4> DEFINE u == [wiring |-> v.wiring, policy |-> policy]
      <4>3. u \in Rules(t[2], t[1])
        BY <4>1 DEF Rules, VisitsTo
      <4>4. u.wiring = v.wiring
        OBVIOUS
      <4> QED
        BY <4>1, <4>2, <4>3, <4>4 DEF Milder
    <3>3. CASE v \notin VisitsTo(WiringsOf(t[2]))'
      BY <2>1, <3>1, <3>3 DEF Rules, Milder
    <3> QED
      BY <3>2, <3>3
  <2>2. stored' = stored /\ members' = members /\ turnedAway' \subseteq turnedAway
    BY <1>4 DEF SetPolicy
  <2> QED
    BY <2>1, <2>2, RefusalsKept
<1>5. ASSUME NEW ws, SetWirings(ws), turnedAway' \subseteq turnedAway,
             \A t \in turnedAway', w \in ws : w.agent = t[2] => w \in wirings
      PROVE  Refusals'
  <2>1. \A t \in turnedAway' : WiringsOf(t[2])' \subseteq WiringsOf(t[2])
    BY <1>5 DEF SetWirings, WiringsOf
  <2>2. UNCHANGED <<policy, members, queue, stored>>
    BY <1>5 DEF SetWirings
  <2> QED
    BY <1>5, <2>1, <2>2, SteadyRefusals
<1>6. ASSUME NEW w \in Choices, WireAgent(w) \/ UpdateWiring(w)
      PROVE  Refusals'
  <2>1. PICK ws : SetWirings(ws) /\ Reopen(w.agent) /\ ws \subseteq wirings \cup {w}
    BY <1>6 DEF WireAgent, UpdateWiring
  <2> QED
    BY <2>1, <1>5 DEF Reopen
<1>7. ASSUME NEW a \in Agents, UnwireAgent(a)
      PROVE  Refusals'
  BY <1>7, <1>5 DEF UnwireAgent
<1>8. ASSUME NEW k \in Known, AddMember(k[2], k[1])
      PROVE  Refusals'
  <2>1. k[1] \in Agents /\ k[2] \in Senders /\ Admit(k[2], k[1]) /\ Reprieve(k[2], k[1])
    BY <1>8, ConstantsOK DEF AddMember
  <2>2. UNCHANGED <<wirings, policy, queue, stored>>
    BY <1>8 DEF AddMember
  <2>3. turnedAway' \subseteq turnedAway /\ \A t \in turnedAway' : From[t[1]] # k[2] \/ t[2] # k[1]
    BY <2>1 DEF Reprieve
  <2> QED
    BY <1>p, <2>1, <2>2, <2>3, Admitted, SteadyRefusals DEF WiringsOf
<1>9. ASSUME NEW k \in Known, RemoveMember(k[2], k[1])
      PROVE  Refusals'
  <2>1. UNCHANGED <<wirings, policy, queue, stored, turnedAway>>
    BY <1>9 DEF RemoveMember
  <2>2. \A b \in Agents : members'[b] \subseteq members[b]
    BY <1>9 DEF RemoveMember, TypeOK
  <2> QED
    BY <1>p, <2>1, <2>2, SteadyRefusals DEF WiringsOf
<1>10. ASSUME NEW e \in Messages, Arrive(e)
       PROVE  Refusals'
  <2>1. \A c \in Calls : queue'[c] \subseteq queue[c] \cup VisitsTo(wirings)'
    BY <1>10, CallsOf, RouteBegins DEF Arrive
  <2> QED
    BY <1>10, <2>1, <1>q DEF Arrive
<1>11. CASE HostRestart
  BY <1>11, <1>q DEF HostRestart
<1>12. ASSUME SenderFlow, ~ \E s \in Senders : AllowSender(s)
       PROVE  Refusals'
  <2>1. UNCHANGED <<wirings, policy, members, stored, turnedAway, queue>>
    BY <1>12 DEF SenderFlow, SenderGivenUp, SenderAsked, SenderCardSent, DenySender
  <2> QED
    BY <2>1, <1>q
<1>13. ASSUME ChatFlow, ~ \E a \in Connectable : ConnectChat(a) \/ NameReply(a)
       PROVE  Refusals'
  <2>1. UNCHANGED <<wirings, policy, members, stored, turnedAway, queue>>
    BY <1>13 DEF ChatFlow, ChatGivenUp, ChatAsked, ChatCardSent, RejectChat, AskName,
                NamePromptFails
  <2> QED
    BY <2>1, <1>q
<1>14. ASSUME NEW d \in BOOLEAN, SetDenied(d)
       PROVE  Refusals'
  BY <1>14, <1>q DEF SetDenied
<1>15. CASE UNCHANGED vars
  BY <1>15, <1>q DEF vars
<1>16. Operator => Refusals'
  BY <1>4, <1>6, <1>7, <1>8, <1>9, <1>14 DEF Operator
<1>17. SenderFlow \/ ChatFlow => Refusals'
  BY <1>1, <1>3, <1>12, <1>13
<1> QED
  BY <1>10, <1>11, <1>15, <1>16, <1>17, FanOutRefusals DEF Next
-----------------------------------------------------------------------------
(* Admissions.                                                             *)

LEMMA FanOutHolds ==
    ASSUME TypeOK, Holds, NEW c \in Calls, FanOut(c)
    PROVE  Holds'
<1>1. PICK v \in queue[c] : RouteTo(c, v)
  BY DEF FanOut, Foremost
<1>2. ASSUME NEW s \in Senders
      PROVE  senderRow'[s] = senderRow[s] \/ senderRow'[s] \in {None, Stamp}
  BY <1>1, SendersOf DEF RouteTo, RefuseSender, TypeOK, Calls
<1> QED
  BY <1>2 DEF Holds

LEMMA HoldsStep ==
    ASSUME TypeOK, Holds, [Next]_vars
    PROVE  Holds'
<1> USE DEF senderVars
<1>1. ASSUME NEW e \in Messages, NEW a \in Agents, SenderAsked(e, a)
      PROVE  Holds'
  <2>1. Card(a, e).event = e
    BY DEF Card
  <2>2. \A s \in Senders : \/ senderRow'[s] = senderRow[s]
                           \/ s = From[e] /\ senderRow'[s] = Card(a, e)
    BY <1>1, SendersOf DEF SenderAsked, TypeOK
  <2> QED
    BY <2>1, <2>2 DEF Holds
<1>2. ASSUME NEW s \in Senders, AllowSender(s) \/ DenySender(s)
      PROVE  Holds'
  <2>1. \A r \in Senders : senderRow'[r] = senderRow[r] \/ senderRow'[r] = None
    BY <1>2 DEF AllowSender, DenySender, CloseSender, TypeOK
  <2> QED
    BY <2>1 DEF Holds
<1>3. SenderFlow => Holds' \/ UNCHANGED senderRow
  BY <1>1, <1>2 DEF SenderFlow, SenderGivenUp, SenderCardSent
<1>4. ChatFlow => UNCHANGED senderRow
  BY DEF ChatFlow, ChatGivenUp, ChatAsked, ChatCardSent, ConnectChat, NameReply,
         RejectChat, AskName, NamePromptFails
<1>5. Operator => UNCHANGED senderRow
  BY DEF Operator, SetPolicy, SetDenied, WireAgent, UpdateWiring, UnwireAgent, SetWirings,
         AddMember, RemoveMember
<1>6. \A e \in Messages : Arrive(e) => UNCHANGED senderRow
  BY DEF Arrive
<1>7. HostRestart \/ UNCHANGED vars => UNCHANGED senderRow
  BY DEF HostRestart, vars
<1>8. UNCHANGED senderRow => Holds'
  BY DEF Holds
<1> QED
  BY <1>3, <1>4, <1>5, <1>6, <1>7, <1>8, FanOutHolds DEF Next

LEMMA PromisesOf ==
    ASSUME TypeOK, NEW p \in promised
    PROVE  p[1] \in Messages /\ p[2] \in Agents /\ <<p[1], "replay">> \in Calls
BY CallsOf DEF TypeOK

(* A visit that is still to come goes as it would have gone before.        *)
LEMMA StillOnItsWay ==
    ASSUME TypeOK, Growth, NEW p \in Messages \X Agents,
           From[p[1]] \in members'[p[2]],
           NEW v \in queue'[<<p[1], "replay">>],
           v.wiring.agent = p[2], Engages(v.wiring, p[1]) \/ v.wiring.keeps
    PROVE  OnItsWay(p)'
<1>1. (Engages(v.wiring, p[1]) \/ v.wiring.keeps)'
  BY StillEngages
<1> QED
  BY <1>1 DEF OnItsWay

(* The replays go on, and nobody is expelled from an agent that is to hear *)
(* of a message.                                                           *)
LEMMA QuietAdmissions ==
    ASSUME TypeOK, Growth, Admissions, promised' \subseteq promised, cut \subseteq cut',
           \A p \in promised' : /\ From[p[1]] \in members[p[2]] => From[p[1]] \in members'[p[2]]
                                /\ queue[<<p[1], "replay">>] \subseteq queue'[<<p[1], "replay">>]
    PROVE  Admissions'
<1> SUFFICES ASSUME NEW p \in promised'
             PROVE  (Heard(p) \/ p \in cut \/ OnItsWay(p))'
  BY DEF Admissions
<1>1. p \in promised /\ p \in Messages \X Agents /\ p[1] \in Messages /\ p[2] \in Agents
  BY DEF TypeOK
<1>2. CASE Heard(p)
  BY <1>1, <1>2 DEF Heard, Growth, RowsStay
<1>3. CASE OnItsWay(p)
  <2>1. PICK v \in queue[<<p[1], "replay">>] :
          v.wiring.agent = p[2] /\ (Engages(v.wiring, p[1]) \/ v.wiring.keeps)
    BY <1>3 DEF OnItsWay
  <2> QED
    BY <1>1, <1>3, <2>1, StillOnItsWay DEF OnItsWay
<1> QED
  BY <1>1, <1>2, <1>3 DEF Admissions

(* A turn of the fan-out is the visit of the promise, or leaves it to come *)
(* or ends the replay.                                                     *)
LEMMA FanOutAdmissions ==
    ASSUME TypeOK, Admissions, NEW c \in Calls, FanOut(c)
    PROVE  Admissions'
<1>1. PICK v \in queue[c] : RouteTo(c, v)
  BY DEF FanOut, Foremost
<1>2. Growth /\ members' = members /\ promised' = promised
  BY FanOutGrowth DEF FanOut, adminVars
<1>3. cut \subseteq cut'
  BY <1>1 DEF RouteTo, Store, CutShort
<1> SUFFICES ASSUME NEW p \in promised
             PROVE  (Heard(p) \/ p \in cut \/ OnItsWay(p))'
  BY <1>2 DEF Admissions
<1>4. p \in Messages \X Agents /\ p[1] \in Messages /\ p[2] \in Agents
  BY DEF TypeOK
<1>5. CASE Heard(p)
  BY <1>2, <1>4, <1>5 DEF Heard, Growth, RowsStay
<1>6. ASSUME OnItsWay(p), ~Heard(p)
      PROVE  (Heard(p) \/ p \in cut \/ OnItsWay(p))'
  <2> DEFINE q == <<p[1], "replay">>
  <2>1. PICK u \in queue[q] :
          u.wiring.agent = p[2] /\ (Engages(u.wiring, p[1]) \/ u.wiring.keeps)
    BY <1>6 DEF OnItsWay
  <2>2. From[p[1]] \in members'[p[2]] /\ stored[p[2]][p[1]] = "none"
    BY <1>2, <1>6 DEF OnItsWay, Heard
  <2>3. CASE u \in queue'[q]
    BY <1>2, <1>4, <2>1, <2>2, <2>3, StillOnItsWay
  <2>4. CASE u \notin queue'[q]
    <3>1. c = q
      <4>1. c # q => queue'[q] = queue[q]
        BY <1>1, <1>4, CallsOf, RouteQueues
      <4> QED
        BY <2>1, <2>4, <4>1
    <3>2. CASE u = v
      <4>1. AccessOk(v, p[1]) /\ ScopeOk(v, p[1])
        BY <1>2, <2>1, <2>2, <3>2 DEF AccessOk, ScopeOk
      <4>2. PICK r \in {"context", "trigger"} : Store(c, v, r)
        BY <1>1, <2>1, <3>1, <3>2, <4>1 DEF RouteTo
      <4>3. stored' = [stored EXCEPT ![p[2]][p[1]] = r]
        BY <2>1, <2>2, <3>1, <3>2, <4>2 DEF Store
      <4>4. stored'[p[2]][p[1]] = r
        BY <1>4, <4>3 DEF TypeOK
      <4> QED
        BY <4>4 DEF Heard
    <3>3. CASE u # v
      <4>1. ~Proceed(c, v)
        BY <2>1, <2>4, <3>1, <3>3 DEF Proceed, TypeOK
      <4>2. CutShort(c, v)
        BY <1>1, <4>1 DEF RouteTo, Store
      <4>3. p \in cut'
        BY <2>1, <3>1, <3>3, <4>2 DEF CutShort
      <4> QED
        BY <4>3
    <3> QED
      BY <3>2, <3>3
  <2> QED
    BY <2>3, <2>4
<1> QED
  BY <1>3, <1>5, <1>6 DEF Admissions

(* A replay begins: an earlier one of the message is over, and the agent   *)
(* it is for is among those it is to visit.                                *)
LEMMA ReplayAdmissions ==
    ASSUME TypeOK, Growth, Admissions, stored' = stored, policy' = policy,
           NEW e \in Messages, NEW a \in Agents, NEW ws, ws = wirings', Replay(e, a, ws),
           \A b \in Agents : members[b] \subseteq members'[b], From[e] \in members'[a]
    PROVE  Admissions'
<1> DEFINE q == <<e, "replay">>
<1>1. q \in Calls /\ queue[q] = {} /\ Route(q, ws)
  BY CallsOf DEF Replay, Idle
<1>2. /\ \A d \in Calls : d # q => queue'[d] = queue[d]
      /\ ws # {} => queue'[q] = VisitsTo(wirings)'
  BY <1>1, RouteBegins
<1> SUFFICES ASSUME NEW p \in promised'
             PROVE  (Heard(p) \/ p \in cut \/ OnItsWay(p))'
  BY DEF Admissions
<1>3. CASE Takes(a, e, ws) /\ p = <<e, a>>
  <2>1. PICK w \in ws : w.agent = a /\ (Engages(w, e) \/ w.keeps)
    BY <1>3 DEF Takes
  <2> DEFINE v == [wiring |-> w, policy |-> policy']
  <2>2. v \in queue'[q]
    BY <1>2, <2>1 DEF VisitsTo
  <2>3. v.wiring = w
    OBVIOUS
  <2> QED
    BY <1>3, <2>1, <2>2, <2>3, StillOnItsWay
<1>4. CASE ~(Takes(a, e, ws) /\ p = <<e, a>>)
  <2>1. p \in promised /\ (p \in cut => p \in cut')
    BY <1>4 DEF Replay
  <2>2. /\ p \in Messages \X Agents /\ p[1] \in Messages /\ p[2] \in Agents
        /\ <<p[1], "replay">> \in Calls
    BY <2>1, CallsOf DEF TypeOK
  <2>3. CASE Heard(p)
    BY <2>3 DEF Heard
  <2>4. CASE OnItsWay(p)
    <3>1. PICK v \in queue[<<p[1], "replay">>] :
            v.wiring.agent = p[2] /\ (Engages(v.wiring, p[1]) \/ v.wiring.keeps)
      BY <2>4 DEF OnItsWay
    <3>2. queue'[<<p[1], "replay">>] = queue[<<p[1], "replay">>]
      BY <1>1, <1>2, <2>2, <3>1
    <3>3. From[p[1]] \in members'[p[2]]
      BY <2>2, <2>4 DEF OnItsWay
    <3> QED
      BY <2>2, <3>1, <3>2, <3>3, StillOnItsWay
  <2> QED
    BY <2>1, <2>3, <2>4 DEF Admissions
<1> QED
  BY <1>3, <1>4

LEMMA AdmissionsStep ==
    ASSUME TypeOK, Holds, Admissions, [Next]_vars
    PROVE  Admissions'
<1> USE StepGrowth DEF adminVars, history
<1>q. ASSUME UNCHANGED <<promised, cut, members, queue>>
      PROVE  Admissions'
  BY <1>q, QuietAdmissions
<1>1. ASSUME NEW s \in Senders, AllowSender(s)
      PROVE  Admissions'
  <2>1. PICK a \in Agents, e \in Messages : /\ senderRow[s] \notin {None, Stamp}
                                            /\ senderRow[s].event = e
                                            /\ Admit(s, a) /\ Replay(e, a, wirings)
    BY <1>1, CardHolds DEF AllowSender, Answerable
  <2>2. From[e] = s
    BY <2>1 DEF Holds
  <2>3. wirings' = wirings /\ policy' = policy /\ stored' = stored
    BY <1>1 DEF AllowSender
  <2> QED
    BY <2>1, <2>2, <2>3, Admitted, ReplayAdmissions
<1>2. ASSUME NEW a \in Connectable, ConnectChat(a) \/ NameReply(a)
      PROVE  Admissions'
  <2>1. a \in Agents /\ stored' = stored /\ policy' = policy
    BY <1>2, ConstantsOK DEF ConnectChat, NameReply
  <2>2. CASE chatRow = None \/ WiringsOf(a) # {}
    <3>1. UNCHANGED <<promised, cut, members, queue>>
      BY <1>2, <2>2 DEF ConnectChat, NameReply, UseChatCard, WireApproved
    <3> QED
      BY <3>1, <1>q
  <2>3. CASE chatRow # None /\ WiringsOf(a) = {}
    <3>1. /\ chatRow \in Messages /\ Admit(From[chatRow], a)
          /\ Replay(chatRow, a, wirings')
      BY <1>2, <2>3 DEF ConnectChat, NameReply, UseChatCard, WireApproved, TypeOK
    <3> QED
      BY <2>1, <3>1, SendersOf, Admitted, ReplayAdmissions
  <2> QED
    BY <2>2, <2>3
<1>3. ASSUME NEW k \in Known, AddMember(k[2], k[1])
      PROVE  Admissions'
  <2>1. k[1] \in Agents /\ k[2] \in Senders /\ Admit(k[2], k[1])
    BY <1>3, ConstantsOK DEF AddMember
  <2>2. UNCHANGED <<promised, cut, queue>>
    BY <1>3 DEF AddMember
  <2>3. \A p \in promised : p[2] \in Agents
    BY DEF TypeOK
  <2> QED
    BY <2>1, <2>2, <2>3, Admitted, QuietAdmissions
<1>4. ASSUME NEW k \in Known, RemoveMember(k[2], k[1])
      PROVE  Admissions'
  <2>1. UNCHANGED <<cut, queue>> /\ promised' = {p \in promised : From[p[1]] # k[2] \/ p[2] # k[1]}
    BY <1>4 DEF RemoveMember
  <2>2. ASSUME NEW p \in promised', From[p[1]] \in members[p[2]]
        PROVE  From[p[1]] \in members'[p[2]]
    <3>1. p[2] \in Agents /\ (From[p[1]] # k[2] \/ p[2] # k[1])
      BY <2>1 DEF TypeOK
    <3> QED
      BY <1>4, <2>2, <3>1 DEF RemoveMember, TypeOK
  <2> QED
    BY <2>1, <2>2, QuietAdmissions
<1>5. ASSUME NEW e \in Messages, Arrive(e)
      PROVE  Admissions'
  <2>1. \A d \in Calls : d # <<e, "live">> => queue'[d] = queue[d]
    BY <1>5, CallsOf, RouteBegins DEF Arrive
  <2>2. \A p \in promised : queue'[<<p[1], "replay">>] = queue[<<p[1], "replay">>]
    BY <2>1, PromisesOf
  <2> QED
    BY <1>5, <2>2, QuietAdmissions DEF Arrive
<1>6. CASE HostRestart
  <2>1. ASSUME NEW p \in promised'
        PROVE  (Heard(p) \/ p \in cut \/ OnItsWay(p))'
    <3>1. p \in promised /\ Idle(<<p[1], "replay">>) /\ stored' = stored /\ cut' = cut
      BY <1>6 DEF HostRestart
    <3>2. ~OnItsWay(p)
      BY <3>1 DEF OnItsWay, Idle
    <3> QED
      BY <3>1, <3>2 DEF Admissions, Heard
  <2> QED
    BY <2>1 DEF Admissions
<1>7. ASSUME SenderFlow, ~ \E s \in Senders : AllowSender(s)
      PROVE  UNCHANGED <<promised, cut, members, queue>>
  BY <1>7 DEF SenderFlow, SenderGivenUp, SenderAsked, SenderCardSent, DenySender
<1>8. ASSUME ChatFlow, ~ \E a \in Connectable : ConnectChat(a) \/ NameReply(a)
      PROVE  UNCHANGED <<promised, cut, members, queue>>
  BY <1>8 DEF ChatFlow, ChatGivenUp, ChatAsked, ChatCardSent, RejectChat, AskName,
              NamePromptFails
<1>9. ASSUME Operator, ~ \E k \in Known : \/ AddMember(k[2], k[1])
                                          \/ RemoveMember(k[2], k[1])
      PROVE  UNCHANGED <<promised, cut, members, queue>>
  BY <1>9 DEF Operator, SetPolicy, SetDenied, WireAgent, UpdateWiring, UnwireAgent, SetWirings
<1>10. CASE UNCHANGED vars
  BY <1>10, <1>q DEF vars
<1>11. SenderFlow \/ ChatFlow \/ Operator => Admissions'
  BY <1>1, <1>2, <1>3, <1>4, <1>7, <1>8, <1>9, <1>q
<1> QED
  BY <1>5, <1>6, <1>10, <1>11, FanOutAdmissions DEF Next

-----------------------------------------------------------------------------
(* Requests.                                                               *)

(* Steps that decide nothing about the chat: one that is decided gets no   *)
(* new request, and a card only for a request there was.                   *)
LEMMA QuietRequests ==
    ASSUME Requests, UNCHANGED <<denied, wirings, overdue>>,
           Decided => /\ chatReqs' \subseteq chatReqs
                      /\ chatRow' \in {chatRow, None} \cup chatReqs
    PROVE  Requests'
BY DEF Requests, Decided

(* Steps that may decide about the chat ask for nothing themselves.        *)
LEMMA NotedRequests ==
    ASSUME Requests, NoteDecision, chatReqs' \subseteq chatReqs, chatRow' \in {chatRow, None}
    PROVE  Requests'
BY DEF Requests, NoteDecision

(* A decided chat asks for nothing when a message is routed over the       *)
(* wirings there are.                                                      *)
LEMMA RouteAsks ==
    ASSUME NEW c, Route(c, wirings), Decided
    PROVE  chatReqs' = chatReqs
BY DEF Route, Escalate, Decided

LEMMA SenderFlowRequests ==
    ASSUME TypeOK, Requests, SenderFlow
    PROVE  Requests'
<1>1. ASSUME NEW s \in Senders, AllowSender(s)
      PROVE  Requests'
  <2>1. /\ UNCHANGED <<denied, wirings, overdue, chatRow>>
        /\ Replay(senderRow[s].event, senderRow[s].agent, wirings)
    BY <1>1 DEF AllowSender, cardVars
  <2>2. Decided => chatReqs' = chatReqs
    BY <2>1, RouteAsks DEF Replay
  <2> QED
    BY <2>1, <2>2, QuietRequests
<1>2. ASSUME ~ \E s \in Senders : AllowSender(s)
      PROVE  UNCHANGED <<denied, wirings, overdue, chatReqs, chatRow>>
  BY <1>2 DEF SenderFlow, SenderGivenUp, SenderAsked, SenderCardSent, DenySender,
              adminVars, chatVars, cardVars, history
<1> QED
  BY <1>1, <1>2, QuietRequests

(* The row goes, and the message it holds is routed over a wiring at least.*)
LEMMA WireApprovedAsks ==
    ASSUME NEW a, WireApproved(a)
    PROVE  chatReqs' = chatReqs /\ chatRow' \in {chatRow, None}
<1>1. CASE WiringsOf(a) # {}
  BY <1>1 DEF WireApproved
<1>2. CASE WiringsOf(a) = {}
  <2>1. wirings' # {} /\ chatRow' = None /\ Replay(chatRow, a, wirings')
    BY <1>2 DEF WireApproved
  <2> QED
    BY <2>1 DEF Replay, Route
<1> QED
  BY <1>1, <1>2

LEMMA ChatFlowRequests ==
    ASSUME TypeOK, Requests, ChatFlow
    PROVE  Requests'
<1>1. ASSUME NEW e \in Messages, ChatGivenUp(e) \/ ChatAsked(e)
      PROVE  Requests'
  BY <1>1, QuietRequests DEF ChatGivenUp, ChatAsked, adminVars, history
<1>2. ASSUME NEW a \in Connectable, ConnectChat(a) \/ NameReply(a)
      PROVE  Requests'
  <2>1. NoteDecision /\ chatReqs' = chatReqs /\ chatRow' \in {chatRow, None}
    BY <1>2, WireApprovedAsks DEF ConnectChat, NameReply
  <2> QED
    BY <2>1, NotedRequests
<1>3. ASSUME RejectChat
      PROVE  Requests'
  BY <1>3, NotedRequests DEF RejectChat
<1>4. ASSUME NEW r, ChatCardSent(r)
      PROVE  Requests'
  BY <1>4, QuietRequests DEF ChatCardSent, adminVars, history
<1>5. ASSUME AskName \/ NamePromptFails
      PROVE  Requests'
  BY <1>5, QuietRequests DEF AskName, NamePromptFails, adminVars, history
<1> QED
  BY <1>1, <1>2, <1>3, <1>4, <1>5 DEF ChatFlow

LEMMA OperatorRequests ==
    ASSUME Requests, Operator
    PROVE  Requests'
<1> USE DEF chatVars, cardVars
<1>1. ASSUME NEW d, SetDenied(d)
      PROVE  Requests'
  BY <1>1, NotedRequests DEF SetDenied
<1>2. ASSUME NEW ws, SetWirings(ws)
      PROVE  Requests'
  BY <1>2, NotedRequests DEF SetWirings
<1>3. ASSUME NEW p, SetPolicy(p)
      PROVE  Requests'
  BY <1>3, QuietRequests DEF SetPolicy
<1>4. ASSUME NEW s, NEW a, AddMember(s, a) \/ RemoveMember(s, a)
      PROVE  Requests'
  BY <1>4, QuietRequests DEF AddMember, RemoveMember
<1> QED
  BY <1>1, <1>2, <1>3, <1>4 DEF Operator, WireAgent, UpdateWiring, UnwireAgent

LEMMA RequestsStep ==
    ASSUME TypeOK, Requests, [Next]_vars
    PROVE  Requests'
<1> USE DEF adminVars, history, cardVars, chatVars
<1>1. ASSUME NEW e \in Messages, Arrive(e)
      PROVE  Requests'
  <2>1. Decided => chatReqs' = chatReqs
    BY <1>1, RouteAsks DEF Arrive
  <2> QED
    BY <1>1, <2>1, QuietRequests DEF Arrive
<1>2. ASSUME NEW c \in Calls, FanOut(c)
      PROVE  Requests'
  BY <1>2, QuietRequests DEF FanOut
<1>3. CASE HostRestart
  BY <1>3, QuietRequests DEF HostRestart
<1>4. CASE UNCHANGED vars
  BY <1>4, QuietRequests DEF vars
<1> QED
  BY <1>1, <1>2, <1>3, <1>4, SenderFlowRequests, ChatFlowRequests, OperatorRequests DEF Next

-----------------------------------------------------------------------------
(* Theorems.                                                               *)

LEMMA InitInvariant == Init => IInv
<1> SUFFICES ASSUME Init
             PROVE  IInv
  OBVIOUS
<1> USE ConstantsOK DEF Init
<1>1. TypeOK
  <2>1. PICK c \in Setups : isGroup = c.isGroup /\ wirings = c.wirings /\ members = c.members
    OBVIOUS
  <2>2. isGroup \in BOOLEAN /\ wirings \subseteq Wirings /\ members \in [Agents -> SUBSET Senders]
    BY <2>1
  <2>3. None \in SenderRows /\ "dead" \in CardStates /\ "request_approval" \in Policies
    BY DEF SenderRows, CardStates, Policies
  <2>4. /\ senderRow \in [Senders -> SenderRows] /\ senderCard \in [Senders -> CardStates]
        /\ chatRow \in Messages \cup {None} /\ chatCard \in CardStates
    BY <2>3
  <2>5. /\ queue \in [Calls -> SUBSET Visits] /\ upsets \in 0..MaxUpsets
        /\ stored \in [Agents -> [Messages -> {"none", "context", "trigger"}]]
    OBVIOUS
  <2>6. /\ denied \in BOOLEAN /\ naming \in BOOLEAN
        /\ policy \in Policies /\ arrived \subseteq Messages
        /\ senderReqs \subseteq Messages \X Agents /\ chatReqs \subseteq Messages
        /\ promised \subseteq Messages \X Agents /\ cut \subseteq Messages \X Agents
        /\ turnedAway \subseteq Messages \X Agents /\ overdue \subseteq Messages
    BY <2>3
  <2> QED
    BY <2>2, <2>4, <2>5, <2>6, Zenon DEF TypeOK
<1>2. Refusals /\ Holds /\ Admissions /\ Requests
  BY DEF Refusals, Holds, Admissions, Requests
<1> QED
  BY <1>1, <1>2 DEF IInv

LEMMA Invariance == Spec => []IInv
<1>1. IInv /\ [Next]_vars => IInv'
  BY TypeStep, RefusalsStep, HoldsStep, AdmissionsStep, RequestsStep DEF IInv
<1> QED
  BY <1>1, InitInvariant, PTL DEF Spec

(* Every reachable state has the types of TypeOK, whatever the bounds.     *)
THEOREM TypeCorrect == Spec => []TypeOK
<1>1. IInv => TypeOK
  BY DEF IInv
<1> QED
  BY <1>1, Invariance, PTL

(* Whatever replays, commands of the operator and restarts come between, a *)
(* message refused to an agent (router.ts, the gates of the fan-out) is    *)
(* not given to it before its sender is admitted there or the rules change.*)
THEOREM RefusedStaysOut == Spec => []TurnedAwayStaysOut
<1>1. IInv => TurnedAwayStaysOut
  BY DEF IInv, Refusals, TurnedAwayStaysOut
<1> QED
  BY <1>1, Invariance, PTL

(* A message an approver let in is with the agent once its replay is over, *)
(* whatever was done to wirings and policy since the replay began, or with *)
(* an agent earlier in the fan-out that stopped the replay.                *)
THEOREM AdmittedIsHeard == Spec => []ApprovedIsHeard
<1>1. IInv => ApprovedIsHeard
  BY DEF IInv, Admissions, Heard, OnItsWay, Idle, ApprovedIsHeard
<1> QED
  BY <1>1, Invariance, PTL

(* The cards about a chat that is turned down or wired are those of        *)
(* requests (channel-approval.ts) that were under way when it was decided. *)
THEOREM LateCardsOnly == Spec => []OnlyOverdueAsk
<1>1. IInv => OnlyOverdueAsk
  BY DEF IInv, Requests, OnlyOverdueAsk
<1> QED
  BY <1>1, Invariance, PTL
=============================================================================
