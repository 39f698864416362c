------------------------ MODULE ConversationsProofs ------------------------
(***************************************************************************)
(* Theorems about Conversations, for any messages and any bounds.          *)
(*                                                                         *)
(* The argument: only the latest row of the table can be active, because   *)
(* a conversation is made either when none is active or together with the  *)
(* archiving of all of them; and a message goes into the active row or     *)
(* into one made in the same step.                                         *)
(*                                                                         *)
(* That what was forgotten stays out rests on a second invariant, Gone,    *)
(* which holds from the moment a conversation has no container and its     *)
(* continuation does not remember an answered message.                     *)
(***************************************************************************)
EXTENDS Conversations, FiniteSetTheorems, TLAPS

(* Only the latest conversation can be active.                             *)
LatestOnly == active \subseteq {made}

IInv == TypeOK /\ LatestOnly

-----------------------------------------------------------------------------
(* The operators that handlers share.                                      *)

(* resolveSession returns the latest row, which is active from then on.    *)
LEMMA Resolved ==
    ASSUME IInv, NEW s \in Sessions, Resolve(s)
    PROVE  /\ made' \in 0..MaxSessions /\ made <= made'
           /\ s = made' /\ active' = {s}
           /\ s \in active \/ s \notin 1..made
<1> USE ConstantsOK DEF IInv, TypeOK, LatestOnly, Sessions
<1>1. CASE s \in active /\ UNCHANGED <<made, active>>
  <2>1. active = {made} /\ s = made
    BY <1>1
  <2> QED
    BY <1>1, <2>1
<1>2. CASE active = {} /\ s = made + 1 /\ s \in Sessions /\ made' = s /\ active' = {s}
  BY <1>2
<1> QED
  BY <1>1, <1>2 DEF Resolve

(* A conversation that starts over is the latest and the only active one.  *)
LEMMA StartedOver ==
    ASSUME IInv, NEW old, NEW next \in Int, NEW read \in SUBSET Messages, next > made,
           StartOver(old, next, read)
    PROVE  /\ next \in Sessions /\ made' = next /\ active' = {next}
           /\ made' \in 0..MaxSessions /\ made <= made'
           /\ container' \in [Sessions -> {"none", "spawning", "up", "stopping"}]
           /\ handoff' \in [Sessions -> SUBSET Messages]
<1> QED
  BY ConstantsOK DEF IInv, TypeOK, Sessions, StartOver, Killed

(* A prompt is put into one session.                                       *)
LEMMA Asked ==
    ASSUME IInv, NEW m \in Messages \cup {None}, NEW s \in Sessions,
           made' \in 0..MaxSessions, made <= made', s <= made', Ask(m, s)
    PROVE  /\ inbox' \in [Sessions -> SUBSET Messages]
           /\ turns' \in [Messages -> 0..made']
           /\ \A t \in Sessions : t # s => inbox'[t] = inbox[t]
<1> USE ConstantsOK DEF IInv, TypeOK, Sessions
<1>1. turns \in [Messages -> 0..made'] /\ s \in 0..made'
  <2>1. 0..made \subseteq 0..made'
    OBVIOUS
  <2> QED
    BY <2>1
<1>2. CASE m = None
  BY <1>1, <1>2 DEF Ask
<1>3. CASE m # None
  <2>1. /\ m \in Messages
        /\ inbox' = [inbox EXCEPT ![s] = @ \cup {m}] /\ turns' = [turns EXCEPT ![m] = s]
    BY <1>3 DEF Ask
  <2>2. turns' \in [Messages -> 0..made']
    BY <1>1, <2>1
  <2> QED
    BY <2>1, <2>2
<1> QED
  BY <1>2, <1>3

(* Waking and stopping containers.                                         *)
LEMMA ContainerTypes ==
    ASSUME TypeOK
    PROVE  /\ \A s \in Sessions : Wake(s)
                => container' \in [Sessions -> {"none", "spawning", "up", "stopping"}]
           /\ \A ss : Killed(ss) \in [Sessions -> {"none", "spawning", "up", "stopping"}]
BY DEF TypeOK, Wake, Killed

(* Rows are only added, so whatever refers to a row goes on to.            *)
LEMMA RowsStay ==
    ASSUME TypeOK, made' \in 0..MaxSessions, made <= made'
    PROVE  /\ 1..made \subseteq 1..made' /\ 0..made \subseteq 0..made'
           /\ sweep \subseteq 1..made' /\ clearing \in 0..made'
           /\ turns \in [Messages -> 0..made']
<1>1. 1..made \subseteq 1..made' /\ 0..made \subseteq 0..made'
  BY ConstantsOK DEF TypeOK
<1> QED
  BY <1>1 DEF TypeOK

-----------------------------------------------------------------------------
(* The invariant.                                                          *)

LEMMA InitInvariant == Init => IInv
BY ConstantsOK DEF Init, IInv, TypeOK, LatestOnly, Sessions, Commands

(* Steps that leave the table of sessions alone.                           *)
QuietStep ==
    \/ \E s \in Sessions : ContainerSteps(s) \/ SweepVisits(s)
    \/ \E m \in Messages : TurnReplies(m) \/ TurnFails(m)
    \/ \E k \in Commands : SummaryFails(k)
    \/ SweepStarts \/ ClearStops \/ HostRestart

LEMMA QuietStepInvariant == IInv /\ QuietStep => IInv' /\ UNCHANGED <<made, active, inbox>>
<1> SUFFICES ASSUME IInv, QuietStep
             PROVE  IInv' /\ UNCHANGED <<made, active, inbox>>
  OBVIOUS
<1> USE ConstantsOK DEF IInv, TypeOK, LatestOnly, rowVars, boxVars
<1>1. ASSUME NEW s \in Sessions, SpawnSucceeds(s)
      PROVE  IInv' /\ UNCHANGED <<made, active, inbox>>
  BY <1>1 DEF SpawnSucceeds
<1>2. ASSUME NEW s \in Sessions, SpawnFails(s)
      PROVE  IInv' /\ UNCHANGED <<made, active, inbox>>
  BY <1>2 DEF SpawnFails
<1>3. ASSUME NEW s \in Sessions, Engage(s)
      PROVE  IInv' /\ UNCHANGED <<made, active, inbox>>
  BY <1>3 DEF Engage, Waiting
<1>4. ASSUME NEW s \in Sessions, StoreContinuation(s)
      PROVE  IInv' /\ UNCHANGED <<made, active, inbox>>
  BY <1>4 DEF StoreContinuation
<1>5. ASSUME NEW s \in Sessions, Answer(s)
      PROVE  IInv' /\ UNCHANGED <<made, active, inbox>>
  BY <1>5 DEF Answer
<1>6. ASSUME NEW s \in Sessions, Crash(s)
      PROVE  IInv' /\ UNCHANGED <<made, active, inbox>>
  BY <1>6 DEF Crash
<1>7. ASSUME NEW s \in Sessions, Closed(s)
      PROVE  IInv' /\ UNCHANGED <<made, active, inbox>>
  BY <1>7 DEF Closed
<1>8. ASSUME NEW s \in Sessions, SweepVisits(s)
      PROVE  IInv' /\ UNCHANGED <<made, active, inbox>>
  BY <1>8, ContainerTypes DEF SweepVisits
<1>9. ASSUME NEW m \in Messages, TurnReplies(m)
      PROVE  IInv' /\ UNCHANGED <<made, active, inbox>>
  <2>1. turns[m] \in Sessions
    BY <1>9 DEF TurnReplies, Sessions
  <2> QED
    BY <1>9, <2>1 DEF TurnReplies
<1>10. ASSUME NEW m \in Messages, TurnFails(m)
       PROVE  IInv' /\ UNCHANGED <<made, active, inbox>>
  BY <1>10 DEF TurnFails
<1>11. ASSUME NEW k \in Commands, SummaryFails(k)
       PROVE  IInv' /\ UNCHANGED <<made, active, inbox>>
  BY <1>11 DEF SummaryFails
<1>12. ASSUME SweepStarts
       PROVE  IInv' /\ UNCHANGED <<made, active, inbox>>
  BY <1>12 DEF SweepStarts
<1>13. ASSUME ClearStops
       PROVE  IInv' /\ UNCHANGED <<made, active, inbox>>
  BY <1>13, ContainerTypes DEF ClearStops
<1>14. ASSUME HostRestart
       PROVE  IInv' /\ UNCHANGED <<made, active, inbox>>
  BY <1>14 DEF HostRestart
<1> QED
  BY <1>1, <1>2, <1>3, <1>4, <1>5, <1>6, <1>7, <1>8, <1>9, <1>10, <1>11, <1>12, <1>13,
     <1>14 DEF QuietStep, ContainerSteps

(* What no step does to an archived conversation.                          *)
StaysClosed == \A s \in (1..made) \ active : s \notin active' /\ inbox'[s] = inbox[s]

LEMMA ArriveInvariant ==
    ASSUME IInv, NEW m \in Messages, Arrive(m)
    PROVE  IInv' /\ StaysClosed
<1>1. PICK s \in Sessions : Resolve(s) /\ inbox' = [inbox EXCEPT ![s] = @ \cup {m}] /\ Wake(s)
  BY DEF Arrive
<1>2. /\ made' \in 0..MaxSessions /\ made <= made' /\ s = made' /\ active' = {s}
      /\ s \in active \/ s \notin 1..made
  BY <1>1, Resolved
<1>3. /\ container' \in [Sessions -> {"none", "spawning", "up", "stopping"}]
      /\ inbox' \in [Sessions -> SUBSET Messages]
      /\ \A t \in Sessions : t # s => inbox'[t] = inbox[t]
  BY <1>1, ContainerTypes DEF IInv, TypeOK
<1>4. /\ sweep' \subseteq 1..made' /\ clearing' \in 0..made'
      /\ turns' \in [Messages -> 0..made']
  BY <1>2, RowsStay DEF Arrive, IInv
<1>5. TypeOK' /\ LatestOnly'
  BY <1>1, <1>2, <1>3, <1>4, ConstantsOK DEF IInv, TypeOK, LatestOnly, Arrive, Sessions
<1>6. StaysClosed
  BY <1>2, <1>3, ConstantsOK DEF StaysClosed, IInv, TypeOK, Sessions
<1> QED
  BY <1>5, <1>6 DEF IInv

LEMMA TurnInvariant ==
    ASSUME IInv, NEW m \in Messages, Turn(m)
    PROVE  IInv' /\ StaysClosed
<1>1. PICK s \in Sessions : Resolve(s) /\ Ask(m, s)
  BY DEF Turn
<1>2. /\ made' \in 0..MaxSessions /\ made <= made' /\ s = made' /\ active' = {s}
      /\ s \in active \/ s \notin 1..made
  BY <1>1, Resolved
<1>3. s <= made'
  BY <1>2 DEF Sessions
<1>4. /\ inbox' \in [Sessions -> SUBSET Messages]
      /\ turns' \in [Messages -> 0..made']
      /\ \A t \in Sessions : t # s => inbox'[t] = inbox[t]
  BY <1>1, <1>2, <1>3, Asked
<1>5. sweep' \subseteq 1..made' /\ clearing' \in 0..made'
  BY <1>2, RowsStay DEF Turn, IInv
<1>6. TypeOK' /\ LatestOnly'
  BY <1>2, <1>4, <1>5, ConstantsOK DEF IInv, TypeOK, LatestOnly, Turn, boxVars, Sessions
<1>7. StaysClosed
  BY <1>2, <1>4, ConstantsOK DEF StaysClosed, IInv, TypeOK, Sessions
<1> QED
  BY <1>6, <1>7 DEF IInv

LEMMA NewInvariant ==
    ASSUME IInv, NEW m \in Messages \cup {None}, New(m)
    PROVE  IInv' /\ StaysClosed
<1>1. PICK old, next \in Int : next > made /\ StartOver(old, next, {})
  <2>1. made \in Int /\ made + 1 \in Int /\ made + 2 \in Int
    BY DEF IInv, TypeOK
  <2>2. CASE active = {}
    BY <2>1, <2>2 DEF New
  <2>3. CASE active # {}
    <3>1. PICK s \in active : StartOver(s, made + 1, {})
      BY <2>3 DEF New
    <3>2. s \in Int
      BY DEF IInv, TypeOK
    <3> QED
      BY <2>1, <3>1, <3>2
  <2> QED
    BY <2>2, <2>3
<1>2. /\ next \in Sessions /\ made' = next /\ active' = {next}
      /\ made' \in 0..MaxSessions /\ made <= made'
      /\ container' \in [Sessions -> {"none", "spawning", "up", "stopping"}]
      /\ handoff' \in [Sessions -> SUBSET Messages]
  BY <1>1, StartedOver
<1>3. Ask(m, next)
  BY <1>2 DEF New
<1>4. /\ inbox' \in [Sessions -> SUBSET Messages]
      /\ turns' \in [Messages -> 0..made']
      /\ \A t \in Sessions : t # next => inbox'[t] = inbox[t]
  <2>1. next <= made'
    BY <1>2
  <2> QED
    BY <1>2, <1>3, <2>1, Asked
<1>5. sweep' \subseteq 1..made' /\ clearing' \in 0..made'
  BY <1>2, RowsStay DEF New, IInv
<1>6. commands' \in 0..MaxCommands
  BY ConstantsOK DEF New, Command, IInv, TypeOK
<1>7. TypeOK' /\ LatestOnly'
  BY <1>2, <1>4, <1>5, <1>6, ConstantsOK DEF IInv, TypeOK, LatestOnly, New, Sessions
<1>8. StaysClosed
  BY <1>1, <1>2, <1>4, ConstantsOK DEF StaysClosed, IInv, TypeOK, Sessions
<1> QED
  BY <1>7, <1>8 DEF IInv

LEMMA NewResumeInvariant ==
    ASSUME IInv, NEW m \in Messages \cup {None}, NewResume(m)
    PROVE  IInv' /\ StaysClosed
<1>1. PICK s \in Sessions :
        /\ Resolve(s)
        /\ resumes' = [resumes EXCEPT ![commands'] =
               [old |-> s, read |-> inbox[s] \ forgotten[s], prompt |-> m]]
  BY DEF NewResume
<1>2. /\ made' \in 0..MaxSessions /\ made <= made' /\ s = made' /\ active' = {s}
      /\ s \in active \/ s \notin 1..made
  BY <1>1, Resolved
<1>3. commands' \in 0..MaxCommands
  BY ConstantsOK DEF NewResume, Command, IInv, TypeOK
<1>4. resumes' \in [Commands -> Summaries \cup {None}]
  BY <1>1 DEF IInv, TypeOK, Summaries
<1>5. /\ sweep' \subseteq 1..made' /\ clearing' \in 0..made'
      /\ turns' \in [Messages -> 0..made']
  BY <1>2, RowsStay DEF NewResume, IInv
<1>6. TypeOK' /\ LatestOnly'
  BY <1>2, <1>3, <1>4, <1>5, ConstantsOK
     DEF IInv, TypeOK, LatestOnly, NewResume, rowVars, boxVars, Sessions
<1>7. StaysClosed
  BY <1>2, ConstantsOK DEF StaysClosed, NewResume, rowVars, IInv, TypeOK, Sessions
<1> QED
  BY <1>6, <1>7 DEF IInv

LEMMA SummaryComesInvariant ==
    ASSUME IInv, NEW k \in Commands, SummaryComes(k)
    PROVE  IInv' /\ StaysClosed
<1>1. resumes[k] \in Summaries /\ made + 1 \in Int /\ made + 1 > made
  BY DEF SummaryComes, IInv, TypeOK
<1>2. /\ resumes[k].read \in SUBSET Messages
      /\ resumes[k].prompt \in Messages \cup {None}
  BY <1>1 DEF Summaries
<1>3. /\ made + 1 \in Sessions /\ made' = made + 1 /\ active' = {made + 1}
      /\ made' \in 0..MaxSessions /\ made <= made'
      /\ container' \in [Sessions -> {"none", "spawning", "up", "stopping"}]
      /\ handoff' \in [Sessions -> SUBSET Messages]
  BY <1>1, <1>2, StartedOver DEF SummaryComes
<1>4. Ask(resumes[k].prompt, made + 1)
  BY <1>3 DEF SummaryComes
<1>5. /\ inbox' \in [Sessions -> SUBSET Messages]
      /\ turns' \in [Messages -> 0..made']
      /\ \A t \in Sessions : t # made + 1 => inbox'[t] = inbox[t]
  <2>1. made + 1 <= made'
    BY <1>3
  <2> QED
    BY <1>2, <1>3, <1>4, <2>1, Asked
<1>6. sweep' \subseteq 1..made' /\ clearing' \in 0..made'
  BY <1>3, RowsStay DEF SummaryComes, IInv
<1>7. resumes' \in [Commands -> Summaries \cup {None}]
  BY DEF SummaryComes, IInv, TypeOK
<1>8. TypeOK' /\ LatestOnly'
  BY <1>3, <1>5, <1>6, <1>7, ConstantsOK
     DEF IInv, TypeOK, LatestOnly, SummaryComes, Sessions
<1>9. StaysClosed
  BY <1>3, <1>5, ConstantsOK DEF StaysClosed, IInv, TypeOK, Sessions
<1> QED
  BY <1>8, <1>9 DEF IInv

LEMMA ClearInvariant ==
    ASSUME IInv, Clear
    PROVE  IInv' /\ StaysClosed
<1>1. PICK s \in Sessions :
        /\ Resolve(s)
        /\ memory' = [memory EXCEPT ![s] = {}]
        /\ forgotten' = [forgotten EXCEPT ![s] = inbox[s]]
        /\ clearing' = s
  BY DEF Clear
<1>2. /\ made' \in 0..MaxSessions /\ made <= made' /\ s = made' /\ active' = {s}
      /\ s \in active \/ s \notin 1..made
  BY <1>1, Resolved
<1>3. commands' \in 0..MaxCommands
  BY ConstantsOK DEF Clear, Command, IInv, TypeOK
<1>4. /\ memory' \in [Sessions -> SUBSET Messages]
      /\ forgotten' \in [Sessions -> SUBSET Messages]
      /\ clearing' \in 0..made'
  BY <1>1, <1>2 DEF IInv, TypeOK
<1>5. sweep' \subseteq 1..made' /\ turns' \in [Messages -> 0..made']
  BY <1>2, RowsStay DEF Clear, IInv
<1>6. TypeOK' /\ LatestOnly'
  BY <1>2, <1>3, <1>4, <1>5, ConstantsOK DEF IInv, TypeOK, LatestOnly, Clear, Sessions
<1>7. StaysClosed
  BY <1>2, ConstantsOK DEF StaysClosed, Clear, IInv, TypeOK, Sessions
<1> QED
  BY <1>6, <1>7 DEF IInv

LEMMA StepInvariant == IInv /\ [Next]_vars => IInv' /\ StaysClosed
<1> SUFFICES ASSUME IInv, [Next]_vars
             PROVE  IInv' /\ StaysClosed
  OBVIOUS
<1>1. CASE QuietStep
  BY <1>1, QuietStepInvariant DEF StaysClosed
<1>2. CASE UNCHANGED vars
  BY <1>2 DEF vars, rowVars, boxVars, IInv, TypeOK, LatestOnly, StaysClosed
<1> QED
  BY <1>1, <1>2, ArriveInvariant, TurnInvariant, NewInvariant, NewResumeInvariant,
     SummaryComesInvariant, ClearInvariant DEF Next, QuietStep

LEMMA Invariance == Spec => []IInv
<1>1. Init => IInv
  BY InitInvariant
<1>2. IInv /\ [Next]_vars => IInv'
  BY StepInvariant
<1> QED
  BY <1>1, <1>2, PTL DEF Spec

-----------------------------------------------------------------------------
(* Theorems.                                                               *)

(* Every reachable state has the types of TypeOK, whatever the bounds.     *)
THEOREM TypeCorrect == Spec => []TypeOK
<1>1. IInv => TypeOK
  BY DEF IInv
<1> QED
  BY <1>1, Invariance, PTL

(* A chat has at most one conversation at a time (resolveSession and       *)
(* startNewConversation, however the summaries of commands come back).     *)
THEOREM OneAtATime == Spec => []OneConversation
<1>1. IInv => OneConversation
  <2>1. ASSUME IInv
        PROVE  active = {} \/ active = {made}
    BY <2>1 DEF IInv, LatestOnly
  <2>2. active = {} => Cardinality(active) = 0
    BY FS_EmptySet
  <2>3. active = {made} => Cardinality(active) = 1
    BY FS_Singleton
  <2> QED
    BY <2>1, <2>2, <2>3 DEF OneConversation
<1> QED
  BY <1>1, Invariance, PTL

(* No step of the router, a command or a synchronous turn reopens an       *)
(* archived conversation or puts a message into it.                        *)
THEOREM ArchivedStaysClosed == Spec => ArchivedIsClosed
<1>1. IInv /\ [Next]_vars => [StaysClosed]_vars
  BY StepInvariant
<1>2. ArchivedIsClosed <=> [][StaysClosed]_vars
  BY DEF ArchivedIsClosed, StaysClosed
<1> QED
  BY <1>1, <1>2, Invariance, PTL DEF Spec

-----------------------------------------------------------------------------
(* What a conversation has forgotten.                                      *)

(* An answered message is gone from a conversation when the stored         *)
(* continuation does not remember it, nor the running container.  What an  *)
(* older container had in its context does not matter: a new one begins    *)
(* with the continuation.                                                  *)
Gone(m, s) ==
    /\ m \in answered[s] \ memory[s]
    /\ container[s] = "up" => m \notin thread[s]

(* Steps that stop, start or leave alone containers, but let none come up. *)
NoneComesUp == \A s \in Sessions : container'[s] = "up" => container[s] = "up"

LEMMA QuietContainers ==
    ASSUME TypeOK
    PROVE  /\ \A s \in Sessions : Wake(s) => NoneComesUp
           /\ \A ss : container' = Killed(ss) => NoneComesUp
           /\ UNCHANGED container => NoneComesUp
BY DEF TypeOK, Wake, Killed, NoneComesUp

(* The steps of the host.  They may add answers, and "/clear" may make a   *)
(* continuation forget, but no container comes up or learns anything.      *)
HostStep ==
    /\ NoneComesUp /\ UNCHANGED thread
    /\ \A s \in Sessions : answered[s] \subseteq answered'[s] /\ memory'[s] \subseteq memory[s]

LEMMA HostStepKeepsGone ==
    ASSUME NEW m \in Messages, NEW s \in Sessions, HostStep, Gone(m, s)
    PROVE  Gone(m, s)'
BY DEF HostStep, NoneComesUp, Gone

LEMMA HostSteps ==
    ASSUME IInv, Next, ~ \E s \in Sessions :
               SpawnSucceeds(s) \/ Engage(s) \/ StoreContinuation(s)
    PROVE  HostStep
<1> USE DEF IInv
<1>1. ASSUME NEW s \in Sessions, SpawnFails(s) \/ Crash(s) \/ Closed(s)
      PROVE  HostStep
  BY <1>1 DEF SpawnFails, Crash, Closed, rowVars, TypeOK, HostStep, NoneComesUp
<1>2. ASSUME NEW s \in Sessions, Answer(s)
      PROVE  HostStep
  BY <1>2, QuietContainers DEF Answer, TypeOK, HostStep
<1>3. ASSUME NEW s \in Sessions, SweepVisits(s)
      PROVE  HostStep
  BY <1>3, QuietContainers DEF SweepVisits, rowVars, HostStep
<1>4. ASSUME NEW m \in Messages, Arrive(m)
      PROVE  HostStep
  BY <1>4, QuietContainers DEF Arrive, HostStep
<1>5. ASSUME NEW m \in Messages, TurnReplies(m)
      PROVE  HostStep
  BY <1>5, QuietContainers DEF TurnReplies, boxVars, TypeOK, HostStep
<1>6. ASSUME NEW m \in Messages, Turn(m) \/ TurnFails(m)
      PROVE  HostStep
  BY <1>6, QuietContainers DEF Turn, TurnFails, rowVars, boxVars, HostStep
<1>7. ASSUME NEW m \in Messages \cup {None}, New(m)
      PROVE  HostStep
  <2>1. \E ss : container' = Killed(ss)
    BY <1>7 DEF New, StartOver
  <2> QED
    BY <1>7, <2>1, QuietContainers DEF New, HostStep
<1>8. ASSUME NEW m \in Messages \cup {None}, NewResume(m)
      PROVE  HostStep
  BY <1>8, QuietContainers DEF NewResume, rowVars, boxVars, HostStep
<1>9. ASSUME NEW k \in Commands, SummaryComes(k)
      PROVE  HostStep
  BY <1>9, QuietContainers DEF SummaryComes, StartOver, HostStep
<1>10. ASSUME NEW k \in Commands, SummaryFails(k)
       PROVE  HostStep
  BY <1>10, QuietContainers DEF SummaryFails, rowVars, boxVars, HostStep
<1>11. ASSUME SweepStarts
       PROVE  HostStep
  BY <1>11, QuietContainers DEF SweepStarts, rowVars, boxVars, HostStep
<1>12. ASSUME Clear
       PROVE  HostStep
  BY <1>12, QuietContainers DEF Clear, TypeOK, HostStep
<1>13. ASSUME ClearStops
       PROVE  HostStep
  BY <1>13, QuietContainers DEF ClearStops, rowVars, HostStep
<1>14. ASSUME HostRestart
       PROVE  HostStep
  BY <1>14 DEF HostRestart, rowVars, HostStep, NoneComesUp
<1> QED
  BY <1>1, <1>2, <1>3, <1>4, <1>5, <1>6, <1>7, <1>8, <1>9, <1>10, <1>11, <1>12, <1>13,
     <1>14 DEF Next, ContainerSteps

(* Once gone, a message stays gone: a container that comes up knows the    *)
(* continuation, a query adds only what is unanswered, and what is stored  *)
(* is what the running container knows.                                    *)
LEMMA GoneStays ==
    ASSUME NEW m \in Messages, NEW s \in Sessions, IInv, Gone(m, s), [Next]_vars
    PROVE  Gone(m, s)'
<1> USE DEF IInv, TypeOK, Gone
<1>1. ASSUME NEW t \in Sessions, SpawnSucceeds(t)
      PROVE  Gone(m, s)'
  BY <1>1 DEF SpawnSucceeds, rowVars
<1>2. ASSUME NEW t \in Sessions, Engage(t)
      PROVE  Gone(m, s)'
  BY <1>2 DEF Engage, Waiting, rowVars
<1>3. ASSUME NEW t \in Sessions, StoreContinuation(t)
      PROVE  Gone(m, s)'
  BY <1>3 DEF StoreContinuation, rowVars
<1>4. CASE UNCHANGED vars
  BY <1>4 DEF vars, rowVars, boxVars
<1> QED
  BY <1>1, <1>2, <1>3, <1>4, HostSteps, HostStepKeepsGone

(* No later container of a conversation has an answered message in its     *)
(* context that the stored continuation had lost when no container ran:    *)
(* "/clear", a crash and a restart make the agent forget for good.         *)
THEOREM ForgottenIsForgotten == Spec => ForgottenStaysOut
<1> SUFFICES ASSUME NEW CONSTANT m \in Messages, NEW CONSTANT s \in Sessions
             PROVE  Spec => [](container[s] = "none" /\ m \in answered[s] \ memory[s]
                                 => [](container[s] = "up" => m \notin thread[s]))
  BY DEF ForgottenStaysOut
<1>1. container[s] = "none" /\ m \in answered[s] \ memory[s] => Gone(m, s)
  BY DEF Gone
<1>2. Gone(m, s) => (container[s] = "up" => m \notin thread[s])
  BY DEF Gone
<1>3. IInv /\ Gone(m, s) /\ [Next]_vars => Gone(m, s)'
  BY GoneStays
<1> QED
  BY <1>1, <1>2, <1>3, Invariance, PTL DEF Spec
=============================================================================
