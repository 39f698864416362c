--------------------------- MODULE Conversations ---------------------------
(***************************************************************************)
(* The conversations of one chat with one agent (src/conversations,        *)
(* src/commands, src/routing/slash-pipeline.ts) and what uses them: the    *)
(* router, which writes a message and wakes a container; the synchronous   *)
(* turn of the desktop client (src/gateway/sync-turn-host.ts), which       *)
(* writes the prompt and the reply itself; and the sweep of the host.      *)
(*                                                                         *)
(* A conversation is a session.  "/new" archives it and makes another,     *)
(* "/new-resume" does so with a summary that a language model writes while *)
(* the host goes on, "/clear" makes the agent forget.                      *)
(***************************************************************************)
EXTENDS Integers, FiniteSets

CONSTANTS
    Messages,
    Transports,   \* a subset of {"channel", "sync"}
    MaxSessions,  \* bound: conversations ever made
    MaxCommands,  \* bound: slash commands
    MaxUpsets,    \* bound: failed spawns, exits of a container, restarts of the host
    None

ASSUME ConstantsOK ==
    /\ Transports \subseteq {"channel", "sync"}
    /\ MaxSessions \in Nat \ {0} /\ MaxCommands \in Nat /\ MaxUpsets \in Nat
    /\ None \notin Messages

Sessions == 1..MaxSessions
Commands == 1..MaxCommands
Summaries == [old : Sessions, read : SUBSET Messages, prompt : Messages \cup {None}]

VARIABLES
    transport,  \* how the chat reaches the agent
    made,       \* rows of the table sessions
    active,     \* those with status 'active'; the other ones are archived
    inbox,      \* messages_in of a session
    answered,   \* messages of a session that have been answered
    forgotten,  \* messages before the history cutoff of a session
    handoff,    \* messages the summary a session began with is about
    memory,     \* what the stored continuation of a session remembers
    container,  \* activeContainers and wakePromises
    thread,     \* what the running container of a session has in its context
    begun,      \* sessions whose query has not yielded its continuation yet
    clearing,   \* the "/clear" between two of its statements
    sweep,      \* sessions the running sweep has still to visit
    commands,
    resumes,    \* "/new-resume" awaiting the summary
    turns,      \* synchronous turns awaiting the orchestrator
    upsets

rowVars == <<inbox, answered, forgotten, handoff>>
boxVars == <<memory, container, thread, begun>>
vars == <<transport, made, active, rowVars, boxVars, clearing, sweep, commands, resumes,
          turns, upsets>>

TypeOK ==
    /\ transport \in {"channel", "sync"}
    /\ made \in 0..MaxSessions /\ active \subseteq 1..made
    /\ inbox \in [Sessions -> SUBSET Messages]
    /\ answered \in [Sessions -> SUBSET Messages]
    /\ forgotten \in [Sessions -> SUBSET Messages]
    /\ handoff \in [Sessions -> SUBSET Messages]
    /\ memory \in [Sessions -> SUBSET Messages]
    /\ container \in [Sessions -> {"none", "spawning", "up", "stopping"}]
    /\ thread \in [Sessions -> SUBSET Messages]
    /\ begun \subseteq Sessions
    /\ clearing \in 0..made
    /\ sweep \subseteq 1..made
    /\ commands \in 0..MaxCommands
    /\ resumes \in [Commands -> Summaries \cup {None}]
    /\ turns \in [Messages -> 0..made]
    /\ upsets \in 0..MaxUpsets

Init ==
    /\ transport \in Transports
    /\ made = 0 /\ active = {} /\ clearing = 0 /\ sweep = {} /\ begun = {}
    /\ inbox = [s \in Sessions |-> {}] /\ answered = inbox /\ forgotten = inbox
    /\ handoff = inbox /\ memory = inbox /\ thread = inbox
    /\ container = [s \in Sessions |-> "none"]
    /\ commands = 0 /\ resumes = [k \in Commands |-> None]
    /\ turns = [m \in Messages |-> 0]
    /\ upsets = 0

-----------------------------------------------------------------------------
(* The handlers share the one thread of the host: none runs while "/clear" *)
(* is between its statements.                                              *)
HostFree == clearing = 0

Unseen(m) == \A s \in Sessions : m \notin inbox[s]

(* resolveSession: the active session of the chat, or a new one.           *)
Resolve(s) ==
    \/ s \in active /\ UNCHANGED <<made, active>>
    \/ active = {} /\ s = made + 1 /\ s \in Sessions /\ made' = s /\ active' = {s}

Waiting(s) == inbox[s] \ answered[s]

(* wakeContainer: nothing while one runs, stops or is being started.       *)
Wake(s) ==
    container' = IF container[s] = "none" THEN [container EXCEPT ![s] = "spawning"]
                 ELSE container

(* The router hands a message to the agent.                                *)
Arrive(m) ==
    /\ HostFree /\ transport = "channel" /\ Unseen(m)
    /\ \E s \in Sessions :
        /\ Resolve(s)
        /\ inbox' = [inbox EXCEPT ![s] = @ \cup {m}]
        /\ Wake(s)
    /\ UNCHANGED <<transport, answered, forgotten, handoff, memory, thread, begun,
                   clearing, sweep, commands, resumes, turns, upsets>>

-----------------------------------------------------------------------------
(* The container of a session.                                             *)

(* Bug: the agent goes on with the transcript that is still on the disk.   *)
SpawnResumesAll(s) ==
    /\ HostFree /\ container[s] = "spawning"
    /\ container' = [container EXCEPT ![s] = "up"] /\ begun' = begun \ {s}
    /\ UNCHANGED <<transport, made, active, rowVars, memory, thread, clearing, sweep,
                   commands, resumes, turns, upsets>>

SpawnSucceeds(s) ==
    /\ HostFree /\ container[s] = "spawning"
    /\ container' = [container EXCEPT ![s] = "up"]
    /\ thread' = [thread EXCEPT ![s] = memory[s]] /\ begun' = begun \ {s}
    /\ UNCHANGED <<transport, made, active, rowVars, memory, clearing, sweep, commands,
                   resumes, turns, upsets>>

SpawnFails(s) ==
    /\ HostFree /\ container[s] = "spawning" /\ upsets < MaxUpsets
    /\ container' = [container EXCEPT ![s] = "none"] /\ upsets' = upsets + 1
    /\ UNCHANGED <<transport, made, active, rowVars, memory, thread, begun, clearing,
                   sweep, commands, resumes, turns>>

(* A query takes what is waiting.  It yields its continuation, which is     *)
(* stored, and then its result: the messages are done.                     *)
Engage(s) ==
    /\ container[s] = "up" /\ ~(Waiting(s) \subseteq thread[s])
    /\ thread' = [thread EXCEPT ![s] = @ \cup Waiting(s)] /\ begun' = begun \cup {s}
    /\ UNCHANGED <<transport, made, active, rowVars, memory, container, clearing, sweep,
                   commands, resumes, turns, upsets>>

StoreContinuation(s) ==
    /\ container[s] = "up" /\ s \in begun /\ begun' = begun \ {s}
    /\ memory' = [memory EXCEPT ![s] = thread[s]]
    /\ UNCHANGED <<transport, made, active, rowVars, container, thread, clearing, sweep,
                   commands, resumes, turns, upsets>>

(* The result of a query that failed comes without a continuation.  What   *)
(* was asked before a "/clear" may be asked again after it.                *)
Answer(s) ==
    /\ container[s] = "up" /\ Waiting(s) \cap thread[s] # {}
    /\ answered' = [answered EXCEPT ![s] = @ \cup (inbox[s] \cap thread[s])]
    /\ begun' = begun \ {s}
    /\ UNCHANGED <<transport, made, active, inbox, forgotten, handoff, memory,
                   container, thread, clearing, sweep, commands, resumes, turns,
                   upsets>>

Crash(s) ==
    /\ container[s] = "up" /\ upsets < MaxUpsets /\ upsets' = upsets + 1
    /\ container' = [container EXCEPT ![s] = "stopping"]
    /\ UNCHANGED <<transport, made, active, rowVars, memory, thread, begun, clearing,
                   sweep, commands, resumes, turns>>

(* The host hears that the process is gone.                                *)
Closed(s) ==
    /\ HostFree /\ container[s] = "stopping"
    /\ container' = [container EXCEPT ![s] = "none"]
    /\ UNCHANGED <<transport, made, active, rowVars, memory, thread, begun, clearing,
                   sweep, commands, resumes, turns, upsets>>

(* killContainer stops those of a set that are up, and no others.          *)
Killed(ss) == [s \in Sessions |->
    IF s \in ss /\ container[s] = "up" THEN "stopping" ELSE container[s]]

(* Bug: the sweep looks after running containers only.                     *)
SweepRunning ==
    /\ HostFree /\ sweep = {} /\ sweep' = {s \in active : container[s] = "up"}
    /\ UNCHANGED <<transport, made, active, rowVars, boxVars, clearing, commands,
                   resumes, turns, upsets>>

(* A sweep lists the active sessions and visits one after the other.       *)
SweepStarts ==
    /\ HostFree /\ sweep = {} /\ sweep' = active
    /\ UNCHANGED <<transport, made, active, rowVars, boxVars, clearing, commands,
                   resumes, turns, upsets>>

(* The prompts of synchronous turns wake nobody.                           *)
SweepVisits(s) ==
    /\ HostFree /\ s \in sweep /\ sweep' = sweep \ {s}
    /\ IF transport = "channel" /\ Waiting(s) # {} THEN Wake(s) ELSE UNCHANGED container
    /\ UNCHANGED <<transport, made, active, rowVars, memory, thread, begun, clearing,
                   commands, resumes, turns, upsets>>

-----------------------------------------------------------------------------
(* Slash commands.                                                         *)

Command == HostFree /\ commands < MaxCommands /\ commands' = commands + 1

(* Bug: only the conversation the command began with is archived.          *)
StartOverFrom(old, next, read) ==
    /\ next \in Sessions /\ made' = next
    /\ active' = (active \ {old}) \cup {next}
    /\ container' = Killed({old})
    /\ handoff' = [handoff EXCEPT ![next] = read]

(* startNewConversation: every active conversation of the chat is archived,*)
(* whichever the command began with.                                       *)
StartOver(old, next, read) ==
    /\ next \in Sessions /\ made' = next
    /\ active' = {next}
    /\ container' = Killed(active)
    /\ handoff' = [handoff EXCEPT ![next] = read]

(* A prompt goes into a session, and the orchestrator is asked.            *)
Ask(m, s) ==
    IF m = None THEN UNCHANGED <<inbox, turns>>
    ELSE /\ inbox' = [inbox EXCEPT ![s] = @ \cup {m}]
         /\ turns' = [turns EXCEPT ![m] = s]

(* A command of the desktop client may carry a prompt.                     *)
Prompt(m) == m = None \/ (m \in Messages /\ transport = "sync" /\ Unseen(m))

(* "/new": a chat without a conversation gets one, which is archived.      *)
New(m) ==
    /\ Command /\ Prompt(m)
    /\ IF active = {} THEN StartOver(made + 1, made + 2, {})
       ELSE \E s \in active : StartOver(s, made + 1, {})
    /\ Ask(m, made')
    /\ UNCHANGED <<transport, answered, forgotten, memory, thread, begun, clearing,
                   sweep, resumes, upsets>>

(* "/new-resume" reads the history and awaits its summary.                 *)
NewResume(m) ==
    /\ Command /\ Prompt(m)
    /\ \E s \in Sessions :
        /\ Resolve(s)
        /\ resumes' = [resumes EXCEPT ![commands'] =
               [old |-> s, read |-> inbox[s] \ forgotten[s], prompt |-> m]]
    /\ UNCHANGED <<transport, rowVars, boxVars, clearing, sweep, turns, upsets>>

(* Bug: the prompt goes into the session it found when it arrived.         *)
SummaryComesLate(k) ==
    /\ HostFree /\ resumes[k] # None /\ resumes' = [resumes EXCEPT ![k] = None]
    /\ StartOver(resumes[k].old, made + 1, resumes[k].read)
    /\ Ask(resumes[k].prompt, resumes[k].old)
    /\ UNCHANGED <<transport, answered, forgotten, memory, thread, begun, clearing,
                   sweep, commands, upsets>>

SummaryComes(k) ==
    /\ HostFree /\ resumes[k] # None /\ resumes' = [resumes EXCEPT ![k] = None]
    /\ StartOver(resumes[k].old, made + 1, resumes[k].read)
    /\ Ask(resumes[k].prompt, made')
    /\ UNCHANGED <<transport, answered, forgotten, memory, thread, begun, clearing,
                   sweep, commands, upsets>>

(* The model fails or writes nothing: the command ends with an error.      *)
SummaryFails(k) ==
    /\ HostFree /\ resumes[k] # None /\ resumes[k].read # {}
    /\ resumes' = [resumes EXCEPT ![k] = None]
    /\ UNCHANGED <<transport, made, active, rowVars, boxVars, clearing, sweep, commands,
                   turns, upsets>>

(* "/clear": continuation and history first ...                            *)
Clear ==
    /\ Command
    /\ \E s \in Sessions :
        /\ Resolve(s)
        /\ memory' = [memory EXCEPT ![s] = {}]
        /\ forgotten' = [forgotten EXCEPT ![s] = inbox[s]]
        /\ clearing' = s
    /\ UNCHANGED <<transport, inbox, answered, handoff, container, thread, begun, sweep,
                   resumes, turns, upsets>>

(* ... then the container that still knows.                                *)
ClearStops ==
    /\ clearing # 0 /\ clearing' = 0
    /\ container' = Killed({clearing})
    /\ UNCHANGED <<transport, made, active, rowVars, memory, thread, begun, sweep,
                   commands, resumes, turns, upsets>>

-----------------------------------------------------------------------------
(* Synchronous turns.  A client may pin a session; an archived one is an   *)
(* error.                                                                  *)
Turn(m) ==
    /\ HostFree /\ transport = "sync" /\ Unseen(m)
    /\ \E s \in Sessions : Resolve(s) /\ Ask(m, s)
    /\ UNCHANGED <<transport, answered, forgotten, handoff, boxVars, clearing, sweep,
                   commands, resumes, upsets>>

(* The reply goes into the session of its prompt, archived or not.         *)
TurnReplies(m) ==
    /\ HostFree /\ turns[m] # 0 /\ turns' = [turns EXCEPT ![m] = 0]
    /\ answered' = [answered EXCEPT ![turns[m]] = @ \cup {m}]
    /\ UNCHANGED <<transport, made, active, inbox, forgotten, handoff, boxVars,
                   clearing, sweep, commands, resumes, upsets>>

TurnFails(m) ==
    /\ HostFree /\ turns[m] # 0 /\ turns' = [turns EXCEPT ![m] = 0]
    /\ UNCHANGED <<transport, made, active, rowVars, boxVars, clearing, sweep, commands,
                   resumes, upsets>>

(* Containers are stopped at start-up; what was awaited is lost.           *)
HostRestart ==
    /\ upsets < MaxUpsets /\ upsets' = upsets + 1
    /\ container' = [s \in Sessions |-> "none"]
    /\ clearing' = 0 /\ sweep' = {}
    /\ resumes' = [k \in Commands |-> None]
    /\ turns' = [m \in Messages |-> 0]
    /\ UNCHANGED <<transport, made, active, rowVars, memory, thread, begun, commands>>

-----------------------------------------------------------------------------
ContainerSteps(s) ==
    \/ SpawnSucceeds(s) \/ SpawnFails(s) \/ Engage(s) \/ StoreContinuation(s)
    \/ Answer(s) \/ Crash(s) \/ Closed(s)

Next ==
    \/ \E m \in Messages : Arrive(m) \/ Turn(m) \/ TurnReplies(m) \/ TurnFails(m)
    \/ \E s \in Sessions : ContainerSteps(s) \/ SweepVisits(s)
    \/ \E m \in Messages \cup {None} : New(m) \/ NewResume(m)
    \/ \E k \in Commands : SummaryComes(k) \/ SummaryFails(k)
    \/ SweepStarts \/ Clear \/ ClearStops \/ HostRestart

Spec == Init /\ [][Next]_vars

(* The sweep is a timer, a spawn ends, a container works, a statement of a *)
(* handler is followed by the next one.                                    *)
Fairness ==
    /\ WF_vars(SweepStarts) /\ WF_vars(ClearStops)
    /\ \A s \in Sessions :
        /\ WF_vars(SweepVisits(s)) /\ WF_vars(SpawnSucceeds(s) \/ SpawnFails(s))
        /\ WF_vars(Engage(s)) /\ WF_vars(Answer(s)) /\ WF_vars(Closed(s))

FairSpec == Spec /\ Fairness

-----------------------------------------------------------------------------
(* Properties.                                                             *)

(* A chat never has two conversations at a time, however many commands     *)
(* await their summaries: the router and the client would each pick one.   *)
OneConversation == Cardinality(active) <= 1

(* An archived conversation is over: it does not come back, and no message *)
(* or prompt is put into it, not even by a command that began before it    *)
(* was archived.                                                           *)
ArchivedIsClosed ==
    [][\A s \in (1..made) \ active : s \notin active' /\ inbox'[s] = inbox[s]]_vars

(* A message of a chat is answered, through failed spawns, dying and       *)
(* cleared containers, unless its conversation is archived first.          *)
MessagesSettle ==
    \A m \in Messages, s \in Sessions :
        (transport = "channel" /\ m \in inbox[s]) ~> (m \in answered[s] \/ s \notin active)

(* What a container did not leave in the stored continuation is forgotten  *)
(* once it is gone: after "/clear", a crash or a restart no later container *)
(* has an answered message in its context again that was not kept.         *)
ForgottenStaysOut ==
    \A m \in Messages, s \in Sessions :
        [](container[s] = "none" /\ m \in answered[s] \ memory[s]
            => [](container[s] = "up" => m \notin thread[s]))
=============================================================================
