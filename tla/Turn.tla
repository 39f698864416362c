-------------------------------- MODULE Turn --------------------------------
(***************************************************************************)
(* One turn of the orchestrator (container/agent-runner/src: agents,       *)
(* orchestrator, execution).  A language model sorts the prompt, a         *)
(* supervisor delegates it to specialists, each works with tools in a loop *)
(* of its own under the budget of its profile, and a sender replies.       *)
(*                                                                         *)
(* Every answer of a language model is a choice: it may fail, or not be    *)
(* understood.  What the profiles and the policy of the supervisor limit   *)
(* is the number of rounds, of tool calls and of repetitions.              *)
(***************************************************************************)
EXTENDS Integers, Sequences

CONSTANTS
    Agents,
    Researchers,  \* agents with the profile research_bounded, for web.research
    Meters,       \* agents with the profile metrics_readonly, for metrics.tokens
    Keys,         \* queries and addresses, as the ledger compares them
    MaxSteps,     \* SUPERVISOR_MAX_STEPS
    MaxBatch,     \* bound: tool calls in one answer of a model
    None

ASSUME TurnConstants ==
    /\ Researchers \subseteq Agents /\ Meters \subseteq Agents /\ Researchers \cap Meters = {}
    /\ MaxSteps \in Nat \ {0} /\ MaxBatch \in Nat \ {0}
    /\ None \notin Agents \cup Keys

(* execution/profiles.ts *)
Names == {"web_search", "web_research", "browse_url", "token_usage", "other"}

Ruled(a) ==
    IF a \in Researchers THEN {"web_search", "browse_url"}
    ELSE IF a \in Meters THEN {"token_usage"} ELSE {}

Budget(t) == IF t = "token_usage" THEN 3 ELSE 2
Deduped(t) == t # "token_usage"
MaxIterations(a) == IF a \in Researchers THEN 4 ELSE IF a \in Meters THEN 2 ELSE 6

Slots == Keys \cup {None}  \* None: a call without a query or an address
Statuses == {"sufficient", "partial", "blocked", "budget_exhausted"}

VARIABLES
    phase,    \* what the turn awaits
    attempt,  \* answers of triage or supervisor that were not understood
    hint,     \* the agent the triage named
    steps,    \* TurnPlanState: agents that have worked, and how it ended
    worker,   \* the agent at work
    iter,     \* its rounds
    pending,  \* tool calls of its last answer still to be made
    calls,    \* its ledger: calls counted ...
    seen,     \* ... and the keys it has seen
    found,    \* whether it has findings
    used,     \* tools that gave it a result
    ran,      \* history: calls of a ruled tool that were really made ...
    asked,    \* ... what they asked for ...
    again     \* ... and what was asked for more than once

ledger == <<calls, seen>>
history == <<ran, asked, again>>
workVars == <<worker, iter, pending, ledger, found, used, history>>
vars == <<phase, attempt, hint, steps, workVars>>

TypeOK ==
    /\ phase \in {"triage", "deciding", "asking", "calling", "sending", "replied", "failed"}
    /\ attempt \in 0..1
    /\ hint \in Agents \cup {None}
    /\ steps \in Seq([agent : Agents, status : Statuses]) /\ Len(steps) <= MaxSteps
    /\ worker \in Agents \cup {None}
    /\ worker = None => iter = 0
    /\ worker # None => iter \in 0..MaxIterations(worker)
    /\ pending \in 0..MaxBatch
    /\ calls \in [Names -> Nat]
    /\ seen \subseteq Names \X Keys
    /\ found \in BOOLEAN
    /\ used \subseteq Names
    /\ ran \in [Names -> Nat]
    /\ asked \subseteq Names \X Keys /\ again \subseteq Names \X Keys

NoCalls == [t \in Names |-> 0]

Init ==
    /\ phase = "triage" /\ attempt = 0 /\ hint = None /\ steps = <<>>
    /\ worker = None /\ iter = 0 /\ pending = 0
    /\ calls = NoCalls /\ seen = {} /\ found = FALSE /\ used = {}
    /\ ran = NoCalls /\ asked = {} /\ again = {}

(* Every worker begins with a ledger of its own.                           *)
Assign(w) ==
    /\ worker' = w /\ iter' = 0 /\ pending' = 0
    /\ calls' = NoCalls /\ seen' = {} /\ found' = FALSE /\ used' = {}
    /\ ran' = NoCalls /\ asked' = {} /\ again' = {}

-----------------------------------------------------------------------------
(* Triage and supervisor.                                                  *)

TriageDecides ==
    /\ phase = "triage" /\ attempt' = 0
    /\ \/ phase' = "sending" /\ UNCHANGED hint
       \/ /\ hint' \in Agents \cup {None}
          /\ phase' = IF Agents = {} THEN "sending" ELSE "deciding"
    /\ UNCHANGED <<steps, workVars>>

(* The second time it counts as small talk.                                *)
TriageUnclear ==
    /\ phase = "triage"
    /\ IF attempt = 0 THEN attempt' = 1 /\ UNCHANGED phase
       ELSE attempt' = 0 /\ phase' = "sending"
    /\ UNCHANGED <<hint, steps, workVars>>

(* Agents of one kind.  The record of a worker has its executionProfile,   *)
(* the policy asks for the first of an agent's capabilities: one and the   *)
(* same in every agent shipped, though nothing enforces it.                *)
Same(a, b) == {a, b} \subseteq Researchers \/ {a, b} \subseteq Meters

(* Bug: an agent that was satisfied is compared by its id.                 *)
SatisfiedById(a) == \E i \in DOMAIN steps :
    steps[i].agent = a /\ Same(a, a) /\ steps[i].status = "sufficient"

(* shouldForceFinish: another agent has done that already, and it is of a  *)
(* kind that is not worth repeating.                                       *)
Satisfied(a) == \E i \in DOMAIN steps :
    Same(steps[i].agent, a) /\ steps[i].status = "sufficient"

Delegate(a) ==
    /\ attempt' = 0
    /\ IF Satisfied(a) THEN phase' = "sending" /\ UNCHANGED workVars
       ELSE phase' = "asking" /\ Assign(a)
    /\ UNCHANGED <<hint, steps>>

(* An id nobody has stands for some agent of the department, or the first. *)
SupervisorDelegates == phase = "deciding" /\ \E a \in Agents : Delegate(a)

SupervisorFinishes ==
    /\ phase = "deciding" /\ phase' = "sending" /\ attempt' = 0
    /\ UNCHANGED <<hint, steps, workVars>>

(* The second time the hint of the triage decides, or else it is the end.  *)
SupervisorUnclear ==
    /\ phase = "deciding"
    /\ \/ attempt = 0 /\ attempt' = 1 /\ UNCHANGED <<phase, hint, steps, workVars>>
       \/ attempt = 1 /\ steps = <<>> /\ hint # None /\ Delegate(hint)
       \/ /\ attempt = 1 /\ (steps # <<>> \/ hint = None)
          /\ attempt' = 0 /\ phase' = "sending"
          /\ UNCHANGED <<hint, steps, workVars>>

-----------------------------------------------------------------------------
(* A worker.                                                               *)

Exhausted(n) == \E t \in Ruled(worker) : n[t] >= Budget(t)

(* inferCompletion of the three profiles.                                  *)
Completion(done, it, some, good, n) ==
    LET last == it >= MaxIterations(worker)
    IN  IF worker \in Researchers THEN
            LET web == good \cap {"web_search", "browse_url"} # {}
            IN  IF Exhausted(n) /\ web THEN "budget_exhausted"
                ELSE IF done /\ (web \/ ~some) THEN "sufficient"
                ELSE IF last /\ ~some THEN "blocked" ELSE "partial"
        ELSE IF worker \in Meters THEN
            IF done /\ "token_usage" \in good THEN "sufficient"
            ELSE IF last /\ "token_usage" \notin good THEN "blocked" ELSE "partial"
        ELSE IF done THEN "sufficient"
        ELSE IF last /\ ~some THEN "blocked" ELSE "partial"

(* Bug: a delegation that came to nothing does not count.                  *)
BlockedIsFree(status) ==
    LET step == [agent |-> worker, status |-> status]
    IN  /\ steps' = IF status = "blocked" THEN steps ELSE Append(steps, step)
        /\ phase' = IF Len(steps') < MaxSteps THEN "deciding" ELSE "sending"
        /\ Assign(None)

WorkerEnds(status) ==
    /\ steps' = Append(steps, [agent |-> worker, status |-> status])
    /\ phase' = IF Len(steps') < MaxSteps THEN "deciding" ELSE "sending"
    /\ Assign(None)

RoundsLeft == iter < MaxIterations(worker)

AnswerWithTools ==
    /\ phase = "asking" /\ RoundsLeft
    /\ iter' = iter + 1 /\ pending' \in 1..MaxBatch /\ phase' = "calling"
    /\ UNCHANGED <<attempt, hint, steps, worker, ledger, found, used, history>>

AnswerWithSummary ==
    /\ phase = "asking" /\ RoundsLeft
    /\ \E done \in BOOLEAN : WorkerEnds(Completion(done, iter + 1, found, used, calls))
    /\ UNCHANGED <<attempt, hint>>

(* A worker that has used up its rounds ends without a summary.            *)
RoundsUsedUp ==
    /\ phase = "asking" /\ ~RoundsLeft
    /\ WorkerEnds(Completion(FALSE, iter, found, used, calls))
    /\ UNCHANGED <<attempt, hint>>

(* What an agent is offered, and whether the ledger looks at a key.        *)
Offered(a) ==
    {"other"} \cup Ruled(a) \cup (IF a \in Researchers THEN {"web_research"} ELSE {})

(* executeTool: "web_research" is another name of "web_search" ...         *)
Real(name) == IF name = "web_research" THEN "web_search" ELSE name

(* Bug: ... with a budget of its own.                                      *)
NameAsIs(name) == name

(* normalizeToolName, of the ledger.                                       *)
Tool(name) == IF name = "web_research" THEN "web_search" ELSE name

(* evaluate *)
Refused(t, k) ==
    /\ t \in Ruled(worker)
    /\ calls[t] >= Budget(t) \/ (Deduped(t) /\ <<t, k>> \in seen)

(* A call is refused, or made and recorded; either way it is a finding.    *)
Call(name, k, good) ==
    LET t == Tool(name)
        made == ~Refused(t, k)
        counted == made /\ t \in Ruled(worker)
        run == made /\ Real(name) \in Ruled(worker)
        wish == {<<Real(name), k>>} \cap (Names \X Keys)
    IN  /\ phase = "calling" /\ name \in Offered(worker)
        /\ k = None \/ (k \in Keys /\ name # "other" /\ Deduped(name))
        /\ pending' = pending - 1
        /\ phase' = IF pending = 1 THEN "asking" ELSE "calling"
        /\ calls' = IF counted THEN [calls EXCEPT ![t] = @ + 1] ELSE calls
        /\ seen' = IF counted /\ Deduped(t) /\ k # None
                   THEN seen \cup {<<t, k>>} ELSE seen
        /\ found' = TRUE
        /\ used' = IF made /\ good THEN used \cup {t} ELSE used
        /\ ran' = IF run THEN [ran EXCEPT ![Real(name)] = @ + 1] ELSE ran
        /\ asked' = IF run THEN asked \cup wish ELSE asked
        /\ again' = IF run THEN again \cup (asked \cap wish) ELSE again
        /\ UNCHANGED <<attempt, hint, steps, worker, iter>>

-----------------------------------------------------------------------------
(* The end.                                                                *)

SenderReplies ==
    /\ phase = "sending" /\ phase' = "replied"
    /\ UNCHANGED <<attempt, hint, steps, workVars>>

(* A model that fails a worker or the sender fails the turn.               *)
ModelFails ==
    /\ phase = "sending" \/ (phase = "asking" /\ RoundsLeft)
    /\ phase' = "failed"
    /\ UNCHANGED <<attempt, hint, steps, workVars>>

Next ==
    \/ TriageDecides \/ TriageUnclear
    \/ SupervisorDelegates \/ SupervisorFinishes \/ SupervisorUnclear
    \/ AnswerWithTools \/ AnswerWithSummary \/ RoundsUsedUp
    \/ \E name \in Names, k \in Slots, good \in BOOLEAN : Call(name, k, good)
    \/ SenderReplies \/ ModelFails

Spec == Init /\ [][Next]_vars

(* Every call of a model or a tool that is awaited returns or throws.      *)
FairSpec == Spec /\ WF_vars(Next)

-----------------------------------------------------------------------------
(* Properties.                                                             *)

(* What a worker really runs stays within the budget of its profile, under *)
(* whichever name and in whatever order it calls, and nothing is asked     *)
(* twice.                                                                  *)
BudgetsHold ==
    /\ worker # None => \A t \in Ruled(worker) : ran[t] <= Budget(t)
    /\ again = {}

(* Research and metrics that have been found sufficient are not delegated  *)
(* again, neither to the agent that did them nor to another of its kind.   *)
SatisfiedIsNotRedone ==
    \A i \in DOMAIN steps :
        /\ steps[i].agent \in Researchers \cup Meters
        /\ steps[i].status = "sufficient"
        => /\ worker # None => ~Same(steps[i].agent, worker)
           /\ \A j \in DOMAIN steps : j > i => ~Same(steps[i].agent, steps[j].agent)

(* Whatever the models answer, a turn comes to its end: the limits on      *)
(* misunderstandings, delegations, rounds and calls leave no way round.    *)
TurnEnds == <>(phase \in {"replied", "failed"})

(* How many steps a turn can still take: a round of a worker and its calls,*)
(* at most six of them in a delegation (MaxIterations), and with each the  *)
(* answers of the supervisor.                                              *)
Round == MaxBatch + 1
Delegation == 6 * Round + 3

Rounds == (MaxIterations(worker) - iter) * Round
Delegations == (MaxSteps - Len(steps)) * Delegation

Left ==
    CASE phase = "triage" -> Delegations + 6 - attempt
      [] phase = "deciding" -> Delegations + 3 - attempt
      [] phase = "asking" -> Delegations - Delegation + Rounds + 4
      [] phase = "calling" -> Delegations - Delegation + Rounds + pending + 4
      [] phase = "sending" -> 1
      [] OTHER -> 0

(* Every step of a turn uses some of them up, whatever a model answers:    *)
(* no loop of triage, supervisor, worker and tools comes back to where it  *)
(* was.                                                                    *)
EveryStepCounts == [][Left' < Left]_vars

(* What is left never exceeds what a turn begins with, so a turn is over   *)
(* after that many steps (SUPERVISOR_MAX_STEPS, maxIterations).            *)
LeftIsBounded == Left \in 0..(MaxSteps * Delegation + 6)
=============================================================================
