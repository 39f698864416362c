----------------------------- MODULE TurnProofs -----------------------------
(***************************************************************************)
(* Theorems about Turn, for any agents, any keys and any limits.           *)
(*                                                                         *)
(* The argument: a worker is at work only in the phases of a worker and    *)
(* begins with an empty ledger; from then on the ledger counts exactly the *)
(* calls of ruled tools that are really made, because it knows them by the *)
(* name under which they run, and has seen all they asked for.             *)
(*                                                                         *)
(* And a turn is finite: a natural number says what its limits leave, and  *)
(* every step makes it smaller.                                            *)
(***************************************************************************)
EXTENDS Turn, SequenceTheorems, TLAPS

(* Who is at work in which phase, and that there is room for a step more.  *)
Phases ==
    /\ phase \in {"asking", "calling"} => worker # None
    /\ phase \in {"triage", "deciding", "sending", "replied"} => worker = None
    /\ phase = "calling" => pending > 0
    /\ phase \in {"triage", "deciding", "asking", "calling"} => Len(steps) < MaxSteps

(* The ledger of the worker tells what was really run.                     *)
LedgerIsTrue ==
    /\ worker # None => \A t \in Ruled(worker) : ran[t] = calls[t] /\ calls[t] <= Budget(t)
    /\ asked \subseteq seen
    /\ again = {}

IInv == TypeOK /\ Phases /\ LedgerIsTrue /\ SatisfiedIsNotRedone

-----------------------------------------------------------------------------
(* Operators.                                                              *)

(* A worker ends in one of the four ways of WorkerCompletion.              *)
LEMMA CompletionType ==
    \A done, it, some, good, n : Completion(done, it, some, good, n) \in Statuses
BY DEF Completion, Statuses

LEMMA RuledNames == \A a : Ruled(a) \subseteq Names
BY DEF Ruled, Names

(* The ledger counts a tool under the name under which it is run.          *)
LEMMA SameName == \A name \in Names : Tool(name) = Real(name) /\ Tool(name) \in Names
BY DEF Tool, Real, Names

(* One step more.                                                          *)
LEMMA OneMore ==
    ASSUME TypeOK, NEW e \in [agent : Agents, status : Statuses]
    PROVE  /\ Append(steps, e) \in Seq([agent : Agents, status : Statuses])
           /\ Len(Append(steps, e)) = Len(steps) + 1
           /\ DOMAIN Append(steps, e) = 1..(Len(steps) + 1)
           /\ DOMAIN steps = 1..Len(steps)
           /\ \A i \in DOMAIN steps : Append(steps, e)[i] = steps[i]
           /\ Append(steps, e)[Len(steps) + 1] = e
<1>1. steps \in Seq([agent : Agents, status : Statuses])
  BY DEF TypeOK
<1> QED
  BY <1>1

-----------------------------------------------------------------------------
(* The invariant.                                                          *)

LEMMA InitInvariant == Init => IInv
<1> SUFFICES ASSUME Init
             PROVE  IInv
  OBVIOUS
<1>1. /\ <<>> \in Seq([agent : Agents, status : Statuses])
      /\ Len(<<>>) = 0 /\ DOMAIN <<>> = {}
  OBVIOUS
<1>2. NoCalls \in [Names -> Nat]
  BY DEF NoCalls
<1>3. /\ steps \in Seq([agent : Agents, status : Statuses]) /\ Len(steps) <= MaxSteps
      /\ calls \in [Names -> Nat] /\ ran \in [Names -> Nat] /\ pending \in 0..MaxBatch
  BY <1>1, <1>2, TurnConstants DEF Init
<1>4. TypeOK
  <2>1. phase = "triage" /\ attempt = 0 /\ hint = None /\ worker = None /\ iter = 0
    BY DEF Init
  <2>2. seen = {} /\ asked = {} /\ again = {} /\ used = {} /\ found = FALSE
    BY DEF Init
  <2>3. seen \subseteq Names \X Keys /\ asked \subseteq Names \X Keys /\ again \subseteq Names \X Keys
    BY <2>2, Zenon
  <2>4. used \subseteq Names /\ found \in BOOLEAN
    BY <2>2
  <2>5. /\ phase \in {"triage", "deciding", "asking", "calling", "sending", "replied", "failed"}
        /\ attempt \in 0..1 /\ hint \in Agents \cup {None} /\ worker \in Agents \cup {None}
        /\ worker = None => iter = 0
        /\ worker # None => iter \in 0..MaxIterations(worker)
    BY <2>1
  <2> QED
    BY <1>3, <2>3, <2>4, <2>5 DEF TypeOK
<1>5. Phases /\ LedgerIsTrue
  BY <1>1, TurnConstants DEF Init, Phases, LedgerIsTrue
<1>6. SatisfiedIsNotRedone
  BY <1>1 DEF Init, SatisfiedIsNotRedone
<1> QED
  BY <1>4, <1>5, <1>6 DEF IInv

(* Steps that neither begin nor end nor concern a worker.                  *)
Talk == TriageDecides \/ TriageUnclear \/ SupervisorFinishes \/ SenderReplies \/ ModelFails

LEMMA TalkInvariant == IInv /\ Talk => IInv'
<1> SUFFICES ASSUME IInv, Talk
             PROVE  IInv'
  OBVIOUS
<1> USE DEF Talk, TriageDecides, TriageUnclear, SupervisorFinishes, SenderReplies,
            ModelFails, workVars, ledger, history
<1>1. UNCHANGED <<steps, worker, iter, pending, calls, seen, found, used, ran, asked, again>>
  BY DEF IInv
<1>2. /\ phase' \in {"triage", "deciding", "sending", "replied", "failed"}
      /\ attempt' \in 0..1 /\ hint' \in Agents \cup {None}
  BY DEF IInv, TypeOK
<1>3. TypeOK'
  BY <1>1, <1>2 DEF IInv, TypeOK
<1>4. Phases'
  BY <1>1, <1>2 DEF IInv, Phases
<1>5. LedgerIsTrue'
  BY <1>1 DEF IInv, LedgerIsTrue
<1>6. SatisfiedIsNotRedone'
  BY <1>1 DEF IInv, SatisfiedIsNotRedone
<1> QED
  BY <1>3, <1>4, <1>5, <1>6 DEF IInv

(* A delegation: the policy of the supervisor, then a new ledger.          *)
LEMMA DelegateInvariant ==
    ASSUME IInv, phase = "deciding", NEW a \in Agents, Delegate(a)
    PROVE  IInv'
<1>1. UNCHANGED <<hint, steps>> /\ attempt' \in 0..1 /\ a # None
  BY TurnConstants DEF Delegate
<1>2. CASE Satisfied(a)
  <2>1. phase' = "sending" /\ UNCHANGED workVars
    BY <1>2 DEF Delegate
  <2>2. TypeOK' /\ Phases' /\ LedgerIsTrue'
    BY <1>1, <2>1 DEF IInv, TypeOK, Phases, LedgerIsTrue, workVars, ledger, history
  <2>3. SatisfiedIsNotRedone'
    BY <1>1, <2>1 DEF IInv, SatisfiedIsNotRedone, workVars
  <2> QED
    BY <2>2, <2>3 DEF IInv
<1>3. CASE ~Satisfied(a)
  <2>1. phase' = "asking" /\ Assign(a)
    BY <1>3 DEF Delegate
  <2>2. NoCalls \in [Names -> Nat]
    BY DEF NoCalls
  <2>3. MaxIterations(a) \in Nat /\ 0 \in 0..MaxIterations(a)
    BY DEF MaxIterations
  <2>4. TypeOK'
    <3>1. /\ worker' = a /\ iter' = 0 /\ pending' = 0 /\ calls' = NoCalls /\ ran' = NoCalls
          /\ seen' = {} /\ asked' = {} /\ again' = {} /\ used' = {} /\ found' = FALSE
      BY <2>1 DEF Assign
    <3>2. pending' \in 0..MaxBatch
      BY <3>1, TurnConstants
    <3> QED
      BY <1>1, <2>1, <2>2, <2>3, <3>1, <3>2 DEF IInv, TypeOK
  <2>5. Phases'
    BY <1>1, <2>1 DEF IInv, Phases, Assign
  <2>6. LedgerIsTrue'
    <3>1. \A t \in Ruled(a) : NoCalls[t] = 0 /\ 0 <= Budget(t)
      BY RuledNames DEF NoCalls, Budget
    <3> QED
      BY <2>1, <3>1 DEF LedgerIsTrue, Assign
  <2>7. SatisfiedIsNotRedone'
    BY <1>1, <1>3, <2>1 DEF IInv, SatisfiedIsNotRedone, Satisfied, Assign
  <2> QED
    BY <2>4, <2>5, <2>6, <2>7 DEF IInv
<1> QED
  BY <1>2, <1>3

LEMMA SupervisorInvariant == IInv /\ (SupervisorDelegates \/ SupervisorUnclear) => IInv'
<1> SUFFICES ASSUME IInv, SupervisorDelegates \/ SupervisorUnclear
             PROVE  IInv'
  OBVIOUS
<1>1. CASE SupervisorDelegates
  BY <1>1, DelegateInvariant DEF SupervisorDelegates
<1>2. CASE phase = "deciding" /\ hint # None /\ Delegate(hint)
  <2>1. hint \in Agents
    BY <1>2 DEF IInv, TypeOK
  <2> QED
    BY <1>2, <2>1, DelegateInvariant
<1>3. CASE /\ phase = "deciding" /\ phase' \in {"deciding", "sending"} /\ attempt' \in 0..1
           /\ UNCHANGED <<hint, steps, workVars>>
  <2>1. TypeOK' /\ Phases' /\ LedgerIsTrue'
    BY <1>3 DEF IInv, TypeOK, Phases, LedgerIsTrue, workVars, ledger, history
  <2>2. SatisfiedIsNotRedone'
    BY <1>3 DEF IInv, SatisfiedIsNotRedone, workVars
  <2> QED
    BY <2>1, <2>2 DEF IInv
<1> QED
  BY <1>1, <1>2, <1>3 DEF SupervisorUnclear

(* A worker ends: it was not satisfied before, and nobody is at work.      *)
LEMMA EndInvariant ==
    ASSUME IInv, phase = "asking", NEW st \in Statuses, WorkerEnds(st),
           UNCHANGED <<attempt, hint>>
    PROVE  IInv'
<1> DEFINE e == [agent |-> worker, status |-> st]
<1>1. worker \in Agents /\ worker # None /\ Len(steps) < MaxSteps
  BY DEF IInv, TypeOK, Phases
<1>2. /\ e \in [agent : Agents, status : Statuses]
      /\ steps' = Append(steps, e) /\ Assign(None)
  BY <1>1 DEF WorkerEnds
<1>3. /\ steps' \in Seq([agent : Agents, status : Statuses])
      /\ Len(steps') = Len(steps) + 1 /\ Len(steps) \in Nat
      /\ DOMAIN steps' = 1..(Len(steps) + 1) /\ DOMAIN steps = 1..Len(steps)
      /\ \A i \in DOMAIN steps : steps'[i] = steps[i]
      /\ steps'[Len(steps) + 1] = e
  BY <1>2, OneMore DEF IInv, TypeOK
<1>4. TypeOK'
  <2>1. Len(steps') <= MaxSteps
    BY <1>1, <1>3, TurnConstants
  <2>2. phase' \in {"deciding", "sending"}
    BY DEF WorkerEnds
  <2>3. /\ worker' = None /\ iter' = 0 /\ pending' = 0 /\ calls' = NoCalls /\ ran' = NoCalls
        /\ seen' = {} /\ asked' = {} /\ again' = {} /\ used' = {} /\ found' = FALSE
    BY <1>2 DEF Assign
  <2>4. NoCalls \in [Names -> Nat] /\ pending' \in 0..MaxBatch
    BY <2>3, TurnConstants DEF NoCalls
  <2> QED
    BY <1>3, <2>1, <2>2, <2>3, <2>4 DEF IInv, TypeOK
<1>5. Phases'
  BY <1>2 DEF WorkerEnds, Phases, Assign
<1>6. LedgerIsTrue'
  BY <1>2 DEF LedgerIsTrue, Assign
<1>7. SatisfiedIsNotRedone'
  <2>1. worker' = None
    BY <1>2 DEF Assign
  <2> SUFFICES ASSUME NEW i \in DOMAIN steps', NEW j \in DOMAIN steps', j > i,
                      steps'[i].agent \in Researchers \cup Meters,
                      steps'[i].status = "sufficient"
               PROVE  ~Same(steps'[i].agent, steps'[j].agent)
    BY <2>1 DEF SatisfiedIsNotRedone
  <2>2. i \in DOMAIN steps /\ steps'[i] = steps[i]
    BY <1>3
  <2>3. CASE j \in DOMAIN steps
    BY <1>3, <2>2, <2>3 DEF IInv, SatisfiedIsNotRedone
  <2>4. CASE j \notin DOMAIN steps
    <3>1. j = Len(steps) + 1
      BY <1>3, <2>4
    <3>2. steps'[j].agent = worker
      BY <1>3, <3>1
    <3> QED
      BY <1>1, <2>2, <3>2 DEF IInv, SatisfiedIsNotRedone
  <2> QED
    BY <2>3, <2>4
<1> QED
  BY <1>4, <1>5, <1>6, <1>7 DEF IInv

LEMMA RoundInvariant == IInv /\ (AnswerWithSummary \/ RoundsUsedUp) => IInv'
BY EndInvariant, CompletionType DEF AnswerWithSummary, RoundsUsedUp

LEMMA ToolsInvariant == IInv /\ AnswerWithTools => IInv'
<1> SUFFICES ASSUME IInv, AnswerWithTools
             PROVE  IInv'
  OBVIOUS
<1>1. /\ UNCHANGED <<attempt, hint, steps, worker, calls, seen, found, used, ran, asked, again>>
      /\ phase = "asking" /\ phase' = "calling"
      /\ iter' = iter + 1 /\ pending' \in 1..MaxBatch
  BY DEF AnswerWithTools, ledger, history
<1>2. worker # None /\ iter' \in 0..MaxIterations(worker)
  <2>1. worker # None /\ iter \in 0..MaxIterations(worker) /\ MaxIterations(worker) \in Nat
    BY <1>1 DEF IInv, TypeOK, Phases, MaxIterations
  <2>2. iter < MaxIterations(worker)
    BY DEF AnswerWithTools, RoundsLeft
  <2> QED
    BY <1>1, <2>1, <2>2
<1>3. TypeOK'
  BY <1>1, <1>2, TurnConstants DEF IInv, TypeOK
<1>4. Phases' /\ LedgerIsTrue'
  BY <1>1, <1>2 DEF IInv, Phases, LedgerIsTrue
<1>5. SatisfiedIsNotRedone'
  BY <1>1 DEF IInv, SatisfiedIsNotRedone
<1> QED
  BY <1>3, <1>4, <1>5 DEF IInv

(* A call is counted exactly when a ruled tool is run, within its budget,  *)
(* and asks for nothing that the ledger has seen.                          *)
LEMMA CallKeepsLedger ==
    ASSUME IInv, NEW name \in Names, NEW k \in Slots, NEW good \in BOOLEAN,
           Call(name, k, good)
    PROVE  LedgerIsTrue'
<1> DEFINE t == Tool(name)
           run == ~Refused(t, k) /\ t \in Ruled(worker)
           wish == {<<t, k>>} \cap (Names \X Keys)
<1>1. t \in Names /\ Real(name) = t
  BY SameName
<1>2. /\ calls' = IF run THEN [calls EXCEPT ![t] = @ + 1] ELSE calls
      /\ ran' = IF run THEN [ran EXCEPT ![t] = @ + 1] ELSE ran
      /\ seen' = IF run /\ Deduped(t) /\ k # None THEN seen \cup {<<t, k>>} ELSE seen
      /\ asked' = IF run THEN asked \cup wish ELSE asked
      /\ again' = IF run THEN again \cup (asked \cap wish) ELSE again
      /\ worker' = worker /\ worker # None
  BY <1>1 DEF Call, IInv, Phases
<1>3. calls \in [Names -> Nat] /\ ran \in [Names -> Nat] /\ Ruled(worker) \subseteq Names
  BY RuledNames DEF IInv, TypeOK
<1>4. LedgerIsTrue
  BY DEF IInv
<1>5. CASE ~run
  BY <1>2, <1>4, <1>5 DEF LedgerIsTrue
<1>6. CASE run
  <2>1. calls[t] < Budget(t) /\ Budget(t) \in Nat
    BY <1>3, <1>6 DEF Refused, Budget
  <2>2. \A u \in Ruled(worker) : ran'[u] = calls'[u] /\ calls'[u] <= Budget(u)
    BY <1>2, <1>3, <1>4, <1>6, <2>1 DEF LedgerIsTrue
  <2>3. k # None => k \in Keys /\ Deduped(t) /\ <<t, k>> \notin seen
    <3>1. k # None => k \in Keys /\ Deduped(t)
      BY DEF Call, Deduped, Tool
    <3> QED
      BY <1>6, <3>1 DEF Refused
  <2>4. k = None => wish = {}
    BY TurnConstants
  <2>5. asked' \subseteq seen'
    <3>1. CASE k = None
      BY <1>2, <1>4, <1>6, <2>4, <3>1 DEF LedgerIsTrue
    <3>2. CASE k # None
      BY <1>2, <1>4, <1>6, <2>3, <3>2 DEF LedgerIsTrue
    <3> QED
      BY <3>1, <3>2
  <2>6. again' = {}
    <3>1. asked \cap wish = {}
      BY <1>4, <2>3, <2>4 DEF LedgerIsTrue
    <3> QED
      BY <1>2, <1>4, <3>1 DEF LedgerIsTrue
  <2> QED
    BY <1>2, <2>2, <2>5, <2>6 DEF LedgerIsTrue
<1> QED
  BY <1>5, <1>6

LEMMA CallInvariant ==
    ASSUME IInv, NEW name \in Names, NEW k \in Slots, NEW good \in BOOLEAN,
           Call(name, k, good)
    PROVE  IInv'
<1>1. /\ UNCHANGED <<attempt, hint, steps, worker, iter>>
      /\ phase = "calling" /\ phase' \in {"asking", "calling"}
      /\ phase' = "calling" => pending # 1
      /\ pending' = pending - 1 /\ pending \in 1..MaxBatch
  BY DEF Call, IInv, TypeOK, Phases
<1>2. Tool(name) \in Names /\ Real(name) \in Names /\ k \in Keys \cup {None}
  BY SameName DEF Slots
<1>3. calls' \in [Names -> Nat] /\ ran' \in [Names -> Nat]
  BY <1>2 DEF Call, IInv, TypeOK
<1>4. /\ seen' \subseteq Names \X Keys
      /\ asked' \subseteq Names \X Keys /\ again' \subseteq Names \X Keys
      /\ used' \subseteq Names /\ found' \in BOOLEAN
  BY <1>2 DEF Call, IInv, TypeOK
<1>5. TypeOK'
  BY <1>1, <1>3, <1>4, TurnConstants DEF IInv, TypeOK
<1>6. Phases'
  BY <1>1, TurnConstants DEF IInv, Phases
<1>7. SatisfiedIsNotRedone'
  BY <1>1 DEF IInv, SatisfiedIsNotRedone
<1> QED
  BY <1>5, <1>6, <1>7, CallKeepsLedger DEF IInv

LEMMA StutterInvariant == IInv /\ UNCHANGED vars => IInv'
<1> SUFFICES ASSUME IInv, UNCHANGED vars
             PROVE  IInv'
  OBVIOUS
<1> USE DEF vars, workVars, ledger, history
<1>1. TypeOK' /\ Phases' /\ LedgerIsTrue'
  BY DEF IInv, TypeOK, Phases, LedgerIsTrue
<1>2. SatisfiedIsNotRedone'
  BY DEF IInv, SatisfiedIsNotRedone
<1> QED
  BY <1>1, <1>2 DEF IInv

LEMMA Invariance == Spec => []IInv
<1>1. Init => IInv
  BY InitInvariant
<1>2. IInv /\ [Next]_vars => IInv'
  BY TalkInvariant, SupervisorInvariant, RoundInvariant, ToolsInvariant, CallInvariant,
     StutterInvariant DEF Next, Talk
<1> QED
  BY <1>1, <1>2, PTL DEF Spec

-----------------------------------------------------------------------------
(* Theorems.                                                               *)

(* Every reachable state has the types of TypeOK: in particular no worker  *)
(* exceeds its rounds (WorkerAgentRunner.execute) and no turn its          *)
(* delegations (runDelegation).                                            *)
THEOREM TypeCorrect == Spec => []TypeOK
<1>1. IInv => TypeOK
  BY DEF IInv
<1> QED
  BY <1>1, Invariance, PTL

(* What a worker really runs stays within its budgets, and nothing is      *)
(* asked for twice (ToolGateway.execute, BudgetLedger).                    *)
THEOREM BudgetsAreKept == Spec => []BudgetsHold
<1>1. IInv => BudgetsHold
  BY DEF IInv, LedgerIsTrue, BudgetsHold
<1> QED
  BY <1>1, Invariance, PTL

(* What has been found sufficient is not delegated again                   *)
(* (SupervisorPolicy.shouldForceFinish).                                   *)
THEOREM NothingIsRedone == Spec => []SatisfiedIsNotRedone
<1>1. IInv => SatisfiedIsNotRedone
  BY DEF IInv
<1> QED
  BY <1>1, Invariance, PTL

-----------------------------------------------------------------------------
(* The length of a turn.                                                   *)

(* What multiplication is needed for.                                      *)
LEMMA Times ==
    ASSUME NEW d \in Nat
    PROVE  /\ \A n \in Nat : n * d \in Nat /\ (n + 1) * d = n * d + d
           /\ 0 * d = 0
           /\ \A m, n \in Nat : m <= n => m * d <= n * d
OBVIOUS

LEMMA Sizes ==
    /\ Round \in Nat /\ Round = MaxBatch + 1
    /\ Delegation \in Nat /\ Delegation = 6 * Round + 3
BY TurnConstants DEF Round, Delegation

LEMMA FewRounds == \A a : MaxIterations(a) \in 0..6
BY DEF MaxIterations

(* What is left of a turn, in numbers: n delegations and r rounds.         *)
LEMMA Counts ==
    ASSUME IInv
    PROVE  /\ MaxSteps - Len(steps) \in 0..MaxSteps
           /\ Delegations \in 0..(MaxSteps * Delegation)
           /\ Len(steps) < MaxSteps => Delegations - Delegation \in Nat
           /\ worker # None => Rounds \in 0..(6 * Round)
<1>1. Len(steps) \in Nat /\ Len(steps) <= MaxSteps /\ MaxSteps \in Nat
  BY TurnConstants DEF IInv, TypeOK
<1>2. PICK n \in Nat : n = MaxSteps - Len(steps)
  BY <1>1
<1>3. Delegations \in 0..(MaxSteps * Delegation)
  <2>1. n * Delegation \in Nat /\ n * Delegation <= MaxSteps * Delegation
    BY <1>1, <1>2, Sizes, Times
  <2>2. MaxSteps * Delegation \in Nat
    BY <1>1, Sizes, Times
  <2> QED
    BY <1>2, <2>1, <2>2 DEF Delegations
<1>4. ASSUME Len(steps) < MaxSteps
      PROVE  Delegations - Delegation \in Nat
  <2>1. n > 0
    BY <1>1, <1>2, <1>4
  <2>2. PICK k \in Nat : n = k + 1
    <3>1. n - 1 \in Nat /\ n = (n - 1) + 1
      BY <2>1
    <3> QED
      BY <3>1
  <2>3. k * Delegation \in Nat /\ n * Delegation = k * Delegation + Delegation
    BY <2>2, Sizes, Times
  <2>4. Delegations = k * Delegation + Delegation
    BY <1>2, <2>3 DEF Delegations
  <2> QED
    BY <2>3, <2>4, Sizes
<1>5. ASSUME worker # None
      PROVE  Rounds \in 0..(6 * Round)
  <2>1. PICK r \in Nat : r = MaxIterations(worker) - iter
    BY <1>5, FewRounds DEF IInv, TypeOK
  <2>2. r <= 6
    BY <1>5, <2>1, FewRounds DEF IInv, TypeOK
  <2>3. r * Round \in Nat /\ r * Round <= 6 * Round
    BY <2>2, Sizes, Times
  <2> QED
    BY <2>1, <2>3, Sizes DEF Rounds
<1> QED
  BY <1>1, <1>2, <1>3, <1>4, <1>5

(* What is left, phase by phase.                                           *)
LEMMA LeftByPhase ==
    /\ phase = "triage" => Left = Delegations + 6 - attempt
    /\ phase = "deciding" => Left = Delegations + 3 - attempt
    /\ phase = "asking" => Left = Delegations - Delegation + Rounds + 4
    /\ phase = "calling" => Left = Delegations - Delegation + Rounds + pending + 4
    /\ phase = "sending" => Left = 1
    /\ phase \in {"replied", "failed"} => Left = 0
BY DEF Left

LEMMA LeftIsNat == IInv => Left \in Nat
<1> SUFFICES ASSUME IInv
             PROVE  Left \in Nat
  OBVIOUS
<1>1. /\ attempt \in 0..1 /\ pending \in Nat
      /\ phase \in {"triage", "deciding", "asking", "calling", "sending", "replied", "failed"}
      /\ phase \in {"asking", "calling"} => worker # None /\ Len(steps) < MaxSteps
  BY TurnConstants DEF IInv, TypeOK, Phases
<1>2. Delegations \in Nat
  BY Counts, Sizes, Times, TurnConstants
<1>3. phase \in {"asking", "calling"} => Delegations - Delegation \in Nat /\ Rounds \in Nat
  BY <1>1, Counts
<1> QED
  BY <1>1, <1>2, <1>3, LeftByPhase

(* ... and after a step.                                                   *)
LEMMA LeftByPhaseAfter ==
    /\ phase' = "triage" => Left' = Delegations' + 6 - attempt'
    /\ phase' = "deciding" => Left' = Delegations' + 3 - attempt'
    /\ phase' = "asking" => Left' = Delegations' - Delegation + Rounds' + 4
    /\ phase' = "calling" => Left' = Delegations' - Delegation + Rounds' + pending' + 4
    /\ phase' = "sending" => Left' = 1
    /\ phase' \in {"replied", "failed"} => Left' = 0
BY DEF Left

LEMMA TalkCounts == IInv /\ Talk => Left' < Left
<1> SUFFICES ASSUME IInv, Talk
             PROVE  Left' < Left
  OBVIOUS
<1>1. /\ attempt \in 0..1 /\ Delegations \in Nat
      /\ phase = "deciding" \/ phase = "asking" => Delegations - Delegation \in Nat
      /\ phase = "asking" => Rounds \in Nat
  BY Counts, Sizes, Times, TurnConstants DEF IInv, TypeOK, Phases
<1>2. Delegations' = Delegations
  BY DEF Talk, TriageDecides, TriageUnclear, SupervisorFinishes, SenderReplies, ModelFails,
         Delegations
<1>3. CASE phase = "triage"
  <2>1. \/ phase' \in {"deciding", "sending"} /\ attempt' = 0
        \/ phase' = "triage" /\ attempt = 0 /\ attempt' = 1
    BY <1>3 DEF Talk, TriageDecides, TriageUnclear, SupervisorFinishes, SenderReplies, ModelFails
  <2> QED
    BY <1>1, <1>2, <1>3, <2>1, LeftByPhase, LeftByPhaseAfter
<1>4. CASE phase # "triage"
  <2>1. \/ phase = "deciding" /\ phase' = "sending"
        \/ phase = "sending" /\ phase' \in {"replied", "failed"}
        \/ phase = "asking" /\ phase' = "failed"
    BY <1>4 DEF Talk, TriageDecides, TriageUnclear, SupervisorFinishes, SenderReplies, ModelFails
  <2> QED
    BY <1>1, <1>2, <2>1, LeftByPhase, LeftByPhaseAfter
<1> QED
  BY <1>3, <1>4

(* A delegation costs what is set aside for one.                           *)
LEMMA DelegateCounts ==
    ASSUME IInv, phase = "deciding", NEW a \in Agents, Delegate(a)
    PROVE  Left' < Left
<1>1. /\ attempt \in 0..1 /\ Delegations \in Nat /\ Delegations - Delegation \in Nat
      /\ Left = Delegations + 3 - attempt
  BY Counts, Sizes, Times, TurnConstants, LeftByPhase DEF IInv, TypeOK, Phases
<1>2. Delegations' = Delegations
  BY DEF Delegate, Delegations
<1>3. CASE Satisfied(a)
  <2>1. Left' = 1
    BY <1>3, LeftByPhaseAfter DEF Delegate
  <2> QED
    BY <1>1, <2>1, Sizes
<1>4. CASE ~Satisfied(a)
  <2>1. phase' = "asking" /\ worker' = a /\ iter' = 0
    BY <1>4 DEF Delegate, Assign
  <2>2. PICK n \in 0..6 : n = MaxIterations(a)
    BY FewRounds
  <2>3. Rounds' = n * Round
    BY <2>1, <2>2 DEF Rounds
  <2>4. n * Round \in Nat /\ n * Round <= 6 * Round
    BY Sizes, Times
  <2>5. Left' = Delegations - Delegation + Rounds' + 4
    BY <1>2, <2>1, LeftByPhaseAfter
  <2> QED
    BY <1>1, <2>3, <2>4, <2>5, Sizes
<1> QED
  BY <1>3, <1>4

LEMMA SupervisorCounts == IInv /\ (SupervisorDelegates \/ SupervisorUnclear) => Left' < Left
<1> SUFFICES ASSUME IInv, SupervisorDelegates \/ SupervisorUnclear
             PROVE  Left' < Left
  OBVIOUS
<1>1. /\ phase = "deciding" /\ attempt \in 0..1 /\ hint \in Agents \cup {None}
      /\ Delegations \in Nat
  BY Counts, Sizes, Times, TurnConstants
     DEF IInv, TypeOK, SupervisorDelegates, SupervisorUnclear
<1>2. \/ \E a \in Agents : Delegate(a)
      \/ steps' = steps /\ attempt = 0 /\ attempt' = 1 /\ phase' = phase
      \/ steps' = steps /\ phase' = "sending"
  BY <1>1 DEF SupervisorDelegates, SupervisorUnclear
<1>3. CASE \E a \in Agents : Delegate(a)
  BY <1>1, <1>3, DelegateCounts
<1>4. CASE steps' = steps /\ attempt = 0 /\ attempt' = 1 /\ phase' = phase
  <2>1. Delegations' = Delegations
    BY <1>4 DEF Delegations
  <2> QED
    BY <1>1, <1>4, <2>1, LeftByPhase, LeftByPhaseAfter
<1>5. CASE steps' = steps /\ phase' = "sending"
  BY <1>1, <1>5, LeftByPhase, LeftByPhaseAfter
<1> QED
  BY <1>2, <1>3, <1>4, <1>5

(* A worker that ends gives back its rounds.                               *)
LEMMA EndCounts == IInv /\ (AnswerWithSummary \/ RoundsUsedUp) => Left' < Left
<1> SUFFICES ASSUME IInv, AnswerWithSummary \/ RoundsUsedUp
             PROVE  Left' < Left
  OBVIOUS
<1>0. phase = "asking" /\ attempt' = attempt
  BY DEF AnswerWithSummary, RoundsUsedUp
<1>1. /\ worker \in Agents /\ attempt \in 0..1
      /\ Delegations \in Nat /\ Delegations - Delegation \in Nat /\ Rounds \in Nat
  BY <1>0, Counts, Sizes, Times, TurnConstants DEF IInv, TypeOK, Phases
<1>2. PICK status \in Statuses : WorkerEnds(status)
  BY CompletionType DEF AnswerWithSummary, RoundsUsedUp
<1>3. PICK e \in [agent : Agents, status : Statuses] : steps' = Append(steps, e)
  BY <1>1, <1>2 DEF WorkerEnds
<1>4. Len(steps') = Len(steps) + 1
  BY <1>3, OneMore DEF IInv
<1>5. Delegations' = Delegations - Delegation
  <2>1. PICK n \in Nat : n = MaxSteps - Len(steps)
    BY Counts
  <2>2. PICK k \in Nat : n = k + 1
    <3>1. Len(steps) < MaxSteps /\ Len(steps) \in Nat
      BY <1>0 DEF IInv, TypeOK, Phases
    <3>2. n - 1 \in Nat /\ n = (n - 1) + 1
      BY <2>1, <3>1, TurnConstants
    <3> QED
      BY <3>2
  <2>3. MaxSteps - Len(steps') = k
    BY <1>4, <2>1, <2>2, TurnConstants DEF IInv, TypeOK
  <2>4. n * Delegation = k * Delegation + Delegation /\ k * Delegation \in Nat
    BY <2>2, Sizes, Times
  <2> QED
    BY <2>1, <2>3, <2>4, Sizes DEF Delegations
<1>6. phase' \in {"deciding", "sending"}
  BY <1>2 DEF WorkerEnds
<1> QED
  BY <1>0, <1>1, <1>5, <1>6, LeftByPhase, LeftByPhaseAfter

(* An answer with tools costs a round, which pays for its calls.           *)
LEMMA ToolsCount == IInv /\ AnswerWithTools => Left' < Left
<1> SUFFICES ASSUME IInv, AnswerWithTools
             PROVE  Left' < Left
  OBVIOUS
<1>1. /\ phase = "asking" /\ phase' = "calling" /\ worker # None /\ worker' = worker
      /\ iter' = iter + 1 /\ iter < MaxIterations(worker) /\ pending' \in 1..MaxBatch
      /\ steps' = steps
      /\ Delegations - Delegation \in Nat
  BY Counts DEF IInv, Phases, AnswerWithTools, RoundsLeft
<1>2. Delegations' = Delegations
  BY <1>1 DEF Delegations
<1>3. Rounds = Rounds' + Round /\ Rounds' \in Nat
  <2>1. /\ iter \in Nat /\ MaxIterations(worker) \in Nat
    BY <1>1, FewRounds DEF IInv, TypeOK
  <2>2. PICK k \in Nat : k = MaxIterations(worker) - iter' /\ MaxIterations(worker) - iter = k + 1
    <3>1. MaxIterations(worker) - iter' \in Nat
          /\ MaxIterations(worker) - iter = (MaxIterations(worker) - iter') + 1
      BY <1>1, <2>1
    <3> QED
      BY <3>1
  <2>3. (k + 1) * Round = k * Round + Round /\ k * Round \in Nat
    BY Sizes, Times
  <2> QED
    BY <1>1, <2>2, <2>3 DEF Rounds
<1>4. /\ Left = Delegations - Delegation + Rounds + 4
      /\ Left' = Delegations - Delegation + Rounds' + pending' + 4
  BY <1>1, <1>2, LeftByPhase, LeftByPhaseAfter
<1> QED
  BY <1>1, <1>3, <1>4, Sizes, TurnConstants

LEMMA CallCounts ==
    ASSUME IInv, NEW name, NEW k, NEW good, Call(name, k, good)
    PROVE  Left' < Left
<1>1. /\ phase = "calling" /\ pending \in Nat \ {0} /\ pending' = pending - 1
      /\ phase' = IF pending = 1 THEN "asking" ELSE "calling"
      /\ UNCHANGED <<steps, worker, iter>>
      /\ Delegations - Delegation \in Nat /\ Rounds \in Nat
  BY Counts, Sizes, TurnConstants DEF IInv, TypeOK, Phases, Call
<1>2. Delegations' = Delegations /\ Rounds' = Rounds
  BY <1>1 DEF Delegations, Rounds
<1> QED
  BY <1>1, <1>2, LeftByPhase, LeftByPhaseAfter

LEMMA StepCounts == IInv /\ Next => Left' < Left
BY TalkCounts, SupervisorCounts, EndCounts, ToolsCount, CallCounts DEF Next, Talk

(* The safety half of TurnEnds: whatever the models answer, every step of  *)
(* a turn uses up one of the limits on misunderstandings, delegations,     *)
(* rounds and calls (agents/supervisor.ts, worker-runner).                 *)
THEOREM EveryStepIsCounted == Spec => EveryStepCounts
<1>1. IInv /\ [Next]_vars => [Left' < Left]_vars
  BY StepCounts
<1> QED
  BY <1>1, Invariance, PTL DEF Spec, EveryStepCounts

(* So what is left of a turn is a number that never exceeds what a turn    *)
(* begins with: no turn takes more than that many steps.                   *)
THEOREM TurnsAreBounded == Spec => []LeftIsBounded
<1> DEFINE all == MaxSteps * Delegation + 6
<1>1. all \in Nat
  BY Sizes, Times, TurnConstants
<1>2. Init => Left = all
  <2> SUFFICES ASSUME Init
               PROVE  Left = all
    OBVIOUS
  <2>1. phase = "triage" /\ attempt = 0 /\ Len(steps) = 0
    BY DEF Init
  <2>2. Delegations = MaxSteps * Delegation
    BY <2>1, TurnConstants DEF Delegations
  <2> QED
    BY <1>1, <2>1, <2>2, LeftByPhase, Sizes, Times, TurnConstants
<1>3. UNCHANGED vars => Left' = Left
  BY DEF vars, workVars, ledger, history, Left, Delegations, Rounds
<1> HIDE DEF all
<1>4. Left \in Nat /\ (Left \in Nat)' /\ Left <= all /\ [Left' < Left]_vars => (Left <= all)'
  BY <1>1, <1>3 DEF all
<1>5. IInv /\ [Next]_vars => [Left' < Left]_vars
  BY StepCounts
<1>6. Left \in Nat /\ Left <= all => LeftIsBounded
  BY <1>1 DEF all, LeftIsBounded
<1>7. Init => Left <= all
  BY <1>1, <1>2
<1> QED
  BY <1>4, <1>5, <1>6, <1>7, Invariance, LeftIsNat, PTL DEF Spec
=============================================================================
