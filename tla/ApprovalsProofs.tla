-------------------------- MODULE ApprovalsProofs --------------------------
(***************************************************************************)
(* Theorems about Approvals, for any requests, administrators and bounds.  *)
(*                                                                         *)
(* The argument counts what is still to come: a request has at most one    *)
(* outcome, plus the rejections that are on their way (a prompt, a held    *)
(* reject, a row the sweep has read), for every decision that found it     *)
(* at rest; and every decision that did not is an overlap.                 *)
(***************************************************************************)
EXTENDS Approvals, FiniteSetTheorems, TLAPS

(* Rejections of a request that are still on their way.                    *)
Outstanding(a) ==
    Cardinality(prompting[a]) + (IF a \in ghosts \/ row[a] = "awaiting" THEN 1 ELSE 0)

(* What a request has been through.                                        *)
Story(a) ==
    /\ IsFiniteSet(prompting[a])
    /\ stage[a] = "new" => /\ row[a] = "none" /\ applying[a] = 0 /\ prompting[a] = {}
                           /\ a \notin ghosts /\ executed[a] + refused[a] = 0
    /\ row[a] # "none" => refused[a] = 0
    /\ applying[a] > 0 \/ (stage[a] # "new" /\ row[a] = "none") => a \in told
    /\ executed[a] + refused[a] + Outstanding(a) <= 1 + overlaps[a]
    /\ ~Busy(a) /\ row[a] # "none" => executed[a] + refused[a] <= overlaps[a]

(* What a credential has been through.                                     *)
Promise(c) ==
    /\ stage[c] \in {"new", "carding"} => waiter[c] = "none"
    /\ waiter[c] = "waiting" => row[c] = "pending"

Stories == \A a \in Actions : Story(a)
Promises == \A c \in Credentials : Promise(c)

IInv == TypeOK /\ Stories /\ Promises

-----------------------------------------------------------------------------
(* What a step does not touch.                                             *)

(* No sooner an answer than before, and nothing else of the request.       *)
SameStory(a) ==
    /\ stage'[a] = stage[a] /\ row'[a] = row[a] /\ applying'[a] = applying[a]
    /\ prompting'[a] = prompting[a] /\ (a \in ghosts' <=> a \in ghosts)
    /\ executed'[a] = executed[a] /\ refused'[a] = refused[a]
    /\ overlaps'[a] = overlaps[a] /\ (a \in told => a \in told')

LEMMA StoryFrame ==
    ASSUME NEW a \in Actions, Story(a), SameStory(a)
    PROVE  Story(a)'
<1>1. Cardinality(prompting[a])' = Cardinality(prompting[a])
  BY DEF SameStory
<1>2. Busy(a)' <=> Busy(a)
  BY DEF SameStory, Busy
<1>3. Outstanding(a)' = Outstanding(a)
  BY <1>1 DEF SameStory, Outstanding
<1>4. (IsFiniteSet(prompting[a]))'
  BY DEF SameStory, Story
<1> QED
  BY <1>2, <1>3, <1>4 DEF SameStory, Story

LEMMA PromiseFrame ==
    ASSUME NEW c \in Credentials, Promise(c), stage'[c] = stage[c], waiter'[c] = waiter[c],
           row'[c] = row[c]
    PROVE  Promise(c)'
BY DEF Promise

(* A step of one request of a module leaves the others and the credentials *)
(* alone.                                                                  *)
LEMMA OneRequest ==
    ASSUME NEW a \in Actions, IInv,
           \A b \in Actions \ {a} : SameStory(b),
           \A c \in Credentials : stage'[c] = stage[c] /\ row'[c] = row[c],
           UNCHANGED waiter,
           Story(a)'
    PROVE  Stories' /\ Promises'
<1>1. ASSUME NEW b \in Actions PROVE Story(b)'
  BY <1>1, StoryFrame DEF IInv, Stories
<1>2. ASSUME NEW c \in Credentials PROVE Promise(c)'
  BY PromiseFrame DEF IInv, Promises
<1> QED
  BY <1>1, <1>2 DEF Stories, Promises

(* A step of one credential leaves the others and the requests alone.      *)
LEMMA OneCredential ==
    ASSUME NEW c \in Credentials, IInv,
           \A a \in Actions : SameStory(a),
           \A d \in Credentials \ {c} :
               stage'[d] = stage[d] /\ row'[d] = row[d] /\ waiter'[d] = waiter[d],
           Promise(c)'
    PROVE  Stories' /\ Promises'
<1>1. ASSUME NEW b \in Actions PROVE Story(b)'
  BY StoryFrame DEF IInv, Stories
<1>2. ASSUME NEW d \in Credentials PROVE Promise(d)'
  BY <1>2, PromiseFrame DEF IInv, Promises
<1> QED
  BY <1>1, <1>2 DEF Stories, Promises

(* A prompt more, a prompt less.                                           *)
LEMMA Prompts ==
    ASSUME NEW S, IsFiniteSet(S), NEW u
    PROVE  /\ Cardinality(S) \in Nat
           /\ IsFiniteSet(S \cup {u}) /\ IsFiniteSet(S \ {u})
           /\ u \notin S => Cardinality(S \cup {u}) = Cardinality(S) + 1
           /\ u \in S => Cardinality(S \ {u}) = Cardinality(S) - 1
BY FS_CardinalityType, FS_AddElement, FS_RemoveElement

-----------------------------------------------------------------------------
(* The invariant.                                                          *)

LEMMA InitInvariant == Init => IInv
<1> SUFFICES ASSUME Init
             PROVE  IInv
  OBVIOUS
<1>1. TypeOK
  BY ConstantsOK DEF Init, TypeOK, Requests
<1>2. ASSUME NEW a \in Actions PROVE Story(a)
  <2>1. IsFiniteSet(prompting[a]) /\ Cardinality(prompting[a]) = 0
    BY FS_EmptySet DEF Init
  <2>2. /\ stage[a] = "new" /\ row[a] = "none" /\ applying[a] = 0 /\ prompting[a] = {}
        /\ a \notin ghosts /\ executed[a] = 0 /\ refused[a] = 0 /\ overlaps[a] = 0
    BY DEF Init, Requests
  <2>3. Outstanding(a) = 0
    BY <2>1, <2>2 DEF Outstanding
  <2> QED
    BY <2>1, <2>2, <2>3 DEF Story
<1>3. Promises
  BY DEF Init, Promises, Promise, Requests
<1> QED
  BY <1>1, <1>2, <1>3 DEF IInv, Stories

(* Steps of a request, one after the other.                                *)
(* Steps that neither send nor end a prompt and leave the sweep alone.     *)
Plain(a) ==
    \/ NobodyToAsk(a) \/ RequestApproval(a) \/ CardSent(a) \/ CardFails(a)
    \/ Reject(a) \/ Approve(a) \/ Applied(a) \/ WindowElapses(a)

LEMMA PlainStep ==
    ASSUME IInv, NEW a \in Actions, Plain(a)
    PROVE  IInv'
<1> USE ConstantsOK
    DEF Requests, SetRow, SetStage, Click, Overlap, FinalizeReject, cardVars, rowVars,
        reasonVars, outcomeVars, NobodyToAsk, RequestApproval, CardSent, CardFails,
        Reject, Approve, Applied, WindowElapses
<1>1. TypeOK'
  BY DEF Plain, IInv, TypeOK
<1>2. \A b \in Actions \ {a} : SameStory(b)
  BY DEF Plain, IInv, TypeOK, SameStory
<1>3. /\ \A c \in Credentials : stage'[c] = stage[c] /\ row'[c] = row[c]
      /\ UNCHANGED waiter
  BY DEF Plain, IInv, TypeOK
<1>4. prompting'[a] = prompting[a] /\ (a \in ghosts' <=> a \in ghosts)
  BY DEF Plain
<1>5. /\ IsFiniteSet(prompting[a]) /\ Cardinality(prompting[a]) \in Nat
      /\ prompting[a] = {} => Cardinality(prompting[a]) = 0
  BY Prompts, FS_EmptySet DEF IInv, Stories, Story
<1>6. Story(a)'
  BY <1>4, <1>5 DEF Plain, IInv, TypeOK, Stories, Story, Outstanding, Busy
<1> QED
  BY <1>1, <1>2, <1>3, <1>6, OneRequest DEF IInv

(* Steps of a prompt for a reason.                                         *)
Prompting(a, u) == RejectWithReason(a, u) \/ ArmReason(a, u) \/ PromptFails(a, u)

LEMMA PromptStep ==
    ASSUME IInv, NEW a \in Actions, NEW u \in Admins, Prompting(a, u)
    PROVE  IInv'
<1> USE ConstantsOK
    DEF Requests, SetRow, Click, Overlap, FinalizeReject, Prompted, cardVars, rowVars,
        reasonVars, outcomeVars, RejectWithReason, ArmReason, PromptFails
<1>1. TypeOK'
  BY DEF Prompting, IInv, TypeOK
<1>2. \A b \in Actions \ {a} : SameStory(b)
  BY DEF Prompting, IInv, TypeOK, SameStory
<1>3. /\ \A c \in Credentials : stage'[c] = stage[c] /\ row'[c] = row[c]
      /\ UNCHANGED waiter
  BY DEF Prompting, IInv, TypeOK
<1>4. /\ IsFiniteSet(prompting[a]) /\ Cardinality(prompting[a]) \in Nat
      /\ prompting[a] = {} => Cardinality(prompting[a]) = 0
  BY Prompts, FS_EmptySet DEF IInv, Stories, Story
<1>5. /\ IsFiniteSet(prompting'[a]) /\ Cardinality(prompting'[a]) \in Nat
      /\ RejectWithReason(a, u) => Cardinality(prompting'[a]) = Cardinality(prompting[a]) + 1
      /\ ~RejectWithReason(a, u) => Cardinality(prompting'[a]) = Cardinality(prompting[a]) - 1
  <2>1. \/ RejectWithReason(a, u) /\ u \notin prompting[a] /\ prompting'[a] = prompting[a] \cup {u}
        \/ u \in prompting[a] /\ prompting'[a] = prompting[a] \ {u}
    BY DEF Prompting, IInv, TypeOK
  <2>2. RejectWithReason(a, u) => u \notin prompting[a]
    OBVIOUS
  <2> HIDE DEF RejectWithReason
  <2> QED
    BY <1>4, <2>1, <2>2, Prompts
<1>6. a \in ghosts' <=> a \in ghosts
  BY DEF Prompting
<1>7. Story(a)'
  <2>1. CASE RejectWithReason(a, u)
    BY <1>4, <1>5, <1>6, <2>1 DEF IInv, TypeOK, Stories, Story, Outstanding, Busy
  <2>2. CASE ArmReason(a, u)
    BY <1>4, <1>5, <1>6, <2>2 DEF IInv, TypeOK, Stories, Story, Outstanding, Busy
  <2>3. CASE PromptFails(a, u)
    BY <1>4, <1>5, <1>6, <2>3 DEF IInv, TypeOK, Stories, Story, Outstanding, Busy
  <2> QED
    BY <2>1, <2>2, <2>3 DEF Prompting
<1> QED
  BY <1>1, <1>2, <1>3, <1>7, OneRequest DEF IInv

(* The end of a held reject: a reason that comes, or the sweep.            *)
Ending(a) == FinalizeGhost(a) \/ \E u \in Admins : armed[u] = a /\ CaptureReason(u)

LEMMA EndingStep ==
    ASSUME IInv, NEW a \in Actions, Ending(a)
    PROVE  IInv'
<1> USE ConstantsOK DEF Requests, SetRow, FinalizeReject, cardVars, rowVars, outcomeVars,
        FinalizeGhost, CaptureReason
<1>1. TypeOK'
  BY DEF Ending, IInv, TypeOK
<1>2. \A b \in Actions \ {a} : SameStory(b)
  BY DEF Ending, IInv, TypeOK, SameStory
<1>3. /\ \A c \in Credentials : stage'[c] = stage[c] /\ row'[c] = row[c]
      /\ UNCHANGED waiter
  BY DEF Ending, IInv, TypeOK
<1>4. /\ prompting'[a] = prompting[a]
      /\ IsFiniteSet(prompting[a]) /\ Cardinality(prompting[a]) \in Nat
      /\ prompting[a] = {} => Cardinality(prompting[a]) = 0
  BY Prompts, FS_EmptySet DEF Ending, IInv, Stories, Story
<1>5. Story(a)'
  BY <1>4 DEF Ending, IInv, TypeOK, Stories, Story, Outstanding, Busy
<1> QED
  BY <1>1, <1>2, <1>3, <1>5, OneRequest DEF IInv

(* A credential.                                                           *)
LEMMA CredentialStepInvariant ==
    ASSUME IInv, NEW c \in Credentials, CredentialStep(c)
    PROVE  IInv'
<1> USE ConstantsOK DEF Requests, SetRow, SetStage, Click, cardVars, reasonVars, rowVars,
        outcomeVars, RequestCredential, CredentialAsked, CredentialDenied, ResolveCredential,
        CredentialExpires, DropCredential
<1>1. TypeOK'
  BY DEF CredentialStep, IInv, TypeOK
<1>2. \A a \in Actions : SameStory(a)
  BY DEF CredentialStep, IInv, TypeOK, SameStory
<1>3. \A d \in Credentials \ {c} :
          stage'[d] = stage[d] /\ row'[d] = row[d] /\ waiter'[d] = waiter[d]
  BY DEF CredentialStep, IInv, TypeOK
<1>4. Promise(c)'
  BY DEF CredentialStep, IInv, TypeOK, Promises, Promise
<1> QED
  BY <1>1, <1>2, <1>3, <1>4, OneCredential DEF IInv

(* The sweep reads: a held reject is on its way before and after.          *)
LEMMA ReadStep == IInv /\ ReadGhosts => IInv'
<1> SUFFICES ASSUME IInv, ReadGhosts
             PROVE  IInv'
  OBVIOUS
<1> USE DEF ReadGhosts, cardVars, rowVars, outcomeVars
<1>1. TypeOK'
  BY DEF IInv, TypeOK
<1>2. ASSUME NEW a \in Actions PROVE Story(a)'
  <2>1. IsFiniteSet(prompting[a]) /\ Cardinality(prompting[a]) \in Nat
    BY Prompts DEF IInv, Stories, Story
  <2>2. a \in ghosts' => a \notin ghosts /\ row[a] = "awaiting"
    OBVIOUS
  <2>3. Outstanding(a)' = Outstanding(a) /\ (Busy(a)' <=> Busy(a))
    BY <2>1, <2>2 DEF Outstanding, Busy
  <2> QED
    BY <2>1, <2>2, <2>3, ConstantsOK DEF IInv, TypeOK, Requests, Stories, Story
<1>3. Promises'
  BY DEF IInv, Promises, Promise
<1> QED
  BY <1>1, <1>2, <1>3 DEF IInv, Stories

(* A restart counts as an overlap for what was being applied.              *)
LEMMA RestartStep == IInv /\ HostRestart => IInv'
<1> SUFFICES ASSUME IInv, HostRestart
             PROVE  IInv'
  OBVIOUS
<1> USE ConstantsOK DEF HostRestart, Requests, rowVars, outcomeVars
<1>1. TypeOK'
  BY DEF IInv, TypeOK
<1>2. ASSUME NEW a \in Actions PROVE Story(a)'
  <2>1. IsFiniteSet(prompting[a]) /\ Cardinality(prompting[a]) \in Nat
    BY Prompts DEF IInv, Stories, Story
  <2>2. prompting[a] # {} => Cardinality(prompting[a]) > 0
    BY <2>1, FS_EmptySet
  <2>3. prompting'[a] = {} /\ Cardinality(prompting'[a]) = 0 /\ IsFiniteSet(prompting'[a])
    BY FS_EmptySet
  <2> QED
    BY <2>1, <2>2, <2>3 DEF IInv, TypeOK, Stories, Story, Outstanding, Busy
<1>3. Promises'
  BY DEF IInv, TypeOK, Promises, Promise
<1> QED
  BY <1>1, <1>2, <1>3 DEF IInv, Stories

(* A card is shown, or an authority is taken away.                         *)
LEMMA OutsideStep == IInv /\ (Revoke \/ \E r \in Requests : ShowCard(r)) => IInv'
<1> SUFFICES ASSUME IInv, Revoke \/ \E r \in Requests : ShowCard(r)
             PROVE  IInv'
  OBVIOUS
<1> USE DEF Revoke, ShowCard, cardVars, rowVars, reasonVars, outcomeVars
<1>1. TypeOK'
  BY DEF IInv, TypeOK
<1>2. /\ \A a \in Actions : SameStory(a)
      /\ UNCHANGED <<stage, row, waiter>>
  BY DEF SameStory
<1>3. Stories'
  BY <1>2, StoryFrame DEF IInv, Stories
<1>4. Promises'
  BY <1>2 DEF IInv, Promises, Promise
<1> QED
  BY <1>1, <1>3, <1>4 DEF IInv

LEMMA NextInvariant == IInv /\ [Next]_vars => IInv'
<1> SUFFICES ASSUME IInv, [Next]_vars
             PROVE  IInv'
  OBVIOUS
<1>1. CASE \E a \in Actions : ActionStep(a)
  BY <1>1, PlainStep, PromptStep DEF ActionStep, Plain, Prompting
<1>2. CASE \E c \in Credentials : CredentialStep(c)
  BY <1>2, CredentialStepInvariant
<1>3. CASE \E u \in Admins : CaptureReason(u)
  <2>1. PICK u \in Admins : CaptureReason(u)
    BY <1>3
  <2>2. armed[u] \in Actions
    BY <2>1 DEF CaptureReason, IInv, TypeOK
  <2> QED
    BY <2>1, <2>2, EndingStep DEF Ending
<1>4. CASE Sweep
  BY <1>4, ReadStep, EndingStep DEF Sweep, Ending
<1>5. CASE Revoke \/ \E r \in Requests : ShowCard(r)
  BY <1>5, OutsideStep
<1>6. CASE HostRestart
  BY <1>6, RestartStep
<1>7. CASE UNCHANGED vars
  <2>1. TypeOK' /\ Promises'
    BY <1>7 DEF vars, IInv, TypeOK, Promises, Promise
  <2>2. \A a \in Actions : SameStory(a)
    BY <1>7 DEF vars, SameStory
  <2> QED
    BY <2>1, <2>2, StoryFrame DEF IInv, Stories
<1> QED
  BY <1>1, <1>2, <1>3, <1>4, <1>5, <1>6, <1>7 DEF Next

LEMMA Invariance == Spec => []IInv
BY InitInvariant, NextInvariant, PTL DEF Spec

-----------------------------------------------------------------------------
(* The theorems.                                                           *)

(* Every variable keeps its type.                                          *)
THEOREM TypeCorrect == Spec => []TypeOK
<1>1. IInv => TypeOK
  BY DEF IInv
<1> QED
  BY <1>1, Invariance, PTL

(* A decision has one outcome: one more only for a decision taken while    *)
(* the first was still being carried out, or for a crash in between.       *)
THEOREM DecidedOnce == Spec => []OneOutcome
<1>1. IInv => OneOutcome
  <2> SUFFICES ASSUME IInv, NEW a \in Actions
               PROVE  executed[a] + refused[a] <= 1 + overlaps[a]
    BY DEF OneOutcome
  <2>1. Cardinality(prompting[a]) \in Nat
    BY Prompts DEF IInv, Stories, Story
  <2> QED
    BY <2>1 DEF IInv, TypeOK, Stories, Story, Outstanding
<1> QED
  BY <1>1, Invariance, PTL

(* No request disappears without an answer to its requester, and a promise *)
(* that waits can be clicked.                                              *)
THEOREM EveryRequestIsAnswered == Spec => []AnswersNeverMissing
<1>1. IInv => AnswersNeverMissing
  BY DEF IInv, Stories, Story, Promises, Promise, AnswersNeverMissing
<1> QED
  BY <1>1, Invariance, PTL

(* Nothing runs after it was refused or without authority, and what was    *)
(* promised to the gateway stands.                                         *)
THEOREM OutcomesAreFinal == Spec => DecisionsAreFinal
<1> DEFINE Step ==
        /\ \A a \in Actions : executed'[a] > executed[a] => refused[a] = 0 /\ authorised
        /\ \A c \in Credentials : waiter[c] \in {"approve", "deny"} => waiter'[c] = waiter[c]
<1>1. ASSUME IInv, Next PROVE Step
  <2>1. executed' = executed \/ \E b \in Actions : Approve(b)
    BY <1>1 DEF Next, ActionStep, CredentialStep, Sweep, NobodyToAsk, RequestApproval, CardSent,
                CardFails, Reject, Applied, WindowElapses, RejectWithReason, ArmReason,
                PromptFails, FinalizeReject, RequestCredential, CredentialAsked,
                CredentialDenied, ResolveCredential, CredentialExpires, DropCredential, ShowCard,
                CaptureReason, ReadGhosts, FinalizeGhost, Revoke, HostRestart, outcomeVars
  <2>2. ASSUME NEW a \in Actions, executed'[a] > executed[a] PROVE refused[a] = 0 /\ authorised
    <3>1. executed[a] \in Nat
      BY <1>1 DEF IInv, TypeOK
    <3>2. PICK b \in Actions : Approve(b)
      BY <2>1, <2>2, <3>1
    <3>3. a = b /\ authorised
      BY <1>1, <2>2, <3>1, <3>2 DEF Approve, IInv, TypeOK
    <3> QED
      BY <1>1, <3>2, <3>3 DEF Approve, Click, IInv, Stories, Story
  <2>3. ASSUME NEW c \in Credentials, waiter[c] \in {"approve", "deny"}
        PROVE  waiter'[c] = waiter[c]
    <3>1. stage[c] \notin {"new", "carding"}
      BY <1>1, <2>3 DEF IInv, Promises, Promise
    <3>2. CASE \E d \in Credentials : CredentialStep(d)
      BY <1>1, <2>3, <3>1, <3>2 DEF CredentialStep, RequestCredential, CredentialAsked,
         CredentialDenied, ResolveCredential, CredentialExpires, DropCredential, IInv, TypeOK
    <3>3. CASE HostRestart
      BY <2>3, <3>1, <3>3 DEF HostRestart
    <3>4. CASE ~HostRestart /\ ~\E d \in Credentials : CredentialStep(d)
      <4>1. UNCHANGED waiter
        BY <1>1, <3>4 DEF Next, ActionStep, Sweep, NobodyToAsk, RequestApproval, CardSent,
           CardFails, Reject, Approve, Applied, WindowElapses, RejectWithReason, ArmReason,
           PromptFails, ShowCard, CaptureReason, ReadGhosts, FinalizeGhost, Revoke
      <4> QED
        BY <4>1
    <3> QED
      BY <3>2, <3>3, <3>4
  <2> QED
    BY <2>2, <2>3
<1>2. ASSUME IInv, [Next]_vars PROVE [Step]_vars
  BY <1>1, <1>2
<1> QED
  BY <1>2, Invariance, PTL DEF Spec, DecisionsAreFinal
=============================================================================
