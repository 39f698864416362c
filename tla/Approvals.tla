----------------------------- MODULE Approvals -----------------------------
(***************************************************************************)
(* Approvals (src/modules/approvals, src/guard, src/delivery-guard.ts): an *)
(* agent asks for a privileged action, an administrator decides on a card. *)
(*                                                                         *)
(* Requests of modules (install_packages, add_mcp_server, create_agent,    *)
(* cli_command, a2a_message_gate) are rows of pending_approvals, that an   *)
(* approval replays through the guard.  Requests for credentials are       *)
(* promises of the OneCLI gateway.  Handlers run on the one thread of the  *)
(* host and interleave at their awaits: while a card or a prompt is being  *)
(* delivered, while an approved action is being applied, and between two   *)
(* rows of the sweep.  Clicks of users without authority change nothing    *)
(* and are left out.                                                       *)
(***************************************************************************)
EXTENDS Naturals

CONSTANTS
    Actions,       \* requests of modules
    Credentials,   \* requests of the OneCLI gateway
    Admins,        \* the users who may decide
    Nothing,
    MaxClicks,     \* bound: decisions of administrators
    MaxCrashes     \* bound: restarts of the host

Requests == Actions \cup Credentials

ASSUME ConstantsOK ==
    /\ Actions \cap Credentials = {}
    /\ Nothing \notin Requests
    /\ MaxClicks \in Nat /\ MaxCrashes \in Nat

VARIABLES
    stage,      \* of a request: "new", "carding" (await of the card), "asked"
    row,        \* pending_approvals.status, or "none"
    shown,      \* the card is on the screen
    lapsed,     \* expires_at of the row has passed
    applying,   \* handlers of the approved action that have not returned
    prompting,  \* administrators whose reason prompt is being delivered
    armed,      \* awaitingReason: the request a DM is armed for
    ghosts,     \* the rows the sweep has read and not yet finalised
    waiter,     \* the promise of a credential: "none", "waiting", a decision
    authorised, \* the structural checks of the guard still allow the action
    executed,   \* history: how often the action was carried out
    refused,    \* history: how often the requester was told it was rejected
    told,       \* history: the requests whose requester got some answer
    overlaps,   \* history: decisions made while another was carried out
    clicks,
    crashes

cardVars == <<stage, shown>>
rowVars == <<row, lapsed>>
reasonVars == <<prompting, armed, ghosts>>
outcomeVars == <<executed, refused, told>>
vars == <<stage, row, shown, lapsed, applying, prompting, armed, ghosts, waiter,
          authorised, executed, refused, told, overlaps, clicks, crashes>>

TypeOK ==
    /\ stage \in [Requests -> {"new", "carding", "asked"}]
    /\ row \in [Requests -> {"none", "pending", "awaiting", "expired"}]
    /\ shown \in [Requests -> BOOLEAN]
    /\ lapsed \subseteq Actions
    /\ applying \in [Actions -> Nat]
    /\ prompting \in [Actions -> SUBSET Admins]
    /\ armed \in [Admins -> Actions \cup {Nothing}]
    /\ ghosts \subseteq Actions
    /\ waiter \in [Credentials -> {"none", "waiting", "approve", "deny", "lost"}]
    /\ authorised \in BOOLEAN
    /\ executed \in [Actions -> Nat] /\ refused \in [Actions -> Nat]
    /\ told \subseteq Actions
    /\ overlaps \in [Actions -> Nat]
    /\ clicks \in 0..MaxClicks /\ crashes \in 0..MaxCrashes

Init ==
    /\ stage = [a \in Requests |-> "new"]
    /\ row = [a \in Requests |-> "none"]
    /\ shown = [a \in Requests |-> FALSE]
    /\ lapsed = {}
    /\ applying = [a \in Actions |-> 0]
    /\ prompting = [a \in Actions |-> {}]
    /\ armed = [u \in Admins |-> Nothing]
    /\ ghosts = {}
    /\ waiter = [c \in Credentials |-> "none"]
    /\ authorised = TRUE
    /\ executed = [a \in Actions |-> 0] /\ refused = [a \in Actions |-> 0]
    /\ told = {}
    /\ overlaps = [a \in Actions |-> 0]
    /\ clicks = 0 /\ crashes = 0

SetRow(a, s) == row' = [row EXCEPT ![a] = s]
SetStage(a, s) == stage' = [stage EXCEPT ![a] = s]

-----------------------------------------------------------------------------
(* Requests of modules.                                                    *)

(* requestApproval: no approver, or no DM for any of them.                 *)
NobodyToAsk(a) ==
    /\ stage[a] = "new"
    /\ SetStage(a, "asked") /\ told' = told \cup {a}
    /\ UNCHANGED <<shown, rowVars, applying, reasonVars, waiter, authorised, executed,
                   refused, overlaps, clicks, crashes>>

(* requestApproval up to the await of adapter.deliver.                     *)
RequestApproval(a) ==
    /\ stage[a] = "new"
    /\ SetStage(a, "carding") /\ SetRow(a, "pending")
    /\ UNCHANGED <<shown, lapsed, applying, reasonVars, waiter, authorised, outcomeVars,
                   overlaps, clicks, crashes>>

(* The platform shows the card, before or after deliver returns.           *)
ShowCard(a) ==
    /\ stage[a] = "carding" /\ ~shown[a]
    /\ shown' = [shown EXCEPT ![a] = TRUE]
    /\ UNCHANGED <<stage, rowVars, applying, reasonVars, waiter, authorised, outcomeVars,
                   overlaps, clicks, crashes>>

CardSent(a) ==
    /\ stage[a] = "carding" /\ shown[a]
    /\ SetStage(a, "asked")
    /\ UNCHANGED <<shown, rowVars, applying, reasonVars, waiter, authorised, outcomeVars,
                   overlaps, clicks, crashes>>

(* Bug: the requester is not told that the card could not be delivered.    *)
CardDropped(a) ==
    /\ stage[a] = "carding" /\ ~shown[a]
    /\ SetStage(a, "asked") /\ SetRow(a, "none")
    /\ UNCHANGED <<shown, lapsed, applying, reasonVars, waiter, authorised, outcomeVars,
                   overlaps, clicks, crashes>>

(* deliver throws: the row is removed and the requester told.              *)
CardFails(a) ==
    /\ stage[a] = "carding" /\ ~shown[a]
    /\ SetStage(a, "asked") /\ SetRow(a, "none")
    /\ told' = told \cup {a}
    /\ UNCHANGED <<shown, lapsed, applying, reasonVars, waiter, authorised, executed,
                   refused, overlaps, clicks, crashes>>

-----------------------------------------------------------------------------
(* Decisions.  handleApprovalsResponse ignores a click whose row is gone.  *)

(* History: an earlier decision on this request is still carried out.      *)
Busy(a) == applying[a] > 0 \/ prompting[a] # {} \/ a \in ghosts \/ row[a] = "awaiting"

Click(a) ==
    /\ shown[a] /\ row[a] # "none"
    /\ clicks < MaxClicks /\ clicks' = clicks + 1

Overlap(a) == overlaps' = [overlaps EXCEPT ![a] = IF Busy(a) THEN @ + 1 ELSE @]

(* finalizeReject up to its first await.                                   *)
FinalizeReject(a) ==
    /\ refused' = [refused EXCEPT ![a] = @ + 1]
    /\ told' = told \cup {a}
    /\ SetRow(a, "none")
    /\ lapsed' = lapsed \ {a}
    /\ UNCHANGED executed

(* The button "Reject".                                                    *)
Reject(a) ==
    /\ Click(a) /\ Overlap(a)
    /\ FinalizeReject(a)
    /\ UNCHANGED <<cardVars, applying, reasonVars, waiter, authorised, crashes>>

(* The button "Approve": the handler replays the action with the row as    *)
(* its grant.  The guard wants a live row and re-runs its checks; a denial *)
(* is told to the requester.                                               *)
Approve(a) ==
    /\ Click(a) /\ Overlap(a)
    /\ executed' = [executed EXCEPT ![a] = IF authorised THEN @ + 1 ELSE @]
    /\ told' = told \cup {a}
    /\ applying' = [applying EXCEPT ![a] = @ + 1]
    /\ UNCHANGED <<cardVars, rowVars, reasonVars, waiter, authorised, refused, crashes>>

(* Bug: the row survives the action it approved.                           *)
AppliedAndKept(a) ==
    /\ applying[a] > 0
    /\ applying' = [applying EXCEPT ![a] = @ - 1]
    /\ UNCHANGED <<cardVars, rowVars, reasonVars, waiter, authorised, outcomeVars,
                   overlaps, clicks, crashes>>

(* The handler returns or throws; only now the row is deleted.             *)
Applied(a) ==
    /\ applying[a] > 0
    /\ applying' = [applying EXCEPT ![a] = @ - 1]
    /\ SetRow(a, "none") /\ lapsed' = lapsed \ {a}
    /\ UNCHANGED <<cardVars, reasonVars, waiter, authorised, outcomeVars, overlaps,
                   clicks, crashes>>

(* The button "Reject with reason": armReasonCapture awaits the delivery   *)
(* of the prompt.                                                          *)
RejectWithReason(a, u) ==
    /\ Click(a) /\ Overlap(a) /\ u \notin prompting[a]
    /\ prompting' = [prompting EXCEPT ![a] = @ \cup {u}]
    /\ UNCHANGED <<cardVars, rowVars, applying, armed, ghosts, waiter, authorised,
                   outcomeVars, crashes>>

Prompted(a, u) == prompting' = [prompting EXCEPT ![a] = @ \ {u}]

(* The prompt is out: park the row with a new deadline, arm the DM.        *)
ArmReason(a, u) ==
    /\ u \in prompting[a] /\ Prompted(a, u)
    /\ armed' = [armed EXCEPT ![u] = a]
    /\ row' = [row EXCEPT ![a] = IF @ = "none" THEN @ ELSE "awaiting"]
    /\ lapsed' = lapsed \ {a}
    /\ UNCHANGED <<cardVars, applying, ghosts, waiter, authorised, outcomeVars, overlaps,
                   clicks, crashes>>

(* The prompt cannot be delivered: a plain reject, whatever the row is now.*)
PromptFails(a, u) ==
    /\ u \in prompting[a] /\ Prompted(a, u)
    /\ FinalizeReject(a)
    /\ UNCHANGED <<cardVars, applying, armed, ghosts, waiter, authorised, overlaps, clicks,
                   crashes>>

(* captureReasonReply: the next DM of an administrator whose DM is armed.  *)
CaptureReason(u) ==
    LET a == armed[u] IN
    /\ a # Nothing
    /\ armed' = [armed EXCEPT ![u] = Nothing]
    /\ IF row[a] = "awaiting"
       THEN /\ FinalizeReject(a)
            /\ overlaps' = [overlaps EXCEPT ![a] =
                               IF applying[a] > 0 \/ prompting[a] # {} \/ a \in ghosts
                               THEN @ + 1 ELSE @]
       ELSE UNCHANGED <<rowVars, outcomeVars, overlaps>>
    /\ UNCHANGED <<cardVars, applying, prompting, ghosts, waiter, authorised, clicks, crashes>>

(* Time: five minutes after the prompt.                                    *)
WindowElapses(a) ==
    /\ row[a] = "awaiting" /\ a \notin lapsed
    /\ lapsed' = lapsed \cup {a}
    /\ UNCHANGED <<cardVars, row, applying, reasonVars, waiter, authorised, outcomeVars,
                   overlaps, clicks, crashes>>

(* sweepAwaitingReasonRejects reads the expired holds ...                  *)
ReadGhosts ==
    /\ ghosts = {}
    /\ ghosts' = {a \in Actions : row[a] = "awaiting" /\ a \in lapsed}
    /\ UNCHANGED <<cardVars, rowVars, applying, prompting, armed, waiter, authorised,
                   outcomeVars, overlaps, clicks, crashes>>

(* Bug: the sweep finalises only what is armed in memory.                  *)
ArmedGhost(a) ==
    /\ a \in ghosts /\ ghosts' = ghosts \ {a}
    /\ IF \E u \in Admins : armed[u] = a THEN FinalizeReject(a)
       ELSE UNCHANGED <<rowVars, outcomeVars>>
    /\ UNCHANGED <<cardVars, applying, prompting, armed, waiter, authorised, overlaps,
                   clicks, crashes>>

(* ... and finalises them one after the other, with an await in between.   *)
FinalizeGhost(a) ==
    /\ a \in ghosts /\ ghosts' = ghosts \ {a}
    /\ FinalizeReject(a)
    /\ UNCHANGED <<cardVars, applying, prompting, armed, waiter, authorised, overlaps,
                   clicks, crashes>>

-----------------------------------------------------------------------------
(* Credentials.                                                            *)

(* handleRequest awaits the card before it records the request.            *)
RequestCredential(c) ==
    /\ stage[c] = "new"
    /\ SetStage(c, "carding")
    /\ UNCHANGED <<shown, rowVars, applying, reasonVars, waiter, authorised, outcomeVars,
                   overlaps, clicks, crashes>>

CredentialAsked(c) ==
    /\ stage[c] = "carding" /\ shown[c]
    /\ SetStage(c, "asked") /\ SetRow(c, "pending")
    /\ waiter' = [waiter EXCEPT ![c] = "waiting"]
    /\ UNCHANGED <<shown, lapsed, applying, reasonVars, authorised, outcomeVars, overlaps,
                   clicks, crashes>>

(* No approver, no DM or a failed delivery: denied.                        *)
CredentialDenied(c) ==
    /\ stage[c] \in {"new", "carding"} /\ ~shown[c]
    /\ SetStage(c, "asked")
    /\ waiter' = [waiter EXCEPT ![c] = "deny"]
    /\ UNCHANGED <<shown, rowVars, applying, reasonVars, authorised, outcomeVars, overlaps,
                   clicks, crashes>>

(* Bug: a late click is taken although the promise has been settled.       *)
ResolveLate(c, decision) ==
    /\ Click(c)
    /\ waiter' = [waiter EXCEPT ![c] = decision]
    /\ SetRow(c, "none")
    /\ UNCHANGED <<cardVars, lapsed, applying, reasonVars, authorised, outcomeVars,
                   overlaps, crashes>>

(* resolveOneCLIApproval; a row without a waiter is just dropped.          *)
ResolveCredential(c, decision) ==
    /\ Click(c)
    /\ waiter' = [waiter EXCEPT ![c] = IF @ = "waiting" THEN decision ELSE @]
    /\ SetRow(c, "none")
    /\ UNCHANGED <<cardVars, lapsed, applying, reasonVars, authorised, outcomeVars,
                   overlaps, crashes>>

(* The expiry timer, and expireApproval up to the await of the edit.       *)
CredentialExpires(c) ==
    /\ waiter[c] = "waiting"
    /\ waiter' = [waiter EXCEPT ![c] = "deny"]
    /\ SetRow(c, "expired")
    /\ UNCHANGED <<cardVars, lapsed, applying, reasonVars, authorised, outcomeVars,
                   overlaps, clicks, crashes>>

(* The end of expireApproval, and sweepStaleApprovals after a restart.     *)
DropCredential(c) ==
    /\ row[c] # "none" /\ waiter[c] # "waiting"
    /\ SetRow(c, "none")
    /\ UNCHANGED <<cardVars, lapsed, applying, reasonVars, waiter, authorised, outcomeVars,
                   overlaps, clicks, crashes>>

-----------------------------------------------------------------------------
(* The destination, policy or group a request depends on is taken away.    *)
Revoke ==
    /\ authorised /\ authorised' = FALSE
    /\ UNCHANGED <<cardVars, rowVars, applying, reasonVars, waiter, outcomeVars, overlaps,
                   clicks, crashes>>

(* The host dies and comes back; the rows and the cards stay.  A click on  *)
(* a request whose action was being applied decides it again.              *)
HostRestart ==
    /\ crashes < MaxCrashes /\ crashes' = crashes + 1
    /\ stage' = [a \in Requests |-> IF stage[a] = "carding" THEN "asked" ELSE stage[a]]
    /\ overlaps' = [a \in Actions |-> IF applying[a] > 0 THEN overlaps[a] + 1 ELSE overlaps[a]]
    /\ applying' = [a \in Actions |-> 0]
    /\ prompting' = [a \in Actions |-> {}]
    /\ armed' = [u \in Admins |-> Nothing]
    /\ ghosts' = {}
    /\ waiter' = [c \in Credentials |-> IF waiter[c] = "waiting" \/ stage[c] = "carding"
                                        THEN "lost" ELSE waiter[c]]
    /\ UNCHANGED <<shown, rowVars, authorised, outcomeVars, clicks>>

-----------------------------------------------------------------------------
Sweep == ReadGhosts \/ \E a \in Actions : FinalizeGhost(a)

ActionStep(a) ==
    \/ NobodyToAsk(a) \/ RequestApproval(a) \/ CardSent(a) \/ CardFails(a)
    \/ Reject(a) \/ Approve(a) \/ Applied(a) \/ WindowElapses(a)
    \/ \E u \in Admins : RejectWithReason(a, u) \/ ArmReason(a, u) \/ PromptFails(a, u)

CredentialStep(c) ==
    \/ RequestCredential(c) \/ CredentialAsked(c) \/ CredentialDenied(c)
    \/ ResolveCredential(c, "approve") \/ ResolveCredential(c, "deny")
    \/ CredentialExpires(c) \/ DropCredential(c)

Next ==
    \/ \E a \in Actions : ActionStep(a)
    \/ \E c \in Credentials : CredentialStep(c)
    \/ \E a \in Requests : ShowCard(a)
    \/ \E u \in Admins : CaptureReason(u)
    \/ Sweep \/ Revoke \/ HostRestart

Spec == Init /\ [][Next]_vars

(* Time passes and the sweep runs; nothing is assumed of administrators,   *)
(* of the platform and of the actions that are applied.                    *)
Fairness ==
    /\ WF_vars(ReadGhosts)
    /\ \A a \in Actions : WF_vars(WindowElapses(a)) /\ WF_vars(FinalizeGhost(a))

FairSpec == Spec /\ Fairness

-----------------------------------------------------------------------------
(* Properties.                                                             *)

(* One decision has one outcome: the action is carried out or refused once *)
(* more only for another decision taken while the first was still being    *)
(* carried out, or for a crash that left it half done.                     *)
OneOutcome == \A a \in Actions : executed[a] + refused[a] <= 1 + overlaps[a]

(* A request leaves the table of pending approvals only with an answer to  *)
(* its requester, and a waiting promise of the gateway has a row to click. *)
AnswersNeverMissing ==
    /\ \A a \in Actions : stage[a] # "new" /\ row[a] = "none" => a \in told
    /\ \A c \in Credentials : waiter[c] = "waiting" => row[c] = "pending"

(* Nothing is carried out after its requester was told that it is refused, *)
(* or after the authority for it was taken away, and a settled promise of  *)
(* the gateway is not settled differently by a late click or timer.        *)
DecisionsAreFinal ==
    [][/\ \A a \in Actions : executed'[a] > executed[a] => refused[a] = 0 /\ authorised
       /\ \A c \in Credentials : waiter[c] \in {"approve", "deny"}
                                    => waiter'[c] = waiter[c]]_vars

(* A held reject is told to its requester, also when the administrator     *)
(* never types a reason or the host has forgotten that it waits for one.   *)
HoldsSettle == \A a \in Actions : row[a] = "awaiting" ~> row[a] = "none"

-----------------------------------------------------------------------------
(* What comments of the repository say and the code does not do.           *)

(* guard.ts: "approved replays must execute exactly once".                 *)
ReplaysExecuteOnce == \A a \in Actions : executed[a] <= 1
=============================================================================
