----------------------------- MODULE Scheduling -----------------------------
(***************************************************************************)
(* One series of scheduled tasks (src/modules/scheduling, the `ncl tasks`  *)
(* commands and the scheduled-tasks service of the web interface): the     *)
(* rows of kind `task` in the inbound.db of the session of the series.     *)
(*                                                                         *)
(* Four actors: the runner claims and acks rows in its own database; the   *)
(* sweep of the host mirrors the acks and inserts the next occurrence; the *)
(* commands run in the host between the awaits of the sweep; the web       *)
(* interface is another process, that writes the same rows at any moment.  *)
(* Rows are numbered by seq.  Times are left out: a pending row may become *)
(* due at any moment.  The runner reads and claims a row in one step.      *)
(***************************************************************************)
EXTENDS Naturals, FiniteSets

CONSTANTS
    MaxRow,       \* bound: rows the series ever has
    PauseCap,     \* SCRIPT_FAIL_PAUSE_CAP
    MaxClashes,   \* bound: see clashes
    MaxFaults     \* bound: failed insertions of a next occurrence

ASSUME ConstantsOK ==
    /\ MaxRow \in Nat \ {0}
    /\ PauseCap \in Nat \ {0}
    /\ MaxClashes \in Nat /\ MaxFaults \in Nat

Rows == 1..MaxRow
NoRow == 0

Live == {"pending", "paused"}
Finished == {"completed", "failed"}
Statuses == Live \cup Finished \cup {"none", "cancelled", "deleted"}

VARIABLES
    status,    \* messages_in.status; "none" before the row is inserted
    armed,     \* messages_in.recurrence is not NULL
    ack,       \* processing_ack.status; "crashed" is script-skip:error
    open,      \* the session of the series is active
    alive,     \* its container runs
    sweep,     \* where sweepSession is: "idle", "waking", "rearming"
    todo,      \* the finished rows handleRecurrence has read
    inserted,  \* the row of todo whose successor exists, or NoRow
    editArm,   \* rows the web interface is about to give a recurrence,
    editClear, \* ... and to write NULL to
    stop,      \* history: what the operator asked for last
    failures,  \* history: scheduled runs that failed since a run succeeded
    clashes,   \* history: crashes and edits that armed one row too many
    faults     \* history: occurrences that could not be inserted

rowVars == <<status, armed, ack>>
sweepVars == <<sweep, todo, inserted>>
editVars == <<editArm, editClear>>
historyVars == <<stop, failures, clashes, faults>>
vars == <<status, armed, ack, open, alive, sweep, todo, inserted, editArm,
          editClear, stop, failures, clashes, faults>>

TypeOK ==
    /\ status \in [Rows -> Statuses]
    /\ armed \in [Rows -> BOOLEAN]
    /\ ack \in [Rows -> {"none", "processing", "completed", "crashed"}]
    /\ open \in BOOLEAN /\ alive \in BOOLEAN
    /\ sweep \in {"idle", "waking", "rearming"}
    /\ todo \subseteq Rows
    /\ inserted \in todo \cup {NoRow}
    /\ editArm \subseteq Rows /\ editClear \subseteq Rows
    /\ stop \in {"no", "held", "ended", "asked"}
    /\ failures \in Nat
    /\ clashes \in 0..MaxClashes
    /\ faults \in 0..MaxFaults

LiveRows == {r \in Rows : status[r] \in Live}
IdleRow(r) == status[r] = "none"

(* getCompletedRecurring.                                                  *)
CompletedRecurring == {r \in Rows : status[r] \in Finished /\ armed[r]}

(* The rows that make the series go on; the sweep goes on with what it has *)
(* read, also when the web interface has written NULL to it since.         *)
Carriers ==
    ({r \in Rows : status[r] \in Live \cup Finished /\ armed[r]} \cup todo) \ {inserted}

(* createScheduledTask: the first row of the series, in a session of its   *)
(* own; a template creates its series paused.                              *)
Init ==
    /\ \E s \in Live, a \in BOOLEAN :
          /\ status = [r \in Rows |-> IF r = 1 THEN s ELSE "none"]
          /\ armed = [r \in Rows |-> r = 1 /\ a]
          /\ stop = IF ~a THEN "ended" ELSE IF s = "paused" THEN "held" ELSE "no"
    /\ ack = [r \in Rows |-> "none"]
    /\ open = TRUE /\ alive = FALSE
    /\ sweep = "idle" /\ todo = {} /\ inserted = NoRow
    /\ editArm = {} /\ editClear = {}
    /\ failures = 0 /\ clashes = 0 /\ faults = 0

(* insertTaskRow: the next seq.                                            *)
InsertTaskRow(r, s, a) ==
    /\ IdleRow(r) /\ \A q \in Rows : q < r => ~IdleRow(q)
    /\ status' = [status EXCEPT ![r] = s]
    /\ armed' = [armed EXCEPT ![r] = a]

-----------------------------------------------------------------------------
(* The container.                                                          *)

(* Any wake-up: the start clears the claims of a predecessor.              *)
ContainerStarts ==
    /\ open /\ ~alive /\ \E r \in Rows : status[r] = "pending"
    /\ alive' = TRUE
    /\ ack' = [r \in Rows |-> IF ack[r] = "processing" THEN "none" ELSE ack[r]]
    /\ UNCHANGED <<status, armed, open, sweepVars, editVars, historyVars>>

ContainerStops ==
    /\ alive /\ alive' = FALSE
    /\ UNCHANGED <<rowVars, open, sweepVars, editVars, historyVars>>

(* getPendingMessages and markProcessing.                                  *)
Claim(r) ==
    /\ alive /\ status[r] = "pending" /\ ack[r] = "none"
    /\ ack' = [ack EXCEPT ![r] = "processing"]
    /\ UNCHANGED <<status, armed, open, alive, sweepVars, editVars, historyVars>>

(* markCompleted, or the script of the task failed.                        *)
Acknowledge(r, outcome) ==
    /\ alive /\ ack[r] = "processing"
    /\ ack' = [ack EXCEPT ![r] = outcome]
    /\ UNCHANGED <<status, armed, open, alive, sweepVars, editVars, historyVars>>

-----------------------------------------------------------------------------
(* The sweep.                                                              *)

(* History: F are the rows that fail now, C those that succeed.            *)
CountFailures(F, C) ==
    failures' = IF C = {} THEN failures + Cardinality({r \in F : armed[r]})
                ELSE Cardinality({r \in F : armed[r] /\ \A c \in C : c < r})

(* Step 1, syncProcessingAcks: by id, whatever the row is by now, a        *)
(* finished row excepted.  An ack that has been mirrored is never looked   *)
(* at again: the model forgets it.                                         *)
SyncProcessingAcks ==
    LET Fresh(outcome) == {r \in Rows : /\ ack[r] = outcome
                                        /\ status[r] \notin Finished \cup {"deleted"}}
    IN /\ sweep = "idle" /\ open
       /\ status' = [r \in Rows |-> IF r \in Fresh("completed") THEN "completed"
                                    ELSE IF r \in Fresh("crashed") THEN "failed"
                                    ELSE status[r]]
       /\ CountFailures(Fresh("crashed"), Fresh("completed"))
       /\ ack' = [r \in Rows |-> IF ack[r] = "processing" THEN "processing" ELSE "none"]
       /\ sweep' = "waking"
       /\ UNCHANGED <<armed, open, alive, todo, inserted, editVars, stop, clashes,
                      faults>>

(* Steps 2 to 5 after the await of wakeContainer: rows left in processing  *)
(* by a dead container are retried, or failed when their tries are used up *)
(* (E; SessionMailbox counts the tries); then getCompletedRecurring.       *)
BeginRearm ==
    LET Orphans == {r \in Rows : ~alive /\ ack[r] = "processing"}
        Retried == {r \in Orphans : status[r] = "pending"}
    IN /\ sweep = "waking"
       /\ \E E \in SUBSET Retried :
             /\ status' = [r \in Rows |-> IF r \in E THEN "failed" ELSE status[r]]
             /\ CountFailures(E, {})
             /\ todo' = CompletedRecurring \cup {r \in E : armed[r]}
       /\ ack' = [r \in Rows |-> IF r \in Orphans THEN "none" ELSE ack[r]]
       /\ sweep' = "rearming"
       /\ UNCHANGED <<armed, open, alive, inserted, editVars, stop, clashes, faults>>

(* trailingFailedRuns: failed runs newer than the newest completed one.    *)
TrailingFailedRuns ==
    Cardinality({r \in Rows : /\ status[r] = "failed"
                              /\ \A q \in Rows : q > r => status[q] # "completed"})

(* Bug: a series that keeps failing is armed like any other.               *)
NeverPaused == "pending"

NextStatus == IF TrailingFailedRuns >= PauseCap THEN "paused" ELSE "pending"

(* handleRecurrence: insertRecurrence, and in a second statement           *)
(* clearRecurrence.                                                        *)
InsertRecurrence(r, new) ==
    /\ sweep = "rearming" /\ r \in todo /\ inserted = NoRow
    /\ InsertTaskRow(new, NextStatus, TRUE)
    /\ inserted' = r
    /\ UNCHANGED <<ack, open, alive, sweep, todo, editVars, historyVars>>

(* Bug: the finished occurrence keeps its recurrence.                      *)
KeepRecurrence(r) ==
    /\ inserted = r
    /\ inserted' = NoRow /\ todo' = todo \ {r}
    /\ UNCHANGED <<rowVars, open, alive, sweep, editVars, historyVars>>

ClearRecurrence(r) ==
    /\ inserted = r
    /\ armed' = [armed EXCEPT ![r] = FALSE]
    /\ inserted' = NoRow /\ todo' = todo \ {r}
    /\ UNCHANGED <<status, ack, open, alive, sweep, editVars, historyVars>>

(* The catch clause: the cron expression, the insertion or the update      *)
(* fails; the row keeps its recurrence until the next sweep.               *)
RearmFails(r) ==
    /\ sweep = "rearming" /\ r \in todo /\ inserted \in {NoRow, r}
    /\ faults < MaxFaults /\ (inserted = r => clashes < MaxClashes)
    /\ faults' = faults + 1
    /\ clashes' = IF inserted = r THEN clashes + 1 ELSE clashes
    /\ todo' = todo \ {r} /\ inserted' = NoRow
    /\ UNCHANGED <<rowVars, open, alive, sweep, editVars, stop, failures>>

(* Bug: pending rows alone count as live.                                  *)
CollectPaused ==
    /\ sweep = "rearming" /\ todo = {}
    /\ open' = (alive \/ \E r \in Rows : status[r] = "pending")
    /\ sweep' = "idle"
    /\ UNCHANGED <<rowVars, alive, todo, inserted, editVars, historyVars>>

(* Step 6: close the session of a spent task.                              *)
CollectSession ==
    /\ sweep = "rearming" /\ todo = {}
    /\ open' = (alive \/ LiveRows # {})
    /\ sweep' = "idle"
    /\ UNCHANGED <<rowVars, alive, todo, inserted, editVars, historyVars>>

-----------------------------------------------------------------------------
(* The operator.  Commands find the session only while it is active and    *)
(* run between the awaits of the sweep.                                    *)

Command == open /\ sweep # "rearming"

(* Nothing of the series is being worked on or waits to be re-armed.       *)
Quiet == \A r \in Rows : armed[r] => status[r] \notin Finished /\ ack[r] = "none"

(* History: how a step that takes recurrences away leaves the series.      *)
StopBy(carriers) == IF carriers = {} THEN "ended" ELSE "asked"

(* runTaskCommand: an extra row, due now, without a recurrence.            *)
RunTask(r) ==
    /\ Command /\ \E q \in Rows : status[q] \notin {"none", "deleted"}
    /\ InsertTaskRow(r, "pending", FALSE)
    /\ UNCHANGED <<ack, open, alive, sweepVars, editVars, historyVars>>

(* pauseTask and resumeTask, from a command or from the web interface.     *)
PauseTask ==
    /\ open /\ \E r \in Rows : status[r] = "pending"
    /\ status' = [r \in Rows |-> IF status[r] = "pending" THEN "paused" ELSE status[r]]
    /\ stop' = IF stop = "no" /\ Quiet THEN "held" ELSE stop
    /\ UNCHANGED <<armed, ack, open, alive, sweepVars, editVars, failures, clashes, faults>>

ResumeTask ==
    /\ open /\ \E r \in Rows : status[r] = "paused"
    /\ status' = [r \in Rows |-> IF status[r] = "paused" THEN "pending" ELSE status[r]]
    /\ stop' = IF stop = "held" THEN "no" ELSE stop
    /\ failures' = 0
    /\ UNCHANGED <<armed, ack, open, alive, sweepVars, editVars, clashes, faults>>

(* Bug: the recurrence of a cancelled row stays.                           *)
CancelStatusOnly ==
    /\ open /\ LiveRows # {}
    /\ status' = [r \in Rows |-> IF r \in LiveRows THEN "cancelled" ELSE status[r]]
    /\ stop' = StopBy(Carriers \ LiveRows)
    /\ UNCHANGED <<armed, ack, open, alive, sweepVars, editVars, failures, clashes, faults>>

(* cancelTask and cancelAllTasks.                                          *)
CancelTask ==
    /\ open /\ LiveRows # {}
    /\ status' = [r \in Rows |-> IF r \in LiveRows THEN "cancelled" ELSE status[r]]
    /\ armed' = [r \in Rows |-> armed[r] /\ r \notin LiveRows]
    /\ stop' = StopBy(Carriers \ LiveRows)
    /\ UNCHANGED <<ack, open, alive, sweepVars, editVars, failures, clashes, faults>>

(* deleteTask removes the rows of the series, finished ones included.      *)
DeleteTask ==
    /\ Command /\ \E r \in Rows : status[r] \notin {"none", "deleted"}
    /\ status' = [r \in Rows |-> IF IdleRow(r) THEN "none" ELSE "deleted"]
    /\ armed' = [r \in Rows |-> FALSE]
    /\ stop' = "ended"
    /\ UNCHANGED <<ack, open, alive, sweepVars, editVars, failures, clashes, faults>>

(* History: the rows of S get a recurrence; every one but the first is one *)
(* too many.                                                               *)
ArmMore(S) ==
    LET new == {r \in S : ~armed[r]}
        surplus == IF Carriers = {} /\ new # {} THEN Cardinality(new) - 1
                   ELSE Cardinality(new)
    IN /\ clashes + surplus <= MaxClashes
       /\ clashes' = clashes + surplus
       /\ stop' = IF stop \in {"ended", "asked"} THEN "no" ELSE stop
       /\ failures' = IF new = {} THEN failures ELSE 0

(* History: a recurrence is written to a row that is no longer live.       *)
Stale(r) ==
    LET surplus == IF armed[r] \/ status[r] = "deleted" THEN 0 ELSE 1
    IN /\ clashes + surplus <= MaxClashes
       /\ clashes' = clashes + surplus
       /\ UNCHANGED <<stop, failures>>

(* updateTask with a recurrence: every live row of the series, in one      *)
(* transaction.                                                            *)
SetRecurrence ==
    /\ Command /\ LiveRows # {}
    /\ armed' = [r \in Rows |-> armed[r] \/ r \in LiveRows]
    /\ ArmMore(LiveRows)
    /\ UNCHANGED <<status, ack, open, alive, sweepVars, editVars, faults>>

(* updateTask with the recurrence "none".                                  *)
DropRecurrence ==
    /\ Command /\ LiveRows # {}
    /\ armed' = [r \in Rows |-> armed[r] /\ r \notin LiveRows]
    /\ stop' = StopBy(Carriers \ LiveRows)
    /\ UNCHANGED <<status, ack, open, alive, sweepVars, editVars, failures, clashes, faults>>

(* updateScheduledTask of the web interface reads the live rows ...        *)
ReadForEdit ==
    /\ open /\ LiveRows # {} /\ editArm = {} /\ editClear = {}
    /\ \E cron \in BOOLEAN :
          /\ editArm' = {r \in LiveRows : cron \/ armed[r]}
          /\ editClear' = LiveRows \ editArm'
    /\ UNCHANGED <<rowVars, open, alive, sweepVars, historyVars>>

(* ... and writes each one back by id, whatever it is by then.             *)
WriteRecurrence(r) ==
    /\ r \in editArm /\ editArm' = editArm \ {r}
    /\ armed' = [armed EXCEPT ![r] = status[r] # "deleted"]
    /\ IF r \in LiveRows THEN ArmMore({r}) ELSE Stale(r)
    /\ UNCHANGED <<status, ack, open, alive, sweepVars, editClear, faults>>

WriteNull(r) ==
    /\ r \in editClear /\ editClear' = editClear \ {r}
    /\ armed' = [armed EXCEPT ![r] = FALSE]
    /\ stop' = IF armed[r] /\ r \in Carriers THEN StopBy(Carriers \ ({r} \ todo)) ELSE stop
    /\ UNCHANGED <<status, ack, open, alive, sweepVars, editArm, failures, clashes, faults>>

-----------------------------------------------------------------------------
(* The host dies and comes back; cleanupOrphans stops the container.       *)
HostRestart ==
    /\ sweep # "idle" \/ alive
    /\ inserted # NoRow => clashes < MaxClashes
    /\ clashes' = IF inserted # NoRow THEN clashes + 1 ELSE clashes
    /\ alive' = FALSE
    /\ sweep' = "idle" /\ todo' = {} /\ inserted' = NoRow
    /\ UNCHANGED <<rowVars, open, editVars, stop, failures, faults>>

-----------------------------------------------------------------------------
Sweep ==
    \/ SyncProcessingAcks \/ BeginRearm \/ CollectSession
    \/ \E r \in Rows : ClearRecurrence(r) \/ RearmFails(r)
    \/ \E r, new \in Rows : InsertRecurrence(r, new)

Container ==
    \/ ContainerStarts \/ ContainerStops
    \/ \E r \in Rows : Claim(r) \/ Acknowledge(r, "completed") \/ Acknowledge(r, "crashed")

Operator ==
    \/ PauseTask \/ ResumeTask \/ CancelTask \/ DeleteTask
    \/ SetRecurrence \/ DropRecurrence \/ ReadForEdit
    \/ \E r \in Rows : RunTask(r) \/ WriteRecurrence(r) \/ WriteNull(r)

Next == Sweep \/ Container \/ Operator \/ HostRestart

Spec == Init /\ [][Next]_vars

-----------------------------------------------------------------------------
(* Properties.                                                             *)

(* A series has one occurrence that carries it on: the sweep, the run on   *)
(* demand, pauses and retries never make a second one.  Only a crash       *)
(* between the two statements of the sweep and an edit that also meets the *)
(* row of a run on demand, or a row that has finished meanwhile, do.       *)
OneCarrier == Cardinality(Carriers) <= 1 + clashes

(* A recurring series that nobody stopped goes on: some row carries it and *)
(* its session is swept, unless the insertion of an occurrence failed.     *)
SeriesSurvives == stop \in {"no", "held"} => Carriers # {} /\ (open \/ faults > 0)

(* A series that was cancelled, deleted or paused while no occurrence was  *)
(* being worked on stays so until the operator says otherwise: no late     *)
(* acknowledgement, retry or run on demand revives it.                     *)
StopsHold ==
    clashes = 0 =>
        /\ stop = "ended" => Carriers = {}
        /\ stop = "held" => \A r \in Carriers : status[r] = "paused"

(* A series whose scheduled runs keep failing stops after PauseCap of      *)
(* them: one more if a run on demand succeeded out of turn, since the next *)
(* occurrence is judged by the failures after the last success, and two    *)
(* more for every carrier too many, which may fail out of turn as well and *)
(* whose successor is then armed with the others.                          *)
BrokenSeriesPauses == failures <= PauseCap + 1 + 2 * clashes
=============================================================================
