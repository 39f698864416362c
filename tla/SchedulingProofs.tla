-------------------------- MODULE SchedulingProofs --------------------------
(***************************************************************************)
(* Theorems about Scheduling, for any number of rows and any limits.       *)
(*                                                                         *)
(* The argument: a row that is cancelled but has a recurrence is counted   *)
(* with the carriers, since a late acknowledgement makes it one; then no   *)
(* step adds to the count without adding to `clashes`.  A series nobody    *)
(* stopped has a carrier with a recurrence of its own, which the sweep has *)
(* read if it is finished; and one that is held has no carrier the runner  *)
(* knows of.  The pause of a failing series rests on what it counts: the   *)
(* next occurrence is judged by the failures after the last success, so    *)
(* the rows that may still fail before that success are counted apart.     *)
(***************************************************************************)
EXTENDS Scheduling, FiniteSetTheorems, TLAPS

(* Cancelled rows with a recurrence.                                       *)
Dormant == {r \in Rows : armed[r] /\ status[r] = "cancelled"}

Counted ==
    /\ Cardinality(Carriers) + Cardinality(Dormant) <= 1 + clashes
    /\ Cardinality(Dormant) <= clashes

(* What the sweep has in hand, when a session may be closed, and that there*)
(* is no acknowledgement without a row.                                    *)
AtWork ==
    /\ sweep # "rearming" => todo = {}
    /\ \A r \in todo : status[r] \in Finished
    /\ ~open => sweep = "idle" /\ LiveRows = {}
    /\ \A r \in Rows : status[r] = "none" => ack[r] = "none"

(* Carriers by a recurrence of their own.                                  *)
Sure == {r \in Rows : armed[r] /\ status[r] \in Live \cup Finished} \ {inserted}

GoesOn ==
    stop \in {"no", "held"} =>
        /\ Sure # {}
        /\ open \/ faults > 0
        /\ sweep = "rearming" =>
             faults > 0 \/ \E r \in Sure : status[r] \in Live \/ r \in todo

Stopped ==
    clashes = 0 =>
        /\ stop = "ended" => Carriers = {}
        /\ stop = "held" => \A r \in Carriers : status[r] = "paused" /\ ack[r] = "none"

(* The scheduled rows that a runner may have in hand, and among them those *)
(* that are older than a run that succeeded.                               *)
Runnable ==
    {r \in Rows : /\ armed[r] /\ status[r] \in Live \cup {"cancelled"}
                  /\ status[r] = "pending" \/ ack[r] # "none"}

Overtaken == {r \in Runnable : \E q \in Rows : q > r /\ status[q] = "completed"}

(* The rows of trailingFailedRuns.                                         *)
Trailing ==
    {r \in Rows : status[r] = "failed" /\ \A q \in Rows : q > r => status[q] # "completed"}

(* Rows are inserted in order, and a series is deleted as a whole.         *)
Tidy ==
    /\ \A q, r \in Rows : q < r /\ status[q] = "none" => status[r] = "none"
    /\ (\E r \in Rows : status[r] = "deleted") => \A r \in Rows : status[r] \in {"none", "deleted"}

(* What has failed and may still fail is bounded; and a failure that is no *)
(* trailing one is matched by the one run out of turn or by a clash.       *)
Pausing ==
    /\ failures + Cardinality(Runnable) <= PauseCap + 1 + 2 * clashes
    /\ (\A r \in Rows : status[r] # "deleted") =>
         failures + Cardinality(Overtaken) <= Cardinality(Trailing) + 1 + clashes

IInv == TypeOK /\ AtWork /\ Counted /\ GoesOn /\ Stopped /\ Tidy /\ Pausing

-----------------------------------------------------------------------------
(* Sets of rows.                                                           *)

LEMMA RowSets == \A S \in SUBSET Rows : IsFiniteSet(S) /\ Cardinality(S) \in Nat
<1>1. IsFiniteSet(Rows)
  BY ConstantsOK, FS_Interval DEF Rows
<1> QED
  BY <1>1, FS_Subset, FS_CardinalityType

LEMMA Smaller ==
    ASSUME NEW S \in SUBSET Rows, NEW T \in SUBSET Rows, S \subseteq T
    PROVE  Cardinality(S) <= Cardinality(T)
BY RowSets, FS_Subset

LEMMA Joined ==
    ASSUME NEW S \in SUBSET Rows, NEW T \in SUBSET Rows
    PROVE  /\ Cardinality(S \cup T) <= Cardinality(S) + Cardinality(T)
           /\ S \cap T = {} => Cardinality(S \cup T) = Cardinality(S) + Cardinality(T)
<1>1. Cardinality(S \cup T) = Cardinality(S) + Cardinality(T) - Cardinality(S \cap T)
  BY RowSets, FS_Union
<1>2. Cardinality(S) \in Nat /\ Cardinality(T) \in Nat /\ Cardinality(S \cap T) \in Nat
  BY RowSets
<1>3. S \cap T = {} => Cardinality(S \cap T) = 0
  BY FS_EmptySet
<1> QED
  BY <1>1, <1>2, <1>3

LEMMA OneMore ==
    ASSUME NEW S \in SUBSET Rows, NEW x
    PROVE  Cardinality(S \cup {x}) <= Cardinality(S) + 1
<1>1. IsFiniteSet(S) /\ Cardinality(S) \in Nat
  BY RowSets
<1>2. Cardinality(S \cup {x}) = IF x \in S THEN Cardinality(S) ELSE Cardinality(S) + 1
  BY <1>1, FS_AddElement
<1> QED
  BY <1>1, <1>2

LEMMA CarriersAreRows ==
    TypeOK => Carriers \in SUBSET Rows /\ Dormant \in SUBSET Rows
BY DEF TypeOK, Carriers, Dormant

-----------------------------------------------------------------------------
(* Types.                                                                  *)

LEMMA CountFailuresType ==
    ASSUME TypeOK, NEW F \in SUBSET Rows, NEW C \in SUBSET Rows, CountFailures(F, C)
    PROVE  failures' \in Nat
<1>1. {r \in F : armed[r]} \in SUBSET Rows
      /\ {r \in F : armed[r] /\ \A c \in C : c < r} \in SUBSET Rows
  OBVIOUS
<1> QED
  BY <1>1, RowSets DEF TypeOK, CountFailures

LEMMA ArmMoreType ==
    ASSUME TypeOK, NEW S \in SUBSET Rows, ArmMore(S)
    PROVE  /\ clashes' \in 0..MaxClashes /\ clashes <= clashes' /\ failures' \in Nat
           /\ stop' \in {"no", "held", "ended", "asked"}
<1> DEFINE new == {r \in S : ~armed[r]}
<1>1. Cardinality(new) \in Nat /\ (new # {} => Cardinality(new) # 0)
  BY RowSets, FS_EmptySet
<1> QED
  BY <1>1, ConstantsOK DEF TypeOK, ArmMore

LEMMA SweepTypes ==
    ASSUME TypeOK, AtWork, Sweep
    PROVE  TypeOK'
<1> USE ConstantsOK DEF TypeOK, sweepVars, rowVars, editVars, historyVars
<1>1. CASE SyncProcessingAcks
  <2> DEFINE Fresh(outcome) == {r \in Rows : /\ ack[r] = outcome
                                             /\ status[r] \notin Finished \cup {"deleted"}}
  <2>1. failures' \in Nat
    <3>1. CountFailures(Fresh("crashed"), Fresh("completed"))
      BY <1>1 DEF SyncProcessingAcks
    <3> QED
      BY <3>1, CountFailuresType
  <2>2. status' \in [Rows -> Statuses]
    BY <1>1 DEF SyncProcessingAcks, Statuses, Finished
  <2>3. ack' \in [Rows -> {"none", "processing", "completed", "crashed"}]
    BY <1>1 DEF SyncProcessingAcks
  <2> QED
    BY <1>1, <2>1, <2>2, <2>3 DEF SyncProcessingAcks
<1>2. CASE BeginRearm
  <2>1. PICK E \in SUBSET Rows :
          /\ status' = [r \in Rows |-> IF r \in E THEN "failed" ELSE status[r]]
          /\ CountFailures(E, {})
          /\ todo' = CompletedRecurring \cup {r \in E : armed[r]}
    BY <1>2 DEF BeginRearm
  <2>2. failures' \in Nat
    BY <2>1, CountFailuresType
  <2>3. status' \in [Rows -> Statuses]
    BY <2>1 DEF Statuses, Finished
  <2>4. todo' \subseteq Rows
    BY <2>1 DEF CompletedRecurring
  <2>5. ack' \in [Rows -> {"none", "processing", "completed", "crashed"}]
    BY <1>2 DEF BeginRearm
  <2> QED
    BY <1>2, <2>2, <2>3, <2>4, <2>5 DEF BeginRearm, AtWork
<1>3. CASE CollectSession
  BY <1>3 DEF CollectSession
<1>4. ASSUME NEW r \in Rows, ClearRecurrence(r) \/ RearmFails(r)
      PROVE  TypeOK'
  <2>1. CASE ClearRecurrence(r)
    BY <2>1 DEF ClearRecurrence
  <2>2. CASE RearmFails(r)
    <3>1. clashes' \in 0..MaxClashes /\ faults' \in 0..MaxFaults
      BY <2>2 DEF RearmFails
    <3> QED
      BY <2>2, <3>1 DEF RearmFails
  <2> QED
    BY <1>4, <2>1, <2>2
<1>5. ASSUME NEW r \in Rows, NEW new \in Rows, InsertRecurrence(r, new)
      PROVE  TypeOK'
  BY <1>5 DEF InsertRecurrence, InsertTaskRow, NextStatus, Statuses, Live
<1> QED
  BY <1>1, <1>2, <1>3, <1>4, <1>5 DEF Sweep

LEMMA OperatorTypes ==
    ASSUME TypeOK, Operator
    PROVE  TypeOK'
<1> USE ConstantsOK DEF TypeOK, sweepVars, rowVars, editVars, historyVars, Statuses, Live,
                        Finished, StopBy
<1>1. CASE PauseTask \/ ResumeTask
  BY <1>1 DEF PauseTask, ResumeTask
<1>2. CASE CancelTask \/ DropRecurrence
  BY <1>2 DEF CancelTask, DropRecurrence
<1>3. CASE DeleteTask
  BY <1>3 DEF DeleteTask
<1>4. CASE SetRecurrence
  <2>1. LiveRows \in SUBSET Rows /\ ArmMore(LiveRows)
    BY <1>4 DEF SetRecurrence, LiveRows
  <2>2. armed' \in [Rows -> BOOLEAN]
    BY <1>4 DEF SetRecurrence
  <2> QED
    BY <1>4, <2>1, <2>2, ArmMoreType DEF SetRecurrence
<1>5. CASE ReadForEdit
  BY <1>5 DEF ReadForEdit, LiveRows
<1>6. ASSUME NEW r \in Rows, RunTask(r)
      PROVE  TypeOK'
  BY <1>6 DEF RunTask, InsertTaskRow
<1>7. ASSUME NEW r \in Rows, WriteRecurrence(r)
      PROVE  TypeOK'
  <2>1. /\ clashes' \in 0..MaxClashes /\ failures' \in Nat
        /\ stop' \in {"no", "held", "ended", "asked"}
    <3>1. CASE r \in LiveRows
      BY <1>7, <3>1, ArmMoreType DEF WriteRecurrence
    <3>2. CASE r \notin LiveRows
      BY <1>7, <3>2 DEF WriteRecurrence, Stale
    <3> QED
      BY <3>1, <3>2
  <2>2. armed' \in [Rows -> BOOLEAN]
    BY <1>7 DEF WriteRecurrence
  <2> QED
    BY <1>7, <2>1, <2>2 DEF WriteRecurrence
<1>8. ASSUME NEW r \in Rows, WriteNull(r)
      PROVE  TypeOK'
  BY <1>8 DEF WriteNull
<1> QED
  BY <1>1, <1>2, <1>3, <1>4, <1>5, <1>6, <1>7, <1>8 DEF Operator

LEMMA TypeStep ==
    ASSUME TypeOK, AtWork, [Next]_vars
    PROVE  TypeOK'
<1> USE ConstantsOK DEF TypeOK, sweepVars, rowVars, editVars, historyVars
<1>1. CASE Container
  BY <1>1 DEF Container, ContainerStarts, ContainerStops, Claim, Acknowledge
<1>2. CASE HostRestart
  <2>1. clashes' \in 0..MaxClashes
    BY <1>2 DEF HostRestart
  <2> QED
    BY <1>2, <2>1 DEF HostRestart
<1>3. CASE UNCHANGED vars
  BY <1>3 DEF vars
<1> QED
  BY <1>1, <1>2, <1>3, SweepTypes, OperatorTypes DEF Next

-----------------------------------------------------------------------------
(* The sweep's work.                                                       *)

LEMMA AtWorkStep ==
    ASSUME TypeOK, AtWork, [Next]_vars
    PROVE  AtWork'
<1> USE DEF AtWork, sweepVars, rowVars, editVars, historyVars, LiveRows, Live, Finished
<1>1. CASE SyncProcessingAcks
  BY <1>1 DEF SyncProcessingAcks
<1>2. CASE BeginRearm
  <2>1. PICK E \in SUBSET Rows :
          /\ \A r \in E : status[r] = "pending"
          /\ status' = [r \in Rows |-> IF r \in E THEN "failed" ELSE status[r]]
          /\ todo' = CompletedRecurring \cup {r \in E : armed[r]}
    BY <1>2 DEF BeginRearm
  <2> QED
    BY <1>2, <2>1 DEF BeginRearm, CompletedRecurring
<1>3. CASE CollectSession
  BY <1>3 DEF CollectSession
<1>4. ASSUME NEW r \in Rows, ClearRecurrence(r) \/ RearmFails(r)
      PROVE  AtWork'
  BY <1>4 DEF ClearRecurrence, RearmFails, TypeOK
<1>5. ASSUME NEW r \in Rows, NEW new \in Rows, InsertRecurrence(r, new)
      PROVE  AtWork'
  <2>1. new \notin todo
    BY <1>5 DEF InsertRecurrence, InsertTaskRow, IdleRow
  <2> QED
    BY <1>5, <2>1 DEF InsertRecurrence, InsertTaskRow, NextStatus, TypeOK
<1>6. CASE Container
  BY <1>6 DEF Container, ContainerStarts, ContainerStops, Claim, Acknowledge, TypeOK
<1>7. CASE PauseTask \/ ResumeTask \/ CancelTask \/ DeleteTask
  BY <1>7 DEF PauseTask, ResumeTask, CancelTask, DeleteTask, Command, IdleRow, TypeOK
<1>8. CASE SetRecurrence \/ DropRecurrence \/ ReadForEdit
  BY <1>8 DEF SetRecurrence, DropRecurrence, ReadForEdit
<1>9. ASSUME NEW r \in Rows, WriteRecurrence(r) \/ WriteNull(r)
      PROVE  AtWork'
  BY <1>9 DEF WriteRecurrence, WriteNull
<1>10. ASSUME NEW r \in Rows, RunTask(r)
       PROVE  AtWork'
  BY <1>10 DEF RunTask, InsertTaskRow, Command
<1>11. CASE HostRestart
  BY <1>11 DEF HostRestart
<1>12. CASE UNCHANGED vars
  BY <1>12 DEF vars
<1> QED
  BY <1>1, <1>2, <1>3, <1>4, <1>5, <1>6, <1>7, <1>8, <1>9, <1>10, <1>11, <1>12
     DEF Next, Sweep, Operator

-----------------------------------------------------------------------------
(* Carriers.                                                               *)

(* A row is a carrier, said of one row.                                    *)
LEMMA CarrierIs ==
    \A r : r \in Carriers <=>
             /\ r # inserted
             /\ r \in todo \/ (r \in Rows /\ armed[r] /\ status[r] \in Live \cup Finished)
BY DEF Carriers

(* The rows of X become carriers, each for a clash of its own.             *)
LEMMA CountedClashes ==
    ASSUME TypeOK, TypeOK', Counted, NEW X \in SUBSET Rows,
           Carriers' \subseteq Carriers \cup X, Dormant' \subseteq Dormant,
           clashes + Cardinality(X) <= clashes'
    PROVE  Counted'
<1>1. /\ Carriers \in SUBSET Rows /\ Carriers' \in SUBSET Rows
      /\ Dormant \in SUBSET Rows /\ Dormant' \in SUBSET Rows
  BY CarriersAreRows DEF Carriers, Dormant, TypeOK
<1>2. Cardinality(Carriers') <= Cardinality(Carriers) + Cardinality(X)
  <2>1. Carriers \cup X \in SUBSET Rows
    BY <1>1
  <2>2. Cardinality(Carriers') <= Cardinality(Carriers \cup X)
    BY <1>1, <2>1, Smaller
  <2>3. Cardinality(Carriers \cup X) <= Cardinality(Carriers) + Cardinality(X)
    BY <1>1, Joined
  <2> QED
    BY <1>1, <2>1, <2>2, <2>3, RowSets
<1>3. Cardinality(Dormant') <= Cardinality(Dormant)
  BY <1>1, Smaller
<1>4. /\ Cardinality(Carriers) \in Nat /\ Cardinality(Carriers') \in Nat /\ Cardinality(X) \in Nat
      /\ Cardinality(Dormant) \in Nat /\ Cardinality(Dormant') \in Nat
      /\ clashes \in Nat /\ clashes' \in Nat
  BY <1>1, RowSets, ConstantsOK DEF TypeOK
<1> QED
  BY <1>2, <1>3, <1>4 DEF Counted

(* Steps that make no carrier.                                             *)
LEMMA CountedQuiet ==
    ASSUME TypeOK, TypeOK', Counted, Carriers' \subseteq Carriers, Dormant' \subseteq Dormant,
           clashes <= clashes'
    PROVE  Counted'
<1>1. Cardinality({}) = 0 /\ {} \in SUBSET Rows /\ clashes + 0 = clashes
  BY FS_EmptySet, ConstantsOK DEF TypeOK
<1> QED
  BY <1>1, CountedClashes

(* A recurrence is written to a cancelled row.                             *)
LEMMA CountedDormant ==
    ASSUME TypeOK, TypeOK', Counted, NEW r \in Rows, Carriers' \subseteq Carriers,
           Dormant' \subseteq Dormant \cup {r}, clashes' = clashes + 1
    PROVE  Counted'
<1>1. /\ Carriers \in SUBSET Rows /\ Carriers' \in SUBSET Rows
      /\ Dormant \in SUBSET Rows /\ Dormant' \in SUBSET Rows /\ Dormant \cup {r} \in SUBSET Rows
  BY CarriersAreRows DEF Carriers, Dormant, TypeOK
<1>2. Cardinality(Carriers') <= Cardinality(Carriers)
  BY <1>1, Smaller
<1>3. Cardinality(Dormant') <= Cardinality(Dormant \cup {r})
  BY <1>1, Smaller
<1>4. Cardinality(Dormant \cup {r}) <= Cardinality(Dormant) + 1
  BY <1>1, OneMore
<1>5. /\ Cardinality(Carriers) \in Nat /\ Cardinality(Carriers') \in Nat
      /\ Cardinality(Dormant) \in Nat /\ Cardinality(Dormant') \in Nat
      /\ Cardinality(Dormant \cup {r}) \in Nat /\ clashes \in Nat
  BY <1>1, RowSets, ConstantsOK DEF TypeOK
<1> QED
  BY <1>2, <1>3, <1>4, <1>5 DEF Counted

(* Late acknowledgements turn dormant rows into carriers.                  *)
LEMMA CountedAwoken ==
    ASSUME TypeOK, TypeOK', Counted, NEW X \in SUBSET Dormant,
           Carriers' \subseteq Carriers \cup X, Dormant' \subseteq Dormant \ X,
           clashes' = clashes
    PROVE  Counted'
<1>1. /\ Carriers \in SUBSET Rows /\ Carriers' \in SUBSET Rows /\ X \in SUBSET Rows
      /\ Dormant \in SUBSET Rows /\ Dormant' \in SUBSET Rows
  BY CarriersAreRows DEF Carriers, Dormant, TypeOK
<1>2. Cardinality(Carriers') <= Cardinality(Carriers) + Cardinality(X)
  <2>1. Carriers \cup X \in SUBSET Rows
    BY <1>1
  <2>2. Cardinality(Carriers') <= Cardinality(Carriers \cup X)
    BY <1>1, <2>1, Smaller
  <2>3. Cardinality(Carriers \cup X) <= Cardinality(Carriers) + Cardinality(X)
    BY <1>1, Joined
  <2> QED
    BY <1>1, <2>1, <2>2, <2>3, RowSets
<1>3. Cardinality(Dormant') + Cardinality(X) <= Cardinality(Dormant)
  <2>1. Dormant' \cap X = {} /\ Dormant' \cup X \subseteq Dormant
    OBVIOUS
  <2>2. Cardinality(Dormant' \cup X) = Cardinality(Dormant') + Cardinality(X)
    BY <1>1, <2>1, Joined
  <2>3. Dormant' \cup X \in SUBSET Rows
    BY <1>1
  <2>4. Cardinality(Dormant' \cup X) <= Cardinality(Dormant)
    BY <1>1, <2>1, <2>3, Smaller
  <2> QED
    BY <2>2, <2>4
<1>4. /\ Cardinality(Carriers) \in Nat /\ Cardinality(Carriers') \in Nat /\ Cardinality(X) \in Nat
      /\ Cardinality(Dormant) \in Nat /\ Cardinality(Dormant') \in Nat /\ clashes \in Nat
  BY <1>1, RowSets, ConstantsOK DEF TypeOK
<1> QED
  BY <1>2, <1>3, <1>4 DEF Counted

(* The next occurrence takes the place of the finished one.                *)
LEMMA CountedSuccessor ==
    ASSUME TypeOK, TypeOK', Counted, NEW r \in Carriers, NEW new \in Rows,
           Carriers' \subseteq (Carriers \ {r}) \cup {new}, Dormant' \subseteq Dormant,
           clashes' = clashes
    PROVE  Counted'
<1>1. /\ Carriers \in SUBSET Rows /\ Carriers' \in SUBSET Rows /\ Carriers \ {r} \in SUBSET Rows
      /\ Dormant \in SUBSET Rows /\ Dormant' \in SUBSET Rows
  BY CarriersAreRows DEF Carriers, Dormant, TypeOK
<1>2. Cardinality(Carriers \ {r}) = Cardinality(Carriers) - 1
  BY <1>1, RowSets, FS_RemoveElement
<1>3. Cardinality(Carriers') <= Cardinality(Carriers)
  <2>1. (Carriers \ {r}) \cup {new} \in SUBSET Rows
    BY <1>1
  <2>2. Cardinality(Carriers') <= Cardinality((Carriers \ {r}) \cup {new})
    BY <1>1, <2>1, Smaller
  <2>3. Cardinality((Carriers \ {r}) \cup {new}) <= Cardinality(Carriers \ {r}) + 1
    BY <1>1, OneMore
  <2> QED
    BY <1>1, <1>2, <2>1, <2>2, <2>3, RowSets
<1>4. Cardinality(Dormant') <= Cardinality(Dormant)
  BY <1>1, Smaller
<1>5. /\ Cardinality(Carriers) \in Nat /\ Cardinality(Carriers') \in Nat
      /\ Cardinality(Dormant) \in Nat /\ Cardinality(Dormant') \in Nat /\ clashes \in Nat
  BY <1>1, RowSets, ConstantsOK DEF TypeOK
<1> QED
  BY <1>3, <1>4, <1>5 DEF Counted

(* A recurrence is written to live rows of a series; the first of them is  *)
(* no clash if nothing carried the series.                                 *)
LEMMA CountedArmed ==
    ASSUME TypeOK, TypeOK', Counted, NEW S \in SUBSET Rows, ArmMore(S),
           Carriers' \subseteq Carriers \cup {r \in S : ~armed[r]}, Dormant' \subseteq Dormant
    PROVE  Counted'
<1> DEFINE new == {r \in S : ~armed[r]}
<1>1. new \in SUBSET Rows /\ Cardinality(new) \in Nat /\ clashes \in Nat /\ clashes' \in Nat
  BY RowSets, ConstantsOK DEF TypeOK
<1>2. CASE Carriers = {} /\ new # {}
  <2>1. clashes' = clashes + Cardinality(new) - 1
    <3>1. Cardinality(new) # 0
      BY <1>1, <1>2, RowSets, FS_EmptySet
    <3> QED
      BY <1>1, <1>2, <3>1 DEF ArmMore
  <2>2. Cardinality(Carriers') <= Cardinality(new)
    <3>1. Carriers' \in SUBSET Rows /\ Carriers' \subseteq new
      BY <1>2 DEF Carriers, TypeOK
    <3> QED
      BY <1>1, <3>1, Smaller
  <2>3. Cardinality(Dormant') <= Cardinality(Dormant)
    <3>1. Dormant \in SUBSET Rows /\ Dormant' \in SUBSET Rows
      BY DEF Dormant
    <3> QED
      BY <3>1, Smaller
  <2>4. Cardinality(new) # 0
    BY <1>1, <1>2, RowSets, FS_EmptySet
  <2>5. /\ Cardinality(Carriers') \in Nat /\ Cardinality(Dormant) \in Nat
        /\ Cardinality(Dormant') \in Nat
    <3>1. Carriers' \in SUBSET Rows /\ Dormant \in SUBSET Rows /\ Dormant' \in SUBSET Rows
      BY DEF Carriers, Dormant, TypeOK
    <3> QED
      BY <3>1, RowSets
  <2> QED
    BY <1>1, <2>1, <2>2, <2>3, <2>4, <2>5 DEF Counted
<1>3. CASE ~(Carriers = {} /\ new # {})
  <2>1. clashes' = clashes + Cardinality(new)
    BY <1>3 DEF ArmMore
  <2> QED
    BY <1>1, <2>1, CountedClashes
<1> QED
  BY <1>2, <1>3

LEMMA CountedStep ==
    ASSUME TypeOK, TypeOK', AtWork, Counted, [Next]_vars
    PROVE  Counted'
<1> USE DEF sweepVars, rowVars, editVars, historyVars
<1>0. clashes \in Nat /\ clashes' \in Nat /\ NoRow \notin Rows
  BY ConstantsOK DEF TypeOK, NoRow, Rows
<1>1. CASE SyncProcessingAcks
  <2> DEFINE X == {r \in Dormant : status'[r] # "cancelled"}
  <2>1. /\ \A r \in Rows : status'[r] # status[r] =>
              status[r] \in Live \cup {"cancelled"} /\ status'[r] \in Finished
        /\ UNCHANGED <<armed, todo, inserted, clashes>>
    BY <1>1 DEF SyncProcessingAcks, TypeOK, AtWork, Statuses, Live, Finished
  <2>2. Carriers' \subseteq Carriers \cup X
    BY <2>1 DEF Carriers, Dormant, Live, Finished
  <2>3. Dormant' \subseteq Dormant \ X /\ X \in SUBSET Dormant
    BY <2>1 DEF Dormant, Finished
  <2> QED
    BY <2>1, <2>2, <2>3, CountedAwoken
<1>2. CASE BeginRearm
  <2>1. PICK E \in SUBSET Rows :
          /\ \A r \in E : status[r] = "pending"
          /\ status' = [r \in Rows |-> IF r \in E THEN "failed" ELSE status[r]]
          /\ todo' = CompletedRecurring \cup {r \in E : armed[r]}
    BY <1>2 DEF BeginRearm
  <2>2. inserted = NoRow /\ UNCHANGED <<armed, inserted, clashes>>
    BY <1>2 DEF BeginRearm, AtWork, TypeOK
  <2>3. Carriers' \subseteq Carriers /\ Dormant' \subseteq Dormant
    BY <1>0, <2>1, <2>2 DEF Carriers, Dormant, CompletedRecurring, Live, Finished
  <2> QED
    BY <1>0, <2>2, <2>3, CountedQuiet
<1>3. ASSUME NEW r \in Rows, NEW new \in Rows, InsertRecurrence(r, new)
      PROVE  Counted'
  <2>1. /\ r \in Carriers /\ inserted' = r /\ todo' = todo /\ clashes' = clashes
        /\ status' = [status EXCEPT ![new] = NextStatus]
        /\ armed' = [armed EXCEPT ![new] = TRUE] /\ NextStatus \in Live
    BY <1>0, <1>3 DEF InsertRecurrence, InsertTaskRow, Carriers, NextStatus, Live
  <2>2. \A q \in Rows : q # new => status'[q] = status[q] /\ armed'[q] = armed[q]
    BY <2>1 DEF TypeOK
  <2>3. Carriers' \subseteq (Carriers \ {r}) \cup {new}
    <3>1. inserted = NoRow
      BY <1>3 DEF InsertRecurrence
    <3> QED
      BY <1>0, <2>1, <2>2, <3>1 DEF Carriers, TypeOK
  <2>4. Dormant' \subseteq Dormant
    BY <2>1, <2>2 DEF Dormant, TypeOK, Live
  <2> QED
    BY <2>1, <2>3, <2>4, CountedSuccessor
<1>4. ASSUME NEW r \in Rows, ClearRecurrence(r)
      PROVE  Counted'
  <2>1. Carriers' \subseteq Carriers /\ Dormant' \subseteq Dormant /\ clashes' = clashes
    BY <1>0, <1>4 DEF ClearRecurrence, Carriers, Dormant, TypeOK
  <2> QED
    BY <1>0, <2>1, CountedQuiet
<1>5. ASSUME NEW r \in Rows, RearmFails(r)
      PROVE  Counted'
  <2>1. Dormant' \subseteq Dormant
    BY <1>5 DEF RearmFails, Dormant
  <2>2. CASE inserted = r
    <3>1. Carriers' \subseteq Carriers \cup {r} /\ clashes' = clashes + 1
      BY <1>0, <1>5, <2>2 DEF RearmFails, Carriers, TypeOK
    <3>2. Cardinality({r}) = 1
      BY FS_Singleton
    <3> QED
      BY <1>0, <2>1, <3>1, <3>2, CountedClashes
  <2>3. CASE inserted = NoRow /\ inserted # r
    <3>1. Carriers' \subseteq Carriers /\ clashes' = clashes
      BY <1>0, <1>5, <2>3 DEF RearmFails, Carriers, TypeOK
    <3> QED
      BY <1>0, <2>1, <3>1, CountedQuiet
  <2> QED
    BY <1>5, <2>2, <2>3 DEF RearmFails
<1>6. CASE HostRestart
  <2>1. Dormant' \subseteq Dormant
    BY <1>6 DEF HostRestart, Dormant
  <2>2. CASE inserted = NoRow
    <3>1. Carriers' \subseteq Carriers /\ clashes' = clashes
      BY <1>0, <1>6, <2>2 DEF HostRestart, Carriers, TypeOK
    <3> QED
      BY <1>0, <2>1, <3>1, CountedQuiet
  <2>3. CASE inserted # NoRow
    <3>1. /\ Carriers' \subseteq Carriers \cup {inserted} /\ clashes' = clashes + 1
          /\ inserted \in Rows
      BY <1>0, <1>6, <2>3 DEF HostRestart, Carriers, TypeOK
    <3>2. Cardinality({inserted}) = 1
      BY FS_Singleton
    <3> QED
      BY <1>0, <2>1, <3>1, <3>2, CountedClashes
  <2> QED
    BY <2>2, <2>3
<1>7. CASE PauseTask \/ ResumeTask \/ CancelTask \/ DropRecurrence
  <2>1. Carriers' \subseteq Carriers /\ Dormant' \subseteq Dormant /\ clashes' = clashes
    BY <1>7 DEF PauseTask, ResumeTask, CancelTask, DropRecurrence, Carriers, Dormant, LiveRows,
                Live, Finished
  <2> QED
    BY <1>0, <2>1, CountedQuiet
<1>8. CASE DeleteTask
  <2>1. Carriers' \subseteq Carriers /\ Dormant' \subseteq Dormant /\ clashes' = clashes
    BY <1>8 DEF DeleteTask, Carriers, Dormant
  <2> QED
    BY <1>0, <2>1, CountedQuiet
<1>9. CASE SetRecurrence
  <2>1. LiveRows \in SUBSET Rows /\ ArmMore(LiveRows)
    BY <1>9 DEF SetRecurrence, LiveRows
  <2>2. /\ Carriers' \subseteq Carriers \cup {r \in LiveRows : ~armed[r]}
        /\ Dormant' \subseteq Dormant
    BY <1>9 DEF SetRecurrence, Carriers, Dormant, LiveRows, Live
  <2> QED
    BY <2>1, <2>2, CountedArmed
<1>10. ASSUME NEW r \in Rows, WriteRecurrence(r)
       PROVE  Counted'
  <2>1. /\ \A q \in Rows : q # r => armed'[q] = armed[q]
        /\ armed'[r] = (status[r] # "deleted")
        /\ UNCHANGED <<status, todo, inserted>>
    BY <1>10 DEF WriteRecurrence, TypeOK
  <2>2. CASE r \in LiveRows
    <3>1. {r} \in SUBSET Rows /\ ArmMore({r})
      BY <1>10, <2>2 DEF WriteRecurrence
    <3>2. /\ Carriers' \subseteq Carriers \cup {q \in {r} : ~armed[q]}
          /\ Dormant' \subseteq Dormant
      BY <2>1, <2>2 DEF Carriers, Dormant, LiveRows, Live
    <3> QED
      BY <3>1, <3>2, CountedArmed
  <2>3. CASE r \notin LiveRows /\ (armed[r] \/ status[r] \in {"deleted", "none"})
    <3>1. Carriers' \subseteq Carriers /\ Dormant' \subseteq Dormant /\ clashes <= clashes'
      BY <1>0, <1>10, <2>1, <2>3 DEF WriteRecurrence, Stale, Carriers, Dormant, Live, Finished
    <3> QED
      BY <1>0, <3>1, CountedQuiet
  <2>4. CASE r \notin LiveRows /\ ~armed[r] /\ status[r] \in Finished
    <3>1. clashes' = clashes + 1 /\ Cardinality({r}) = 1
      BY <1>10, <2>4, FS_Singleton DEF WriteRecurrence, Stale, Finished
    <3>2. Carriers' \subseteq Carriers \cup {r} /\ Dormant' \subseteq Dormant
      BY <2>1, <2>4 DEF Carriers, Dormant, Finished
    <3> QED
      BY <1>0, <3>1, <3>2, CountedClashes
  <2>5. CASE r \notin LiveRows /\ ~armed[r] /\ status[r] = "cancelled"
    <3>1. clashes' = clashes + 1
      BY <1>10, <2>5 DEF WriteRecurrence, Stale
    <3>2. Carriers' \subseteq Carriers /\ Dormant' \subseteq Dormant \cup {r}
      BY <2>1, <2>5 DEF Carriers, Dormant, Live, Finished
    <3> QED
      BY <3>1, <3>2, CountedDormant
  <2> QED
    BY <2>2, <2>3, <2>4, <2>5 DEF TypeOK, Statuses, LiveRows
<1>11. ASSUME NEW r \in Rows, WriteNull(r)
       PROVE  Counted'
  <2>1. Carriers' \subseteq Carriers /\ Dormant' \subseteq Dormant /\ clashes' = clashes
    BY <1>11 DEF WriteNull, Carriers, Dormant, TypeOK
  <2> QED
    BY <1>0, <2>1, CountedQuiet
<1>12. ASSUME NEW r \in Rows, RunTask(r)
       PROVE  Counted'
  <2>1. Carriers' \subseteq Carriers /\ Dormant' \subseteq Dormant /\ clashes' = clashes
    BY <1>12 DEF RunTask, InsertTaskRow, Carriers, Dormant, TypeOK
  <2> QED
    BY <1>0, <2>1, CountedQuiet
<1>13. CASE CollectSession \/ Container \/ ReadForEdit \/ UNCHANGED vars
  <2>1. UNCHANGED <<status, armed, todo, inserted, clashes>>
    BY <1>13 DEF CollectSession, Container, ContainerStarts, ContainerStops, Claim,
                 Acknowledge, ReadForEdit, vars
  <2>2. Carriers' = Carriers /\ Dormant' = Dormant
    BY <2>1 DEF Carriers, Dormant
  <2> QED
    BY <1>0, <2>1, <2>2, CountedQuiet
<1> QED
  BY <1>1, <1>2, <1>3, <1>4, <1>5, <1>6, <1>7, <1>8, <1>9, <1>10, <1>11, <1>12, <1>13
     DEF Next, Sweep, Operator

-----------------------------------------------------------------------------
(* A series that nobody stopped.                                           *)

(* Steps that leave its carriers what they are.                            *)
LEMMA GoesOnQuiet ==
    ASSUME TypeOK, GoesOn, stop' \in {"no", "held"} => stop \in {"no", "held"},
           open' = open, faults' = faults,
           \A r \in Sure : armed'[r] /\ status'[r] \in Live \cup Finished /\ r # inserted',
           sweep' = "rearming" =>
             /\ sweep = "rearming"
             /\ \A r \in Sure : status[r] \in Live \/ r \in todo =>
                                  status'[r] \in Live \/ r \in todo'
    PROVE  GoesOn'
<1>1. Sure \subseteq Sure'
  BY DEF Sure
<1> QED
  BY <1>1 DEF GoesOn

LEMMA GoesOnStep ==
    ASSUME TypeOK, AtWork, GoesOn, [Next]_vars
    PROVE  GoesOn'
<1> USE DEF sweepVars, rowVars, editVars, historyVars
<1>0. faults \in Nat /\ NoRow \notin Rows /\ Live \cap Finished = {}
  BY ConstantsOK DEF TypeOK, NoRow, Rows, Live, Finished
<1>1. CASE SyncProcessingAcks
  <2>1. \A r \in Sure : armed'[r] /\ status'[r] \in Live \cup Finished /\ r # inserted'
    BY <1>1 DEF SyncProcessingAcks, Sure, Finished
  <2> QED
    BY <1>1, <2>1, GoesOnQuiet DEF SyncProcessingAcks
<1>2. CASE BeginRearm
  <2>1. PICK E \in SUBSET Rows :
          /\ \A r \in E : status[r] = "pending"
          /\ status' = [r \in Rows |-> IF r \in E THEN "failed" ELSE status[r]]
          /\ todo' = CompletedRecurring \cup {r \in E : armed[r]}
    BY <1>2 DEF BeginRearm
  <2>2. \A r \in Sure : r \in Sure' /\ (status'[r] \in Live \/ r \in todo')
    BY <1>2, <2>1 DEF BeginRearm, Sure, CompletedRecurring, Live, Finished
  <2> QED
    BY <1>2, <2>2 DEF BeginRearm, GoesOn
<1>3. CASE CollectSession
  <2>1. stop \in {"no", "held"} => faults > 0 \/ LiveRows # {}
    BY <1>3 DEF CollectSession, GoesOn, Sure, LiveRows
  <2>2. Sure' = Sure
    BY <1>3 DEF CollectSession, Sure
  <2> QED
    BY <1>3, <2>1, <2>2 DEF CollectSession, GoesOn
<1>4. ASSUME NEW r \in Rows, ClearRecurrence(r)
      PROVE  GoesOn'
  <2>1. \A q \in Sure : /\ armed'[q] /\ status'[q] \in Live \cup Finished /\ q # inserted'
                        /\ status'[q] = status[q] /\ (q \in todo => q \in todo')
    BY <1>0, <1>4 DEF ClearRecurrence, Sure, TypeOK
  <2> QED
    BY <1>4, <2>1, GoesOnQuiet DEF ClearRecurrence
<1>5. ASSUME NEW r \in Rows, RearmFails(r)
      PROVE  GoesOn'
  <2>1. Sure \subseteq Sure' /\ faults' > 0 /\ stop' = stop
    BY <1>0, <1>5 DEF RearmFails, Sure
  <2> QED
    BY <2>1 DEF GoesOn
<1>6. ASSUME NEW r \in Rows, NEW new \in Rows, InsertRecurrence(r, new)
      PROVE  GoesOn'
  <2>1. new # r
    BY <1>6 DEF InsertRecurrence, InsertTaskRow, IdleRow, AtWork, Finished
  <2>2. new \in Sure' /\ status'[new] \in Live
    BY <1>6, <2>1 DEF InsertRecurrence, InsertTaskRow, NextStatus, Sure, Live, TypeOK
  <2> QED
    BY <1>6, <2>2 DEF InsertRecurrence, GoesOn
<1>7. CASE PauseTask \/ ResumeTask
  <2>1. \A r \in Sure : /\ armed'[r] /\ status'[r] \in Live \cup Finished /\ r # inserted'
                        /\ status[r] \in Live => status'[r] \in Live
    BY <1>7 DEF PauseTask, ResumeTask, Sure, Live, Finished
  <2>2. /\ stop' \in {"no", "held"} => stop \in {"no", "held"}
        /\ UNCHANGED <<open, faults, sweep, todo>>
    BY <1>7 DEF PauseTask, ResumeTask
  <2> QED
    BY <2>1, <2>2, GoesOnQuiet
<1>8. CASE CancelTask \/ DropRecurrence \/ DeleteTask
  BY <1>8 DEF CancelTask, DropRecurrence, DeleteTask, StopBy, GoesOn
<1>9. CASE SetRecurrence
  <2>1. PICK r \in LiveRows : TRUE
    BY <1>9 DEF SetRecurrence
  <2>2. r \in Sure' /\ open' /\ sweep' # "rearming"
    BY <1>0, <1>9, <2>1 DEF SetRecurrence, Command, Sure, LiveRows, AtWork, TypeOK
  <2> QED
    BY <2>2 DEF GoesOn
<1>10. ASSUME NEW r \in Rows, WriteRecurrence(r)
       PROVE  GoesOn'
  <2>1. /\ \A q \in Rows : q # r => armed'[q] = armed[q]
        /\ armed'[r] = (status[r] # "deleted")
        /\ UNCHANGED <<status, open, sweep, todo, inserted, faults>>
    BY <1>10 DEF WriteRecurrence, TypeOK
  <2>2. CASE r \in LiveRows
    <3>1. r \in Sure' /\ status'[r] \in Live /\ open'
      BY <1>0, <2>1, <2>2 DEF Sure, LiveRows, Live, AtWork, TypeOK
    <3> QED
      BY <3>1 DEF GoesOn
  <2>3. CASE r \notin LiveRows
    <3>1. stop' = stop
      BY <1>10, <2>3 DEF WriteRecurrence, Stale
    <3>2. \A q \in Sure : armed'[q] /\ status'[q] \in Live \cup Finished /\ q # inserted'
      BY <2>1 DEF Sure, Live, Finished
    <3> QED
      BY <2>1, <3>1, <3>2, GoesOnQuiet
  <2> QED
    BY <2>2, <2>3
<1>11. ASSUME NEW r \in Rows, WriteNull(r)
       PROVE  GoesOn'
  <2>1. CASE armed[r] /\ r \in Carriers
    BY <1>11, <2>1 DEF WriteNull, StopBy, GoesOn
  <2>2. CASE ~(armed[r] /\ r \in Carriers)
    <3>1. r \notin Sure
      BY <2>2 DEF Sure, Carriers
    <3>2. \A q \in Sure : armed'[q] /\ status'[q] \in Live \cup Finished /\ q # inserted'
      BY <1>11, <3>1 DEF WriteNull, Sure, TypeOK
    <3>3. stop' = stop /\ UNCHANGED <<status, open, sweep, todo, faults>>
      BY <1>11, <2>2 DEF WriteNull
    <3> QED
      BY <3>2, <3>3, GoesOnQuiet
  <2> QED
    BY <2>1, <2>2
<1>12. ASSUME NEW r \in Rows, RunTask(r)
       PROVE  GoesOn'
  <2>1. \A q \in Sure : /\ armed'[q] /\ status'[q] \in Live \cup Finished /\ q # inserted'
                        /\ status'[q] = status[q]
    BY <1>12 DEF RunTask, InsertTaskRow, IdleRow, Sure, Live, Finished, TypeOK
  <2> QED
    BY <1>12, <2>1, GoesOnQuiet DEF RunTask
<1>13. CASE HostRestart
  <2>1. \A q \in Sure : armed'[q] /\ status'[q] \in Live \cup Finished /\ q # inserted'
    BY <1>0, <1>13 DEF HostRestart, Sure
  <2> QED
    BY <1>13, <2>1, GoesOnQuiet DEF HostRestart
<1>14. CASE Container \/ ReadForEdit \/ UNCHANGED vars
  <2>1. UNCHANGED <<status, armed, todo, inserted, stop, open, sweep, faults>>
    BY <1>14 DEF Container, ContainerStarts, ContainerStops, Claim, Acknowledge, ReadForEdit,
                 vars
  <2>2. \A q \in Sure : armed'[q] /\ status'[q] \in Live \cup Finished /\ q # inserted'
    BY <2>1 DEF Sure
  <2> QED
    BY <2>1, <2>2, GoesOnQuiet
<1> QED
  BY <1>1, <1>2, <1>3, <1>4, <1>5, <1>6, <1>7, <1>8, <1>9, <1>10, <1>11, <1>12, <1>13, <1>14
     DEF Next, Sweep, Operator

-----------------------------------------------------------------------------
(* A series that somebody stopped.                                         *)

LEMMA ClashesGrow ==
    ASSUME TypeOK, [Next]_vars
    PROVE  clashes' \in Nat /\ clashes <= clashes'
<1> USE ConstantsOK DEF TypeOK, historyVars
<1>1. CASE SetRecurrence
  BY <1>1, ArmMoreType DEF SetRecurrence, LiveRows
<1>2. ASSUME NEW r \in Rows, WriteRecurrence(r)
      PROVE  clashes' \in Nat /\ clashes <= clashes'
  <2>1. CASE r \in LiveRows
    BY <1>2, <2>1, ArmMoreType DEF WriteRecurrence
  <2>2. CASE r \notin LiveRows
    BY <1>2, <2>2 DEF WriteRecurrence, Stale
  <2> QED
    BY <2>1, <2>2
<1>3. ASSUME NEW r \in Rows, RearmFails(r)
      PROVE  clashes' \in Nat /\ clashes <= clashes'
  BY <1>3 DEF RearmFails
<1>4. CASE HostRestart
  BY <1>4 DEF HostRestart
<1>5. ASSUME UNCHANGED clashes
      PROVE  clashes' \in Nat /\ clashes <= clashes'
  BY <1>5
<1>6. ASSUME \/ SyncProcessingAcks \/ BeginRearm \/ CollectSession \/ Container \/ PauseTask
             \/ ResumeTask \/ CancelTask \/ DeleteTask \/ DropRecurrence \/ ReadForEdit
             \/ UNCHANGED vars
      PROVE  UNCHANGED clashes
  <2>1. CASE SyncProcessingAcks \/ BeginRearm \/ CollectSession
    BY ONLY <2>1 DEF SyncProcessingAcks, BeginRearm, CollectSession, historyVars
  <2>2. CASE Container
    BY ONLY <2>2 DEF Container, ContainerStarts, ContainerStops, Claim, Acknowledge, historyVars
  <2>3. CASE PauseTask \/ ResumeTask \/ CancelTask \/ DeleteTask
    BY ONLY <2>3 DEF PauseTask, ResumeTask, CancelTask, DeleteTask
  <2>4. CASE DropRecurrence \/ ReadForEdit \/ UNCHANGED vars
    BY ONLY <2>4 DEF DropRecurrence, ReadForEdit, vars, historyVars
  <2> QED
    BY ONLY <1>6, <2>1, <2>2, <2>3, <2>4
<1>7. ASSUME NEW r \in Rows, RunTask(r) \/ WriteNull(r) \/ ClearRecurrence(r)
      PROVE  UNCHANGED clashes
  BY ONLY <1>7 DEF RunTask, WriteNull, ClearRecurrence, historyVars
<1>8. ASSUME NEW r \in Rows, NEW new \in Rows, InsertRecurrence(r, new)
      PROVE  UNCHANGED clashes
  BY ONLY <1>8 DEF InsertRecurrence, historyVars
<1>9. CASE UNCHANGED clashes
  BY <1>5, <1>9
<1>10. CASE ~UNCHANGED clashes
  BY ONLY <1>1, <1>2, <1>3, <1>4, <1>6, <1>7, <1>8, <1>10, [Next]_vars DEF Next, Sweep, Operator
<1> QED
  BY ONLY <1>9, <1>10

(* Without a clash there is one carrier at most, and none in waiting.      *)
LEMMA WithoutClashes ==
    ASSUME TypeOK, Counted, clashes = 0
    PROVE  /\ Dormant = {}
           /\ \A q, r \in Carriers : q = r
<1>1. /\ Carriers \in SUBSET Rows /\ Dormant \in SUBSET Rows
      /\ Cardinality(Carriers) \in Nat /\ Cardinality(Dormant) \in Nat
  BY CarriersAreRows, RowSets
<1>2. Cardinality(Dormant) = 0 /\ Cardinality(Carriers) <= 1
  BY <1>1 DEF Counted
<1>3. Dormant = {}
  BY <1>1, <1>2, RowSets, FS_EmptySet
<1>4. ASSUME NEW q \in Carriers, NEW r \in Carriers
      PROVE  q = r
  <2>1. IsFiniteSet(Carriers)
    BY <1>1, RowSets
  <2>2. Cardinality(Carriers) # 0
    BY <2>1, <1>4, FS_EmptySet
  <2>3. Cardinality(Carriers) = 1
    BY <1>1, <1>2, <2>2
  <2>4. PICK x : Carriers = {x}
    BY <2>1, <2>3, FS_Singleton
  <2> QED
    BY <1>4, <2>4
<1> QED
  BY <1>3, <1>4

(* Steps that stop nothing, and leave what is held as it is.               *)
LEMMA StoppedQuiet ==
    ASSUME Stopped, clashes = 0, stop' \in {stop, "no", "asked"},
           Carriers' \subseteq Carriers,
           \A r \in Carriers' : status[r] = "paused" /\ ack[r] = "none" =>
                                  status'[r] = "paused" /\ ack'[r] = "none"
    PROVE  Stopped'
BY DEF Stopped

LEMMA StoppedStep ==
    ASSUME TypeOK, AtWork, Counted, GoesOn, Stopped, [Next]_vars
    PROVE  Stopped'
<1> SUFFICES ASSUME clashes' = 0
             PROVE  Stopped'
  BY DEF Stopped
<1> USE DEF sweepVars, rowVars, editVars, historyVars
<1>0. /\ clashes = 0 /\ Dormant = {} /\ (\A q, r \in Carriers : q = r)
      /\ Carriers \in SUBSET Rows /\ NoRow \notin Rows
  BY ClashesGrow, WithoutClashes, CarriersAreRows, ConstantsOK DEF TypeOK, NoRow, Rows
<1>1. CASE SyncProcessingAcks
  <2>1. \A r \in Rows : status'[r] # status[r] =>
              /\ ack[r] # "none"
              /\ status[r] \in Live \cup {"cancelled"} /\ status'[r] \in Finished
    BY <1>1 DEF SyncProcessingAcks, TypeOK, AtWork, Statuses, Live, Finished
  <2>2. UNCHANGED <<armed, todo, inserted, stop>> /\ \A r \in Rows : ack[r] = "none" => ack'[r] = "none"
    BY <1>1 DEF SyncProcessingAcks
  <2>3. Carriers' \subseteq Carriers
    BY <1>0, <2>1, <2>2 DEF Carriers, Dormant, Live, Finished
  <2> QED
    BY <1>0, <2>1, <2>2, <2>3, StoppedQuiet
<1>2. CASE BeginRearm
  <2>1. PICK E \in SUBSET Rows :
          /\ \A r \in E : status[r] = "pending"
          /\ status' = [r \in Rows |-> IF r \in E THEN "failed" ELSE status[r]]
          /\ todo' = CompletedRecurring \cup {r \in E : armed[r]}
    BY <1>2 DEF BeginRearm
  <2>2. /\ inserted = NoRow /\ UNCHANGED <<armed, inserted, stop>>
        /\ \A r \in Rows : ack[r] = "none" => ack'[r] = "none"
    BY <1>2 DEF BeginRearm, AtWork, TypeOK
  <2>3. Carriers' \subseteq Carriers
    BY <1>0, <2>1, <2>2 DEF Carriers, CompletedRecurring, Live, Finished
  <2> QED
    BY <1>0, <2>1, <2>2, <2>3, StoppedQuiet
<1>3. ASSUME NEW r \in Rows, NEW new \in Rows, InsertRecurrence(r, new)
      PROVE  Stopped'
  <2>1. r \in Carriers /\ status[r] \in Finished /\ stop' = stop
    BY <1>0, <1>3 DEF InsertRecurrence, Carriers, AtWork
  <2> QED
    BY <1>0, <2>1 DEF Stopped, Finished
<1>4. ASSUME NEW r \in Rows, ClearRecurrence(r) \/ RearmFails(r)
      PROVE  Stopped'
  <2>1. Carriers' \subseteq Carriers /\ UNCHANGED <<status, ack, stop>>
    BY <1>0, <1>4 DEF ClearRecurrence, RearmFails, Carriers, TypeOK
  <2> QED
    BY <1>0, <2>1, StoppedQuiet
<1>5. CASE HostRestart
  <2>1. inserted = NoRow
    BY <1>0, <1>5 DEF HostRestart
  <2>2. Carriers' \subseteq Carriers /\ UNCHANGED <<status, ack, stop>>
    BY <2>1, <1>5 DEF HostRestart, Carriers
  <2> QED
    BY <1>0, <2>2, StoppedQuiet
<1>6. CASE Container
  <2>1. UNCHANGED <<status, armed, todo, inserted, stop>>
    BY <1>6 DEF Container, ContainerStarts, ContainerStops, Claim, Acknowledge
  <2>2. \A r \in Rows : status[r] = "paused" /\ ack[r] = "none" => ack'[r] = "none"
    BY <1>6 DEF Container, ContainerStarts, ContainerStops, Claim, Acknowledge, TypeOK
  <2>3. Carriers' = Carriers
    BY <2>1 DEF Carriers
  <2> QED
    BY <1>0, <2>1, <2>2, <2>3, StoppedQuiet
<1>7. CASE PauseTask
  <2>1. /\ UNCHANGED <<armed, ack, todo, inserted>> /\ Carriers' = Carriers
        /\ \A r \in Rows : status'[r] = IF status[r] = "pending" THEN "paused" ELSE status[r]
    BY <1>7 DEF PauseTask, Carriers, Live, Finished
  <2>2. CASE stop = "no" /\ Quiet
    <3>1. PICK x \in Sure : TRUE
      BY <2>2 DEF GoesOn
    <3>2. \A r \in Carriers : armed[r] /\ r \in Rows
      BY <1>0, <3>1 DEF Sure, Carriers
    <3>3. \A r \in Carriers : ack[r] = "none" /\ status[r] \in Live
      BY <2>2, <3>2 DEF Quiet, Carriers, AtWork
    <3>4. stop' = "held"
      BY <1>7, <2>2 DEF PauseTask
    <3> QED
      BY <2>1, <3>2, <3>3, <3>4 DEF Stopped, Live
  <2>3. CASE ~(stop = "no" /\ Quiet)
    <3>1. stop' = stop
      BY <1>7, <2>3 DEF PauseTask
    <3> QED
      BY <1>0, <2>1, <3>1, StoppedQuiet
  <2> QED
    BY <2>2, <2>3
<1>8. CASE ResumeTask
  <2>1. Carriers' = Carriers
    BY <1>8 DEF ResumeTask, Carriers, Live, Finished
  <2> QED
    BY <2>1, <1>8 DEF ResumeTask, Stopped
<1>9. CASE CancelTask \/ DropRecurrence
  <2>1. /\ Carriers' \subseteq Carriers \ LiveRows
        /\ stop' = IF Carriers \ LiveRows = {} THEN "ended" ELSE "asked"
    BY <1>9 DEF CancelTask, DropRecurrence, StopBy, Carriers, LiveRows, Live, Finished, AtWork
  <2> QED
    BY <2>1 DEF Stopped
<1>10. CASE DeleteTask
  <2>1. stop' = "ended" /\ Carriers' = {}
    BY <1>10 DEF DeleteTask, Command, AtWork, Carriers
  <2> QED
    BY <2>1 DEF Stopped
<1>11. ASSUME NEW S \in SUBSET LiveRows, ArmMore(S), UNCHANGED <<status, ack, todo, inserted>>,
              \A r \in Rows : armed'[r] => armed[r] \/ r \in S
       PROVE  Stopped'
  <2> DEFINE new == {r \in S : ~armed[r]}
  <2>1. S \in SUBSET Rows /\ stop' = IF stop \in {"ended", "asked"} THEN "no" ELSE stop
    BY <1>11 DEF ArmMore, LiveRows
  <2>2. CASE stop' # "held"
    BY <2>1, <2>2 DEF Stopped
  <2>3. CASE stop' = "held"
    <3>1. Carriers # {} /\ stop = "held"
      BY <2>1, <2>3 DEF GoesOn, Sure, Carriers
    <3>2. clashes' = clashes + Cardinality(new)
      BY <1>11, <3>1 DEF ArmMore
    <3>3. new = {}
      <4>1. new \in SUBSET Rows
        BY <2>1
      <4>2. Cardinality(new) = 0
        BY <1>0, <3>2, <4>1, RowSets
      <4> QED
        BY <4>1, <4>2, RowSets, FS_EmptySet
    <3>4. Carriers' \subseteq Carriers
      BY <1>11, <3>3 DEF Carriers
    <3> QED
      BY <1>0, <1>11, <3>1, <3>4, <2>3, StoppedQuiet
  <2> QED
    BY <2>2, <2>3
<1>12. CASE SetRecurrence
  <2>1. \A r \in Rows : armed'[r] => armed[r] \/ r \in LiveRows
    BY <1>12 DEF SetRecurrence
  <2> QED
    BY <1>11, <1>12, <2>1 DEF SetRecurrence
<1>13. ASSUME NEW r \in Rows, WriteRecurrence(r)
       PROVE  Stopped'
  <2>1. /\ \A q \in Rows : q # r => armed'[q] = armed[q]
        /\ armed'[r] = (status[r] # "deleted")
        /\ UNCHANGED <<status, ack, todo, inserted>>
    BY <1>13 DEF WriteRecurrence, TypeOK
  <2>2. CASE r \in LiveRows
    <3>1. {r} \in SUBSET LiveRows /\ ArmMore({r})
      BY <1>13, <2>2 DEF WriteRecurrence
    <3> QED
      BY <1>11, <2>1, <3>1
  <2>3. CASE r \notin LiveRows
    <3>1. stop' = stop /\ (armed[r] \/ status[r] = "deleted")
      BY <1>0, <1>13, <2>3 DEF WriteRecurrence, Stale
    <3>2. Carriers' \subseteq Carriers
      BY <2>1, <3>1 DEF Carriers
    <3> QED
      BY <1>0, <2>1, <3>1, <3>2, StoppedQuiet
  <2> QED
    BY <2>2, <2>3
<1>14. ASSUME NEW r \in Rows, WriteNull(r)
       PROVE  Stopped'
  <2>1. Carriers' \subseteq Carriers \ ({r} \ todo) /\ UNCHANGED <<status, ack>>
    BY <1>14 DEF WriteNull, Carriers, TypeOK
  <2>2. CASE armed[r] /\ r \in Carriers
    <3>1. stop' = IF Carriers \ ({r} \ todo) = {} THEN "ended" ELSE "asked"
      BY <1>14, <2>2 DEF WriteNull, StopBy
    <3> QED
      BY <2>1, <3>1 DEF Stopped
  <2>3. CASE ~(armed[r] /\ r \in Carriers)
    <3>1. stop' = stop
      BY <1>14, <2>3 DEF WriteNull
    <3> QED
      BY <1>0, <2>1, <3>1, StoppedQuiet
  <2> QED
    BY <2>2, <2>3
<1>15. ASSUME NEW r \in Rows, RunTask(r)
       PROVE  Stopped'
  <2>1. /\ \A q \in Rows : q # r => status'[q] = status[q] /\ armed'[q] = armed[q]
        /\ armed'[r] = FALSE /\ status[r] = "none" /\ UNCHANGED <<ack, todo, inserted, stop>>
    BY <1>15 DEF RunTask, InsertTaskRow, IdleRow, TypeOK
  <2>2. Carriers' \subseteq Carriers /\ r \notin Carriers'
    BY <2>1 DEF Carriers, AtWork, Finished
  <2> QED
    BY <1>0, <2>1, <2>2, StoppedQuiet
<1>16. CASE CollectSession \/ ReadForEdit \/ UNCHANGED vars
  <2>1. UNCHANGED <<status, armed, ack, todo, inserted, stop>>
    BY <1>16 DEF CollectSession, ReadForEdit, vars
  <2>2. Carriers' = Carriers
    BY <2>1 DEF Carriers
  <2> QED
    BY <1>0, <2>1, <2>2, StoppedQuiet
<1> QED
  BY <1>1, <1>2, <1>3, <1>4, <1>5, <1>6, <1>7, <1>8, <1>9, <1>10, <1>12, <1>13, <1>14, <1>15,
     <1>16 DEF Next, Sweep, Operator

-----------------------------------------------------------------------------
(* A series that keeps failing.                                            *)

LEMMA TidyStep ==
    ASSUME TypeOK, AtWork, Tidy, [Next]_vars
    PROVE  Tidy'
<1> USE DEF sweepVars, rowVars, editVars, historyVars
<1>0. Rows \subseteq Nat
  BY DEF Rows
<1>1. ASSUME \A r \in Rows : /\ status'[r] = "none" <=> status[r] = "none"
                             /\ status'[r] = "deleted" <=> status[r] = "deleted"
      PROVE  Tidy'
  <2>1. \A q, r \in Rows : q < r /\ status'[q] = "none" => status'[r] = "none"
    BY <1>1 DEF Tidy
  <2>2. (\E r \in Rows : status'[r] = "deleted") =>
            \A r \in Rows : status'[r] \in {"none", "deleted"}
    BY <1>1 DEF Tidy
  <2> QED
    BY <2>1, <2>2 DEF Tidy
<1>2. ASSUME NEW new \in Rows, NEW s \in Live, InsertTaskRow(new, s, armed'[new]),
             \E r \in Rows : status[r] \notin {"none", "deleted"}
      PROVE  Tidy'
  <2>1. /\ status[new] = "none" /\ \A q \in Rows : q < new => status[q] # "none"
        /\ \A q \in Rows : q # new => status'[q] = status[q]
        /\ status'[new] \in Live
    BY <1>2 DEF InsertTaskRow, IdleRow, TypeOK
  <2>2. \A q, r \in Rows : q < r /\ status'[q] = "none" => status'[r] = "none"
    <3> SUFFICES ASSUME NEW q \in Rows, NEW r \in Rows, q < r, status'[q] = "none"
                 PROVE  status'[r] = "none"
      OBVIOUS
    <3>1. q # new /\ status[q] = "none" /\ new < q
      BY <1>0, <2>1 DEF Live
    <3>2. status[r] = "none" /\ r # new
      BY <1>0, <3>1 DEF Tidy
    <3> QED
      BY <2>1, <3>2
  <2>3. \A r \in Rows : status'[r] # "deleted"
    BY <1>2, <2>1 DEF Tidy, Live
  <2> QED
    BY <2>2, <2>3 DEF Tidy
<1>3. CASE SyncProcessingAcks
  <2>1. \A r \in Rows : status'[r] # status[r] =>
              status[r] \in Live \cup {"cancelled"} /\ status'[r] \in Finished
    BY <1>3 DEF SyncProcessingAcks, TypeOK, AtWork, Statuses, Live, Finished
  <2> QED
    BY <1>1, <2>1 DEF Live, Finished
<1>4. CASE BeginRearm
  <2>1. \A r \in Rows : status'[r] # status[r] => status[r] = "pending" /\ status'[r] = "failed"
    BY <1>4 DEF BeginRearm
  <2> QED
    BY <1>1, <2>1
<1>5. ASSUME NEW r \in Rows, NEW new \in Rows, InsertRecurrence(r, new)
      PROVE  Tidy'
  <2>1. InsertTaskRow(new, NextStatus, TRUE) /\ NextStatus \in Live /\ status[r] \in Finished
    BY <1>5 DEF InsertRecurrence, NextStatus, Live, AtWork
  <2>2. armed'[new] = TRUE
    BY <2>1 DEF InsertTaskRow, TypeOK
  <2> QED
    BY <1>2, <2>1, <2>2 DEF Finished
<1>6. ASSUME NEW r \in Rows, RunTask(r)
      PROVE  Tidy'
  <2>1. InsertTaskRow(r, "pending", FALSE) /\ "pending" \in Live
    BY <1>6 DEF RunTask, Live
  <2>2. armed'[r] = FALSE
    BY <2>1 DEF InsertTaskRow, TypeOK
  <2> QED
    BY <1>2, <1>6, <2>1, <2>2 DEF RunTask
<1>7. CASE PauseTask \/ ResumeTask \/ CancelTask
  <2>1. \A r \in Rows : status'[r] # status[r] =>
              status[r] \in Live /\ status'[r] \in Live \cup {"cancelled"}
    BY <1>7 DEF PauseTask, ResumeTask, CancelTask, LiveRows, Live
  <2> QED
    BY <1>1, <2>1 DEF Live
<1>8. CASE DeleteTask
  <2>1. \A r \in Rows : status'[r] = IF status[r] = "none" THEN "none" ELSE "deleted"
    BY <1>8 DEF DeleteTask, IdleRow
  <2> QED
    BY <2>1 DEF Tidy
<1>9. CASE Container \/ HostRestart \/ UNCHANGED vars
  <2>1. status' = status
    BY <1>9 DEF Container, ContainerStarts, ContainerStops, Claim, Acknowledge, HostRestart, vars
  <2> QED
    BY <1>1, <2>1
<1>10. CASE SetRecurrence \/ DropRecurrence \/ ReadForEdit \/ CollectSession
  <2>1. status' = status
    BY <1>10 DEF SetRecurrence, DropRecurrence, ReadForEdit, CollectSession
  <2> QED
    BY <1>1, <2>1
<1>11. ASSUME NEW r \in Rows,
              WriteRecurrence(r) \/ WriteNull(r) \/ ClearRecurrence(r) \/ RearmFails(r)
       PROVE  Tidy'
  <2>1. status' = status
    BY <1>11 DEF WriteRecurrence, WriteNull, ClearRecurrence, RearmFails
  <2> QED
    BY <1>1, <2>1
<1> QED
  BY <1>3, <1>4, <1>5, <1>6, <1>7, <1>8, <1>9, <1>10, <1>11 DEF Next, Sweep, Operator

(* The sets of the argument and their sizes.                               *)
LEMMA Sizes ==
    ASSUME TypeOK
    PROVE  /\ Runnable \in SUBSET Rows /\ Overtaken \in SUBSET Runnable
           /\ Trailing \in SUBSET Rows /\ Overtaken \in SUBSET Rows
           /\ Cardinality(Runnable) \in Nat /\ Cardinality(Overtaken) \in Nat
           /\ Cardinality(Trailing) \in Nat
           /\ failures \in Nat /\ clashes \in Nat /\ PauseCap \in Nat /\ PauseCap > 0
           /\ TrailingFailedRuns = Cardinality(Trailing)
<1>1. /\ Runnable \in SUBSET Rows /\ Overtaken \in SUBSET Runnable /\ Trailing \in SUBSET Rows
  BY DEF Runnable, Overtaken, Trailing
<1>2. TrailingFailedRuns = Cardinality(Trailing)
  BY DEF TrailingFailedRuns, Trailing
<1> QED
  BY <1>1, <1>2, RowSets, ConstantsOK DEF TypeOK

LEMMA SizesNext ==
    ASSUME TypeOK'
    PROVE  /\ Runnable' \in SUBSET Rows /\ Overtaken' \in SUBSET Runnable'
           /\ Trailing' \in SUBSET Rows /\ Overtaken' \in SUBSET Rows
           /\ Cardinality(Runnable') \in Nat /\ Cardinality(Overtaken') \in Nat
           /\ Cardinality(Trailing') \in Nat
           /\ failures' \in Nat /\ clashes' \in Nat
<1>1. /\ Runnable' \in SUBSET Rows /\ Overtaken' \in SUBSET Runnable' /\ Trailing' \in SUBSET Rows
  BY DEF Runnable, Overtaken, Trailing
<1>2. failures' \in Nat /\ clashes' \in Nat
  <2>1. failures' \in Nat /\ clashes' \in 0..MaxClashes
    BY DEF TypeOK
  <2> QED
    BY <2>1, ConstantsOK
<1> QED
  BY <1>1, <1>2, RowSets

(* A row that may run is a carrier, or dormant.                            *)
LEMMA FewRunnable ==
    ASSUME TypeOK, AtWork, Counted
    PROVE  /\ Cardinality(Runnable) <= 1 + clashes
           /\ \A r \in Carriers : status[r] \in Finished => Cardinality(Runnable) <= clashes
<1>1. /\ Carriers \in SUBSET Rows /\ Dormant \in SUBSET Rows
      /\ Cardinality(Carriers) \in Nat /\ Cardinality(Dormant) \in Nat /\ clashes \in Nat
      /\ Runnable \in SUBSET Rows /\ Cardinality(Runnable) \in Nat
  BY CarriersAreRows, RowSets, Sizes
<1>2. \A r \in Runnable : r \in Dormant \/ (r \in Carriers /\ status[r] \in Live)
  BY ConstantsOK DEF Runnable, Dormant, Carriers, Live, Finished, AtWork, TypeOK, NoRow, Rows
<1>3. ASSUME NEW S \in SUBSET Carriers, Runnable \subseteq S \cup Dormant
      PROVE  Cardinality(Runnable) <= Cardinality(S) + Cardinality(Dormant)
  <2>1. S \in SUBSET Rows /\ S \cup Dormant \in SUBSET Rows
    BY <1>1
  <2>2. Cardinality(Runnable) <= Cardinality(S \cup Dormant)
    BY <1>1, <1>3, <2>1, Smaller
  <2>3. Cardinality(S \cup Dormant) <= Cardinality(S) + Cardinality(Dormant)
    BY <1>1, <2>1, Joined
  <2> QED
    BY <1>1, <2>1, <2>2, <2>3, RowSets
<1>4. Cardinality(Runnable) <= 1 + clashes
  BY <1>1, <1>2, <1>3 DEF Counted
<1>5. ASSUME NEW r \in Carriers, status[r] \in Finished
      PROVE  Cardinality(Runnable) <= clashes
  <2>1. Runnable \subseteq (Carriers \ {r}) \cup Dormant
    BY <1>2, <1>5 DEF Live, Finished
  <2>2. Cardinality(Carriers \ {r}) = Cardinality(Carriers) - 1
    BY <1>1, RowSets, FS_RemoveElement
  <2>3. Cardinality(Runnable) <= Cardinality(Carriers \ {r}) + Cardinality(Dormant)
    BY <1>3, <2>1
  <2> QED
    BY <1>1, <2>2, <2>3 DEF Counted
<1> QED
  BY <1>4, <1>5

LEMMA FewRunnableNext ==
    ASSUME TypeOK', AtWork', Counted'
    PROVE  Cardinality(Runnable') <= 1 + clashes'
<1>1. /\ Carriers' \in SUBSET Rows /\ Dormant' \in SUBSET Rows /\ Runnable' \in SUBSET Rows
      /\ clashes' \in Nat /\ Carriers' \cup Dormant' \in SUBSET Rows
  BY SizesNext DEF TypeOK, Carriers, Dormant
<1>2. Runnable' \subseteq Carriers' \cup Dormant'
  BY ConstantsOK DEF Runnable, Dormant, Carriers, Live, Finished, AtWork, TypeOK, NoRow, Rows
<1>3. /\ Cardinality(Runnable') <= Cardinality(Carriers' \cup Dormant')
      /\ Cardinality(Carriers' \cup Dormant') <= Cardinality(Carriers') + Cardinality(Dormant')
  BY <1>1, <1>2, Smaller, Joined
<1>4. Cardinality(Carriers') + Cardinality(Dormant') <= 1 + clashes'
  BY DEF Counted
<1> QED
  BY <1>1, <1>3, <1>4, RowSets

(* Steps that let no more rows run, and finish none.                       *)
LEMMA PausingQuiet ==
    ASSUME TypeOK, TypeOK', Pausing, failures' = failures, clashes <= clashes',
           Runnable' \subseteq Runnable,
           \A r \in Rows : status[r] \in Finished \/ status'[r] \in Finished =>
                             status'[r] = status[r],
           \A r \in Rows : status[r] = "deleted" => status'[r] = "deleted"
    PROVE  Pausing'
<1>1. Overtaken' \subseteq Overtaken /\ Trailing' = Trailing
  BY DEF Overtaken, Trailing, Finished
<1>2. /\ Cardinality(Runnable') <= Cardinality(Runnable)
      /\ Cardinality(Overtaken') <= Cardinality(Overtaken)
  BY <1>1, Sizes, SizesNext, Smaller
<1>3. /\ failures + Cardinality(Runnable') <= PauseCap + 1 + 2 * clashes'
      /\ (\A r \in Rows : status'[r] # "deleted") =>
           failures + Cardinality(Overtaken') <= Cardinality(Trailing') + 1 + clashes'
  BY <1>1, <1>2, Sizes, SizesNext DEF Pausing
<1> QED
  BY <1>3 DEF Pausing

(* Steps after which what has failed and may fail is one and the clashes.  *)
LEMMA PausingFresh ==
    ASSUME TypeOK', failures' + Cardinality(Runnable') <= 1 + clashes'
    PROVE  Pausing'
<1>1. Cardinality(Overtaken') <= Cardinality(Runnable')
  BY SizesNext, Smaller
<1>2. PauseCap \in Nat
  BY ConstantsOK
<1> QED
  BY <1>1, <1>2, SizesNext DEF Pausing

(* Disjoint subsets.                                                       *)
LEMMA Parts ==
    ASSUME NEW S \in SUBSET Rows, NEW T \in SUBSET Rows, NEW U \in SUBSET Rows,
           S \cap T = {}, S \cup T \subseteq U
    PROVE  /\ Cardinality(S) + Cardinality(T) <= Cardinality(U)
           /\ Cardinality(S) \in Nat /\ Cardinality(T) \in Nat /\ Cardinality(U) \in Nat
<1>1. S \cup T \in SUBSET Rows
  OBVIOUS
<1>2. Cardinality(S \cup T) = Cardinality(S) + Cardinality(T)
  BY Joined
<1>3. Cardinality(S \cup T) <= Cardinality(U)
  BY <1>1, Smaller
<1> QED
  BY <1>2, <1>3, RowSets

(* The rows of A fail and none succeeds: those with a recurrence count, and*)
(* each of them is a trailing failure or was overtaken.                    *)
LEMMA PausingFails ==
    ASSUME TypeOK, TypeOK', Pausing, NEW A \in SUBSET Rows, CountFailures(A, {}),
           \A r \in Rows : status'[r] = IF r \in A THEN "failed" ELSE status[r],
           \A r \in A : /\ status[r] \in Live \cup {"cancelled"}
                        /\ status[r] = "pending" \/ ack[r] # "none",
           \A r \in Rows : ack'[r] # "none" => ack[r] # "none",
           UNCHANGED <<armed, clashes>>
    PROVE  Pausing'
<1> DEFINE X == {r \in A : armed[r]}
           Y == X \cap Overtaken
           Z == X \ Overtaken
<1>1. failures' = failures + Cardinality(X)
  BY DEF CountFailures
<1>2. /\ X \in SUBSET Rows /\ Y \in SUBSET Rows /\ Z \in SUBSET Rows
      /\ Cardinality(X) = Cardinality(Y) + Cardinality(Z)
      /\ Cardinality(X) \in Nat /\ Cardinality(Y) \in Nat /\ Cardinality(Z) \in Nat
  <2>1. X \in SUBSET Rows /\ Y \in SUBSET Rows /\ Z \in SUBSET Rows
    OBVIOUS
  <2>2. Y \cap Z = {} /\ X = Y \cup Z
    OBVIOUS
  <2>3. Cardinality(Y \cup Z) = Cardinality(Y) + Cardinality(Z)
    BY <2>1, <2>2, Joined
  <2> QED
    BY <2>1, <2>2, <2>3, RowSets
<1>3. X \subseteq Runnable /\ Runnable' \subseteq Runnable \ X
  <2>1. X \subseteq Runnable
    BY DEF Runnable
  <2>2. Runnable' \subseteq Runnable \ X
    BY DEF Runnable, Live
  <2> QED
    BY <2>1, <2>2
<1>4. Cardinality(Runnable') + Cardinality(X) <= Cardinality(Runnable)
  <2>1. Runnable' \cap X = {} /\ Runnable' \cup X \subseteq Runnable
    BY <1>3
  <2> QED
    BY <1>2, <2>1, Sizes, SizesNext, Parts
<1>5. \A q \in Rows : status'[q] = "completed" <=> status[q] = "completed"
  BY DEF Live
<1>6. Cardinality(Overtaken') + Cardinality(Y) <= Cardinality(Overtaken)
  <2>1. Overtaken' \subseteq Overtaken \ Y
    BY <1>3, <1>5 DEF Overtaken
  <2>2. Overtaken' \cap Y = {} /\ Overtaken' \cup Y \subseteq Overtaken
    BY <2>1
  <2> QED
    BY <1>2, <2>2, Sizes, SizesNext, Parts
<1>7. Cardinality(Trailing) + Cardinality(Z) <= Cardinality(Trailing')
  <2>1. Trailing \cap Z = {}
    BY DEF Trailing, Live
  <2>2. Trailing \subseteq Trailing'
    BY <1>5 DEF Trailing
  <2>3. Z \subseteq Trailing'
    BY <1>3, <1>5 DEF Trailing, Overtaken
  <2>4. Trailing \cup Z \subseteq Trailing'
    BY <2>2, <2>3
  <2> QED
    BY <1>2, <2>1, <2>4, Sizes, SizesNext, Parts
<1>8. failures' + Cardinality(Runnable') <= PauseCap + 1 + 2 * clashes'
  BY <1>1, <1>2, <1>4, Sizes, SizesNext DEF Pausing
<1>9. ASSUME \A r \in Rows : status'[r] # "deleted"
      PROVE  failures' + Cardinality(Overtaken') <= Cardinality(Trailing') + 1 + clashes'
  <2>1. \A r \in Rows : status[r] # "deleted"
    BY <1>9 DEF Live
  <2>2. failures + Cardinality(Overtaken) <= Cardinality(Trailing) + 1 + clashes
    BY <2>1 DEF Pausing
  <2> QED
    BY <1>1, <1>2, <1>6, <1>7, <2>2, Sizes, SizesNext
<1> QED
  BY <1>8, <1>9 DEF Pausing

(* The sweep inserts the next occurrence, paused if enough runs failed.    *)
LEMMA PausingSuccessor ==
    ASSUME TypeOK, TypeOK', AtWork, Counted, Tidy, Pausing,
           NEW r \in Rows, NEW new \in Rows, InsertRecurrence(r, new)
    PROVE  Pausing'
<1>1. /\ r \in Carriers /\ status[r] \in Finished
  BY ConstantsOK DEF InsertRecurrence, AtWork, Carriers, NoRow, Rows
<1>2. /\ status[new] = "none" /\ ack[new] = "none" /\ NextStatus \in Live
      /\ \A q \in Rows : q # new => status'[q] = status[q] /\ armed'[q] = armed[q]
      /\ status'[new] = NextStatus
      /\ UNCHANGED <<ack, failures, clashes>>
  BY DEF InsertRecurrence, InsertTaskRow, IdleRow, NextStatus, Live, TypeOK, AtWork, historyVars
<1>3. \A q \in Rows : status[q] # "deleted" /\ status'[q] # "deleted"
  BY <1>1, <1>2 DEF Tidy, Finished, Live
<1>4. \A q \in Rows : q > new => status'[q] = "none"
  BY <1>2 DEF Tidy, Rows
<1>5. /\ Trailing' = Trailing
      /\ \A q \in Rows : status'[q] = "completed" <=> status[q] = "completed"
  BY <1>2 DEF Trailing, Live
<1>6. Runnable' \subseteq Runnable \cup {new} /\ Overtaken' \subseteq Overtaken
  <2>1. Runnable' \subseteq Runnable \cup {new}
    BY <1>2 DEF Runnable
  <2>2. new \notin Overtaken'
    BY <1>4 DEF Overtaken
  <2> QED
    BY <1>5, <2>1, <2>2 DEF Overtaken
<1>7. failures + Cardinality(Overtaken) <= Cardinality(Trailing) + 1 + clashes
  BY <1>3 DEF Pausing
<1>8. failures' + Cardinality(Overtaken') <= Cardinality(Trailing') + 1 + clashes'
  <2>1. Cardinality(Overtaken') <= Cardinality(Overtaken)
    BY <1>6, Sizes, SizesNext, Smaller
  <2> QED
    BY <1>2, <1>5, <1>7, <2>1, Sizes, SizesNext
<1>9. failures' + Cardinality(Runnable') <= PauseCap + 1 + 2 * clashes'
  <2>1. CASE Cardinality(Trailing) >= PauseCap
    <3>1. status'[new] = "paused"
      BY <1>2, <2>1, Sizes DEF NextStatus
    <3>2. Runnable' \subseteq Runnable
      BY <1>2, <1>6, <3>1 DEF Runnable
    <3>3. Cardinality(Runnable') <= Cardinality(Runnable)
      BY <3>2, Sizes, SizesNext, Smaller
    <3> QED
      BY <1>2, <3>3, Sizes, SizesNext DEF Pausing
  <2>2. CASE ~(Cardinality(Trailing) >= PauseCap)
    <3>1. Cardinality(Runnable) <= clashes
      BY <1>1, FewRunnable
    <3>2. Cardinality(Runnable') <= Cardinality(Runnable) + 1
      <4>1. Runnable \in SUBSET Rows /\ Runnable \cup {new} \in SUBSET Rows
        BY Sizes
      <4>2. Cardinality(Runnable') <= Cardinality(Runnable \cup {new})
        BY <1>6, <4>1, SizesNext, Smaller
      <4>3. Cardinality(Runnable \cup {new}) <= Cardinality(Runnable) + 1
        BY <4>1, OneMore
      <4> QED
        BY <4>1, <4>2, <4>3, SizesNext, RowSets
    <3> QED
      BY <1>2, <1>7, <2>2, <3>1, <3>2, Sizes, SizesNext
  <2> QED
    BY <2>1, <2>2
<1> QED
  BY <1>8, <1>9 DEF Pausing

(* The acknowledgements that are mirrored in one sweep: a success makes    *)
(* the count start again with the failures after it.                       *)
LEMMA PausingSync ==
    ASSUME TypeOK, TypeOK', AtWork, Counted, Pausing, SyncProcessingAcks
    PROVE  Pausing'
<1> DEFINE Fresh(outcome) == {r \in Rows : /\ ack[r] = outcome
                                           /\ status[r] \notin Finished \cup {"deleted"}}
           A == Fresh("crashed")
           C == Fresh("completed")
           G == {r \in A : armed[r] /\ \A c \in C : c < r}
<1>1. /\ \A r \in Rows : status'[r] = IF r \in C THEN "completed"
                                      ELSE IF r \in A THEN "failed" ELSE status[r]
      /\ \A r \in Rows : ack'[r] = IF ack[r] = "processing" THEN "processing" ELSE "none"
      /\ CountFailures(A, C) /\ UNCHANGED <<armed, clashes>>
      /\ A \in SUBSET Rows /\ C \in SUBSET Rows
  BY DEF SyncProcessingAcks
<1>2. \A r \in A \cup C : status[r] \in Live \cup {"cancelled"} /\ ack[r] # "none"
  BY DEF TypeOK, AtWork, Statuses, Live, Finished
<1>3. CASE C = {}
  <2>1. /\ CountFailures(A, {})
        /\ \A r \in Rows : status'[r] = IF r \in A THEN "failed" ELSE status[r]
        /\ \A r \in Rows : ack'[r] # "none" => ack[r] # "none"
    BY <1>1, <1>3
  <2> QED
    BY <1>1, <1>2, <2>1, PausingFails
<1>4. CASE C # {}
  <2>1. failures' = Cardinality(G) /\ G \in SUBSET Rows
    BY <1>1, <1>4 DEF CountFailures
  <2>2. G \subseteq Runnable
    BY <1>2 DEF Runnable
  <2>3. Runnable' \subseteq Runnable \ G
    <3>1. \A r \in G : status'[r] \in Finished
      BY <1>1 DEF Finished
    <3>2. \A r \in Runnable' : status'[r] = status[r] /\ r \in Runnable
      BY <1>1 DEF Runnable, Live
    <3> QED
      BY <3>1, <3>2 DEF Runnable, Live, Finished
  <2>4. Cardinality(G) + Cardinality(Runnable') <= Cardinality(Runnable)
    <3>1. G \cap Runnable' = {} /\ G \cup Runnable' \subseteq Runnable
      BY <2>2, <2>3
    <3> QED
      BY <2>1, <3>1, Sizes, SizesNext, Parts
  <2>5. Cardinality(Runnable) <= 1 + clashes
    BY FewRunnable
  <2>6. Cardinality(G) \in Nat
    BY <2>1, RowSets
  <2>7. failures' + Cardinality(Runnable') <= 1 + clashes'
    BY <1>1, <2>1, <2>4, <2>5, <2>6, Sizes, SizesNext
  <2> QED
    BY <2>7, PausingFresh
<1> QED
  BY <1>3, <1>4

(* An edit that gives a series a recurrence lets it begin anew.            *)
LEMMA PausingArmed ==
    ASSUME TypeOK, TypeOK', AtWork', Counted', Pausing, NEW S \in SUBSET Rows, ArmMore(S),
           UNCHANGED <<status, ack>>, \A r \in Rows : armed'[r] => armed[r] \/ r \in S
    PROVE  Pausing'
<1> DEFINE new == {r \in S : ~armed[r]}
<1>1. CASE new = {}
  <2>1. failures' = failures /\ Runnable' \subseteq Runnable
    BY <1>1 DEF ArmMore, Runnable
  <2>2. clashes <= clashes'
    BY ArmMoreType
  <2> QED
    BY <2>1, <2>2, PausingQuiet
<1>2. CASE new # {}
  <2>1. failures' = 0
    BY <1>2 DEF ArmMore
  <2>2. failures' + Cardinality(Runnable') <= 1 + clashes'
    BY <2>1, FewRunnableNext, SizesNext
  <2> QED
    BY <2>2, PausingFresh
<1> QED
  BY <1>1, <1>2

(* One that meets a row which is no longer live does not, and is a clash.  *)
LEMMA PausingStale ==
    ASSUME TypeOK, TypeOK', Pausing, NEW r \in Rows, Stale(r),
           \A q \in Rows : q # r => armed'[q] = armed[q], armed'[r] = (status[r] # "deleted"),
           UNCHANGED <<status, ack>>
    PROVE  Pausing'
<1>1. failures' = failures
  BY DEF Stale
<1>2. CASE armed[r] \/ status[r] = "deleted"
  <2>1. clashes' = clashes /\ Runnable' \subseteq Runnable
    BY <1>2, Sizes DEF Stale, Runnable, Live
  <2> QED
    BY <1>1, <2>1, PausingQuiet, Sizes
<1>3. CASE ~(armed[r] \/ status[r] = "deleted")
  <2>1. clashes' = clashes + 1
    BY <1>3 DEF Stale
  <2>2. Runnable' \subseteq Runnable \cup {r} /\ Overtaken' \subseteq Overtaken \cup {r}
    BY DEF Runnable, Overtaken
  <2>3. Trailing' = Trailing
    BY DEF Trailing
  <2>4. ASSUME NEW U \in SUBSET Rows, NEW V \in SUBSET Rows, V \subseteq U \cup {r}
        PROVE  Cardinality(V) <= Cardinality(U) + 1
    <3>1. U \cup {r} \in SUBSET Rows
      OBVIOUS
    <3>2. Cardinality(V) <= Cardinality(U \cup {r})
      BY <2>4, <3>1, Smaller
    <3>3. Cardinality(U \cup {r}) <= Cardinality(U) + 1
      BY OneMore
    <3> QED
      BY <3>1, <3>2, <3>3, RowSets
  <2>5. /\ Cardinality(Runnable') <= Cardinality(Runnable) + 1
        /\ Cardinality(Overtaken') <= Cardinality(Overtaken) + 1
    BY <2>2, <2>4, Sizes, SizesNext
  <2>6. /\ failures + Cardinality(Runnable') <= PauseCap + 1 + 2 * (clashes + 1)
        /\ (\A q \in Rows : status[q] # "deleted") =>
             failures + Cardinality(Overtaken') <= Cardinality(Trailing) + 1 + (clashes + 1)
    BY <2>5, Sizes, SizesNext DEF Pausing
  <2> QED
    BY <1>1, <2>1, <2>3, <2>6 DEF Pausing
<1> QED
  BY <1>2, <1>3

LEMMA PausingStep ==
    ASSUME TypeOK, TypeOK', AtWork, AtWork', Counted, Counted', Tidy, Pausing, [Next]_vars
    PROVE  Pausing'
<1> USE DEF sweepVars, rowVars, editVars, historyVars
<1>1. CASE BeginRearm
  <2>1. PICK E \in SUBSET Rows :
          /\ \A r \in E : status[r] = "pending"
          /\ \A r \in Rows : status'[r] = IF r \in E THEN "failed" ELSE status[r]
          /\ CountFailures(E, {})
    BY <1>1 DEF BeginRearm
  <2>2. /\ \A r \in Rows : ack'[r] # "none" => ack[r] # "none"
        /\ UNCHANGED <<armed, clashes>>
    BY <1>1 DEF BeginRearm
  <2>3. \A r \in E : /\ status[r] \in Live \cup {"cancelled"}
                     /\ status[r] = "pending" \/ ack[r] # "none"
    BY <2>1 DEF Live
  <2> QED
    BY <2>1, <2>2, <2>3, PausingFails
<1>2. CASE ResumeTask
  <2>1. failures' = 0
    BY <1>2 DEF ResumeTask
  <2>2. failures' + Cardinality(Runnable') <= 1 + clashes'
    BY <2>1, FewRunnableNext, SizesNext
  <2> QED
    BY <2>2, PausingFresh
<1>3. ASSUME UNCHANGED failures, Runnable' \subseteq Runnable,
             \A r \in Rows : status[r] \in Finished \cup {"deleted"} => status'[r] = status[r],
             \A r \in Rows : status'[r] \in Finished => status'[r] = status[r]
      PROVE  Pausing'
  <2>1. clashes <= clashes'
    BY ClashesGrow
  <2> QED
    BY <1>3, <2>1, PausingQuiet
<1>4. CASE Container
  <2>1. UNCHANGED <<status, armed, failures>>
    BY <1>4 DEF Container, ContainerStarts, ContainerStops, Claim, Acknowledge
  <2>2. \A r \in Rows : ack'[r] # "none" => ack[r] # "none" \/ status[r] = "pending"
    BY <1>4 DEF Container, ContainerStarts, ContainerStops, Claim, Acknowledge, TypeOK
  <2>3. Runnable' \subseteq Runnable
    BY <2>1, <2>2 DEF Runnable
  <2> QED
    BY <1>3, <2>1, <2>3
<1>5. CASE PauseTask \/ CancelTask
  <2>1. /\ UNCHANGED <<ack, failures>> /\ \A r \in Rows : armed'[r] => armed[r]
        /\ \A r \in Rows : status'[r] # status[r] =>
              status[r] \in Live /\ status'[r] \in {"paused", "cancelled"}
    BY <1>5 DEF PauseTask, CancelTask, LiveRows, Live
  <2>2. Runnable' \subseteq Runnable
    BY <2>1 DEF Runnable, Live
  <2> QED
    BY <1>3, <2>1, <2>2 DEF Live, Finished
<1>6. CASE DeleteTask
  <2>1. /\ \A r \in Rows : armed'[r] = FALSE
        /\ \E r \in Rows : status'[r] = "deleted"
        /\ UNCHANGED <<failures, clashes>>
    BY <1>6 DEF DeleteTask, IdleRow
  <2>2. Runnable' = {}
    BY <2>1 DEF Runnable
  <2>3. Cardinality(Runnable') = 0
    BY <2>2, FS_EmptySet
  <2>4. failures + 0 <= PauseCap + 1 + 2 * clashes
    BY Sizes DEF Pausing
  <2> QED
    BY <2>1, <2>3, <2>4 DEF Pausing
<1>7. CASE SetRecurrence
  <2>1. /\ LiveRows \in SUBSET Rows /\ ArmMore(LiveRows) /\ UNCHANGED <<status, ack>>
        /\ \A r \in Rows : armed'[r] => armed[r] \/ r \in LiveRows
    BY <1>7 DEF SetRecurrence, LiveRows
  <2> QED
    BY <2>1, PausingArmed
<1>8. ASSUME NEW r \in Rows, WriteRecurrence(r)
      PROVE  Pausing'
  <2>1. /\ \A q \in Rows : q # r => armed'[q] = armed[q]
        /\ armed'[r] = (status[r] # "deleted")
        /\ UNCHANGED <<status, ack>>
    BY <1>8 DEF WriteRecurrence, TypeOK
  <2>2. CASE r \in LiveRows
    <3>1. {r} \in SUBSET Rows /\ ArmMore({r}) /\ \A q \in Rows : armed'[q] => armed[q] \/ q \in {r}
      BY <1>8, <2>1, <2>2 DEF WriteRecurrence
    <3> QED
      BY <2>1, <3>1, PausingArmed
  <2>3. CASE r \notin LiveRows
    BY <1>8, <2>1, <2>3, PausingStale DEF WriteRecurrence
  <2> QED
    BY <2>2, <2>3
<1>9. ASSUME NEW r \in Rows, WriteNull(r) \/ ClearRecurrence(r) \/ RearmFails(r)
      PROVE  Pausing'
  <2>1. UNCHANGED <<status, ack, failures>> /\ \A q \in Rows : armed'[q] => armed[q]
    BY <1>9 DEF WriteNull, ClearRecurrence, RearmFails, TypeOK
  <2>2. Runnable' \subseteq Runnable
    BY <2>1 DEF Runnable
  <2> QED
    BY <1>3, <2>1, <2>2
<1>10. CASE DropRecurrence \/ CollectSession \/ ReadForEdit \/ HostRestart \/ UNCHANGED vars
  <2>1. UNCHANGED <<status, ack, failures>> /\ \A q \in Rows : armed'[q] => armed[q]
    BY <1>10 DEF DropRecurrence, CollectSession, ReadForEdit, HostRestart, vars
  <2>2. Runnable' \subseteq Runnable
    BY <2>1 DEF Runnable
  <2> QED
    BY <1>3, <2>1, <2>2
<1>11. ASSUME NEW r \in Rows, RunTask(r)
       PROVE  Pausing'
  <2>1. /\ \A q \in Rows : q # r => status'[q] = status[q] /\ armed'[q] = armed[q]
        /\ armed'[r] = FALSE /\ status[r] = "none" /\ status'[r] = "pending"
        /\ UNCHANGED <<ack, failures>>
    BY <1>11 DEF RunTask, InsertTaskRow, IdleRow, TypeOK
  <2>2. Runnable' \subseteq Runnable
    BY <2>1 DEF Runnable
  <2> QED
    BY <1>3, <2>1, <2>2 DEF Finished
<1> QED
  BY <1>1, <1>2, <1>4, <1>5, <1>6, <1>7, <1>8, <1>9, <1>10, <1>11, PausingSync,
     PausingSuccessor DEF Next, Sweep, Operator

-----------------------------------------------------------------------------
(* Theorems.                                                               *)

LEMMA InitInvariant ==
    ASSUME Init
    PROVE  IInv
<1>1. PICK s \in Live, a \in BOOLEAN :
        /\ status = [r \in Rows |-> IF r = 1 THEN s ELSE "none"]
        /\ armed = [r \in Rows |-> r = 1 /\ a]
        /\ stop = IF ~a THEN "ended" ELSE IF s = "paused" THEN "held" ELSE "no"
  BY DEF Init
<1>2. 1 \in Rows /\ NoRow \notin Rows /\ s \in Statuses
  BY ConstantsOK DEF Rows, NoRow, Statuses
<1>3. TypeOK
  <2>1. status \in [Rows -> Statuses] /\ armed \in [Rows -> BOOLEAN]
    BY <1>1, <1>2 DEF Statuses
  <2>2. ack \in [Rows -> {"none", "processing", "completed", "crashed"}]
    BY DEF Init
  <2>3. stop \in {"no", "held", "ended", "asked"}
    BY <1>1
  <2>4. /\ open \in BOOLEAN /\ alive \in BOOLEAN
        /\ sweep \in {"idle", "waking", "rearming"}
        /\ todo \subseteq Rows /\ inserted \in todo \cup {NoRow}
        /\ editArm \subseteq Rows /\ editClear \subseteq Rows
    BY DEF Init
  <2>5. failures \in Nat /\ clashes \in 0..MaxClashes /\ faults \in 0..MaxFaults
    BY ConstantsOK DEF Init
  <2> QED
    BY <2>1, <2>2, <2>3, <2>4, <2>5 DEF TypeOK
<1>4. AtWork
  BY DEF Init, AtWork
<1>5. Carriers = IF a THEN {1} ELSE {}
  BY <1>1, <1>2 DEF Init, Carriers, Live, Finished
<1>6. Counted
  <2>1. Dormant = {}
    BY <1>1 DEF Dormant, Live
  <2>2. Cardinality({}) = 0 /\ Cardinality({1}) = 1
    BY FS_EmptySet, FS_Singleton
  <2>3. Cardinality(Dormant) = 0 /\ Cardinality(Carriers) \in 0..1
    BY <1>5, <2>1, <2>2
  <2> QED
    BY <2>3 DEF Init, Counted
<1>7. GoesOn
  <2>1. a => 1 \in Sure
    BY <1>1, <1>2 DEF Init, Sure
  <2> QED
    BY <1>1, <2>1 DEF Init, GoesOn
<1>8. Stopped
  BY <1>1, <1>2, <1>5 DEF Init, Stopped
<1>9. Tidy
  BY <1>1 DEF Tidy, Live, Rows
<1>10. Pausing
  <2>1. /\ \A r \in Rows : armed[r] => r = 1
        /\ \A r \in Rows : status[r] \notin Finished
    BY <1>1 DEF Live, Finished
  <2>2. Runnable \in SUBSET {1} /\ {1} \in SUBSET Rows /\ Overtaken = {}
    BY <1>2, <2>1 DEF Runnable, Overtaken, Finished
  <2>3. Cardinality(Runnable) <= 1
    <3>1. Cardinality(Runnable) <= Cardinality({1}) /\ Cardinality({1}) = 1
      BY <2>2, Smaller, FS_Singleton
    <3> QED
      BY <3>1
  <2>4. Cardinality(Overtaken) = 0
    BY <2>2, FS_EmptySet
  <2>5. failures = 0 /\ clashes = 0
    BY DEF Init
  <2> QED
    BY <1>3, <2>3, <2>4, <2>5, Sizes DEF Pausing
<1> QED
  BY <1>3, <1>4, <1>6, <1>7, <1>8, <1>9, <1>10 DEF IInv

LEMMA Invariance == Spec => []IInv
<1>1. IInv /\ [Next]_vars => IInv'
  BY TypeStep, AtWorkStep, CountedStep, GoesOnStep, StoppedStep, TidyStep, PausingStep DEF IInv
<1> QED
  BY <1>1, InitInvariant, PTL DEF Spec

(* Every reachable state has the types of TypeOK, whatever the bounds.     *)
THEOREM TypeCorrect == Spec => []TypeOK
<1>1. IInv => TypeOK
  BY DEF IInv
<1> QED
  BY <1>1, Invariance, PTL

(* A series never has more next occurrences than one, plus one for each    *)
(* crash between the statements of the sweep and each edit of a row that   *)
(* is not, or not alone, the next occurrence (handleRecurrence, updateTask,*)
(* updateScheduledTask).                                                   *)
THEOREM OneOccurrence == Spec => []OneCarrier
<1>1. ASSUME IInv
      PROVE  OneCarrier
  <2>1. /\ Cardinality(Carriers) \in Nat /\ Cardinality(Dormant) \in Nat
        /\ clashes \in Nat
    BY <1>1, CarriersAreRows, RowSets, ConstantsOK DEF IInv, TypeOK
  <2> QED
    BY <1>1, <2>1 DEF IInv, Counted, OneCarrier
<1> QED
  BY <1>1, Invariance, PTL

(* The sweep closes the session of no series that is to go on, and always  *)
(* finds the row that carries it.                                          *)
THEOREM NobodyLosesASeries == Spec => []SeriesSurvives
<1>1. IInv => SeriesSurvives
  <2>1. Sure \subseteq Carriers
    BY DEF Sure, Carriers
  <2> QED
    BY <2>1 DEF IInv, GoesOn, SeriesSurvives
<1> QED
  BY <1>1, Invariance, PTL

(* A cancelled, deleted or quietly paused series stays so.                 *)
THEOREM StoppedStaysStopped == Spec => []StopsHold
<1>1. IInv => StopsHold
  BY DEF IInv, Stopped, StopsHold
<1> QED
  BY <1>1, Invariance, PTL

(* A series whose runs keep failing is paused, however its runs on demand, *)
(* its late acknowledgements and its edits are interleaved (handleRecur-   *)
(* rence, trailingFailedRuns).                                             *)
THEOREM FailuresPause == Spec => []BrokenSeriesPauses
<1>1. ASSUME IInv
      PROVE  BrokenSeriesPauses
  <2>1. TypeOK /\ failures + Cardinality(Runnable) <= PauseCap + 1 + 2 * clashes
    BY <1>1 DEF IInv, Pausing
  <2> QED
    BY <2>1, Sizes DEF BrokenSeriesPauses
<1> QED
  BY <1>1, Invariance, PTL
=============================================================================
