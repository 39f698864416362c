---------------------------- MODULE OutboxProofs ----------------------------
(***************************************************************************)
(* Theorems about messages_out: how its rows are delivered (Delivery), for *)
(* every finite set of rows, any sessions and any limits, and how they are *)
(* numbered (SeqNumbers), for every set of writers and every bound.        *)
(*                                                                         *)
(* Delivery: the in-flight set gives a session to one driver at a time, so *)
(* the rows of a snapshot are settled by nobody else; a row has been shown *)
(* more often than the host was upset only while its driver waits for the  *)
(* answer of the adapter, or after it has been recorded; and whatever a    *)
(* driver has passed over has used up one of its attempts.                 *)
(*                                                                         *)
(* Numbers: a writer that nobody has overtaken still knows the highest     *)
(* number of messages_out, so it chooses a free one; an overtaken one may  *)
(* be refused, but never chooses an even number, and what it has read is   *)
(* not below any row that was there when it began.                         *)
(***************************************************************************)
EXTENDS Delivery, SeqNumbers, FiniteSetTheorems, TLAPS

-----------------------------------------------------------------------------
(* The smallest element of a finite set of numbers.                        *)

(* A finite, non-empty set of numbers has a smallest element: the one with *)
(* the smallest set of numbers that are not above it.                      *)
LEMMA SmallestExists ==
    ASSUME NEW S, S \subseteq Nat, IsFiniteSet(S), S # {}
    PROVE  \E low \in S : \A n \in S : low <= n
<1> DEFINE UpTo(k) == {n \in S : n <= k}
           Heads == {UpTo(k) : k \in S}
<1>1. IsWellFoundedOn(StrictSubsetOrdering(S), SUBSET S)
  BY FS_StrictSubsetOrderingWellFounded, FS_FiniteSubsetsOfFinite
<1>2. Heads \subseteq SUBSET S /\ Heads # {}
  OBVIOUS
<1>3. PICK head \in Heads : \A t \in Heads : <<t, head>> \notin StrictSubsetOrdering(S)
  BY <1>1, <1>2, WFMin
<1>4. PICK low \in S : head = UpTo(low)
  OBVIOUS
<1>5. ASSUME NEW n \in S, ~(low <= n) PROVE FALSE
  <2>1. n \in Nat /\ low \in Nat /\ n < low
    BY <1>5
  <2>2. \A m \in S : m <= n => m <= low
    BY <2>1
  <2>3. UpTo(n) \subseteq head
    BY <2>2, <1>4
  <2>4. low \in head /\ low \notin UpTo(n)
    BY <2>1, <1>4
  <2>5. <<UpTo(n), head>> \in StrictSubsetOrdering(S)
    BY <2>3, <2>4, <1>2 DEF StrictSubsetOrdering
  <2> QED
    BY <2>5, <1>3
<1> QED
  BY <1>5

(* Min of the library is that element.                                     *)
LEMMA MinIsSmallest ==
    ASSUME NEW S, S \subseteq Nat, IsFiniteSet(S), S # {}
    PROVE  Min(S) \in S /\ \A n \in S : Min(S) <= n
<1>1. PICK low \in S : \A n \in S : low <= n
  BY SmallestExists
<1> QED
  BY <1>1 DEF Min
-----------------------------------------------------------------------------
(* A session is drained by one driver, which keeps it in flight.           *)
OneDriver ==
    /\ \A d \in Drivers : at[d] # NoSession => at[d] \in inflight
    /\ \A d, e \in Drivers : d # e /\ at[d] # NoSession => at[d] # at[e]

(* The rows of a snapshot belong to the session and are not settled.       *)
Snapshots ==
    \A d \in Drivers : \A m \in queue[d] :
        /\ at[d] # NoSession /\ owner[m] = at[d]
        /\ delivered[m] = "none" /\ kind[m] # "none"

(* What a driver waits for.                                                *)
InHand ==
    \A d \in Drivers :
        /\ shown[d] => sending[d] /\ sends[Row(d)] > 0
        /\ sending[d] => /\ queue[d] # {}
                         /\ kind[Row(d)] \in {"chat", "card"}
                         /\ kind[Row(d)] = "card" => question[Row(d)] \/ Row(d) \in answered

(* A row was shown once more than the host was upset only if it is recorded*)
(* as delivered, or the driver that showed it does not know yet.           *)
Accounts ==
    \A m \in Rows :
        \/ sends[m] <= upsets
        \/ /\ sends[m] = upsets + 1
           /\ delivered[m] = "delivered" \/ \E d \in Drivers : shown[d] /\ Row(d) = m

(* Rows are written in their order, and an unwritten row has no history.   *)
WrittenInOrder ==
    /\ \A m, n \in Rows : n < m /\ kind[n] = "none" => kind[m] = "none"
    /\ \A m \in Rows : kind[m] = "none"
          => owner[m] = NoSession /\ delivered[m] = "none" /\ sends[m] = 0

(* A row that the driver of its session has passed over has failed once.   *)
PassedOver ==
    \A d \in Drivers : \A m \in queue[d], n \in Rows :
        n < m /\ owner[n] = at[d] /\ delivered[n] = "none" /\ n \notin queue[d]
            => attempts[n] > 0

IInv == /\ TypeOK /\ OneDriver /\ Snapshots /\ InHand /\ Accounts
        /\ WrittenInOrder /\ PassedOver /\ CardsAreAnswerable

-----------------------------------------------------------------------------
(* Rows and their outcome.                                                 *)

(* The row at hand is the first of the snapshot.                           *)
LEMMA RowFacts ==
    ASSUME TypeOK, NEW d \in Drivers, queue[d] # {}
    PROVE  /\ Row(d) \in queue[d] /\ Row(d) \in Rows
           /\ \A m \in queue[d] : Row(d) <= m
<1>1. queue[d] \subseteq Rows /\ queue[d] \subseteq Nat /\ IsFiniteSet(queue[d])
  <2>1. queue[d] \subseteq Rows
    BY DEF TypeOK
  <2>2. Rows \subseteq Nat /\ IsFiniteSet(Rows)
    BY ConstantsOK
  <2> QED
    BY <2>1, <2>2, FS_Subset
<1> QED
  BY <1>1, MinIsSmallest DEF Row, FirstOf

(* An attempt ends: the row is recorded, or one more attempt is counted.   *)
Outcome(m) == MarkDelivered(m) \/ CountAttempt(m)

(* The outcome of an attempt is recorded and counted within bounds.        *)
LEMMA OutcomeTypes ==
    ASSUME TypeOK, NEW m \in Rows, Outcome(m)
    PROVE  /\ delivered' \in [Rows -> {"none", "delivered", "failed"}]
           /\ attempts' \in [Rows -> 0..(MaxAttempts - 1)]
<1>1. MaxAttempts \in Nat /\ MaxAttempts > 0
  BY ConstantsOK
<1>2. CASE MarkDelivered(m)
  BY <1>1, <1>2 DEF MarkDelivered, Record, TypeOK
<1>3. CASE CountAttempt(m)
  <2>1. attempts[m] \in 0..(MaxAttempts - 1)
    BY DEF TypeOK
  <2>2. CASE attempts[m] + 1 >= MaxAttempts
    BY <1>1, <1>3, <2>1, <2>2 DEF CountAttempt, Record, TypeOK
  <2>3. CASE ~(attempts[m] + 1 >= MaxAttempts)
    <3>1. attempts[m] + 1 \in 0..(MaxAttempts - 1)
      BY <1>1, <2>1, <2>3
    <3> QED
      BY <3>1, <1>3, <2>3 DEF CountAttempt, TypeOK
  <2> QED
    BY <2>2, <2>3
<1> QED
  BY <1>2, <1>3 DEF Outcome

(* Only the row at hand is touched; unless it is recorded, it has an       *)
(* attempt more than none.                                                 *)
LEMMA OutcomeFacts ==
    ASSUME TypeOK, NEW m \in Rows, Outcome(m), delivered[m] = "none"
    PROVE  /\ \A n \in Rows \ {m} : delivered'[n] = delivered[n] /\ attempts'[n] = attempts[n]
           /\ delivered'[m] = "none" => attempts'[m] > 0
           /\ MarkDelivered(m) => delivered'[m] = "delivered"
           /\ CountAttempt(m) => delivered'[m] \in {"none", "failed"}
<1>1. MaxAttempts \in Nat /\ attempts[m] \in Nat
  BY ConstantsOK DEF TypeOK
<1>2. CASE MarkDelivered(m)
  BY <1>1, <1>2 DEF MarkDelivered, CountAttempt, Record, TypeOK
<1>3. CASE CountAttempt(m)
  BY <1>1, <1>3 DEF MarkDelivered, CountAttempt, Record, TypeOK
<1> QED
  BY <1>2, <1>3 DEF Outcome

(* The steps by which a driver is done with the row at hand.               *)
Settles(d) == Sent(d) \/ SendFails(d) \/ ThrowBarred(d) \/ DropUnaddressed(d)

(* What the four ways of being done with a row have in common.             *)
LEMMA SettleFacts ==
    ASSUME TypeOK, Snapshots, InHand, NEW d \in Drivers, Settles(d)
    PROVE  /\ queue[d] # {} /\ Outcome(Row(d)) /\ Dequeue(d)
           /\ at[d] # NoSession /\ delivered[Row(d)] = "none"
           /\ UNCHANGED <<kind, owner, question, sessionVars, inflight, todo, at, sends, answered>>
           /\ upsets' \in {upsets, upsets + 1}
<1>1. queue[d] # {}
  BY DEF Settles, Sent, SendFails, ThrowBarred, DropUnaddressed, Turn, InHand
<1>2. Row(d) \in queue[d]
  BY <1>1, RowFacts
<1> QED
  BY <1>1, <1>2 DEF Settles, Sent, SendFails, ThrowBarred, DropUnaddressed, Outcome, Snapshots,
                    historyVars

(* Taking the row at hand out of the snapshot.                             *)
LEMMA DequeueFacts ==
    ASSUME TypeOK, NEW d \in Drivers, Dequeue(d)
    PROVE  /\ queue' \in [Drivers -> SUBSET Rows]
           /\ sending' \in [Drivers -> BOOLEAN] /\ shown' \in [Drivers -> BOOLEAN]
           /\ queue'[d] = queue[d] \ {Row(d)} /\ ~sending'[d] /\ ~shown'[d]
           /\ \A e \in Drivers \ {d} : /\ queue'[e] = queue[e]
                                       /\ sending'[e] = sending[e]
                                       /\ shown'[e] = shown[e]
BY DEF Dequeue, TypeOK

-----------------------------------------------------------------------------
(* The type invariant.                                                     *)

(* The types hold at the start.                                            *)
LEMMA InitTypes == Init => TypeOK
BY ConstantsOK DEF Init, TypeOK

(* A new row keeps the types of the tables.                                *)
LEMMA WriteTypes ==
    ASSUME TypeOK, NEW m \in Rows, NEW s \in Sessions, NEW k \in AllKinds, WriteRow(m, s, k)
    PROVE  /\ kind' \in [Rows -> AllKinds \cup {"none"}]
           /\ owner' \in [Rows -> Sessions \cup {NoSession}]
           /\ delivered' \in [Rows -> {"none", "delivered", "failed"}]
           /\ question' \in [Rows -> BOOLEAN]
BY DEF WriteRow, TypeOK

(* The type invariant alone does not know that the rows of a snapshot are  *)
(* unsettled, which the outcome of an attempt relies on.                   *)
LEMMA SettleTypes ==
    ASSUME TypeOK, Snapshots, InHand, NEW d \in Drivers, Settles(d)
    PROVE  TypeOK'
<1>1. Row(d) \in Rows
  BY SettleFacts, RowFacts
<1>2. /\ delivered' \in [Rows -> {"none", "delivered", "failed"}]
      /\ attempts' \in [Rows -> 0..(MaxAttempts - 1)]
  BY <1>1, SettleFacts, OutcomeTypes
<1>3. /\ queue' \in [Drivers -> SUBSET Rows]
      /\ sending' \in [Drivers -> BOOLEAN] /\ shown' \in [Drivers -> BOOLEAN]
  BY SettleFacts, DequeueFacts
<1>4. upsets' \in 0..MaxUpsets
  BY ConstantsOK DEF Settles, Sent, SendFails, ThrowBarred, DropUnaddressed, historyVars, TypeOK
<1> QED
  BY <1>2, <1>3, <1>4, SettleFacts DEF TypeOK, sessionVars

(* Every step keeps the types.                                             *)
LEMMA TypeStep == TypeOK /\ Snapshots /\ InHand /\ [Next]_vars => TypeOK'
<1> SUFFICES ASSUME TypeOK, Snapshots, InHand, [Next]_vars PROVE TypeOK'
  OBVIOUS
<1> USE ConstantsOK
<1>1. ASSUME NEW m \in Rows, NEW s \in Sessions, ContainerWrites(m, s) PROVE TypeOK'
  <2>1. PICK k \in Kinds : WriteRow(m, s, k)
    BY <1>1 DEF ContainerWrites
  <2>2. k \in AllKinds
    OBVIOUS
  <2> QED
    BY <2>1, <2>2, <1>1, WriteTypes
       DEF ContainerWrites, sessionVars, driverVars, historyVars, TypeOK
<1>2. ASSUME NEW m \in Rows, NEW s \in Sessions, SlashReply(m, s) PROVE TypeOK'
  <2>1. WriteRow(m, s, "chat") /\ "chat" \in AllKinds
    BY <1>2 DEF SlashReply, AllKinds
  <2>2. todo' \in [Drivers -> SUBSET Sessions]
    BY <1>2 DEF SlashReply, TypeOK, Drivers
  <2> QED
    BY <2>1, <2>2, <1>2, WriteTypes DEF SlashReply, sessionVars, historyVars, TypeOK
<1>3. ASSUME NEW s \in Sessions,
             ContainerStarts(s) \/ ContainerStops(s) \/ TaskSettles(s) \/ TaskSessionCloses(s)
      PROVE  TypeOK'
  <2> USE DEF rowVars, driverVars, historyVars
  <2>1. CASE ContainerStarts(s)
    BY <2>1 DEF ContainerStarts, TypeOK
  <2>2. CASE ContainerStops(s)
    BY <2>2 DEF ContainerStops, TypeOK
  <2>3. CASE TaskSettles(s)
    BY <2>3 DEF TaskSettles, TypeOK
  <2>4. CASE TaskSessionCloses(s)
    BY <2>4 DEF TaskSessionCloses, TypeOK
  <2> QED
    BY <1>3, <2>1, <2>2, <2>3, <2>4
<1>4. ASSUME NEW d \in Drivers, NEW sessions \in SUBSET Sessions, Round(d, sessions)
      PROVE  TypeOK'
  BY <1>4 DEF Round, rowVars, sessionVars, historyVars, TypeOK
<1>5. ASSUME NEW d \in Drivers, NEW s \in Sessions, Visit(d, s) PROVE TypeOK'
  <2>1. Undelivered(s) \in SUBSET Rows
    BY DEF Undelivered
  <2> QED
    BY <2>1, <1>5 DEF Visit, rowVars, sessionVars, historyVars, TypeOK
<1>6. ASSUME NEW d \in Drivers, Send(d) PROVE TypeOK'
  <2>1. Row(d) \in Rows
    BY <1>6, RowFacts DEF Send, Turn
  <2> QED
    BY <2>1, <1>6 DEF Send, sessionVars, historyVars, TypeOK
<1>7. ASSUME NEW d \in Drivers, Settles(d) PROVE TypeOK'
  BY <1>7, SettleTypes
<1>8. ASSUME NEW d \in Drivers, Leave(d) PROVE TypeOK'
  BY <1>8 DEF Leave, rowVars, sessionVars, historyVars, TypeOK
<1>9. ASSUME NEW d \in Drivers, Show(d) PROVE TypeOK'
  <2>1. Row(d) \in Rows
    BY <1>9, RowFacts DEF Show, InHand
  <2>2. \A m \in Rows : sends[m] + 1 \in Nat
    BY DEF TypeOK
  <2>3. sends' \in [Rows -> Nat] /\ shown' \in [Drivers -> BOOLEAN]
    BY <2>1, <2>2, <1>9 DEF Show, TypeOK
  <2> QED
    BY <2>3, <1>9 DEF Show, rowVars, sessionVars, TypeOK
<1>10. ASSUME NEW m \in Rows, Answer(m) PROVE TypeOK'
  BY <1>10 DEF Answer, sessionVars, driverVars, TypeOK
<1>11. CASE HostRestart
  BY <1>11 DEF HostRestart, rowVars, TypeOK
<1>12. CASE UNCHANGED vars
  BY <1>12 DEF vars, TypeOK
<1>13. CASE PollActive \/ PollSweep
  BY <1>4, <1>13 DEF PollActive, PollSweep, Drivers
<1> QED
  BY <1>1, <1>2, <1>3, <1>5, <1>6, <1>7, <1>8, <1>9, <1>10, <1>11, <1>12, <1>13
     DEF Next, Drain, Environment, Settles

-----------------------------------------------------------------------------
(* Who drains what.                                                        *)

(* Only a visit takes a session, and only one that is not in flight.       *)
LEMMA OneDriverStep == TypeOK /\ OneDriver /\ [Next]_vars => OneDriver'
<1> SUFFICES ASSUME TypeOK, OneDriver, [Next]_vars PROVE OneDriver'
  OBVIOUS
<1>1. ASSUME NEW d \in Drivers, NEW s \in Sessions, Visit(d, s) PROVE OneDriver'
  BY <1>1 DEF Visit, OneDriver, TypeOK
<1>2. ASSUME NEW d \in Drivers, Leave(d) PROVE OneDriver'
  BY <1>2 DEF Leave, OneDriver, TypeOK
<1>3. CASE HostRestart
  BY <1>3 DEF HostRestart, OneDriver
<1>4. CASE UNCHANGED <<at, inflight>>
  BY <1>4 DEF OneDriver
<1> QED
  BY <1>1, <1>2, <1>3, <1>4
     DEF Next, Drain, Environment, vars, driverVars, PollActive, PollSweep, Round, Send, Sent,
         SendFails, ThrowBarred, DropUnaddressed, ContainerWrites, SlashReply, ContainerStarts,
         ContainerStops, TaskSettles, TaskSessionCloses, Answer, Show

(* The rows another driver has in its snapshot are not the row at hand.    *)
LEMMA OtherRows ==
    ASSUME TypeOK, OneDriver, Snapshots, NEW d \in Drivers, NEW e \in Drivers, d # e,
           queue[d] # {}
    PROVE  Row(d) \notin queue[e]
BY RowFacts DEF OneDriver, Snapshots

(* A new row comes after all rows that have been written.                  *)
LEMMA WriteFacts ==
    ASSUME TypeOK, WrittenInOrder, NEW m \in Rows, NEW s, NEW k, WriteRow(m, s, k)
    PROVE  /\ kind[m] = "none" /\ kind'[m] = k /\ owner'[m] = s /\ delivered' = delivered
           /\ question' = question /\ delivered[m] = "none"
           /\ \A n \in Rows \ {m} : kind'[n] = kind[n] /\ owner'[n] = owner[n]
           /\ \A n \in Rows : kind[n] # "none" => n < m
           /\ \A n \in Rows : n < m => kind[n] # "none"
<1>1. kind[m] = "none" /\ \A n \in Rows : n < m => kind[n] # "none"
  BY DEF WriteRow, NextRow, Written
<1>2. \A n \in Rows : kind[n] # "none" => n < m
  <2> SUFFICES ASSUME NEW n \in Rows, kind[n] # "none", ~(n < m) PROVE FALSE
    OBVIOUS
  <2>1. n \in Nat /\ m \in Nat /\ n # m
    BY <1>1, ConstantsOK
  <2>2. m < n
    BY <2>1
  <2> QED
    BY <2>2, <1>1 DEF WrittenInOrder
<1> QED
  BY <1>1, <1>2 DEF WriteRow, TypeOK, WrittenInOrder

(* A driver records only the row at its hand, which no other snapshot      *)
(* holds.                                                                  *)
LEMMA SnapshotsStep ==
    TypeOK /\ OneDriver /\ Snapshots /\ InHand /\ WrittenInOrder /\ [Next]_vars => Snapshots'
<1> SUFFICES ASSUME TypeOK, OneDriver, Snapshots, InHand, WrittenInOrder, [Next]_vars
             PROVE  Snapshots'
  OBVIOUS
<1>1. ASSUME NEW m \in Rows, NEW s \in Sessions, NEW k, WriteRow(m, s, k), UNCHANGED <<at, queue>>
      PROVE  Snapshots'
  <2>1. \A d \in Drivers : m \notin queue[d]
    BY <1>1, WriteFacts DEF Snapshots
  <2>2. \A d \in Drivers : queue[d] \subseteq Rows
    BY DEF TypeOK
  <2> QED
    BY <1>1, <2>1, <2>2, WriteFacts DEF Snapshots
<1>2. ASSUME NEW d \in Drivers, NEW s \in Sessions, Visit(d, s) PROVE Snapshots'
  <2>1. \A m \in Undelivered(s) : m \in Rows /\ owner[m] = s /\ delivered[m] = "none"
    BY DEF Undelivered
  <2>2. \A m \in Undelivered(s) : kind[m] # "none"
    BY <2>1, ConstantsOK DEF WrittenInOrder
  <2>3. s # NoSession
    BY ConstantsOK
  <2> QED
    BY <1>2, <2>1, <2>2, <2>3 DEF Visit, rowVars, Snapshots, TypeOK
<1>3. ASSUME NEW d \in Drivers, Settles(d) PROVE Snapshots'
  <2>1. \A e \in Drivers \ {d} : Row(d) \notin queue[e]
    BY <1>3, SettleFacts, OtherRows
  <2>2. Row(d) \in Rows /\ \A e \in Drivers : queue[e] \subseteq Rows
    BY <1>3, SettleFacts, RowFacts DEF TypeOK
  <2>3. \A n \in Rows \ {Row(d)} : delivered'[n] = delivered[n]
    BY <1>3, <2>2, SettleFacts, OutcomeFacts
  <2>4. queue'[d] = queue[d] \ {Row(d)} /\ \A e \in Drivers \ {d} : queue'[e] = queue[e]
    BY <1>3, SettleFacts, DequeueFacts
  <2>5. at' = at /\ owner' = owner /\ kind' = kind
    BY <1>3, SettleFacts
  <2> QED
    BY <2>1, <2>2, <2>3, <2>4, <2>5 DEF Snapshots
<1>4. ASSUME NEW d \in Drivers, Leave(d) PROVE Snapshots'
  BY <1>4 DEF Leave, rowVars, Snapshots, TypeOK
<1>5. CASE HostRestart
  BY <1>5 DEF HostRestart, Snapshots
<1>6. CASE UNCHANGED <<kind, owner, delivered, at, queue>>
  BY <1>6 DEF Snapshots
<1> QED
  BY <1>1, <1>2, <1>3, <1>4, <1>5, <1>6
     DEF Next, Drain, Environment, Settles, vars, rowVars, driverVars, PollActive, PollSweep,
         Round, Send, ContainerWrites, SlashReply, ContainerStarts, ContainerStops,
         TaskSettles, TaskSessionCloses, Answer, Show

-----------------------------------------------------------------------------
(* What the drivers wait for, and the cards.                               *)

(* A step that leaves the snapshots and hands of the drivers, and what has *)
(* been shown, alone.                                                      *)
HandsAlone == UNCHANGED <<queue, sending, shown, sends>>

(* What a driver waits for does not change under it.                       *)
LEMMA InHandStep ==
    TypeOK /\ OneDriver /\ Snapshots /\ InHand /\ WrittenInOrder /\ [Next]_vars => InHand'
<1> SUFFICES ASSUME TypeOK, OneDriver, Snapshots, InHand, WrittenInOrder, [Next]_vars
             PROVE  InHand'
  OBVIOUS
<1>0. \A d \in Drivers : queue[d] # {} => Row(d) \in queue[d] /\ Row(d) \in Rows
  BY RowFacts
<1>1. ASSUME NEW m \in Rows, NEW s \in Sessions, NEW k, WriteRow(m, s, k), HandsAlone,
             answered' = answered
      PROVE  InHand'
  <2>1. \A d \in Drivers : m \notin queue[d]
    BY <1>1, WriteFacts DEF Snapshots
  <2>2. \A d \in Drivers : Row(d)' = Row(d)
    BY <1>1 DEF HandsAlone, Row
  <2>3. \A d \in Drivers : queue[d] # {} => kind'[Row(d)] = kind[Row(d)]
    BY <2>1, <1>0, <1>1, WriteFacts
  <2> QED
    BY <2>2, <2>3, <1>1, WriteFacts DEF HandsAlone, InHand
<1>2. ASSUME NEW d \in Drivers, NEW s \in Sessions, Visit(d, s) PROVE InHand'
  <2>1. at[d] = NoSession
    BY <1>2 DEF Visit
  <2>2. queue[d] = {}
    BY <2>1 DEF Snapshots
  <2>3. ~sending[d] /\ ~shown[d]
    BY <2>2 DEF InHand
  <2>4. UNCHANGED <<sending, shown, sends, kind, question, answered>>
    BY <1>2 DEF Visit, rowVars, historyVars
  <2>5. \A e \in Drivers \ {d} : queue'[e] = queue[e]
    BY <1>2 DEF Visit, TypeOK
  <2>6. \A e \in Drivers \ {d} : Row(e)' = Row(e)
    BY <2>5 DEF Row
  <2> QED
    BY <2>3, <2>4, <2>5, <2>6 DEF InHand
<1>3. ASSUME NEW d \in Drivers, Send(d) PROVE InHand'
  <2>1. queue[d] # {} /\ Row(d) \in Rows /\ UNCHANGED <<queue, shown, sends, kind, answered>>
    BY <1>3, <1>0 DEF Send, Turn, historyVars
  <2>2. \A e \in Drivers : Row(e)' = Row(e)
    BY <2>1 DEF Row
  <2>3. /\ sending'[d] /\ \A e \in Drivers \ {d} : sending'[e] = sending[e]
        /\ kind[Row(d)] \in {"chat", "card"} /\ ~sending[d]
    BY <1>3 DEF Send, Turn, TypeOK
  <2>4. /\ kind[Row(d)] = "card" => question'[Row(d)]
        /\ \A m \in Rows : question[m] => question'[m]
    BY <1>3, <2>1 DEF Send, TypeOK
  <2> QED
    BY <2>1, <2>2, <2>3, <2>4, <1>0 DEF InHand
<1>4. ASSUME NEW d \in Drivers, Settles(d) PROVE InHand'
  <2>1. /\ ~sending'[d] /\ ~shown'[d]
        /\ \A e \in Drivers \ {d} : /\ queue'[e] = queue[e] /\ sending'[e] = sending[e]
                                    /\ shown'[e] = shown[e]
    BY <1>4, SettleFacts, DequeueFacts
  <2>2. \A e \in Drivers \ {d} : Row(e)' = Row(e)
    BY <2>1 DEF Row
  <2>3. UNCHANGED <<kind, question, sends, answered>>
    BY <1>4, SettleFacts
  <2> QED
    BY <2>1, <2>2, <2>3 DEF InHand
<1>5. ASSUME NEW d \in Drivers, Show(d) PROVE InHand'
  <2>1. /\ sending[d] /\ queue[d] # {} /\ Row(d) \in Rows
        /\ UNCHANGED <<queue, sending, kind, question, answered>>
    BY <1>5, <1>0 DEF Show, rowVars, InHand
  <2>2. \A e \in Drivers : Row(e)' = Row(e)
    BY <2>1 DEF Row
  <2>3. \A e \in Drivers \ {d} : shown'[e] = shown[e]
    BY <1>5 DEF Show, TypeOK
  <2>4. \A m \in Rows : sends[m] \in Nat
    BY DEF TypeOK
  <2>5. sends'[Row(d)] > 0 /\ \A m \in Rows : sends[m] > 0 => sends'[m] > 0
    BY <1>5, <2>1, <2>4 DEF Show, TypeOK
  <2> QED
    BY <2>1, <2>2, <2>3, <2>5, <1>0 DEF InHand
<1>6. ASSUME NEW m \in Rows, Answer(m) PROVE InHand'
  <2>1. HandsAlone /\ kind' = kind
    BY <1>6 DEF Answer, HandsAlone, driverVars
  <2>2. \A e \in Drivers : Row(e)' = Row(e)
    BY <2>1 DEF HandsAlone, Row
  <2>3. \A n \in Rows : question[n] \/ n \in answered => question'[n] \/ n \in answered'
    BY <1>6 DEF Answer, TypeOK
  <2> QED
    BY <2>1, <2>2, <2>3, <1>0 DEF HandsAlone, InHand
<1>7. CASE HostRestart
  BY <1>7 DEF HostRestart, InHand
<1>8. CASE HandsAlone /\ UNCHANGED <<kind, question, answered>>
  <2>1. \A e \in Drivers : Row(e)' = Row(e)
    BY <1>8 DEF HandsAlone, Row
  <2> QED
    BY <2>1, <1>8 DEF HandsAlone, InHand
<1> QED
  BY <1>1, <1>2, <1>3, <1>4, <1>5, <1>6, <1>7, <1>8
     DEF Next, Drain, Environment, Settles, HandsAlone, vars, rowVars, driverVars, historyVars,
         PollActive, PollSweep, Round, Leave, ContainerWrites, SlashReply, ContainerStarts,
         ContainerStops, TaskSettles, TaskSessionCloses

(* Rows stay written in their order.                                       *)
LEMMA WrittenInOrderStep ==
    TypeOK /\ Snapshots /\ InHand /\ WrittenInOrder /\ [Next]_vars => WrittenInOrder'
<1> SUFFICES ASSUME TypeOK, Snapshots, InHand, WrittenInOrder, [Next]_vars
             PROVE  WrittenInOrder'
  OBVIOUS
<1>0. \A m \in Rows : m \in Nat
  BY ConstantsOK
<1>1. ASSUME NEW m \in Rows, NEW s \in Sessions, NEW k \in AllKinds, WriteRow(m, s, k),
             sends' = sends
      PROVE  WrittenInOrder'
  <2>1. k # "none"
    BY DEF AllKinds
  <2> QED
    BY <2>1, <1>0, <1>1, WriteFacts DEF WrittenInOrder
<1>2. ASSUME NEW d \in Drivers, Settles(d) PROVE WrittenInOrder'
  <2>1. Row(d) \in queue[d] /\ Row(d) \in Rows
    BY <1>2, SettleFacts, RowFacts
  <2>2. kind[Row(d)] # "none"
    BY <2>1 DEF Snapshots
  <2>3. \A n \in Rows \ {Row(d)} : delivered'[n] = delivered[n]
    BY <1>2, <2>1, SettleFacts, OutcomeFacts
  <2>4. UNCHANGED <<kind, owner, sends>>
    BY <1>2, SettleFacts
  <2> QED
    BY <2>2, <2>3, <2>4 DEF WrittenInOrder
<1>3. ASSUME NEW d \in Drivers, Show(d) PROVE WrittenInOrder'
  <2>1. Row(d) \in queue[d] /\ Row(d) \in Rows
    BY <1>3, RowFacts DEF Show, InHand
  <2>2. kind[Row(d)] # "none"
    BY <2>1 DEF Snapshots
  <2> QED
    BY <2>2, <1>3 DEF Show, rowVars, WrittenInOrder, TypeOK
<1>4. CASE UNCHANGED <<kind, owner, delivered, sends>>
  BY <1>4 DEF WrittenInOrder
<1>5. ASSUME NEW m \in Rows, NEW s \in Sessions, ContainerWrites(m, s) PROVE WrittenInOrder'
  BY <1>1, <1>5, ConstantsOK DEF ContainerWrites, historyVars
<1>6. ASSUME NEW m \in Rows, NEW s \in Sessions, SlashReply(m, s) PROVE WrittenInOrder'
  BY <1>1, <1>6 DEF SlashReply, historyVars, AllKinds
<1> QED
  BY <1>2, <1>3, <1>4, <1>5, <1>6
     DEF Next, Drain, Environment, Settles, vars, rowVars, historyVars, PollActive, PollSweep,
         Round, Visit, Send, Leave, ContainerStarts, ContainerStops, TaskSettles, TaskSessionCloses, Answer,
         HostRestart

(* A card is shown only when its question exists; only an answer removes   *)
(* it.                                                                     *)
LEMMA CardsStep == IInv /\ [Next]_vars => CardsAreAnswerable'
<1> SUFFICES ASSUME IInv, [Next]_vars PROVE CardsAreAnswerable'
  OBVIOUS
<1> USE DEF IInv
<1>0. \A m \in Rows : sends[m] \in Nat
  BY DEF TypeOK
<1>1. ASSUME NEW m \in Rows, NEW s \in Sessions, NEW k, WriteRow(m, s, k),
             UNCHANGED <<sends, answered>>
      PROVE  CardsAreAnswerable'
  <2>1. sends[m] = 0
    BY <1>1, WriteFacts DEF WrittenInOrder
  <2> QED
    BY <2>1, <1>1, WriteFacts DEF CardsAreAnswerable
<1>2. ASSUME NEW d \in Drivers, Show(d) PROVE CardsAreAnswerable'
  <2>1. kind[Row(d)] = "card" => question[Row(d)] \/ Row(d) \in answered
    BY <1>2 DEF Show, InHand
  <2> QED
    BY <2>1, <1>0, <1>2 DEF Show, rowVars, CardsAreAnswerable, TypeOK
<1>3. ASSUME NEW d \in Drivers, Send(d) PROVE CardsAreAnswerable'
  BY <1>3 DEF Send, historyVars, CardsAreAnswerable, TypeOK
<1>4. ASSUME NEW m \in Rows, Answer(m) PROVE CardsAreAnswerable'
  BY <1>4 DEF Answer, CardsAreAnswerable, TypeOK
<1>5. CASE UNCHANGED <<kind, question, sends, answered>>
  BY <1>5 DEF CardsAreAnswerable
<1>6. ASSUME NEW d \in Drivers, Settles(d) PROVE CardsAreAnswerable'
  BY <1>5, <1>6, SettleFacts
<1> QED
  BY <1>1, <1>2, <1>3, <1>4, <1>5, <1>6
     DEF Next, Drain, Environment, Settles, vars, rowVars, historyVars, PollActive, PollSweep,
         Round, Visit, Leave, ContainerWrites, SlashReply, ContainerStarts, ContainerStops,
         TaskSettles, TaskSessionCloses, HostRestart

-----------------------------------------------------------------------------
(* How often rows are shown, and which are passed over.                    *)

(* Showing a row once more than the upsets needs a driver that has it in   *)
(* hand.                                                                   *)
LEMMA AccountsStep == IInv /\ [Next]_vars => Accounts'
<1> SUFFICES ASSUME IInv, [Next]_vars PROVE Accounts'
  OBVIOUS
<1> USE DEF IInv
<1>0. /\ upsets \in Nat /\ \A m \in Rows : sends[m] \in Nat
      /\ \A m \in Rows : sends[m] <= upsets + 1
  BY ConstantsOK DEF TypeOK, Accounts
<1>1. ASSUME NEW d \in Drivers, NEW s \in Sessions, Visit(d, s) PROVE Accounts'
  <2>1. ~shown[d] /\ UNCHANGED <<sends, upsets, delivered, shown>>
    BY <1>1 DEF Visit, rowVars, historyVars, Snapshots, InHand
  <2>2. \A e \in Drivers \ {d} : Row(e)' = Row(e)
    BY <1>1 DEF Visit, Row, TypeOK
  <2> QED
    BY <2>1, <2>2 DEF Accounts
<1>2. ASSUME NEW d \in Drivers, Settles(d) PROVE Accounts'
  <2>1. /\ Row(d) \in queue[d] /\ Row(d) \in Rows /\ queue[d] # {}
        /\ Outcome(Row(d)) /\ delivered[Row(d)] = "none" /\ UNCHANGED sends
    BY <1>2, SettleFacts, RowFacts
  <2>2. \A e \in Drivers \ {d} : shown'[e] = shown[e] /\ Row(e)' = Row(e)
    BY <1>2, SettleFacts, DequeueFacts DEF Row
  <2>3. \A n \in Rows \ {Row(d)} : delivered'[n] = delivered[n]
    BY <2>1, OutcomeFacts
  <2>4. CASE upsets' = upsets + 1
    BY <2>1, <2>4, <1>0 DEF Accounts
  <2>5. CASE upsets' = upsets
    <3>1. \/ delivered'[Row(d)] = "delivered"
          \/ ~shown[d]
      BY <1>2, <2>1, <2>5, <1>0, OutcomeFacts
         DEF Settles, Sent, SendFails, ThrowBarred, DropUnaddressed, Turn, InHand
    <3>2. \A e \in Drivers \ {d} : shown[e] => Row(e) # Row(d)
      <4> SUFFICES ASSUME NEW e \in Drivers \ {d}, shown[e] PROVE Row(e) # Row(d)
        OBVIOUS
      <4>1. Row(e) \in queue[e]
        BY RowFacts DEF InHand
      <4>2. Row(d) \notin queue[e]
        BY <2>1, OtherRows
      <4> QED
        BY <4>1, <4>2
    <3> QED
      BY <2>1, <2>2, <2>3, <2>5, <3>1, <3>2 DEF Accounts
  <2> QED
    BY <1>2, <2>4, <2>5, SettleFacts
<1>3. ASSUME NEW d \in Drivers, Show(d) PROVE Accounts'
  <2>1. /\ Row(d) \in queue[d] /\ Row(d) \in Rows /\ queue[d] # {} /\ ~shown[d]
        /\ UNCHANGED <<queue, delivered, upsets>>
    BY <1>3, RowFacts DEF Show, InHand, rowVars
  <2>2. \A e \in Drivers : Row(e)' = Row(e)
    BY <2>1 DEF Row
  <2>3. delivered[Row(d)] # "delivered"
    BY <2>1 DEF Snapshots
  <2>4. \A e \in Drivers : shown[e] => Row(e) # Row(d)
    <3> SUFFICES ASSUME NEW e \in Drivers, shown[e] PROVE Row(e) # Row(d)
      OBVIOUS
    <3>1. Row(e) \in queue[e] /\ e # d
      BY <2>1, RowFacts DEF InHand
    <3>2. Row(d) \notin queue[e]
      BY <2>1, <3>1, OtherRows
    <3> QED
      BY <3>1, <3>2
  <2>5. sends[Row(d)] <= upsets
    BY <2>1, <2>3, <2>4 DEF Accounts
  <2>6. /\ sends'[Row(d)] = sends[Row(d)] + 1
        /\ \A n \in Rows \ {Row(d)} : sends'[n] = sends[n]
        /\ shown'[d] /\ \A e \in Drivers : shown[e] => shown'[e]
    BY <1>3, <2>1 DEF Show, TypeOK
  <2>7. sends'[Row(d)] <= upsets \/ sends'[Row(d)] = upsets + 1
    BY <2>1, <2>5, <2>6, <1>0
  <2> QED
    BY <2>1, <2>2, <2>6, <2>7 DEF Accounts
<1>4. CASE HostRestart
  BY <1>4, <1>0 DEF HostRestart, Accounts
<1>5. CASE UNCHANGED <<sends, upsets, delivered, shown, queue>>
  <2>1. \A e \in Drivers : Row(e)' = Row(e)
    BY <1>5 DEF Row
  <2> QED
    BY <2>1, <1>5 DEF Accounts
<1> QED
  BY <1>1, <1>2, <1>3, <1>4, <1>5
     DEF Next, Drain, Environment, Settles, vars, rowVars, driverVars, historyVars, PollActive,
         PollSweep, Round, Send, Leave, WriteRow, ContainerWrites, SlashReply, ContainerStarts,
         ContainerStops, TaskSettles, TaskSessionCloses, Answer

(* A driver leaves a row behind only by recording it or by counting an     *)
(* attempt.                                                                *)
LEMMA PassedOverStep == IInv /\ [Next]_vars => PassedOver'
<1> SUFFICES ASSUME IInv, [Next]_vars PROVE PassedOver'
  OBVIOUS
<1> USE DEF IInv
<1>0. /\ \A m \in Rows : m \in Nat
      /\ \A d \in Drivers : queue[d] \subseteq Rows
  BY ConstantsOK DEF TypeOK
<1>1. ASSUME NEW m \in Rows, NEW s \in Sessions, NEW k, WriteRow(m, s, k),
             UNCHANGED <<at, queue, attempts>>
      PROVE  PassedOver'
  <2>1. \A d \in Drivers : \A n \in queue[d] : n < m
    BY <1>0, <1>1, WriteFacts DEF Snapshots
  <2>2. \A d \in Drivers : \A n \in queue[d] : ~(m < n)
    BY <2>1, <1>0
  <2> QED
    BY <2>2, <1>0, <1>1, WriteFacts DEF PassedOver
<1>2. ASSUME NEW d \in Drivers, NEW s \in Sessions, Visit(d, s) PROVE PassedOver'
  <2>1. \/ queue' = queue /\ at' = at
        \/ /\ queue'[d] = Undelivered(s) /\ at'[d] = s
           /\ \A e \in Drivers \ {d} : queue'[e] = queue[e] /\ at'[e] = at[e]
    BY <1>2 DEF Visit, TypeOK
  <2>2. UNCHANGED <<owner, delivered, attempts>>
    BY <1>2 DEF Visit, rowVars
  <2> QED
    BY <2>1, <2>2, <1>0 DEF PassedOver, Undelivered
<1>3. ASSUME NEW d \in Drivers, Settles(d) PROVE PassedOver'
  <2>1. /\ Row(d) \in queue[d] /\ Row(d) \in Rows /\ queue[d] # {}
        /\ Outcome(Row(d)) /\ delivered[Row(d)] = "none" /\ UNCHANGED <<owner, at>>
    BY <1>3, SettleFacts, RowFacts
  <2>2. /\ \A n \in Rows \ {Row(d)} : delivered'[n] = delivered[n] /\ attempts'[n] = attempts[n]
        /\ delivered'[Row(d)] = "none" => attempts'[Row(d)] > 0
    BY <2>1, OutcomeFacts
  <2>3. queue'[d] = queue[d] \ {Row(d)} /\ \A e \in Drivers \ {d} : queue'[e] = queue[e]
    BY <1>3, SettleFacts, DequeueFacts
  <2> QED
    BY <2>1, <2>2, <2>3, <1>0 DEF PassedOver
<1>4. ASSUME NEW d \in Drivers, Leave(d) PROVE PassedOver'
  BY <1>4, <1>0 DEF Leave, rowVars, PassedOver, TypeOK
<1>5. CASE HostRestart
  BY <1>5 DEF HostRestart, PassedOver
<1>6. CASE UNCHANGED <<owner, delivered, attempts, at, queue>>
  BY <1>6 DEF PassedOver
<1> QED
  BY <1>1, <1>2, <1>3, <1>4, <1>5, <1>6
     DEF Next, Drain, Environment, Settles, vars, rowVars, driverVars, PollActive, PollSweep,
         Round, Send, ContainerWrites, SlashReply, ContainerStarts, ContainerStops,
         TaskSettles, TaskSessionCloses, Answer, Show

(* The inductive invariant holds.                                          *)
LEMMA Invariance == Spec => []IInv
<1>1. Init => IInv
  BY InitTypes, ConstantsOK
     DEF Init, IInv, OneDriver, Snapshots, InHand, Accounts, WrittenInOrder, PassedOver,
         CardsAreAnswerable
<1>2. IInv /\ [Next]_vars => IInv'
  BY TypeStep, OneDriverStep, SnapshotsStep, InHandStep, AccountsStep, WrittenInOrderStep,
     PassedOverStep, CardsStep DEF IInv
<1> QED
  BY <1>1, <1>2, PTL DEF Spec

-----------------------------------------------------------------------------
(* The properties.                                                         *)

(* The type invariant: drivers, rows, counts and sessions of delivery.ts.  *)
THEOREM TypeCorrect == Spec => []TypeOK
<1>1. IInv => TypeOK
  BY DEF IInv
<1> QED
  BY <1>1, Invariance, PTL

(* drainSession sends a row once, and once more for each crash of the host *)
(* or doubtful failure of the platform.                                    *)
THEOREM DuplicatesAreForced == Spec => []NoUnforcedDuplicate
<1>1. IInv => NoUnforcedDuplicate
  <2> SUFFICES ASSUME IInv, NEW m \in Rows PROVE sends[m] <= 1 + upsets
    BY DEF NoUnforcedDuplicate
  <2>1. sends[m] \in Nat /\ upsets \in Nat
    BY ConstantsOK DEF IInv, TypeOK
  <2> QED
    BY <2>1 DEF IInv, Accounts
<1> QED
  BY <1>1, Invariance, PTL

(* A row that drainSession gave up on was never received without the host  *)
(* having been upset.                                                      *)
THEOREM FailuresAreUnseen == Spec => []FailedMeansUnseen
<1>1. IInv => FailedMeansUnseen
  <2> SUFFICES ASSUME IInv, NEW m \in Rows, delivered[m] = "failed", ~(sends[m] <= upsets)
               PROVE  FALSE
    BY DEF FailedMeansUnseen
  <2>1. PICK d \in Drivers : shown[d] /\ Row(d) = m
    BY DEF IInv, Accounts
  <2>2. m \in queue[d]
    BY <2>1, RowFacts DEF IInv, InHand
  <2> QED
    BY <2>2 DEF IInv, Snapshots
<1> QED
  BY <1>1, Invariance, PTL

(* deliverMessage records the question of a card before it is sent.        *)
THEOREM QuestionsComeFirst == Spec => []CardsAreAnswerable
<1>1. IInv => CardsAreAnswerable
  BY DEF IInv
<1> QED
  BY <1>1, Invariance, PTL

(* The rows of a session are shown in their order, but for failures.       *)
THEOREM OrderIsKept == Spec => ShownInOrder
<1>1. IInv /\ [Next]_vars =>
        [\A m \in Rows : sends'[m] > sends[m] =>
            \A n \in Rows : n < m /\ owner[n] = owner[m]
                              => delivered[n] # "none" \/ attempts[n] > 0]_vars
  <2> SUFFICES ASSUME IInv, Next, NEW m \in Rows, sends'[m] > sends[m],
                      NEW n \in Rows, n < m, owner[n] = owner[m], delivered[n] = "none"
               PROVE  attempts[n] > 0
    OBVIOUS
  <2>0. sends[m] \in Nat
    BY DEF IInv, TypeOK
  <2>1. sends' # sends
    BY <2>0
  <2>2. PICK d \in Drivers : Show(d)
    BY <2>1 DEF Next, Drain, Environment, historyVars, PollActive, PollSweep, Round, Visit,
                Send, Sent, SendFails, ThrowBarred, DropUnaddressed, Leave, ContainerWrites,
                SlashReply, ContainerStarts, ContainerStops, TaskSettles, TaskSessionCloses, Answer,
                HostRestart
  <2>3. queue[d] # {}
    BY <2>2 DEF Show, IInv, InHand
  <2>4. Row(d) \in queue[d] /\ \A q \in queue[d] : Row(d) <= q
    BY <2>3, RowFacts DEF IInv
  <2>5. m = Row(d)
    BY <2>0, <2>2 DEF Show, IInv, TypeOK
  <2>6. n \notin queue[d]
    BY <2>4, <2>5, ConstantsOK
  <2> QED
    BY <2>4, <2>5, <2>6 DEF IInv, Snapshots, PassedOver
<1> QED
  BY <1>1, Invariance, PTL DEF Spec, ShownInOrder

-----------------------------------------------------------------------------
(* Delivery implements the abstract queue.                                 *)

(* The steps of the abstract queue, told row by row.                       *)
OutboxStutters == (\A m \in Rows : Fate(m)' = Fate(m)) /\ sends' = sends

OutboxPosts(m) ==
    /\ Fate(m) = "absent" /\ Fate(m)' = "queued"
    /\ \A n \in Rows \ {m} : Fate(n)' = Fate(n)
    /\ sends' = sends

OutboxShows(m) ==
    /\ Fate(m) = "queued"
    /\ \A n \in Rows : Fate(n)' = Fate(n)
    /\ sends' = [n \in Rows |-> IF n = m THEN sends[n] + 1 ELSE sends[n]]

OutboxSettles(m) ==
    /\ Fate(m) = "queued"
    /\ \/ Fate(m)' \in {"queued", "dead"}
       \/ Fate(m)' = "done" /\ sends[m] > 0
    /\ \A n \in Rows \ {m} : Fate(n)' = Fate(n)
    /\ sends' = sends

(* A step of the abstract worker is a step of the abstract queue.          *)
LEMMA OutboxWork ==
    ASSUME NEW handled \in SUBSET Outbox!Queued, NEW done \in SUBSET Outbox!Queued,
           NEW dead \in SUBSET Outbox!Queued, Outbox!Work(handled, done, dead)
    PROVE  Outbox!Next
BY DEF Outbox!Next

(* Each of the four is a step of the abstract queue, or leaves it alone.   *)
LEMMA OutboxSteps ==
    ASSUME TypeOK,
           OutboxStutters \/ \E m \in Rows : OutboxPosts(m) \/ OutboxShows(m) \/ OutboxSettles(m)
    PROVE  [Outbox!Next]_(Outbox!vars)
<1>1. CASE OutboxStutters
  BY <1>1 DEF OutboxStutters, Outbox!vars
<1>2. ASSUME NEW m \in Rows, OutboxPosts(m) PROVE Outbox!Next
  BY <1>2 DEF OutboxPosts, Outbox!Next, Outbox!Post
<1>3. ASSUME NEW m \in Rows, OutboxShows(m) PROVE Outbox!Next
  <2>1. Outbox!Work({m}, {}, {})
    BY <1>3 DEF OutboxShows, Outbox!Work
  <2>2. {m} \in SUBSET Outbox!Queued
    BY <1>3 DEF OutboxShows, Outbox!Queued
  <2> QED
    BY <2>1, <2>2, OutboxWork
<1>4. ASSUME NEW m \in Rows, OutboxSettles(m) PROVE [Outbox!Next]_(Outbox!vars)
  <2>0. {m} \in SUBSET Outbox!Queued /\ {} \in SUBSET Outbox!Queued
    BY <1>4 DEF OutboxSettles, Outbox!Queued
  <2>1. CASE Fate(m)' = "queued"
    <3>1. OutboxStutters
      BY <1>4, <2>1 DEF OutboxSettles, OutboxStutters
    <3> QED
      BY <3>1, <1>1
  <2>2. CASE Fate(m)' = "dead"
    <3>1. Outbox!Work({}, {}, {m})
      BY <1>4, <2>2 DEF OutboxSettles, Outbox!Work, TypeOK
    <3> QED
      BY <3>1, <2>0, OutboxWork
  <2>3. CASE Fate(m)' = "done" /\ sends[m] > 0
    <3>1. Outbox!Work({}, {m}, {})
      BY <1>4, <2>3 DEF OutboxSettles, Outbox!Work, TypeOK
    <3> QED
      BY <3>1, <2>0, OutboxWork
  <2> QED
    BY <1>4, <2>1, <2>2, <2>3 DEF OutboxSettles
<1> QED
  BY <1>1, <1>2, <1>3, <1>4

(* Writing a row posts it.                                                 *)
LEMMA OutboxPostSteps ==
    ASSUME IInv, NEW m \in Rows, NEW s, NEW k \in AllKinds, WriteRow(m, s, k), sends' = sends
    PROVE  OutboxPosts(m)
<1>1. k # "none"
  BY DEF AllKinds
<1> QED
  BY <1>1, WriteFacts DEF IInv, OutboxPosts, Fate

(* Being done with a row settles it or leaves it queued.                   *)
LEMMA OutboxSettleSteps ==
    ASSUME IInv, NEW d \in Drivers, Settles(d), NEW m \in Rows, m = Row(d)
    PROVE  OutboxSettles(m)
<1> USE DEF IInv
<1>1. /\ m \in queue[d] /\ Outcome(m) /\ queue[d] # {}
      /\ delivered[m] = "none" /\ UNCHANGED <<kind, sends>>
  BY SettleFacts, RowFacts
<1>2. kind[m] # "none"
  BY <1>1 DEF Snapshots
<1>3. /\ \A n \in Rows \ {m} : delivered'[n] = delivered[n]
      /\ MarkDelivered(m) => delivered'[m] = "delivered"
      /\ CountAttempt(m) => delivered'[m] \in {"none", "failed"}
  BY <1>1, OutcomeFacts
<1>4. \/ CountAttempt(m)
      \/ MarkDelivered(m) /\ (kind[m] = "unaddressed" \/ sends[m] > 0)
  BY DEF Settles, Sent, SendFails, ThrowBarred, DropUnaddressed, InHand
<1>5. Fate(m) = "queued" /\ \A n \in Rows \ {m} : Fate(n)' = Fate(n)
  BY <1>1, <1>2, <1>3 DEF Fate
<1>6. Fate(m)' \in {"queued", "dead"} \/ (Fate(m)' = "done" /\ sends[m] > 0)
  BY <1>1, <1>2, <1>3, <1>4 DEF Fate
<1> QED
  BY <1>1, <1>5, <1>6 DEF OutboxSettles

(* Showing a row handles it.                                               *)
LEMMA OutboxShowSteps ==
    ASSUME IInv, NEW d \in Drivers, Show(d), NEW m \in Rows, m = Row(d)
    PROVE  OutboxShows(m)
<1> USE DEF IInv
<1>1. m \in queue[d] /\ kind' = kind /\ delivered' = delivered
  BY RowFacts DEF Show, InHand, rowVars
<1>2. Fate(m) = "queued"
  BY <1>1 DEF Snapshots, Fate
<1>3. \A n \in Rows : Fate(n)' = Fate(n)
  BY <1>1 DEF Fate
<1>4. sends' = [n \in Rows |-> IF n = m THEN sends[n] + 1 ELSE sends[n]]
  BY DEF Show, TypeOK
<1> QED
  BY <1>2, <1>3, <1>4 DEF OutboxShows

(* delivery.ts implements the abstract queue: what is recorded as delivered*)
(* has been shown or has no address, and what is recorded stays so.        *)
THEOREM DeliveryImplementsOutbox == Spec => ImplementsOutbox
<1>1. Init => Outbox!Init
  BY DEF Init, Outbox!Init, Fate
<1>2. IInv /\ [Next]_vars => [Outbox!Next]_(Outbox!vars)
  <2> SUFFICES ASSUME IInv, [Next]_vars PROVE [Outbox!Next]_(Outbox!vars)
    OBVIOUS
  <2>0. TypeOK
    BY DEF IInv
  <2>1. ASSUME NEW m \in Rows, NEW s \in Sessions, ContainerWrites(m, s) \/ SlashReply(m, s)
        PROVE  [Outbox!Next]_(Outbox!vars)
    <3>1. PICK k \in AllKinds : WriteRow(m, s, k)
      BY <2>1, ConstantsOK DEF ContainerWrites, SlashReply, AllKinds
    <3> QED
      BY <2>1, <3>1, OutboxPostSteps, <2>0, OutboxSteps DEF ContainerWrites, SlashReply, historyVars
  <2>2. ASSUME NEW d \in Drivers, Settles(d) PROVE [Outbox!Next]_(Outbox!vars)
    <3>1. Row(d) \in Rows
      BY <2>2, SettleFacts, RowFacts DEF IInv
    <3> QED
      BY <2>2, <3>1, OutboxSettleSteps, <2>0, OutboxSteps
  <2>3. ASSUME NEW d \in Drivers, Show(d) PROVE [Outbox!Next]_(Outbox!vars)
    <3>1. Row(d) \in Rows
      BY <2>3, RowFacts DEF IInv, InHand, Show
    <3> QED
      BY <2>3, <3>1, OutboxShowSteps, <2>0, OutboxSteps
  <2>4. CASE UNCHANGED <<kind, delivered, sends>>
    <3>1. OutboxStutters
      BY <2>4 DEF OutboxStutters, Fate
    <3> QED
      BY <3>1, <2>0, OutboxSteps
  <2> QED
    BY <2>1, <2>2, <2>3, <2>4
       DEF Next, Drain, Environment, Settles, vars, rowVars, historyVars, PollActive, PollSweep,
           Round, Visit, Send, Leave, ContainerStarts, ContainerStops, TaskSettles, TaskSessionCloses, Answer,
           HostRestart
<1> QED
  BY <1>1, <1>2, Invariance, PTL DEF Spec, ImplementsOutbox, Outbox!Spec

(* What the abstract queue promises holds of the rows of messages_out: a   *)
(* row with an address that is recorded as delivered was shown.            *)
THEOREM DeliveredWasShown == Spec => []Outbox!DoneWasHandled
<1>1. Outbox!Init => Outbox!TypeOK /\ Outbox!DoneWasHandled
  BY DEF Outbox!Init, Outbox!TypeOK, Outbox!DoneWasHandled
<1>2. Outbox!TypeOK /\ Outbox!DoneWasHandled /\ [Outbox!Next]_(Outbox!vars)
      => (Outbox!TypeOK /\ Outbox!DoneWasHandled)'
  <2> SUFFICES ASSUME Outbox!TypeOK, Outbox!DoneWasHandled, [Outbox!Next]_(Outbox!vars)
               PROVE  Outbox!TypeOK' /\ Outbox!DoneWasHandled'
    OBVIOUS
  <2> USE DEF Outbox!TypeOK, Outbox!DoneWasHandled
  <2>1. ASSUME NEW i \in Rows, Outbox!Post(i) PROVE Outbox!TypeOK' /\ Outbox!DoneWasHandled'
    BY <2>1 DEF Outbox!Post
  <2>2. ASSUME NEW handled \in SUBSET Outbox!Queued, NEW done \in SUBSET Outbox!Queued,
               NEW dead \in SUBSET Outbox!Queued, Outbox!Work(handled, done, dead)
        PROVE  Outbox!TypeOK' /\ Outbox!DoneWasHandled'
    BY <2>2 DEF Outbox!Work, Outbox!Queued
  <2>3. CASE UNCHANGED Outbox!vars
    BY <2>3 DEF Outbox!vars
  <2> QED
    BY <2>1, <2>2, <2>3 DEF Outbox!Next
<1> QED
  BY <1>1, <1>2, DeliveryImplementsOutbox, PTL DEF ImplementsOutbox, Outbox!Spec

(* And a row that is recorded as delivered or failed stays so and is not   *)
(* shown again (delivery.ts, drainSession: getDeliveredIds).               *)
THEOREM RecordedRowsRest == Spec => Outbox!SettledIsFinal
<1>1. [Outbox!Next]_(Outbox!vars) => [Outbox!LeavesSettled]_(Outbox!vars)
  BY DEF Outbox!LeavesSettled, Outbox!Next, Outbox!Post, Outbox!Work, Outbox!Queued, Outbox!vars
<1> QED
  BY <1>1, DeliveryImplementsOutbox, PTL DEF ImplementsOutbox, Outbox!Spec, Outbox!SettledIsFinal

-----------------------------------------------------------------------------
(***************************************************************************)
(* The numbers of the rows.                                                *)
(***************************************************************************)

-----------------------------------------------------------------------------
(* The largest element of a finite set of numbers.                         *)

(* A finite, non-empty set of numbers has a largest element: the one with  *)
(* the smallest set of numbers that are not below it.                      *)
LEMMA LargestExists ==
    ASSUME NEW S, S \subseteq Nat, IsFiniteSet(S), S # {}
    PROVE  \E top \in S : \A n \in S : n <= top
<1> DEFINE From(k) == {n \in S : n >= k}
           Tails == {From(k) : k \in S}
<1>1. IsWellFoundedOn(StrictSubsetOrdering(S), SUBSET S)
  BY FS_StrictSubsetOrderingWellFounded, FS_FiniteSubsetsOfFinite
<1>2. Tails \subseteq SUBSET S /\ Tails # {}
  OBVIOUS
<1>3. PICK tail \in Tails : \A t \in Tails : <<t, tail>> \notin StrictSubsetOrdering(S)
  BY <1>1, <1>2, WFMin
<1>4. PICK top \in S : tail = From(top)
  OBVIOUS
<1>5. ASSUME NEW n \in S, ~(n <= top) PROVE FALSE
  <2>1. n \in Nat /\ top \in Nat /\ n > top
    BY <1>5
  <2>2. \A m \in S : m >= n => m >= top
    BY <2>1
  <2>3. From(n) \subseteq tail
    BY <2>2, <1>4
  <2>4. top \in tail /\ top \notin From(n)
    BY <2>1, <1>4
  <2>5. <<From(n), tail>> \in StrictSubsetOrdering(S)
    BY <2>3, <2>4, <1>2 DEF StrictSubsetOrdering
  <2> QED
    BY <2>5, <1>3
<1> QED
  BY <1>5

(* Max of the library is that element.                                     *)
LEMMA MaxIsLargest ==
    ASSUME NEW S, S \subseteq Nat, IsFiniteSet(S), S # {}
    PROVE  Max(S) \in S /\ \A n \in S : n <= Max(S)
<1>1. PICK top \in S : \A n \in S : n <= top
  BY LargestExists
<1>2. \A n \in S : top >= n
  BY <1>1
<1>3. Max(S) \in S /\ \A n \in S : Max(S) >= n
  BY <1>2 DEF Max
<1> QED
  BY <1>3

-----------------------------------------------------------------------------
Odd == {n \in Nat : n % 2 = 1}

(* The container writes odd numbers.                                       *)
ContainerOdd == outbox \ direct \subseteq Odd

(* A writer nobody has overtaken knows the top of messages_out.            *)
KnowsTop ==
    \A w \in Writers : step[w] # "idle" /\ w \notin overtaken
                          => \A seq \in outbox : seq <= maxOut[w]

(* What a writer has read, or can still read, covers the rows that were    *)
(* there when it began.                                                    *)
CoversBefore ==
    \A w \in Writers : \A old \in before[w] :
        /\ old \in Nat
        /\ step[w] = "readOut" => old <= maxOut[w] \/ old \in inbox
        /\ step[w] = "readBoth" => old <= maxOut[w] \/ old <= maxIn[w]

NumbersIInv == NumbersTypeOK /\ ContainerOdd /\ KnowsTop /\ CoversBefore

-----------------------------------------------------------------------------
(* The operators.                                                          *)

(* COALESCE(MAX(seq), 0): a number, and not below any of the table.        *)
LEMMA TopBounds ==
    ASSUME NEW S, S \subseteq Nat, IsFiniteSet(S)
    PROVE  Top(S) \in Nat /\ \A n \in S : n <= Top(S)
<1>1. S \cup {0} \subseteq Nat /\ IsFiniteSet(S \cup {0})
  BY FS_AddElement
<1> QED
  BY <1>1, MaxIsLargest DEF Top

(* The larger of two numbers.                                              *)
LEMMA LargerOfTwo ==
    ASSUME NEW a \in Nat, NEW b \in Nat
    PROVE  Max({a, b}) \in Nat /\ a <= Max({a, b}) /\ b <= Max({a, b})
<1>1. \E x \in {a, b} : \A y \in {a, b} : x >= y
  <2>1. CASE a >= b
    BY <2>1
  <2>2. CASE b >= a
    BY <2>2
  <2> QED
    BY <2>1, <2>2
<1>2. Max({a, b}) \in {a, b} /\ \A y \in {a, b} : Max({a, b}) >= y
  BY <1>1 DEF Max
<1> QED
  BY <1>2

(* The number of the host is even, whatever the table holds.               *)
LEMMA NextEvenIsEven ==
    ASSUME NEW top \in Nat
    PROVE  NextEven(top) \in Even
BY DEF NextEven, Even

(* The number of the container is odd and above the maximum it goes by.    *)
LEMMA NextOddIsOdd ==
    ASSUME NEW top \in Nat
    PROVE  NextOdd(top) \in Odd /\ NextOdd(top) > top
BY DEF NextOdd, Odd

(* The number a writer chooses is odd and above both maxima it has read.   *)
LEMMA ChosenBounds ==
    ASSUME NumbersTypeOK, NEW w \in Writers
    PROVE  /\ Chosen(w) \in Odd
           /\ Chosen(w) > maxOut[w]
           /\ Chosen(w) > maxIn[w]
<1>1. maxOut[w] \in Nat /\ maxIn[w] \in Nat
  BY DEF NumbersTypeOK
<1> DEFINE top == Max({maxOut[w], maxIn[w]})
<1>2. top \in Nat /\ maxOut[w] <= top /\ maxIn[w] <= top
  BY <1>1, LargerOfTwo
<1> HIDE DEF top
<1>3. NextOdd(top) \in Odd /\ NextOdd(top) > top
  BY <1>2, NextOddIsOdd
<1>4. NextOdd(top) \in Nat
  BY <1>3 DEF Odd
<1>5. NextOdd(top) > maxOut[w] /\ NextOdd(top) > maxIn[w]
  BY <1>1, <1>2, <1>3, <1>4
<1> QED
  BY <1>3, <1>5 DEF Chosen, top

-----------------------------------------------------------------------------
(* The type invariant.                                                     *)

(* The variables of a call after it has returned.                          *)
LEMMA ReturnTypes ==
    ASSUME NumbersTypeOK, NEW W, Return(W)
    PROVE  /\ step' \in [Writers -> {"idle", "readOut", "readBoth"}]
           /\ maxOut' \in [Writers -> Nat]
           /\ maxIn' \in [Writers -> Nat]
           /\ before' \in [Writers -> SUBSET Nat]
BY DEF NumbersTypeOK, Return

(* The types hold at the start.                                            *)
LEMMA NumbersTypeInit == NumbersInit => NumbersTypeOK
BY FS_EmptySet DEF NumbersInit, NumbersTypeOK, Even

(* Every step keeps the types.                                             *)
LEMMA NumbersTypeNext == NumbersTypeOK /\ [NumbersNext]_numberVars => NumbersTypeOK'
<1> SUFFICES ASSUME NumbersTypeOK, [NumbersNext]_numberVars PROVE NumbersTypeOK'
  OBVIOUS
<1>0. inbox \subseteq Nat /\ outbox \subseteq Nat /\ IsFiniteSet(inbox) /\ IsFiniteSet(outbox)
  BY DEF NumbersTypeOK, Even
<1>1. Top(inbox) \in Nat /\ Top(outbox) \in Nat
  BY <1>0, TopBounds
<1>2. CASE InsertMessage
  <2>1. NextEven(Top(inbox)) \in Even
    BY <1>1, NextEvenIsEven
  <2>2. IsFiniteSet(inbox')
    BY <1>0, <1>2, FS_AddElement DEF InsertMessage
  <2> QED
    BY <2>1, <2>2, <1>2 DEF InsertMessage, NumbersTypeOK, readVars
<1>3. CASE WriteOutboundDirect
  <2>1. IsFiniteSet(outbox')
    BY <1>0, <1>3, FS_AddElement DEF WriteOutboundDirect
  <2>2. Top(outbox) + 2 \in Nat
    BY <1>1
  <2>3. outbox' \subseteq Nat /\ direct' \subseteq outbox'
    BY <1>0, <2>2, <1>3 DEF WriteOutboundDirect, NumbersTypeOK
  <2>4. overtaken' \subseteq Writers
    BY <1>3 DEF WriteOutboundDirect
  <2> QED
    BY <2>1, <2>3, <2>4, <1>3 DEF WriteOutboundDirect, NumbersTypeOK, readVars
<1>4. ASSUME NEW series \in SUBSET inbox, DeleteTask(series) PROVE NumbersTypeOK'
  <2>1. IsFiniteSet(inbox')
    BY <1>0, <1>4, FS_Subset DEF DeleteTask
  <2> QED
    BY <2>1, <1>4 DEF DeleteTask, NumbersTypeOK, readVars
<1>5. ASSUME NEW w \in Writers, ReadOut(w) PROVE NumbersTypeOK'
  BY <1>0, <1>1, <1>5 DEF ReadOut, NumbersTypeOK
<1>6. ASSUME NEW w \in Writers, ReadIn(w) PROVE NumbersTypeOK'
  BY <1>1, <1>6 DEF ReadIn, NumbersTypeOK
<1>7. ASSUME NEW w \in Writers, Insert(w) PROVE NumbersTypeOK'
  <2>1. Chosen(w) \in Nat
    BY ChosenBounds DEF Odd
  <2>2. IsFiniteSet(outbox')
    BY <1>0, <1>7, FS_AddElement DEF Insert
  <2> QED
    BY <2>1, <2>2, <1>7, ReturnTypes DEF Insert, NumbersTypeOK
<1>8. ASSUME NEW w \in Writers, Refused(w) PROVE NumbersTypeOK'
  BY <1>8, ReturnTypes DEF Refused, NumbersTypeOK
<1>9. CASE ContainerEnds
  BY <1>9, ReturnTypes DEF ContainerEnds, NumbersTypeOK
<1>10. CASE UNCHANGED numberVars
  BY <1>10 DEF numberVars, NumbersTypeOK
<1> QED
  BY <1>2, <1>3, <1>4, <1>5, <1>6, <1>7, <1>8, <1>9, <1>10 DEF NumbersNext

(* The type invariant holds: inbound numbers are even and the tables stay  *)
(* finite (writeMessageOut, nextEvenSeq, writeOutboundDirect).             *)
THEOREM NumbersTypeCorrect == NumbersSpec => []NumbersTypeOK
BY NumbersTypeInit, NumbersTypeNext, PTL DEF NumbersSpec

-----------------------------------------------------------------------------
(* The inductive invariant.                                                *)

(* The container keeps to odd numbers.                                     *)
LEMMA OddNext == NumbersTypeOK /\ ContainerOdd /\ [NumbersNext]_numberVars => ContainerOdd'
<1> SUFFICES ASSUME NumbersTypeOK, ContainerOdd, [NumbersNext]_numberVars PROVE ContainerOdd'
  OBVIOUS
<1>1. ASSUME NEW w \in Writers, Insert(w) PROVE ContainerOdd'
  BY <1>1, ChosenBounds DEF Insert, ContainerOdd
<1>2. CASE WriteOutboundDirect
  BY <1>2 DEF WriteOutboundDirect, ContainerOdd
<1>3. CASE UNCHANGED <<outbox, direct>>
  BY <1>3 DEF ContainerOdd
<1> QED
  BY <1>1, <1>2, <1>3
     DEF NumbersNext, numberVars, InsertMessage, DeleteTask, ReadOut, ReadIn, Refused, ContainerEnds

(* Whoever writes messages_out overtakes all others in the middle of a     *)
(* write.                                                                  *)
LEMMA KnowsTopNext == NumbersTypeOK /\ KnowsTop /\ [NumbersNext]_numberVars => KnowsTop'
<1> SUFFICES ASSUME NumbersTypeOK, KnowsTop, [NumbersNext]_numberVars PROVE KnowsTop'
  OBVIOUS
<1>1. ASSUME NEW w \in Writers, ReadOut(w) PROVE KnowsTop'
  <2>1. \A seq \in outbox : seq <= Top(outbox)
    BY TopBounds DEF NumbersTypeOK
  <2> QED
    BY <2>1, <1>1 DEF ReadOut, KnowsTop, NumbersTypeOK
<1>2. ASSUME NEW w \in Writers, ReadIn(w) PROVE KnowsTop'
  BY <1>2 DEF ReadIn, KnowsTop, NumbersTypeOK
<1>3. ASSUME NEW w \in Writers, Insert(w) PROVE KnowsTop'
  BY <1>3 DEF Insert, Return, KnowsTop, NumbersTypeOK
<1>4. ASSUME NEW w \in Writers, Refused(w) PROVE KnowsTop'
  BY <1>4 DEF Refused, Return, KnowsTop, NumbersTypeOK
<1>5. CASE WriteOutboundDirect
  BY <1>5 DEF WriteOutboundDirect, readVars, KnowsTop
<1>6. CASE ContainerEnds
  BY <1>6 DEF ContainerEnds, Return, KnowsTop
<1>7. CASE UNCHANGED <<outbox, step, maxOut, overtaken>>
  BY <1>7 DEF KnowsTop
<1> QED
  BY <1>1, <1>2, <1>3, <1>4, <1>5, <1>6, <1>7
     DEF NumbersNext, numberVars, InsertMessage, DeleteTask, readVars

(* What a writer has read still covers what was there when it began.       *)
LEMMA CoversNext == NumbersTypeOK /\ CoversBefore /\ [NumbersNext]_numberVars => CoversBefore'
<1> SUFFICES ASSUME NumbersTypeOK, CoversBefore, [NumbersNext]_numberVars PROVE CoversBefore'
  OBVIOUS
<1>1. ASSUME NEW w \in Writers, ReadOut(w) PROVE CoversBefore'
  <2>1. \A seq \in outbox : seq <= Top(outbox)
    BY TopBounds DEF NumbersTypeOK
  <2> QED
    BY <2>1, <1>1 DEF ReadOut, CoversBefore, NumbersTypeOK, Even
<1>2. ASSUME NEW w \in Writers, ReadIn(w) PROVE CoversBefore'
  <2>1. \A seq \in inbox : seq <= Top(inbox)
    BY TopBounds DEF NumbersTypeOK, Even
  <2> QED
    BY <2>1, <1>2 DEF ReadIn, CoversBefore, NumbersTypeOK
<1>3. ASSUME NEW W, Return(W), inbox' = inbox PROVE CoversBefore'
  BY <1>3 DEF Return, CoversBefore, NumbersTypeOK
<1>4. ASSUME NEW series, DeleteTask(series) PROVE CoversBefore'
  BY <1>4 DEF DeleteTask, readVars, CoversBefore
<1>5. CASE inbox \subseteq inbox' /\ UNCHANGED <<step, maxOut, maxIn, before>>
  BY <1>5 DEF CoversBefore
<1> QED
  BY <1>1, <1>2, <1>3, <1>4, <1>5
     DEF NumbersNext, numberVars, readVars, InsertMessage, WriteOutboundDirect, Insert, Refused, ContainerEnds

(* The inductive invariant holds.                                          *)
LEMMA NumbersInvariance == NumbersSpec => []NumbersIInv
<1>1. NumbersInit => NumbersIInv
  BY NumbersTypeInit DEF NumbersInit, NumbersIInv, ContainerOdd, KnowsTop, CoversBefore
<1>2. NumbersIInv /\ [NumbersNext]_numberVars => NumbersIInv'
  BY NumbersTypeNext, OddNext, KnowsTopNext, CoversNext DEF NumbersIInv
<1> QED
  BY <1>1, <1>2, PTL DEF NumbersSpec

-----------------------------------------------------------------------------
(* The properties.                                                         *)

(* Only a reply that writeOutboundDirect put into messages_out can share   *)
(* its number with an inbound row.                                         *)
THEOREM ContainerNeverCollides == NumbersSpec => []OnlyRepliesCollide
<1>1. NumbersIInv => OnlyRepliesCollide
  <2> SUFFICES ASSUME NumbersIInv, NEW seq \in inbox \cap outbox PROVE seq \in direct
    BY DEF OnlyRepliesCollide
  <2>1. seq \in Even
    BY DEF NumbersIInv, NumbersTypeOK
  <2>2. seq \notin Odd
    BY <2>1 DEF Even, Odd
  <2> QED
    BY <2>2 DEF NumbersIInv, ContainerOdd
<1> QED
  BY <1>1, NumbersInvariance, PTL

(* The UNIQUE constraint refuses a row only if another process has written *)
(* messages_out since the writer read its maximum.                         *)
THEOREM LoneWriterNeverRefused == NumbersSpec => []RefusedOnlyWhenOvertaken
<1>1. NumbersIInv => RefusedOnlyWhenOvertaken
  <2> SUFFICES ASSUME NumbersIInv, NEW w \in Writers, step[w] = "readBoth", Chosen(w) \in outbox,
                      w \notin overtaken
               PROVE  FALSE
    BY DEF RefusedOnlyWhenOvertaken
  <2>1. Chosen(w) <= maxOut[w]
    BY DEF NumbersIInv, KnowsTop
  <2>2. Chosen(w) > maxOut[w] /\ Chosen(w) \in Nat /\ maxOut[w] \in Nat
    BY ChosenBounds DEF NumbersIInv, NumbersTypeOK
  <2> QED
    BY <2>1, <2>2
<1> QED
  BY <1>1, NumbersInvariance, PTL

(* A row of the container sorts after the rows that were there when its    *)
(* write began.                                                            *)
THEOREM ContainerSortsAfter == NumbersSpec => SortsAfter
<1>1. NumbersIInv /\ [NumbersNext]_numberVars =>
        [\A w \in Writers : outbox' # outbox /\ step'[w] # step[w]
            => \A old \in before[w], seq \in outbox' \ outbox : old < seq]_numberVars
  <2> SUFFICES ASSUME NumbersIInv, NumbersNext, NEW w \in Writers, outbox' # outbox, step'[w] # step[w],
                      NEW old \in before[w], NEW seq \in outbox' \ outbox
               PROVE  old < seq
    OBVIOUS
  <2>1. Insert(w)
    BY DEF NumbersIInv, NumbersTypeOK, NumbersNext, InsertMessage, DeleteTask, WriteOutboundDirect, ReadOut, ReadIn,
           Insert, Return, Refused, ContainerEnds, readVars
  <2>2. seq = Chosen(w) /\ step[w] = "readBoth"
    BY <2>1 DEF Insert
  <2>3. old \in Nat /\ (old <= maxOut[w] \/ old <= maxIn[w])
    BY <2>2 DEF NumbersIInv, CoversBefore
  <2>4. /\ Chosen(w) \in Nat /\ maxOut[w] \in Nat /\ maxIn[w] \in Nat
        /\ Chosen(w) > maxOut[w] /\ Chosen(w) > maxIn[w]
    BY ChosenBounds DEF NumbersIInv, NumbersTypeOK, Odd
  <2> QED
    BY <2>2, <2>3, <2>4
<1> QED
  BY <1>1, NumbersInvariance, PTL DEF NumbersSpec, SortsAfter
=============================================================================
