------------------------- MODULE AgentRoutingProofs -------------------------
(***************************************************************************)
(* Theorems about AgentRouting, for any groups and sessions, any rules at  *)
(* the beginning and any bounds.                                           *)
(*                                                                         *)
(* The argument: a drain holds rows of its own session that are due, so    *)
(* what one drain writes or settles is settled by no other; a row that is  *)
(* being delivered is known to somebody before it is recorded, and a hold  *)
(* is closed only when its row is in an inbox; and since rows are never    *)
(* changed or removed, what has been written stays so.                     *)
(***************************************************************************)
EXTENDS AgentRouting, SequenceTheorems, FiniteSetTheorems, TLAPS

(* The rows of the tables.                                                 *)
SessionRow == [group : Groups, active : BOOLEAN]
InboundRow == [session : Made, peer : Groups \cup {Chat}, source : {0} \cup Made,
               via : {0} \cup DOMAIN outbound]
OutboundRow == [session : Made, to : Groups, reply : {0} \cup DOMAIN inbound]
HoldRow == [row : DOMAIN outbound, state : {"asked", "applying", "closed"}]

(* Rows of outbound have a place in the memory of the host.                *)
Bounds == Len(outbound) <= MaxSends

(* An open query has taken its rows from the inbox of its session.         *)
Queries ==
    \A s \in 1..MaxSessions :
        \/ query[s] = Idle
        \/ /\ query[s].first \in query[s].batch
           /\ \A r \in query[s].batch : inbound[r].session = s

(* A drain holds rows of its session that nobody has settled.              *)
Drains ==
    \A s \in 1..MaxSessions :
        /\ waits[s] # "none" => drain[s] # {}
        /\ \A o \in drain[s] : outbound[o].session = s /\ IsDue(o)

(* The session a row came from belongs to the group it came from.          *)
Peers ==
    \A r \in DOMAIN inbound :
        inbound[r].source # 0 => GroupOf(inbound[r].source) = inbound[r].peer

Answered(o) == \E r \in DOMAIN inbound : inbound[r].via = o
Kept(o) == \E k \in DOMAIN holds : holds[k].row = o /\ Live(k)

(* What the host awaits, and what an administrator has been asked.         *)
Accounted ==
    /\ \A s \in 1..MaxSessions :
        /\ waits[s] = "wake" => Answered(Row(s))
        /\ waits[s] = "card" => Answered(Row(s)) \/ Kept(Row(s))
    /\ \A k \in DOMAIN holds : holds[k].state = "applying" => Answered(holds[k].row)

(* A row that was written to an inbox and is not yet recorded.             *)
Written(o) == ~IsDue(o) \/ \E s \in 1..MaxSessions : waits[s] = "wake" /\ Row(s) = o
AskedAbout(o) == \E k \in DOMAIN holds : holds[k].row = o

Copied ==
    \A o \in DOMAIN outbound :
        AskedAbout(o) \/ Cardinality(Copies(o)) <= restarts + (IF Written(o) THEN 1 ELSE 0)

IInv == /\ TypeOK /\ Bounds /\ Queries /\ Drains /\ Peers
        /\ Accounted /\ NothingVanishes /\ Copied

(* TypeOK by groups of variables.                                          *)
Tables ==
    /\ sessions \in Seq(SessionRow) /\ Len(sessions) <= MaxSessions
    /\ inbound \in Seq(InboundRow)
    /\ outbound \in Seq(OutboundRow)
    /\ holds \in Seq(HoldRow)

Turns ==
    /\ taken \subseteq DOMAIN inbound
    /\ query \in [1..MaxSessions -> [first : {0} \cup taken, batch : SUBSET taken]]

Memory ==
    /\ state \in [DOMAIN outbound -> {"due", "delivered", "failed"}]
    /\ attempts \in [1..MaxSends -> 0..MaxAttempts - 1]
    /\ drain \in [1..MaxSessions -> SUBSET DOMAIN outbound]
    /\ waits \in [1..MaxSessions -> {"none", "wake", "ask", "card"}]

Limits ==
    /\ links \subseteq Groups \X Groups /\ policies \subseteq Groups \X Groups
    /\ events \in 0..MaxEvents /\ restarts \in 0..events

LEMMA Types == TypeOK <=> Tables /\ Turns /\ Memory /\ Limits
BY DEF TypeOK, Tables, Turns, Memory, Limits, SessionRow, InboundRow, OutboundRow, HoldRow

LEMMA TypesNext == Tables' /\ Turns' /\ Memory' /\ Limits' => TypeOK'
BY DEF TypeOK, Tables, Turns, Memory, Limits, SessionRow, InboundRow, OutboundRow, HoldRow

-----------------------------------------------------------------------------
(* Sets of numbers.                                                        *)

LEMMA IntervalSets ==
    ASSUME NEW n \in Nat, NEW S \in SUBSET (1..n)
    PROVE  IsFiniteSet(S) /\ S \subseteq Nat
<1>1. IsFiniteSet(1..n)
  BY FS_Interval
<1>2. IsFiniteSet(S)
  BY <1>1, FS_Subset
<1> QED
  BY <1>2

(* A set of row numbers has a largest element: the one with the smallest   *)
(* set of numbers that are not below it.                                   *)
LEMMA MaxIn ==
    ASSUME NEW n \in Nat, NEW S \in SUBSET (1..n), S # {}
    PROVE  Max(S) \in S
<1> DEFINE From(k) == {i \in S : i >= k}
<1>1. IsFiniteSet(S) /\ S \subseteq Nat
  BY IntervalSets
<1>2. IsWellFoundedOn(StrictSubsetOrdering(S), SUBSET S)
  BY <1>1, FS_StrictSubsetOrderingWellFounded, FS_FiniteSubsetsOfFinite
<1>3. {From(k) : k \in S} \subseteq SUBSET S /\ {From(k) : k \in S} # {}
  OBVIOUS
<1>4. PICK tail \in {From(k) : k \in S} :
        \A t \in {From(k) : k \in S} : <<t, tail>> \notin StrictSubsetOrdering(S)
  BY <1>2, <1>3, WFMin
<1>5. PICK top \in S : tail = From(top)
  OBVIOUS
<1>6. ASSUME NEW i \in S, ~(top >= i) PROVE FALSE
  <2>1. i \in Nat /\ top \in Nat /\ i > top
    BY <1>1, <1>6
  <2>2. From(i) \subseteq tail
    <3>1. \A m \in S : m >= i => m >= top
      BY <1>1, <2>1
    <3> QED
      BY <1>5, <3>1
  <2>3. top \in tail /\ top \notin From(i)
    BY <1>5, <2>1
  <2>4. <<From(i), tail>> \in StrictSubsetOrdering(S)
    BY <1>3, <2>2, <2>3 DEF StrictSubsetOrdering
  <2> QED
    BY <1>4, <2>4
<1> QED
  BY <1>6 DEF Max

(* And a smallest one.                                                     *)
LEMMA MinIn ==
    ASSUME NEW n \in Nat, NEW S \in SUBSET (1..n), S # {}
    PROVE  Min(S) \in S
<1> DEFINE UpTo(k) == {i \in S : i <= k}
<1>1. IsFiniteSet(S) /\ S \subseteq Nat
  BY IntervalSets
<1>2. IsWellFoundedOn(StrictSubsetOrdering(S), SUBSET S)
  BY <1>1, FS_StrictSubsetOrderingWellFounded, FS_FiniteSubsetsOfFinite
<1>3. {UpTo(k) : k \in S} \subseteq SUBSET S /\ {UpTo(k) : k \in S} # {}
  OBVIOUS
<1>4. PICK head \in {UpTo(k) : k \in S} :
        \A t \in {UpTo(k) : k \in S} : <<t, head>> \notin StrictSubsetOrdering(S)
  BY <1>2, <1>3, WFMin
<1>5. PICK low \in S : head = UpTo(low)
  OBVIOUS
<1>6. ASSUME NEW i \in S, ~(low <= i) PROVE FALSE
  <2>1. i \in Nat /\ low \in Nat /\ i < low
    BY <1>1, <1>6
  <2>2. UpTo(i) \subseteq head
    <3>1. \A m \in S : m <= i => m <= low
      BY <1>1, <2>1
    <3> QED
      BY <1>5, <3>1
  <2>3. low \in head /\ low \notin UpTo(i)
    BY <1>5, <2>1
  <2>4. <<UpTo(i), head>> \in StrictSubsetOrdering(S)
    BY <1>3, <2>2, <2>3 DEF StrictSubsetOrdering
  <2> QED
    BY <1>4, <2>4
<1> QED
  BY <1>6 DEF Min

-----------------------------------------------------------------------------
(* Tables.                                                                 *)

LEMMA SameLength ==
    ASSUME NEW m \in Nat, NEW n \in Nat, 1..m = 1..n
    PROVE  m = n
<1>1. (m # 0 => m \in 1..n) /\ (n # 0 => n \in 1..m)
  OBVIOUS
<1> QED
  BY <1>1

LEMMA Appended ==
    ASSUME NEW S, NEW q \in Seq(S), NEW x \in S
    PROVE  /\ Append(q, x) \in Seq(S)
           /\ Len(Append(q, x)) = Len(q) + 1 /\ Len(q) \in Nat
           /\ DOMAIN q = 1..Len(q) /\ DOMAIN Append(q, x) = 1..(Len(q) + 1)
           /\ DOMAIN Append(q, x) = DOMAIN q \cup {Len(q) + 1}
           /\ Len(q) + 1 \notin DOMAIN q
           /\ \A i \in DOMAIN q : Append(q, x)[i] = q[i]
           /\ Append(q, x)[Len(q) + 1] = x
<1>1. /\ Append(q, x) \in Seq(S) /\ Len(Append(q, x)) = Len(q) + 1
      /\ \A i \in 1..Len(q) : Append(q, x)[i] = q[i]
      /\ Append(q, x)[Len(q) + 1] = x
  BY AppendProperties
<1>2. Len(q) \in Nat /\ DOMAIN q = 1..Len(q)
  BY LenProperties
<1>3. DOMAIN Append(q, x) = 1..(Len(q) + 1)
  BY <1>1, LenProperties
<1>4. 1..(Len(q) + 1) = 1..Len(q) \cup {Len(q) + 1} /\ Len(q) + 1 \notin 1..Len(q)
  BY <1>2
<1> QED
  BY <1>1, <1>2, <1>3, <1>4

(* What TypeOK says of the rows, without sequences.                        *)
LEMMA RowTypes ==
    ASSUME Tables
    PROVE  /\ Len(sessions) \in Nat /\ Made = 1..Len(sessions)
           /\ Len(inbound) \in Nat /\ DOMAIN inbound = 1..Len(inbound)
           /\ Len(outbound) \in Nat /\ DOMAIN outbound = 1..Len(outbound)
           /\ Len(holds) \in Nat /\ DOMAIN holds = 1..Len(holds)
           /\ Made \subseteq 1..MaxSessions /\ 0 \notin Made
           /\ \A s \in Made : GroupOf(s) \in Groups /\ sessions[s].active \in BOOLEAN
           /\ \A r \in DOMAIN inbound : inbound[r] \in InboundRow
           /\ \A o \in DOMAIN outbound : outbound[o] \in OutboundRow
           /\ \A k \in DOMAIN holds : holds[k] \in HoldRow
<1>1. /\ Len(sessions) \in Nat /\ Made = 1..Len(sessions)
      /\ \A s \in Made : sessions[s] \in SessionRow
  BY LenProperties, ElementOfSeq DEF Tables, Made
<1>2. /\ Len(inbound) \in Nat /\ DOMAIN inbound = 1..Len(inbound)
      /\ \A r \in DOMAIN inbound : inbound[r] \in InboundRow
  BY LenProperties, ElementOfSeq DEF Tables
<1>3. /\ Len(outbound) \in Nat /\ DOMAIN outbound = 1..Len(outbound)
      /\ \A o \in DOMAIN outbound : outbound[o] \in OutboundRow
  BY LenProperties, ElementOfSeq DEF Tables
<1>4. /\ Len(holds) \in Nat /\ DOMAIN holds = 1..Len(holds)
      /\ \A k \in DOMAIN holds : holds[k] \in HoldRow
  BY LenProperties, ElementOfSeq DEF Tables
<1>5. Made \subseteq 1..MaxSessions /\ 0 \notin Made
  BY <1>1, ConstantsOK DEF Tables
<1>6. \A s \in Made : GroupOf(s) \in Groups /\ sessions[s].active \in BOOLEAN
  BY <1>1 DEF SessionRow, GroupOf
<1> QED
  BY <1>1, <1>2, <1>3, <1>4, <1>5, <1>6

(* Rows stay well-typed when the tables they refer to grow.                *)
LEMMA OldRows ==
    ASSUME Tables, Made \subseteq Made', DOMAIN inbound \subseteq (DOMAIN inbound)',
           DOMAIN outbound \subseteq (DOMAIN outbound)'
    PROVE  /\ InboundRow \subseteq InboundRow' /\ inbound \in Seq(InboundRow')
           /\ OutboundRow \subseteq OutboundRow' /\ outbound \in Seq(OutboundRow')
           /\ HoldRow \subseteq HoldRow' /\ holds \in Seq(HoldRow')
<1>1. InboundRow \subseteq InboundRow'
  BY DEF InboundRow
<1>2. OutboundRow \subseteq OutboundRow'
  BY DEF OutboundRow
<1>3. HoldRow \subseteq HoldRow'
  BY DEF HoldRow
<1> QED
  BY <1>1, <1>2, <1>3, SeqMonotonic DEF Tables

LEMMA TablesUnchanged ==
    ASSUME Tables, UNCHANGED <<sessions, inbound, outbound, holds>>
    PROVE  Tables'
<1>1. Made' = Made
  BY DEF Made
<1>2. InboundRow' = InboundRow /\ OutboundRow' = OutboundRow /\ HoldRow' = HoldRow
  BY <1>1 DEF InboundRow, OutboundRow, HoldRow
<1> QED
  BY <1>2 DEF Tables, SessionRow

(* A new row of inbound, perhaps in a new session.                         *)
LEMMA Received ==
    ASSUME Tables, NEW row, row \in InboundRow', inbound' = Append(inbound, row),
           Made \subseteq Made', UNCHANGED outbound
    PROVE  /\ inbound' \in Seq(InboundRow')
           /\ (DOMAIN inbound)' = DOMAIN inbound \cup {Len(inbound) + 1}
           /\ Len(inbound) + 1 \notin DOMAIN inbound
           /\ \A r \in DOMAIN inbound : inbound'[r] = inbound[r]
           /\ inbound'[Len(inbound) + 1] = row
           /\ outbound' \in Seq(OutboundRow') /\ holds \in Seq(HoldRow')
<1>1. /\ (DOMAIN inbound)' = DOMAIN inbound \cup {Len(inbound) + 1}
      /\ Len(inbound) + 1 \notin DOMAIN inbound
      /\ \A r \in DOMAIN inbound : inbound'[r] = inbound[r]
  <2>1. inbound \in Seq(InboundRow \cup {row}) /\ row \in InboundRow \cup {row}
    BY SeqMonotonic DEF Tables
  <2> QED
    BY <2>1, Appended
<1>2. /\ inbound \in Seq(InboundRow') /\ outbound \in Seq(OutboundRow')
      /\ holds \in Seq(HoldRow')
  BY <1>1, OldRows
<1> QED
  BY <1>1, <1>2, Appended

(* A new row of sessions.                                                  *)
LEMMA Opened ==
    ASSUME Tables, NEW g \in Groups, Len(sessions) < MaxSessions,
           sessions' = Append(sessions, [group |-> g, active |-> TRUE])
    PROVE  /\ sessions' \in Seq(SessionRow) /\ Len(sessions') <= MaxSessions
           /\ Made' = Made \cup {Len(sessions) + 1} /\ Len(sessions) + 1 \notin Made
           /\ \A s \in Made : sessions'[s] = sessions[s]
           /\ sessions'[Len(sessions) + 1] = [group |-> g, active |-> TRUE]
<1>1. [group |-> g, active |-> TRUE] \in SessionRow
  BY DEF SessionRow
<1> QED
  BY <1>1, Appended, ConstantsOK DEF Tables, Made

(* The session that performAgentRoute chooses, and what it writes there.   *)
LEMMA Performed ==
    ASSUME Tables, NEW o \in DOMAIN outbound, PerformAgentRoute(o), UNCHANGED outbound
    PROVE  /\ sessions' \in Seq(SessionRow) /\ Len(sessions') <= MaxSessions
           /\ Made \subseteq Made' /\ \A s \in Made : sessions'[s] = sessions[s]
           /\ ResolveTargetSession(o) \in Made'
           /\ sessions'[ResolveTargetSession(o)].active
           /\ sessions'[ResolveTargetSession(o)].group = outbound[o].to
           /\ inbound' = Append(inbound, [session |-> ResolveTargetSession(o),
                                          peer |-> Sender(o),
                                          source |-> outbound[o].session, via |-> o])
           /\ [session |-> ResolveTargetSession(o), peer |-> Sender(o),
               source |-> outbound[o].session, via |-> o] \in InboundRow'
           /\ outbound[o].session \in Made /\ Sender(o) = GroupOf(outbound[o].session)
<1> DEFINE t == ResolveTargetSession(o)
<1>1. /\ outbound[o].session \in Made /\ outbound[o].to \in Groups
      /\ Sender(o) = GroupOf(outbound[o].session) /\ Sender(o) \in Groups
  BY RowTypes DEF OutboundRow, Sender
<1>2. CASE t \in ActiveOf(outbound[o].to)
  <2>1. t \in Made /\ sessions[t].active /\ sessions[t].group = outbound[o].to
    BY <1>2 DEF ActiveOf, Active, GroupOf
  <2>2. sessions' = sessions /\ Made' = Made
    BY <2>1 DEF PerformAgentRoute, Made
  <2> QED
    BY <1>1, <2>1, <2>2 DEF PerformAgentRoute, Tables, InboundRow
<1>3. CASE t \notin ActiveOf(outbound[o].to)
  <2>1. ActiveOf(outbound[o].to) \in SUBSET (1..Len(sessions)) /\ Len(sessions) \in Nat
    BY RowTypes DEF ActiveOf
  <2>2. t = Len(sessions) + 1
    BY <1>3, <2>1, MaxIn DEF ResolveTargetSession, Newest
  <2>3. t \notin Made /\ Len(sessions) < MaxSessions
    BY <2>1, <2>2, RowTypes, ConstantsOK DEF PerformAgentRoute
  <2>4. sessions' = Append(sessions, [group |-> outbound[o].to, active |-> TRUE])
    BY <2>3 DEF PerformAgentRoute
  <2>5. /\ sessions' \in Seq(SessionRow) /\ Len(sessions') <= MaxSessions
        /\ Made' = Made \cup {t} /\ \A s \in Made : sessions'[s] = sessions[s]
        /\ sessions'[t] = [group |-> outbound[o].to, active |-> TRUE]
    BY <1>1, <2>2, <2>3, <2>4, Opened
  <2>6. /\ t \in Made' /\ Made \subseteq Made'
        /\ sessions'[t].active /\ sessions'[t].group = outbound[o].to
    BY <2>5
  <2>7. [session |-> t, peer |-> Sender(o), source |-> outbound[o].session, via |-> o]
          \in InboundRow'
    BY <1>1, <2>6 DEF InboundRow
  <2> QED
    BY <1>1, <2>5, <2>6, <2>7 DEF PerformAgentRoute
<1> QED
  BY <1>2, <1>3

(* A note to the sender.                                                   *)
LEMMA Notified ==
    ASSUME Tables, NEW o \in DOMAIN outbound, NotifyAgent(o), UNCHANGED outbound
    PROVE  /\ Made' = Made /\ sessions' = sessions
           /\ inbound' = Append(inbound, [session |-> outbound[o].session,
                                          peer |-> Sender(o), source |-> 0, via |-> o])
           /\ [session |-> outbound[o].session, peer |-> Sender(o), source |-> 0,
               via |-> o] \in InboundRow'
<1>1. /\ outbound[o].session \in Made /\ Sender(o) \in Groups
  BY RowTypes DEF OutboundRow, Sender
<1> QED
  BY <1>1 DEF NotifyAgent, InboundRow, Made

(* A new row of outbound.                                                  *)
LEMMA Sent ==
    ASSUME TypeOK, Bounds, NEW s \in Made, NEW g \in Groups,
           NEW r \in {0} \cup DOMAIN inbound,
           WriteMessageOut(s, g, r), UNCHANGED <<sessions, inbound, holds>>
    PROVE  /\ Tables'
           /\ (DOMAIN outbound)' = DOMAIN outbound \cup {Len(outbound) + 1}
           /\ Len(outbound) + 1 \notin DOMAIN outbound
           /\ \A o \in DOMAIN outbound : outbound'[o] = outbound[o] /\ state'[o] = state[o]
           /\ outbound'[Len(outbound) + 1] = [session |-> s, to |-> g, reply |-> r]
           /\ state' \in [(DOMAIN outbound)' -> {"due", "delivered", "failed"}]
           /\ state'[Len(outbound) + 1] = "due"
           /\ Bounds'
<1> DEFINE new == [session |-> s, to |-> g, reply |-> r]
           T == {"due", "delivered", "failed"}
<1>1. outbound' = Append(outbound, new) /\ state' = Append(state, "due")
  BY DEF WriteMessageOut
<1>2. new \in OutboundRow /\ outbound \in Seq(OutboundRow) /\ Len(outbound) < MaxSends
  BY Types DEF OutboundRow, Tables, WriteMessageOut
<1>3. /\ (DOMAIN outbound)' = DOMAIN outbound \cup {Len(outbound) + 1}
      /\ Len(outbound) + 1 \notin DOMAIN outbound
      /\ \A o \in DOMAIN outbound : outbound'[o] = outbound[o]
      /\ outbound'[Len(outbound) + 1] = new
      /\ outbound' \in Seq(OutboundRow) /\ Len(outbound') = Len(outbound) + 1
      /\ Len(outbound) \in Nat /\ DOMAIN outbound = 1..Len(outbound)
      /\ (DOMAIN outbound)' = 1..(Len(outbound) + 1)
  BY <1>1, <1>2, Appended
<1>4. OutboundRow' = OutboundRow /\ Made' = Made
  BY DEF OutboundRow, Made
<1>5. Tables'
  <2>1. inbound' \in Seq(InboundRow') /\ holds' \in Seq(HoldRow')
    BY <1>3, <1>4, OldRows, Types
  <2> QED
    BY <1>3, <1>4, <2>1, Types DEF Tables, SessionRow
<1>6. state \in Seq(T) /\ Len(state) = Len(outbound)
  <2>1. state \in [1..Len(outbound) -> T]
    BY <1>3, Types DEF Memory
  <2>2. state \in Seq(T)
    BY <1>3, <2>1, SeqDef
  <2>3. Len(state) \in Nat /\ DOMAIN state = 1..Len(state) /\ DOMAIN state = 1..Len(outbound)
    BY <2>1, <2>2, LenProperties
  <2> QED
    BY <1>3, <2>2, <2>3, SameLength
<1>7. /\ state' \in [(DOMAIN outbound)' -> T]
      /\ \A o \in DOMAIN outbound : state'[o] = state[o]
      /\ state'[Len(outbound) + 1] = "due"
  <2>1. /\ state' \in Seq(T) /\ Len(state') = Len(outbound) + 1
        /\ \A o \in DOMAIN state : state'[o] = state[o]
        /\ state'[Len(outbound) + 1] = "due"
        /\ DOMAIN state = 1..Len(outbound)
    BY <1>1, <1>6, Appended
  <2>2. state' \in [1..(Len(outbound) + 1) -> T]
    BY <2>1, LenProperties
  <2> QED
    BY <1>3, <2>1, <2>2
<1>8. Bounds'
  BY <1>2, <1>3, ConstantsOK DEF Bounds
<1> QED
  BY <1>3, <1>5, <1>7, <1>8

(* Rows are added to the tables, and what they say of a message, of its    *)
(* group or of the row that was asked about is never changed.              *)
Grown ==
    /\ Made \subseteq Made' /\ \A s \in Made : sessions'[s].group = sessions[s].group
    /\ DOMAIN inbound \subseteq DOMAIN inbound'
    /\ \A r \in DOMAIN inbound : inbound'[r] = inbound[r]
    /\ DOMAIN outbound \subseteq DOMAIN outbound'
    /\ \A o \in DOMAIN outbound : outbound'[o] = outbound[o]
    /\ DOMAIN holds \subseteq DOMAIN holds'
    /\ \A k \in DOMAIN holds : holds'[k].row = holds[k].row

LEMMA NothingGrown ==
    ASSUME UNCHANGED <<sessions, inbound, outbound, holds>>
    PROVE  Grown
BY DEF Grown, Made

(* A new row of inbound is all that changes in the tables but the state of *)
(* a hold.                                                                 *)
LEMMA InboxGrown ==
    ASSUME Tables, NEW row, row \in InboundRow', inbound' = Append(inbound, row),
           sessions' \in Seq(SessionRow), Len(sessions') <= MaxSessions,
           Made \subseteq Made', \A s \in Made : sessions'[s] = sessions[s],
           UNCHANGED outbound, holds' \in Seq(HoldRow), DOMAIN holds' = DOMAIN holds,
           \A k \in DOMAIN holds : holds'[k].row = holds[k].row
    PROVE  Tables' /\ Grown
<1>1. HoldRow' = HoldRow /\ SessionRow' = SessionRow
  BY DEF HoldRow, SessionRow
<1>2. Tables'
  BY <1>1, Received DEF Tables
<1>3. DOMAIN inbound \subseteq DOMAIN inbound' /\ \A r \in DOMAIN inbound : inbound'[r] = inbound[r]
  BY Received
<1> QED
  BY <1>2, <1>3 DEF Grown

LEMMA HoldChanged ==
    ASSUME Tables, NEW k \in DOMAIN holds, NEW x \in {"asked", "applying", "closed"},
           holds' = [holds EXCEPT ![k].state = x]
    PROVE  /\ holds' \in Seq(HoldRow) /\ DOMAIN holds' = DOMAIN holds
           /\ \A j \in DOMAIN holds : holds'[j].row = holds[j].row
           /\ \A j \in DOMAIN holds : j # k => holds'[j] = holds[j]
           /\ holds'[k].state = x
<1> DEFINE e == [holds[k] EXCEPT !.state = x]
<1>1. holds[k] \in HoldRow /\ k \in 1..Len(holds) /\ holds \in Seq(HoldRow)
  BY RowTypes DEF Tables
<1>2. e \in HoldRow /\ e.row = holds[k].row /\ e.state = x
  BY <1>1 DEF HoldRow
<1>3. holds' = [holds EXCEPT ![k] = e]
  OBVIOUS
<1>4. [holds EXCEPT ![k] = e] \in Seq(HoldRow)
  BY <1>1, <1>2, ExceptSeq
<1> QED
  BY <1>2, <1>3, <1>4

(* The row that a drain is at.                                             *)
LEMMA FirstRow ==
    ASSUME Tables, Memory, Bounds, Drains, NEW s \in 1..MaxSessions, drain[s] # {}
    PROVE  /\ Row(s) \in drain[s] /\ Row(s) \in DOMAIN outbound /\ Row(s) \in 1..MaxSends
           /\ outbound[Row(s)].session = s /\ IsDue(Row(s))
<1>1. drain[s] \in SUBSET (1..Len(outbound)) /\ Len(outbound) \in Nat
  BY RowTypes DEF Memory
<1>2. Row(s) \in drain[s]
  BY <1>1, MinIn DEF Row
<1> QED
  BY <1>1, <1>2, ConstantsOK DEF Drains, Bounds

(* Recording a row: it is settled, and its drain goes on to the next.      *)
LEMMA Recorded ==
    ASSUME Tables, Memory, Bounds, Drains, NEW s \in 1..MaxSessions, drain[s] # {},
           MarkDelivered(s)
    PROVE  /\ Memory' /\ UNCHANGED outbound
           /\ state'[Row(s)] = "delivered"
           /\ \A o \in DOMAIN outbound : o # Row(s) => state'[o] = state[o]
           /\ drain'[s] = drain[s] \ {Row(s)} /\ waits'[s] = "none"
           /\ \A d \in 1..MaxSessions : d # s => drain'[d] = drain[d] /\ waits'[d] = waits[d]
<1>1. Row(s) \in DOMAIN outbound /\ Row(s) \in 1..MaxSends
  BY FirstRow
<1>2. /\ state' = [state EXCEPT ![Row(s)] = "delivered"]
      /\ attempts' = [attempts EXCEPT ![Row(s)] = 0]
      /\ drain' = [drain EXCEPT ![s] = @ \ {Row(s)}]
      /\ waits' = [waits EXCEPT ![s] = "none"]
      /\ outbound' = outbound
  BY DEF MarkDelivered, Dequeue
<1>3. Memory'
  BY <1>1, <1>2, ConstantsOK DEF Memory
<1> QED
  BY <1>1, <1>2, <1>3 DEF Memory

-----------------------------------------------------------------------------
(* Type correctness, step by step.                                         *)
Base == TypeOK /\ Bounds /\ Queries /\ Drains

(* The session of an open query, and where the query began.                *)
LEMMA OpenQuery ==
    ASSUME Base, NEW s \in 1..MaxSessions, Open(s)
    PROVE  /\ query[s].first \in query[s].batch /\ query[s].first \in DOMAIN inbound
           /\ query[s].batch \subseteq taken /\ inbound[query[s].first].session = s
           /\ s \in Made /\ GroupOf(s) \in Groups
           /\ \A r \in query[s].batch : inbound[r].session = s
<1>1. /\ query[s].first \in query[s].batch /\ query[s].batch \subseteq taken
      /\ taken \subseteq DOMAIN inbound /\ \A r \in query[s].batch : inbound[r].session = s
  BY Types DEF Base, Queries, Turns, Open
<1>2. inbound[query[s].first] \in InboundRow
  BY <1>1, RowTypes, Types DEF Base
<1>3. s \in Made
  BY <1>1, <1>2 DEF InboundRow
<1> QED
  BY <1>1, <1>3, RowTypes, Types DEF Base

LEMMA IdleTyped ==
    ASSUME NEW T
    PROVE  Idle \in [first : {0} \cup T, batch : SUBSET T]
BY DEF Idle

(* The next rows that a query takes are in the inbox of the session.       *)
LEMMA PendingTyped ==
    ASSUME Base, NEW s
    PROVE  /\ Pending(s) \subseteq DOMAIN inbound
           /\ Pending(s) # {} => Min(Pending(s)) \in Pending(s)
<1>1. Pending(s) \in SUBSET (1..Len(inbound)) /\ Len(inbound) \in Nat
  BY RowTypes, Types DEF Pending, Base
<1> QED
  BY <1>1, MinIn, RowTypes, Types DEF Base

(* What an agent may address.                                              *)
LEMMA Addressed ==
    ASSUME Base, NEW s \in 1..MaxSessions, Open(s)
    PROVE  /\ query[s].first \in DOMAIN inbound
           /\ \A g \in Groups : NewestFrom(s, g) \in {0} \cup DOMAIN inbound
           /\ inbound[query[s].first].peer # Chat => inbound[query[s].first].peer \in Groups
<1>1. query[s].first \in DOMAIN inbound /\ inbound[query[s].first] \in InboundRow
  BY OpenQuery, RowTypes, Types DEF Base
<1>2. ASSUME NEW g \in Groups
      PROVE  NewestFrom(s, g) \in DOMAIN inbound
  <2> DEFINE rows == {r \in DOMAIN inbound : inbound[r].session = s /\ inbound[r].peer = g}
  <2>1. rows \in SUBSET (1..Len(inbound)) /\ Len(inbound) \in Nat
    BY RowTypes, Types DEF Base
  <2>2. rows # {} => Max(rows) \in rows
    BY <2>1, MaxIn
  <2> QED
    BY <1>1, <2>2 DEF NewestFrom
<1> QED
  BY <1>1, <1>2 DEF InboundRow

(* A message that is sent grows the table of outbound rows.                *)
LEMMA SendTyped ==
    ASSUME Base, NEW s \in 1..MaxSessions, Open(s), NEW g \in Groups,
           NEW r \in {0} \cup DOMAIN inbound,
           WriteMessageOut(s, g, r), UNCHANGED <<sessions, inbound, holds, hostVars>>
    PROVE  Tables' /\ Memory' /\ Bounds' /\ Grown
<1>1. s \in Made
  BY OpenQuery
<1>2. /\ Tables' /\ Bounds'
      /\ DOMAIN outbound' = DOMAIN outbound \cup {Len(outbound) + 1}
      /\ \A o \in DOMAIN outbound : outbound'[o] = outbound[o]
      /\ state' \in [DOMAIN outbound' -> {"due", "delivered", "failed"}]
  BY <1>1, Sent DEF Base
<1>3. Grown
  BY <1>2 DEF Grown, Made
<1>4. Memory'
  BY <1>2, Types DEF Base, Memory, hostVars
<1> QED
  BY <1>2, <1>3, <1>4

LEMMA QueryIdle ==
    ASSUME Base, NEW s \in 1..MaxSessions, query' = [query EXCEPT ![s] = Idle],
           inbound' = inbound, taken' = taken \/ (Open(s) /\ taken' = taken \ query[s].batch)
    PROVE  Turns'
<1>1. taken' \subseteq taken /\ taken \subseteq DOMAIN inbound
  BY Types DEF Base, Turns
<1>2. ASSUME NEW d \in 1..MaxSessions
      PROVE  query'[d] \in [first : {0} \cup taken', batch : SUBSET taken']
  <2>1. CASE d = s \/ query[d] = Idle
    BY <2>1, IdleTyped, Types DEF Base, Turns
  <2>2. CASE d # s /\ query[d] # Idle
    <3>1. /\ query'[d] = query[d] /\ query[d].first \in query[d].batch
          /\ query[d].batch \subseteq taken /\ \A r \in query[d].batch : inbound[r].session = d
          /\ query[d] \in [first : {0} \cup taken, batch : SUBSET taken]
      BY <2>2, OpenQuery, Types DEF Open, Base, Turns
    <3>2. Open(s) => \A r \in query[s].batch : inbound[r].session = s
      BY OpenQuery
    <3>3. query[d].batch \subseteq taken'
      BY <2>2, <3>1, <3>2
    <3> QED
      BY <3>1, <3>3
  <2> QED
    BY <2>1, <2>2
<1>3. DOMAIN query' = 1..MaxSessions /\ query' = [d \in 1..MaxSessions |-> query'[d]]
  BY Types DEF Base, Turns
<1>4. query' \in [1..MaxSessions -> [first : {0} \cup taken', batch : SUBSET taken']]
  BY <1>2, <1>3
<1> QED
  BY <1>1, <1>4 DEF Turns

LEMMA AgentTypes ==
    ASSUME Base, NEW s \in 1..MaxSessions, Agent(s)
    PROVE  TypeOK' /\ Bounds' /\ Grown
<1> USE DEF Base
<1>1. Tables /\ Turns /\ Memory /\ Limits
  BY Types
<1>2. CASE Engage(s)
  <2>1. /\ Tables' /\ Memory' /\ Limits' /\ Bounds' /\ Grown
    BY <1>1, <1>2, TablesUnchanged, NothingGrown
       DEF Engage, Memory, Limits, Bounds, rowVars, hostVars, ruleVars, eventVars
  <2>2. Pending(s) \subseteq DOMAIN inbound /\ Min(Pending(s)) \in Pending(s)
    BY <1>2, PendingTyped DEF Engage
  <2>3. /\ taken' = taken \cup Pending(s) /\ inbound' = inbound
        /\ query' = [query EXCEPT ![s] = [first |-> Min(Pending(s)), batch |-> Pending(s)]]
    BY <1>2 DEF Engage
  <2>4. Turns'
    BY <1>1, <2>2, <2>3 DEF Turns
  <2> QED
    BY <2>1, <2>4, TypesNext
<1>3. CASE FollowUp(s)
  <2>1. /\ Tables' /\ Memory' /\ Limits' /\ Bounds' /\ Grown
    BY <1>1, <1>3, TablesUnchanged, NothingGrown
       DEF FollowUp, Memory, Limits, Bounds, rowVars, hostVars, ruleVars, eventVars
  <2>2. Turns'
    BY <1>1, <1>3, PendingTyped DEF Turns, FollowUp
  <2> QED
    BY <2>1, <2>2, TypesNext
<1>4. CASE SendPlain(s)
  <2>1. Tables' /\ Memory' /\ Bounds' /\ Grown
    BY <1>4, Addressed, SendTyped DEF SendPlain
  <2>2. Turns' /\ Limits'
    BY <1>1, <1>4 DEF SendPlain, Turns, Limits, agentVars, ruleVars, eventVars
  <2> QED
    BY <2>1, <2>2, TypesNext
<1>5. CASE QueryFails(s)
  <2>1. Tables' /\ Memory' /\ Bounds' /\ Grown
    BY <1>5, Addressed, SendTyped DEF QueryFails
  <2>2. Turns' /\ Limits'
    BY <1>1, <1>5, QueryIdle DEF QueryFails, Limits, ruleVars, eventVars
  <2> QED
    BY <2>1, <2>2, TypesNext
<1>6. CASE QueryEnds(s)
  <2>1. /\ Tables' /\ Memory' /\ Limits' /\ Bounds' /\ Grown
    BY <1>1, <1>6, TablesUnchanged, NothingGrown
       DEF QueryEnds, Memory, Limits, Bounds, rowVars, hostVars, ruleVars, eventVars
  <2>2. Turns'
    BY <1>6, QueryIdle DEF QueryEnds
  <2> QED
    BY <2>1, <2>2, TypesNext
<1>7. CASE ContainerDies(s)
  <2>1. /\ Tables' /\ Memory' /\ Bounds' /\ Grown
    BY <1>1, <1>7, TablesUnchanged, NothingGrown
       DEF ContainerDies, Memory, Bounds, rowVars, hostVars
  <2>2. Turns'
    BY <1>7, QueryIdle DEF ContainerDies
  <2>3. Limits'
    BY <1>1, <1>7, ConstantsOK DEF ContainerDies, Limits, Event, ruleVars
  <2> QED
    BY <2>1, <2>2, <2>3, TypesNext
<1>8. ASSUME NEW g \in Groups, SendBlock(s, g)
      PROVE  TypeOK' /\ Bounds' /\ Grown
  <2>1. Tables' /\ Memory' /\ Bounds' /\ Grown
    BY <1>8, Addressed, SendTyped DEF SendBlock
  <2>2. Turns' /\ Limits'
    BY <1>1, <1>8 DEF SendBlock, Turns, Limits, agentVars, ruleVars, eventVars
  <2> QED
    BY <2>1, <2>2, TypesNext
<1>9. ASSUME NEW g \in Groups, SendTool(s, g)
      PROVE  TypeOK' /\ Bounds' /\ Grown
  <2>1. Tables' /\ Memory' /\ Bounds' /\ Grown
    BY <1>9, Addressed, SendTyped DEF SendTool
  <2>2. Turns' /\ Limits'
    BY <1>1, <1>9 DEF SendTool, Turns, Limits, agentVars, ruleVars, eventVars
  <2> QED
    BY <2>1, <2>2, TypesNext
<1> QED
  BY <1>2, <1>3, <1>4, <1>5, <1>6, <1>7, <1>8, <1>9 DEF Agent

(* A message of a chat, in a session that exists or in a new one.          *)
LEMMA ArrivalTypes ==
    ASSUME Base,
           \/ \E s \in 1..MaxSessions : Arrive(s)
           \/ \E g \in Chatters : ArriveNew(g)
    PROVE  TypeOK' /\ Bounds' /\ Grown
<1> USE DEF Base
<1>1. Tables /\ Turns /\ Memory /\ Limits
  BY Types
<1>2. ASSUME NEW s \in Made', FromChat(s), sessions' \in Seq(SessionRow),
             Len(sessions') <= MaxSessions, Made \subseteq Made',
             \A d \in Made : sessions'[d] = sessions[d],
             UNCHANGED <<agentVars, rowVars, hostVars, holds, ruleVars, eventVars>>
      PROVE  TypeOK' /\ Bounds' /\ Grown
  <2> DEFINE row == [session |-> s, peer |-> Chat, source |-> 0, via |-> 0]
  <2>1. row \in InboundRow' /\ inbound' = Append(inbound, row)
    BY <1>2 DEF InboundRow, FromChat
  <2>2. holds' = holds /\ outbound' = outbound /\ holds' \in Seq(HoldRow)
    BY <1>1, <1>2 DEF rowVars, Tables
  <2>3. Tables' /\ Grown
    BY <1>1, <1>2, <2>1, <2>2, InboxGrown
  <2>4. Turns' /\ Memory' /\ Limits' /\ Bounds'
    BY <1>1, <1>2, <2>3 DEF Grown, Turns, Memory, Limits, Bounds,
       agentVars, rowVars, hostVars, ruleVars, eventVars
  <2> QED
    BY <2>3, <2>4, TypesNext
<1>3. ASSUME NEW s \in 1..MaxSessions, Arrive(s)
      PROVE  TypeOK' /\ Bounds' /\ Grown
  <2>1. s \in Made' /\ sessions' = sessions /\ Made' = Made
    BY <1>3 DEF Arrive, Active, Made
  <2> QED
    BY <1>1, <1>2, <1>3, <2>1 DEF Arrive, Tables
<1>4. ASSUME NEW g \in Chatters, ArriveNew(g)
      PROVE  TypeOK' /\ Bounds' /\ Grown
  <2>1. /\ sessions' \in Seq(SessionRow) /\ Len(sessions') <= MaxSessions
        /\ Made' = Made \cup {Len(sessions) + 1}
        /\ \A s \in Made : sessions'[s] = sessions[s]
    BY <1>1, <1>4, Opened, ConstantsOK DEF ArriveNew
  <2> QED
    BY <1>2, <1>4, <2>1 DEF ArriveNew
<1> QED
  BY <1>3, <1>4

(* The memory of the host when a step of a drain leaves its row in place.  *)
LEMMA Awaited ==
    ASSUME Memory, NEW s, NEW what \in {"none", "wake", "ask", "card"}, Await(s, what),
           UNCHANGED rowVars
    PROVE  Memory'
BY DEF Memory, Await, rowVars

LEMMA DeliveryTypes ==
    ASSUME Base, NEW s \in 1..MaxSessions, Delivery(s)
    PROVE  TypeOK' /\ Bounds' /\ Grown
<1> USE DEF Base
<1>1. Tables /\ Turns /\ Memory /\ Limits
  BY Types
<1>2. ASSUME UNCHANGED <<sessions, inbound, agentVars, outbound, holds, ruleVars, eventVars>>,
             Memory'
      PROVE  TypeOK' /\ Bounds' /\ Grown
  <2>1. Tables' /\ Grown
    BY <1>1, <1>2, TablesUnchanged, NothingGrown
  <2>2. Turns' /\ Limits' /\ Bounds'
    BY <1>1, <1>2 DEF Turns, Limits, Bounds, agentVars, ruleVars, eventVars
  <2> QED
    BY <1>2, <2>1, <2>2, TypesNext
<1>3. waits[s] # "none" => drain[s] # {}
  BY DEF Drains
<1>4. CASE DrainSession(s)
  <2>1. Memory'
    BY <1>1, <1>4 DEF DrainSession, Memory, OwnDue, rowVars
  <2> QED
    BY <1>2, <1>4, <2>1 DEF DrainSession, rowVars
<1>5. CASE Routes(s)
  <2> DEFINE t == ResolveTargetSession(Row(s))
             row == [session |-> t, peer |-> Sender(Row(s)),
                     source |-> outbound[Row(s)].session, via |-> Row(s)]
  <2>1. Row(s) \in DOMAIN outbound
    BY <1>1, <1>5, FirstRow DEF Routes, Turn
  <2>2. /\ outbound' = outbound /\ holds' = holds /\ PerformAgentRoute(Row(s))
    BY <1>5 DEF Routes, rowVars
  <2>3. /\ sessions' \in Seq(SessionRow) /\ Len(sessions') <= MaxSessions
        /\ Made \subseteq Made' /\ \A d \in Made : sessions'[d] = sessions[d]
        /\ inbound' = Append(inbound, row) /\ row \in InboundRow'
    BY <1>1, <2>1, <2>2, Performed
  <2>4. Tables' /\ Grown
    BY <1>1, <2>2, <2>3, InboxGrown DEF Tables
  <2>5. Memory'
    BY <1>1, <1>5, Awaited DEF Routes
  <2>6. Turns' /\ Limits' /\ Bounds'
    BY <1>1, <1>5, <2>2, <2>4 DEF Grown, Routes, Turns, Limits, Bounds, agentVars,
       ruleVars, eventVars
  <2> QED
    BY <2>4, <2>5, <2>6, TypesNext
<1>6. CASE Woken(s)
  <2>1. Memory' /\ outbound' = outbound
    BY <1>1, <1>3, <1>6, Recorded DEF Woken
  <2> QED
    BY <1>2, <1>6, <2>1 DEF Woken
<1>7. CASE Throws(s)
  <2>1. Row(s) \in DOMAIN outbound /\ Row(s) \in 1..MaxSends
    BY <1>1, <1>7, FirstRow DEF Throws, Turn
  <2>2. /\ state' \in [DOMAIN outbound -> {"due", "delivered", "failed"}]
        /\ attempts' \in [1..MaxSends -> 0..MaxAttempts - 1]
    <3> DEFINE n == attempts[Row(s)] + 1
    <3>1. MaxAttempts \in Nat \ {0}
      BY ConstantsOK
    <3>2. 0 \in 0..MaxAttempts - 1 /\ (n < MaxAttempts => n \in 0..MaxAttempts - 1)
      BY <1>1, <2>1, <3>1 DEF Memory
    <3>3. CASE n < MaxAttempts
      BY <1>1, <1>7, <2>1, <3>2, <3>3 DEF Throws, Memory
    <3>4. CASE ~(n < MaxAttempts)
      BY <1>1, <1>7, <2>1, <3>2, <3>4 DEF Throws, Memory
    <3> QED
      BY <3>3, <3>4
  <2>3. Memory'
    BY <1>1, <1>7, <2>2 DEF Throws, Dequeue, Memory
  <2> QED
    BY <1>2, <1>7, <2>3 DEF Throws
<1>8. CASE Holds(s)
  <2>1. Memory'
    BY <1>1, <1>8, Awaited DEF Holds
  <2> QED
    BY <1>2, <1>8, <2>1 DEF Holds, rowVars
<1>9. CASE RequestApproval(s)
  <2> DEFINE hold == [row |-> Row(s), state |-> "asked"]
  <2>1. Row(s) \in DOMAIN outbound
    BY <1>1, <1>3, <1>9, FirstRow DEF RequestApproval
  <2>2. hold \in HoldRow /\ holds' = Append(holds, hold) /\ holds \in Seq(HoldRow)
    BY <1>1, <1>9, <2>1 DEF HoldRow, RequestApproval, Tables
  <2>3. /\ holds' \in Seq(HoldRow) /\ DOMAIN holds \subseteq DOMAIN holds'
        /\ \A k \in DOMAIN holds : holds'[k] = holds[k]
    BY <2>2, Appended
  <2>4. UNCHANGED <<sessions, inbound, outbound, state, agentVars, ruleVars, eventVars>>
    BY <1>9 DEF RequestApproval, rowVars
  <2>5. HoldRow' = HoldRow /\ InboundRow' = InboundRow /\ OutboundRow' = OutboundRow /\ Made' = Made
    BY <2>4 DEF HoldRow, InboundRow, OutboundRow, Made
  <2>6. Tables' /\ Grown
    BY <1>1, <2>3, <2>4, <2>5 DEF Tables, Grown, SessionRow
  <2>7. Memory'
    BY <1>1, <1>9, Awaited DEF RequestApproval
  <2>8. Turns' /\ Limits' /\ Bounds'
    BY <1>1, <2>4 DEF Turns, Limits, Bounds, agentVars, ruleVars, eventVars
  <2> QED
    BY <2>6, <2>7, <2>8, TypesNext
<1>10. CASE NobodyToAsk(s)
  <2> DEFINE row == [session |-> outbound[Row(s)].session, peer |-> Sender(Row(s)),
                     source |-> 0, via |-> Row(s)]
  <2>1. Memory' /\ outbound' = outbound /\ Row(s) \in DOMAIN outbound
    BY <1>1, <1>3, <1>10, Recorded, FirstRow DEF NobodyToAsk
  <2>2. /\ Made' = Made /\ sessions' = sessions
        /\ inbound' = Append(inbound, row) /\ row \in InboundRow'
    BY <1>1, <1>10, <2>1, Notified DEF NobodyToAsk
  <2>3. holds' = holds
    BY <1>10 DEF NobodyToAsk
  <2>4. Tables' /\ Grown
    BY <1>1, <2>1, <2>2, <2>3, InboxGrown DEF Tables
  <2>5. Turns' /\ Limits' /\ Bounds'
    BY <1>1, <1>10, <2>1, <2>4, ConstantsOK DEF Grown, NobodyToAsk, Event, Turns, Limits,
       Bounds, agentVars, ruleVars
  <2> QED
    BY <2>1, <2>4, <2>5, TypesNext
<1>11. CASE CardSent(s)
  <2>1. Memory' /\ outbound' = outbound
    BY <1>1, <1>3, <1>11, Recorded DEF CardSent
  <2> QED
    BY <1>2, <1>11, <2>1 DEF CardSent
<1>12. CASE CardFails(s)
  <2> DEFINE row == [session |-> outbound[Row(s)].session, peer |-> Sender(Row(s)),
                     source |-> 0, via |-> Row(s)]
  <2>1. Memory' /\ outbound' = outbound /\ Row(s) \in DOMAIN outbound
    BY <1>1, <1>3, <1>12, Recorded, FirstRow DEF CardFails
  <2>2. /\ Made' = Made /\ sessions' = sessions
        /\ inbound' = Append(inbound, row) /\ row \in InboundRow'
    BY <1>1, <1>12, <2>1, Notified DEF CardFails
  <2>3. /\ holds' \in Seq(HoldRow) /\ DOMAIN holds' = DOMAIN holds
        /\ \A k \in DOMAIN holds : holds'[k].row = holds[k].row
    <3>1. PICK k \in DOMAIN holds : CloseHold(k)
      BY <1>12 DEF CardFails
    <3> QED
      BY <1>1, <3>1, HoldChanged DEF CloseHold
  <2>4. Tables' /\ Grown
    BY <1>1, <2>1, <2>2, <2>3, InboxGrown DEF Tables
  <2>5. Turns' /\ Limits' /\ Bounds'
    BY <1>1, <1>12, <2>1, <2>4, ConstantsOK DEF Grown, CardFails, Event, Turns, Limits,
       Bounds, agentVars, ruleVars
  <2> QED
    BY <2>1, <2>4, <2>5, TypesNext
<1> QED
  BY <1>4, <1>5, <1>6, <1>7, <1>8, <1>9, <1>10, <1>11, <1>12 DEF Delivery

LEMMA DecisionTypes ==
    ASSUME Base, NEW k, Decision(k)
    PROVE  TypeOK' /\ Bounds' /\ Grown
<1> USE DEF Base
<1>1. Tables /\ Turns /\ Memory /\ Limits
  BY Types
<1>2. k \in DOMAIN holds /\ holds[k].row \in DOMAIN outbound
  <2>1. k \in DOMAIN holds
    BY DEF Decision, ReplayRoutes, ReplayRefused, Applied, Reject, Live
  <2> QED
    BY <1>1, <2>1, RowTypes DEF HoldRow
<1>3. UNCHANGED <<agentVars, rowVars, hostVars, ruleVars, eventVars>>
  BY DEF Decision, ReplayRoutes, ReplayRefused, Applied, Reject
<1>4. /\ holds' \in Seq(HoldRow) /\ DOMAIN holds' = DOMAIN holds
      /\ \A j \in DOMAIN holds : holds'[j].row = holds[j].row
  <2>1. PICK x \in {"asked", "applying", "closed"} : holds' = [holds EXCEPT ![k].state = x]
    BY DEF Decision, ReplayRoutes, ReplayRefused, Applied, Reject, CloseHold
  <2> QED
    BY <1>1, <1>2, <2>1, HoldChanged
<1>5. Tables' /\ Grown
  <2>1. CASE ReplayRoutes(k)
    <3> DEFINE o == holds[k].row
               row == [session |-> ResolveTargetSession(o), peer |-> Sender(o),
                       source |-> outbound[o].session, via |-> o]
    <3>1. PerformAgentRoute(o) /\ outbound' = outbound
      BY <1>3, <2>1 DEF ReplayRoutes, rowVars
    <3>2. /\ sessions' \in Seq(SessionRow) /\ Len(sessions') <= MaxSessions
          /\ Made \subseteq Made' /\ \A d \in Made : sessions'[d] = sessions[d]
          /\ inbound' = Append(inbound, row) /\ row \in InboundRow'
      BY <1>1, <1>2, <3>1, Performed
    <3> QED
      BY <1>1, <1>4, <3>1, <3>2, InboxGrown
  <2>2. CASE ReplayRefused(k) \/ Reject(k)
    <3> DEFINE o == holds[k].row
               row == [session |-> outbound[o].session, peer |-> Sender(o),
                       source |-> 0, via |-> o]
    <3>1. NotifyAgent(o) /\ outbound' = outbound
      BY <1>3, <2>2 DEF ReplayRefused, Reject, rowVars
    <3>2. /\ Made' = Made /\ sessions' = sessions
          /\ inbound' = Append(inbound, row) /\ row \in InboundRow'
      BY <1>1, <1>2, <3>1, Notified
    <3> QED
      BY <1>1, <1>4, <3>1, <3>2, InboxGrown DEF Tables
  <2>3. CASE Applied(k)
    <3>1. UNCHANGED <<sessions, inbound, outbound>>
      BY <2>3 DEF Applied, rowVars
    <3>2. HoldRow' = HoldRow /\ InboundRow' = InboundRow /\ OutboundRow' = OutboundRow
          /\ Made' = Made
      BY <3>1 DEF HoldRow, InboundRow, OutboundRow, Made
    <3> QED
      BY <1>1, <1>4, <3>1, <3>2 DEF Tables, Grown, SessionRow
  <2> QED
    BY <2>1, <2>2, <2>3 DEF Decision
<1>6. Turns' /\ Memory' /\ Limits' /\ Bounds'
  BY <1>1, <1>3, <1>5 DEF Grown, Turns, Memory, Limits, Bounds, agentVars, rowVars, hostVars,
     ruleVars, eventVars
<1> QED
  BY <1>5, <1>6, TypesNext

LEMMA RulesTypes ==
    ASSUME Base, NEW e \in Edges, Rules(e)
    PROVE  TypeOK' /\ Bounds' /\ Grown
<1> USE DEF Base
<1>1. Tables /\ Turns /\ Memory /\ Limits
  BY Types
<1>2. UNCHANGED <<sessions, inbound, agentVars, rowVars, hostVars, holds>> /\ Event
  BY DEF Rules, AddDestination, RemoveDestination, SetPolicy, RemovePolicy
<1>3. Tables' /\ Grown
  BY <1>1, <1>2, TablesUnchanged, NothingGrown DEF rowVars
<1>4. Turns' /\ Memory' /\ Bounds'
  BY <1>1, <1>2 DEF Turns, Memory, Bounds, agentVars, rowVars, hostVars
<1>5. links' \subseteq Groups \X Groups /\ policies' \subseteq Groups \X Groups
  BY <1>1, ConstantsOK DEF Limits, Rules, AddDestination, RemoveDestination, SetPolicy,
     RemovePolicy
<1>6. Limits'
  BY <1>1, <1>2, <1>5, ConstantsOK DEF Limits, Event
<1> QED
  BY <1>3, <1>4, <1>6, TypesNext

LEMMA ArchiveTypes ==
    ASSUME Base, NEW s \in 1..MaxSessions, ArchiveSession(s)
    PROVE  TypeOK' /\ Bounds' /\ Grown
<1> USE DEF Base
<1>1. Tables /\ Turns /\ Memory /\ Limits
  BY Types
<1>2. UNCHANGED <<inbound, taken, rowVars, hostVars, holds, ruleVars>> /\ Event
  BY DEF ArchiveSession
<1>3. /\ sessions' \in Seq(SessionRow) /\ Len(sessions') = Len(sessions) /\ Made' = Made
      /\ \A d \in Made : sessions'[d].group = sessions[d].group
  <2> DEFINE e == [sessions[s] EXCEPT !.active = FALSE]
  <2>1. sessions \in Seq(SessionRow) /\ s \in 1..Len(sessions) /\ sessions[s] \in SessionRow
    BY <1>1, RowTypes, ElementOfSeq DEF Tables, ArchiveSession, Active
  <2>2. e \in SessionRow /\ e.group = sessions[s].group
    BY <2>1 DEF SessionRow
  <2>3. sessions' = [sessions EXCEPT ![s] = e]
    BY DEF ArchiveSession
  <2>4. /\ [sessions EXCEPT ![s] = e] \in Seq(SessionRow)
        /\ Len([sessions EXCEPT ![s] = e]) = Len(sessions)
    BY <2>1, <2>2, ExceptSeq
  <2> QED
    BY <2>2, <2>3, <2>4 DEF Made
<1>4. HoldRow' = HoldRow /\ InboundRow' = InboundRow /\ OutboundRow' = OutboundRow
  BY <1>2, <1>3 DEF HoldRow, InboundRow, OutboundRow, rowVars
<1>5. Tables' /\ Grown
  BY <1>1, <1>2, <1>3, <1>4 DEF Tables, Grown, SessionRow, rowVars
<1>6. Turns'
  BY <1>2, QueryIdle DEF ArchiveSession
<1>7. Memory' /\ Bounds'
  BY <1>1, <1>2 DEF Memory, Bounds, rowVars, hostVars
<1>8. Limits'
  BY <1>1, <1>2, ConstantsOK DEF Limits, Event, ruleVars
<1> QED
  BY <1>5, <1>6, <1>7, <1>8, TypesNext

LEMMA RestartTypes ==
    ASSUME Base, HostRestart
    PROVE  TypeOK' /\ Bounds' /\ Grown
<1> USE DEF Base
<1>1. Tables /\ Turns /\ Memory /\ Limits
  BY Types
<1>2. UNCHANGED <<sessions, inbound, rowVars, ruleVars>>
  BY DEF HostRestart
<1>3. HoldRow' = HoldRow /\ InboundRow' = InboundRow /\ OutboundRow' = OutboundRow /\ Made' = Made
  BY <1>2 DEF HoldRow, InboundRow, OutboundRow, Made, rowVars
<1>4. /\ holds' \in Seq(HoldRow) /\ DOMAIN holds' = DOMAIN holds
      /\ \A k \in DOMAIN holds : holds'[k].row = holds[k].row
  <2> DEFINE again(k) == IF Live(k) THEN [holds[k] EXCEPT !.state = "asked"] ELSE holds[k]
  <2>1. /\ Len(holds) \in Nat /\ DOMAIN holds = 1..Len(holds)
        /\ \A k \in DOMAIN holds : holds[k] \in HoldRow
    BY <1>1, RowTypes
  <2>2. holds' = [k \in DOMAIN holds |-> again(k)]
    BY DEF HostRestart
  <2>3. \A k \in DOMAIN holds : again(k) \in HoldRow /\ again(k).row = holds[k].row
    BY <2>1 DEF HoldRow
  <2>4. holds' \in [1..Len(holds) -> HoldRow]
    BY <2>1, <2>2, <2>3
  <2>5. holds' \in Seq(HoldRow)
    BY <2>1, <2>4, SeqDef
  <2> QED
    BY <2>2, <2>3, <2>5
<1>5. Tables' /\ Grown
  BY <1>1, <1>2, <1>3, <1>4 DEF Tables, Grown, SessionRow, rowVars
<1>6. Turns'
  BY <1>1, <1>2, IdleTyped DEF HostRestart, Turns
<1>7. Memory' /\ Bounds'
  BY <1>1, <1>2, ConstantsOK DEF HostRestart, Memory, Bounds, rowVars
<1>8. Limits'
  BY <1>1, <1>2, ConstantsOK DEF HostRestart, Limits, ruleVars
<1> QED
  BY <1>5, <1>6, <1>7, <1>8, TypesNext

LEMMA StepTypes ==
    ASSUME Base, Next
    PROVE  TypeOK' /\ Bounds' /\ Grown
<1>1. ASSUME NEW s \in 1..MaxSessions,
             Arrive(s) \/ Agent(s) \/ Delivery(s) \/ ArchiveSession(s)
      PROVE  TypeOK' /\ Bounds' /\ Grown
  BY <1>1, ArrivalTypes, AgentTypes, DeliveryTypes, ArchiveTypes
<1> QED
  BY <1>1, ArrivalTypes, DecisionTypes, RulesTypes, RestartTypes DEF Next

-----------------------------------------------------------------------------
(* What a step does to an inbox, to a query and to a drain.                *)

LEMMA OneRow ==
    ASSUME Tables, NEW row, inbound' = Append(inbound, row)
    PROVE  /\ DOMAIN inbound' = DOMAIN inbound \cup {Len(inbound) + 1}
           /\ Len(inbound) + 1 \notin DOMAIN inbound
           /\ \A r \in DOMAIN inbound : inbound'[r] = inbound[r]
           /\ inbound'[Len(inbound) + 1] = row
<1>1. inbound \in Seq(InboundRow \cup {row}) /\ row \in InboundRow \cup {row}
  BY SeqMonotonic DEF Tables
<1> QED
  BY <1>1, Appended

(* The steps that write on behalf of an agent: a drain, or the replay of a *)
(* message that was held.                                                  *)
Routing(o) ==
    \/ \E s \in 1..MaxSessions : Routes(s) /\ o = Row(s)
    \/ \E k \in Asked : ReplayRoutes(k) /\ o = holds[k].row

LEMMA RoutingStep ==
    ASSUME Base, NEW o, Routing(o)
    PROVE  /\ o \in DOMAIN outbound /\ PerformAgentRoute(o) /\ UNCHANGED <<outbound, state>>
           /\ outbound[o].session \in Made /\ Sender(o) = GroupOf(outbound[o].session)
           /\ inbound' = Append(inbound, [session |-> ResolveTargetSession(o),
                                          peer |-> Sender(o),
                                          source |-> outbound[o].session, via |-> o])
<1>1. Tables /\ Memory /\ Bounds /\ Drains
  BY Types DEF Base
<1>2. CASE \E s \in 1..MaxSessions : Routes(s) /\ o = Row(s)
  BY <1>1, <1>2, FirstRow, Performed DEF Routes, Turn, rowVars
<1>3. CASE \E k \in Asked : ReplayRoutes(k) /\ o = holds[k].row
  <2>1. o \in DOMAIN outbound
    BY <1>1, <1>3, RowTypes DEF ReplayRoutes, Live, HoldRow
  <2> QED
    BY <1>1, <1>3, <2>1, Performed DEF ReplayRoutes, rowVars
<1> QED
  BY <1>2, <1>3 DEF Routing

LEMMA InboxStep ==
    ASSUME Base, Next, NEW r \in DOMAIN inbound', r \notin DOMAIN inbound
    PROVE  inbound'[r].source = 0 \/ \E o : Routing(o) /\ inbound'[r].via = o
<1>1. Tables
  BY Types DEF Base
<1>2. ASSUME NEW s, FromChat(s)
      PROVE  inbound'[r].source = 0
  BY <1>1, <1>2, OneRow DEF FromChat
<1>3. ASSUME NEW o, NotifyAgent(o)
      PROVE  inbound'[r].source = 0
  BY <1>1, <1>3, OneRow DEF NotifyAgent
<1>4. ASSUME NEW o, Routing(o)
      PROVE  inbound'[r].via = o
  <2>1. inbound' = Append(inbound, [session |-> ResolveTargetSession(o), peer |-> Sender(o),
                                    source |-> outbound[o].session, via |-> o])
    BY <1>4, RoutingStep
  <2> QED
    BY <1>1, <2>1, OneRow
<1>5. inbound' # inbound
  OBVIOUS
<1>6. ASSUME NEW s \in 1..MaxSessions,
             Arrive(s) \/ Agent(s) \/ Delivery(s) \/ ArchiveSession(s)
      PROVE  inbound'[r].source = 0 \/ \E o : Routing(o) /\ inbound'[r].via = o
  <2>1. ~ArchiveSession(s) /\ ~Agent(s)
    BY <1>5 DEF ArchiveSession, Agent, Engage, FollowUp, SendPlain, QueryFails, QueryEnds,
       ContainerDies, SendBlock, SendTool
  <2>2. CASE Arrive(s)
    BY <1>2, <2>2 DEF Arrive
  <2>3. CASE Delivery(s)
    <3>1. Routes(s) \/ NobodyToAsk(s) \/ CardFails(s)
      BY <1>5, <2>3 DEF Delivery, DrainSession, Woken, Throws, Holds, RequestApproval, CardSent
    <3>2. CASE Routes(s)
      BY <1>4, <3>2 DEF Routing
    <3>3. CASE NobodyToAsk(s) \/ CardFails(s)
      BY <1>3, <3>3 DEF NobodyToAsk, CardFails
    <3> QED
      BY <3>1, <3>2, <3>3
  <2> QED
    BY <1>6, <2>1, <2>2, <2>3
<1>7. ASSUME NEW k \in Asked, Decision(k)
      PROVE  inbound'[r].source = 0 \/ \E o : Routing(o) /\ inbound'[r].via = o
  <2>1. ~Applied(k)
    BY <1>5 DEF Applied
  <2>2. CASE ReplayRoutes(k)
    BY <1>4, <2>2 DEF Routing
  <2>3. CASE ReplayRefused(k) \/ Reject(k)
    BY <1>3, <2>3 DEF ReplayRefused, Reject
  <2> QED
    BY <1>7, <2>1, <2>2, <2>3 DEF Decision
<1>8. ~HostRestart /\ ~\E e \in Edges : Rules(e)
  BY <1>5 DEF HostRestart, Rules, AddDestination, RemoveDestination, SetPolicy, RemovePolicy
<1>9. CASE \E g \in Chatters : ArriveNew(g)
  BY <1>2, <1>9 DEF ArriveNew
<1> QED
  BY <1>6, <1>7, <1>8, <1>9 DEF Next

(* A query is opened with what is pending, kept or closed.                 *)
LEMMA QueryStep ==
    ASSUME Base, Next, NEW d \in 1..MaxSessions
    PROVE  \/ query'[d] = Idle \/ query'[d] = query[d]
           \/ /\ query'[d] = [first |-> Min(Pending(d)), batch |-> Pending(d)]
              /\ Pending(d) # {}
<1>1. Turns
  BY Types DEF Base
<1>2. ASSUME NEW s \in 1..MaxSessions, Agent(s)
      PROVE  \/ query'[d] = Idle \/ query'[d] = query[d]
             \/ /\ query'[d] = [first |-> Min(Pending(d)), batch |-> Pending(d)]
                /\ Pending(d) # {}
  BY <1>1, <1>2 DEF Turns, Agent, Engage, FollowUp, SendPlain, QueryFails, QueryEnds,
     ContainerDies, SendBlock, SendTool, agentVars
<1>3. ASSUME NEW s \in 1..MaxSessions, Arrive(s) \/ Delivery(s)
      PROVE  query' = query
  BY <1>3 DEF Arrive, Delivery, DrainSession, Routes, Woken, Throws, Holds, RequestApproval,
     NobodyToAsk, CardSent, CardFails, agentVars
<1>4. ASSUME NEW k, Decision(k)
      PROVE  query' = query
  BY <1>4 DEF Decision, ReplayRoutes, ReplayRefused, Applied, Reject, agentVars
<1>5. ASSUME NEW e, Rules(e)
      PROVE  query' = query
  BY <1>5 DEF Rules, AddDestination, RemoveDestination, SetPolicy, RemovePolicy, agentVars
<1>6. ASSUME NEW s \in 1..MaxSessions, ArchiveSession(s)
      PROVE  query'[d] = Idle \/ query'[d] = query[d]
  BY <1>1, <1>6 DEF ArchiveSession, Turns
<1>7. HostRestart => query'[d] = Idle
  BY DEF HostRestart
<1>8. ASSUME NEW g, ArriveNew(g)
      PROVE  query' = query
  BY <1>8 DEF ArriveNew, agentVars
<1> QED
  BY <1>2, <1>3, <1>4, <1>5, <1>6, <1>7, <1>8 DEF Next

LEMMA QueriesStep ==
    ASSUME Base, Next
    PROVE  Queries'
<1>1. Grown
  BY StepTypes
<1>2. SUFFICES ASSUME NEW d \in 1..MaxSessions, query'[d] # Idle
               PROVE  /\ query'[d].first \in query'[d].batch
                      /\ \A r \in query'[d].batch : inbound'[r].session = d
  BY DEF Queries
<1>3. CASE query'[d] = query[d]
  <2>1. Open(d)
    BY <1>2, <1>3 DEF Open
  <2>2. /\ query[d].first \in query[d].batch /\ query[d].batch \subseteq DOMAIN inbound
        /\ \A r \in query[d].batch : inbound[r].session = d
    BY <2>1, OpenQuery, Types DEF Base, Turns
  <2> QED
    BY <1>1, <1>3, <2>2 DEF Grown
<1>4. CASE /\ query'[d] = [first |-> Min(Pending(d)), batch |-> Pending(d)]
           /\ Pending(d) # {}
  <2>1. /\ Min(Pending(d)) \in Pending(d) /\ Pending(d) \subseteq DOMAIN inbound
        /\ \A r \in Pending(d) : inbound[r].session = d
    BY <1>4, PendingTyped DEF Pending
  <2> QED
    BY <1>1, <1>4, <2>1 DEF Grown
<1> QED
  BY <1>2, <1>3, <1>4, QueryStep

(* No other step touches what a drain is doing, or settles a row.          *)
LEMMA Elsewhere ==
    ASSUME Base, Next, \A s \in 1..MaxSessions : ~Delivery(s), ~HostRestart
    PROVE  /\ UNCHANGED <<drain, waits>>
           /\ \A o \in DOMAIN outbound : state'[o] = state[o]
           /\ \A o \in DOMAIN outbound' \ DOMAIN outbound :
                /\ state'[o] = "due" /\ UNCHANGED <<inbound, holds>>
<1>1. Tables /\ Memory
  BY Types DEF Base
<1>2. ASSUME NEW s \in 1..MaxSessions, Agent(s)
      PROVE  /\ UNCHANGED <<drain, waits>>
             /\ \A o \in DOMAIN outbound : state'[o] = state[o]
             /\ \A o \in DOMAIN outbound' \ DOMAIN outbound :
                    /\ state'[o] = "due" /\ UNCHANGED <<inbound, holds>>
  <2>1. ASSUME Open(s), NEW g \in Groups, NEW r \in {0} \cup DOMAIN inbound,
               WriteMessageOut(s, g, r), UNCHANGED <<sessions, inbound, hostVars, holds>>
        PROVE  /\ UNCHANGED <<drain, waits>>
               /\ \A o \in DOMAIN outbound : state'[o] = state[o]
               /\ \A o \in DOMAIN outbound' \ DOMAIN outbound :
                    /\ state'[o] = "due" /\ UNCHANGED <<inbound, holds>>
    <3>1. s \in Made
      BY <2>1, OpenQuery
    <3> QED
      BY <2>1, <3>1, Sent DEF Base, hostVars
  <2>2. CASE \E g \in Groups : SendBlock(s, g) \/ SendTool(s, g)
    BY <2>1, <2>2, Addressed DEF SendBlock, SendTool
  <2>3. CASE SendPlain(s) \/ QueryFails(s)
    BY <2>1, <2>3, Addressed DEF SendPlain, QueryFails
  <2>4. CASE Engage(s) \/ FollowUp(s) \/ QueryEnds(s) \/ ContainerDies(s)
    BY <2>4 DEF Engage, FollowUp, QueryEnds, ContainerDies, rowVars, hostVars
  <2> QED
    BY <1>2, <2>2, <2>3, <2>4 DEF Agent
<1>3. ASSUME NEW s \in 1..MaxSessions, Arrive(s) \/ ArchiveSession(s)
      PROVE  UNCHANGED <<drain, waits, outbound, state>>
  BY <1>3 DEF Arrive, ArchiveSession, rowVars, hostVars
<1>4. ASSUME NEW k, Decision(k)
      PROVE  UNCHANGED <<drain, waits, outbound, state>>
  BY <1>4 DEF Decision, ReplayRoutes, ReplayRefused, Applied, Reject, rowVars, hostVars
<1>5. ASSUME NEW e, Rules(e)
      PROVE  UNCHANGED <<drain, waits, outbound, state>>
  BY <1>5 DEF Rules, AddDestination, RemoveDestination, SetPolicy, RemovePolicy, rowVars,
     hostVars
<1>6. ASSUME NEW g, ArriveNew(g)
      PROVE  UNCHANGED <<drain, waits, outbound, state>>
  BY <1>6 DEF ArriveNew, rowVars, hostVars
<1> QED
  BY <1>2, <1>3, <1>4, <1>5, <1>6 DEF Next

(* A step of one drain: it begins with the rows that are due, waits at its *)
(* first row, or has settled or put off that row.                          *)
LEMMA DeliveryStep ==
    ASSUME Base, NEW s \in 1..MaxSessions, Delivery(s)
    PROVE  /\ UNCHANGED <<outbound, restarts>>
           /\ \A d \in 1..MaxSessions : d # s => drain'[d] = drain[d] /\ waits'[d] = waits[d]
           /\ \A o \in DOMAIN outbound : o # Row(s) => state'[o] = state[o]
           /\ \/ DrainSession(s) /\ waits'[s] = waits[s] /\ drain'[s] = OwnDue(s) /\ state' = state
              \/ drain[s] # {} /\ drain'[s] = drain[s] /\ state' = state
              \/ drain[s] # {} /\ drain'[s] = drain[s] \ {Row(s)} /\ waits'[s] = "none"
<1>1. Tables /\ Memory /\ Bounds /\ Drains
  BY Types DEF Base
<1>2. waits[s] # "none" => drain[s] # {}
  BY <1>1 DEF Drains
<1>3. ASSUME MarkDelivered(s), drain[s] # {}
      PROVE  /\ outbound' = outbound
             /\ \A d \in 1..MaxSessions : d # s => drain'[d] = drain[d] /\ waits'[d] = waits[d]
             /\ \A o \in DOMAIN outbound : o # Row(s) => state'[o] = state[o]
             /\ drain'[s] = drain[s] \ {Row(s)} /\ waits'[s] = "none"
  BY <1>1, <1>3, Recorded
<1>4. CASE DrainSession(s)
  BY <1>1, <1>4 DEF DrainSession, Memory, rowVars, eventVars
<1>5. CASE Routes(s) \/ Holds(s) \/ RequestApproval(s)
  BY <1>1, <1>2, <1>5 DEF Routes, Holds, RequestApproval, Turn, Await, Memory, rowVars, eventVars
<1>6. CASE Woken(s) \/ CardSent(s)
  BY <1>2, <1>3, <1>6 DEF Woken, CardSent, eventVars
<1>7. CASE NobodyToAsk(s) \/ CardFails(s)
  BY <1>2, <1>3, <1>7 DEF NobodyToAsk, CardFails, Event
<1>8. CASE Throws(s)
  <2>1. /\ UNCHANGED <<outbound, restarts>> /\ drain[s] # {}
        /\ drain' = [drain EXCEPT ![s] = @ \ {Row(s)}]
        /\ waits' = [waits EXCEPT ![s] = "none"]
        /\ state' = state \/ state' = [state EXCEPT ![Row(s)] = "failed"]
    BY <1>8 DEF Throws, Turn, Dequeue, eventVars
  <2> QED
    BY <1>1, <2>1 DEF Memory
<1> QED
  BY <1>4, <1>5, <1>6, <1>7, <1>8 DEF Delivery

LEMMA DrainsStep ==
    ASSUME Base, Next
    PROVE  Drains'
<1>1. Grown /\ Tables /\ Memory /\ Bounds /\ Drains
  BY StepTypes, Types DEF Base
<1>2. \A d \in 1..MaxSessions : \A o \in drain[d] : o \in DOMAIN outbound
  BY <1>1 DEF Memory
<1>3. CASE HostRestart
  BY <1>3 DEF HostRestart, Drains
<1>4. CASE ~HostRestart /\ \A s \in 1..MaxSessions : ~Delivery(s)
  <2>1. /\ UNCHANGED <<drain, waits>>
        /\ \A o \in DOMAIN outbound : state'[o] = state[o]
    BY <1>4, Elsewhere
  <2> QED
    BY <1>1, <1>2, <2>1 DEF Drains, IsDue, Grown
<1>5. ASSUME NEW s \in 1..MaxSessions, Delivery(s)
      PROVE  Drains'
  <2>1. /\ outbound' = outbound
        /\ \A d \in 1..MaxSessions : d # s => drain'[d] = drain[d] /\ waits'[d] = waits[d]
        /\ \A o \in DOMAIN outbound : o # Row(s) => state'[o] = state[o]
        /\ \/ DrainSession(s) /\ waits'[s] = waits[s] /\ drain'[s] = OwnDue(s) /\ state' = state
           \/ drain[s] # {} /\ drain'[s] = drain[s] /\ state' = state
           \/ drain[s] # {} /\ drain'[s] = drain[s] \ {Row(s)} /\ waits'[s] = "none"
    BY <1>5, DeliveryStep
  <2>2. ASSUME NEW d \in 1..MaxSessions, d # s
        PROVE  /\ waits'[d] # "none" => drain'[d] # {}
               /\ \A o \in drain'[d] : outbound'[o].session = d /\ state'[o] = "due"
    <3>1. CASE drain[s] = {}
      BY <1>1, <1>2, <2>1, <2>2, <3>1 DEF Drains, IsDue
    <3>2. CASE drain[s] # {}
      <4>1. outbound[Row(s)].session = s
        BY <1>1, <3>2, FirstRow
      <4> QED
        BY <1>1, <1>2, <2>1, <2>2, <4>1 DEF Drains, IsDue
    <3> QED
      BY <3>1, <3>2
  <2>3. /\ waits'[s] # "none" => drain'[s] # {}
        /\ \A o \in drain'[s] : outbound'[o].session = s /\ state'[o] = "due"
    <3>1. CASE DrainSession(s) /\ waits'[s] = waits[s] /\ drain'[s] = OwnDue(s) /\ state' = state
      BY <1>1, <2>1, <3>1 DEF Drains, IsDue, OwnDue, DrainSession
    <3>2. CASE drain[s] # {} /\ drain'[s] = drain[s] /\ state' = state
      BY <1>1, <2>1, <3>2 DEF Drains, IsDue
    <3>3. CASE drain[s] # {} /\ drain'[s] = drain[s] \ {Row(s)} /\ waits'[s] = "none"
      BY <1>1, <1>2, <2>1, <3>3 DEF Drains, IsDue
    <3> QED
      BY <2>1, <3>1, <3>2, <3>3
  <2> QED
    BY <2>2, <2>3 DEF Drains, IsDue
<1> QED
  BY <1>3, <1>4, <1>5

LEMMA PeersStep ==
    ASSUME Base, Peers, Next
    PROVE  Peers'
<1>1. Grown /\ Tables
  BY StepTypes, Types DEF Base
<1>2. SUFFICES ASSUME NEW r \in DOMAIN inbound', inbound'[r].source # 0
               PROVE  sessions'[inbound'[r].source].group = inbound'[r].peer
  BY DEF Peers, GroupOf
<1>3. CASE r \in DOMAIN inbound
  <2>1. inbound'[r] = inbound[r] /\ inbound[r] \in InboundRow
    BY <1>1, <1>3, RowTypes DEF Grown
  <2>2. inbound[r].source \in Made
    BY <1>2, <2>1 DEF InboundRow
  <2> QED
    BY <1>1, <1>2, <1>3, <2>1, <2>2 DEF Peers, GroupOf, Grown
<1>4. CASE r \notin DOMAIN inbound
  <2>1. PICK o : Routing(o) /\ inbound'[r].via = o
    BY <1>2, <1>4, InboxStep
  <2>2. /\ outbound[o].session \in Made /\ Sender(o) = GroupOf(outbound[o].session)
        /\ inbound' = Append(inbound, [session |-> ResolveTargetSession(o), peer |-> Sender(o),
                                       source |-> outbound[o].session, via |-> o])
    BY <2>1, RoutingStep
  <2>3. inbound'[r].peer = Sender(o) /\ inbound'[r].source = outbound[o].session
    BY <1>1, <1>4, <2>2, OneRow
  <2> QED
    BY <1>1, <2>2, <2>3 DEF Grown, GroupOf
<1> QED
  BY <1>3, <1>4

-----------------------------------------------------------------------------
(* Nothing vanishes.                                                       *)

(* A note or a routed message answers its row.                             *)
LEMMA Answers ==
    ASSUME Tables, NEW o, NEW row, inbound' = Append(inbound, row), row.via = o
    PROVE  Answered(o)'
BY OneRow DEF Answered

LEMMA AnsweredStays ==
    ASSUME Grown, NEW o, Answered(o)
    PROVE  Answered(o)'
BY DEF Grown, Answered

(* What is known to an inbox or to an administrator stays known: a hold is *)
(* closed by a note, or after the message was routed.                      *)
LEMMA KnownStays ==
    ASSUME Base, Accounted, Next, NEW o, Answered(o) \/ Kept(o)
    PROVE  Answered(o)' \/ Kept(o)'
<1>1. Grown /\ Tables
  BY StepTypes, Types DEF Base
<1>2. CASE Answered(o)
  BY <1>1, <1>2, AnsweredStays
<1>3. ASSUME NEW k \in DOMAIN holds, holds[k].row = o, Live(k)
      PROVE  Answered(o)' \/ Kept(o)'
  <2>0. holds[k] \in HoldRow
    BY <1>1, RowTypes
  <2>1. ASSUME k \in DOMAIN holds', holds'[k].row = o, holds'[k].state # "closed"
        PROVE  Kept(o)'
    BY <2>1 DEF Kept, Live
  <2>2. CASE holds' = holds
    BY <1>3, <2>1, <2>2 DEF Live
  <2>3. ASSUME NEW j \in DOMAIN holds, CloseHold(j), NotifyAgent(holds[j].row)
        PROVE  Answered(o)' \/ Kept(o)'
    <3>1. CASE j = k
      BY <1>1, <1>3, <2>3, <3>1, Answers DEF NotifyAgent
    <3>2. CASE j # k
      BY <1>1, <1>3, <2>1, <2>3, <3>2, HoldChanged DEF CloseHold, Live
    <3> QED
      BY <3>1, <3>2
  <2>4. ASSUME NEW s \in 1..MaxSessions, Delivery(s)
        PROVE  Answered(o)' \/ Kept(o)'
    <3>1. CASE RequestApproval(s)
      <4> DEFINE hold == [row |-> Row(s), state |-> "asked"]
      <4>1. holds' = Append(holds, hold) /\ holds \in Seq(HoldRow \cup {hold})
        BY <1>1, <3>1, SeqMonotonic DEF RequestApproval, Tables
      <4>2. k \in DOMAIN holds' /\ holds'[k] = holds[k]
        BY <1>3, <4>1, Appended
      <4> QED
        BY <1>3, <2>1, <4>2 DEF Live
    <3>2. CASE CardFails(s)
      BY <2>3, <3>2 DEF CardFails
    <3>3. CASE ~RequestApproval(s) /\ ~CardFails(s)
      BY <2>2, <2>4, <3>3 DEF Delivery, DrainSession, Routes, Woken, Throws, Holds,
         NobodyToAsk, CardSent
    <3> QED
      BY <3>1, <3>2, <3>3
  <2>5. ASSUME NEW j, Decision(j)
        PROVE  Answered(o)' \/ Kept(o)'
    <3>1. j \in DOMAIN holds
      BY <2>5 DEF Decision, ReplayRoutes, ReplayRefused, Applied, Reject, Live
    <3>2. CASE ReplayRefused(j) \/ Reject(j)
      BY <2>3, <3>1, <3>2 DEF ReplayRefused, Reject
    <3>3. CASE Applied(j)
      <4>1. CASE j = k
        BY <1>1, <1>3, <3>3, <4>1, AnsweredStays DEF Applied, Accounted
      <4>2. CASE j # k
        BY <1>1, <1>3, <2>1, <3>1, <3>3, <4>2, HoldChanged DEF Applied, CloseHold, Live
      <4> QED
        BY <4>1, <4>2
    <3>4. CASE ReplayRoutes(j)
      <4>1. /\ DOMAIN holds' = DOMAIN holds /\ holds'[k].row = holds[k].row
            /\ (j # k => holds'[k] = holds[k]) /\ holds'[j].state = "applying"
        BY <1>1, <1>3, <3>1, <3>4, HoldChanged DEF ReplayRoutes
      <4> QED
        BY <1>3, <2>1, <4>1 DEF Live
    <3> QED
      BY <2>5, <3>2, <3>3, <3>4 DEF Decision
  <2>6. CASE HostRestart
    <3>1. holds'[k] = [holds[k] EXCEPT !.state = "asked"] /\ k \in DOMAIN holds'
      BY <1>3, <2>6 DEF HostRestart
    <3>2. holds'[k].row = o /\ holds'[k].state = "asked"
      BY <1>3, <2>0, <3>1 DEF HoldRow
    <3> QED
      BY <2>1, <3>1, <3>2
  <2>7. ASSUME NEW s \in 1..MaxSessions, Arrive(s) \/ Agent(s) \/ ArchiveSession(s)
        PROVE  holds' = holds
    BY <2>7 DEF Arrive, ArchiveSession, Agent, Engage, FollowUp, SendPlain, QueryFails,
       QueryEnds, ContainerDies, SendBlock, SendTool
  <2>8. ASSUME NEW e, Rules(e) \/ ArriveNew(e)
        PROVE  holds' = holds
    BY <2>8 DEF Rules, AddDestination, RemoveDestination, SetPolicy, RemovePolicy, ArriveNew
  <2> QED
    BY <2>2, <2>4, <2>5, <2>6, <2>7, <2>8 DEF Next
<1> QED
  BY <1>2, <1>3 DEF Kept

(* What a drain awaits after a step of its own.                            *)
LEMMA AwaitStep ==
    ASSUME Base, NEW s \in 1..MaxSessions, Delivery(s)
    PROVE  /\ waits'[s] = "wake" => Routes(s) /\ drain' = drain
           /\ waits'[s] = "card" => RequestApproval(s) /\ drain' = drain
<1>1. Memory /\ Drains
  BY Types DEF Base
<1>2. CASE DrainSession(s)
  BY <1>1, <1>2 DEF DrainSession, Drains
<1>3. CASE Routes(s) \/ Holds(s) \/ RequestApproval(s)
  BY <1>1, <1>3 DEF Routes, Holds, RequestApproval, Await, Memory
<1>4. CASE Woken(s) \/ Throws(s) \/ NobodyToAsk(s) \/ CardSent(s) \/ CardFails(s)
  BY <1>1, <1>4 DEF Woken, Throws, NobodyToAsk, CardSent, CardFails, MarkDelivered, Dequeue,
     Memory
<1> QED
  BY <1>2, <1>3, <1>4 DEF Delivery

LEMMA AccountedStep ==
    ASSUME Base, Accounted, Next
    PROVE  Accounted'
<1>1. Grown /\ Tables /\ Tables' /\ Memory /\ Memory'
  BY StepTypes, Types DEF Base, TypeOK, Tables, Memory, SessionRow, InboundRow, OutboundRow,
     HoldRow
<1>2. ASSUME NEW d \in 1..MaxSessions, NEW o, o = Row(d)', waits'[d] \in {"wake", "card"}
      PROVE  /\ waits'[d] = "wake" => Answered(o)'
             /\ waits'[d] = "card" => Answered(o)' \/ Kept(o)'
  <2>1. CASE drain'[d] = drain[d] /\ waits'[d] = waits[d]
    <3>1. o = Row(d)
      BY <1>2, <2>1 DEF Row
    <3> QED
      BY <1>1, <1>2, <2>1, <3>1, AnsweredStays, KnownStays DEF Accounted
  <2>2. CASE Delivery(d)
    <3>1. CASE waits'[d] = "wake"
      <4>1. Routes(d) /\ o = Row(d)
        BY <1>2, <2>2, <3>1, AwaitStep DEF Row
      <4>2. Routing(o)
        BY <4>1 DEF Routing
      <4>3. inbound' = Append(inbound, [session |-> ResolveTargetSession(o), peer |-> Sender(o),
                                        source |-> outbound[o].session, via |-> o])
        BY <4>2, RoutingStep
      <4> QED
        BY <1>1, <3>1, <4>3, Answers
    <3>2. CASE waits'[d] = "card"
      <4> DEFINE hold == [row |-> o, state |-> "asked"]
      <4>1. RequestApproval(d) /\ o = Row(d)
        BY <1>2, <2>2, <3>2, AwaitStep DEF Row
      <4>2. holds' = Append(holds, hold) /\ holds \in Seq(HoldRow \cup {hold})
        BY <1>1, <4>1, SeqMonotonic DEF RequestApproval, Tables
      <4>3. Len(holds) + 1 \in DOMAIN holds' /\ holds'[Len(holds) + 1] = hold
        BY <4>2, Appended
      <4> QED
        BY <3>2, <4>3 DEF Kept, Live
    <3> QED
      BY <1>2, <3>1, <3>2
  <2>3. CASE HostRestart
    BY <1>2, <2>3 DEF HostRestart
  <2>4. CASE ~HostRestart /\ \A s \in 1..MaxSessions : ~Delivery(s)
    BY <2>1, <2>4, Elsewhere
  <2>5. ASSUME NEW s \in 1..MaxSessions, Delivery(s), d # s
        PROVE  drain'[d] = drain[d] /\ waits'[d] = waits[d]
    BY <2>5, DeliveryStep
  <2> QED
    BY <2>1, <2>2, <2>3, <2>4, <2>5
<1>3. ASSUME NEW k \in DOMAIN holds', holds'[k].state = "applying", NEW o, o = holds'[k].row
      PROVE  Answered(o)'
  <2>1. CASE k \in DOMAIN holds /\ holds'[k] = holds[k]
    BY <1>1, <1>3, <2>1, AnsweredStays DEF Accounted
  <2>2. CASE holds' = holds
    BY <1>3, <2>1, <2>2
  <2>3. ASSUME NEW j \in DOMAIN holds, CloseHold(j)
        PROVE  Answered(o)'
    BY <1>1, <1>3, <2>1, <2>3, HoldChanged DEF CloseHold
  <2>4. ASSUME NEW s \in 1..MaxSessions, Delivery(s)
        PROVE  Answered(o)'
    <3>1. CASE RequestApproval(s)
      <4> DEFINE hold == [row |-> Row(s), state |-> "asked"]
      <4>1. holds' = Append(holds, hold) /\ holds \in Seq(HoldRow \cup {hold})
        BY <1>1, <3>1, SeqMonotonic DEF RequestApproval, Tables
      <4>2. k \in DOMAIN holds /\ holds'[k] = holds[k]
        BY <1>3, <4>1, Appended
      <4> QED
        BY <2>1, <4>2
    <3>2. CASE CardFails(s)
      BY <2>3, <3>2 DEF CardFails
    <3>3. CASE ~RequestApproval(s) /\ ~CardFails(s)
      BY <2>2, <2>4, <3>3 DEF Delivery, DrainSession, Routes, Woken, Throws, Holds,
         NobodyToAsk, CardSent
    <3> QED
      BY <3>1, <3>2, <3>3
  <2>5. ASSUME NEW j \in Asked, Decision(j)
        PROVE  Answered(o)'
    <3>1. j \in DOMAIN holds
      BY <2>5 DEF Decision, ReplayRoutes, ReplayRefused, Applied, Reject, Live
    <3>2. CASE ReplayRefused(j) \/ Reject(j) \/ Applied(j)
      BY <2>3, <3>1, <3>2 DEF ReplayRefused, Reject, Applied
    <3>3. CASE ReplayRoutes(j)
      <4>1. /\ DOMAIN holds' = DOMAIN holds /\ holds'[j].row = holds[j].row
            /\ (j # k => holds'[k] = holds[k])
        BY <1>1, <1>3, <3>1, <3>3, HoldChanged DEF ReplayRoutes
      <4>2. CASE j = k
        <5>1. Routing(o)
          BY <1>3, <2>5, <3>3, <4>1, <4>2 DEF Routing
        <5>2. inbound' = Append(inbound, [session |-> ResolveTargetSession(o),
                                          peer |-> Sender(o),
                                          source |-> outbound[o].session, via |-> o])
          BY <5>1, RoutingStep
        <5> QED
          BY <1>1, <5>2, Answers
      <4> QED
        BY <2>1, <4>1, <4>2
    <3> QED
      BY <2>5, <3>2, <3>3 DEF Decision
  <2>6. CASE HostRestart
    <3>1. /\ k \in DOMAIN holds /\ holds[k] \in HoldRow
          /\ holds'[k] = IF Live(k) THEN [holds[k] EXCEPT !.state = "asked"] ELSE holds[k]
      BY <1>1, <1>3, <2>6, RowTypes DEF HostRestart
    <3>2. CASE Live(k)
      BY <1>3, <3>1, <3>2 DEF HoldRow
    <3>3. CASE ~Live(k)
      BY <2>1, <3>1, <3>3
    <3> QED
      BY <3>2, <3>3
  <2>7. ASSUME NEW s \in 1..MaxSessions, Arrive(s) \/ Agent(s) \/ ArchiveSession(s)
        PROVE  holds' = holds
    BY <2>7 DEF Arrive, ArchiveSession, Agent, Engage, FollowUp, SendPlain, QueryFails,
       QueryEnds, ContainerDies, SendBlock, SendTool
  <2>8. ASSUME NEW e, Rules(e) \/ ArriveNew(e)
        PROVE  holds' = holds
    BY <2>8 DEF Rules, AddDestination, RemoveDestination, SetPolicy, RemovePolicy, ArriveNew
  <2> QED
    BY <2>2, <2>4, <2>5, <2>6, <2>7, <2>8 DEF Next
<1> QED
  BY <1>2, <1>3 DEF Accounted, Answered, Kept

(* A row is recorded when its message is known.                            *)
LEMMA VanishesStep ==
    ASSUME Base, Accounted, NothingVanishes, Next
    PROVE  NothingVanishes'
<1>1. Grown /\ Tables /\ Memory /\ Bounds /\ Drains
  BY StepTypes, Types DEF Base
<1>2. SUFFICES ASSUME NEW o \in DOMAIN outbound', state'[o] = "delivered"
               PROVE  Answered(o)' \/ Kept(o)'
  BY DEF NothingVanishes, Answered, Kept
<1>3. CASE o \in DOMAIN outbound /\ state[o] = "delivered"
  BY <1>3, KnownStays DEF NothingVanishes, Answered, Kept
<1>4. ASSUME NEW s \in 1..MaxSessions, Delivery(s), state'[o] # state[o]
      PROVE  Answered(o)' \/ Kept(o)'
  <2>1. o = Row(s) /\ outbound' = outbound
    BY <1>2, <1>4, DeliveryStep
  <2>2. \/ Woken(s) \/ NobodyToAsk(s) \/ CardSent(s) \/ CardFails(s)
    BY <1>1, <1>2, <1>4 DEF Delivery, DrainSession, Routes, Throws, Holds, RequestApproval,
       Memory, rowVars, Turn
  <2>3. CASE Woken(s) \/ CardSent(s)
    BY <2>1, <2>3, KnownStays DEF Woken, CardSent, Accounted
  <2>4. CASE NobodyToAsk(s) \/ CardFails(s)
    BY <1>1, <2>1, <2>4, Answers DEF NobodyToAsk, CardFails, NotifyAgent
  <2> QED
    BY <2>2, <2>3, <2>4
<1>5. CASE \A s \in 1..MaxSessions : ~Delivery(s)
  <2>1. CASE HostRestart
    BY <1>2, <1>3, <2>1 DEF HostRestart, rowVars
  <2>2. CASE ~HostRestart
    BY <1>2, <1>3, <1>5, <2>2, Elsewhere
  <2> QED
    BY <2>1, <2>2
<1>6. CASE \E s \in 1..MaxSessions : Delivery(s) /\ state'[o] = state[o]
  <2>1. outbound' = outbound
    BY <1>6, DeliveryStep
  <2> QED
    BY <1>2, <1>3, <1>6, <2>1
<1> QED
  BY <1>4, <1>5, <1>6

-----------------------------------------------------------------------------
(* One copy.                                                               *)

LEMMA CopiesTyped ==
    ASSUME Tables, NEW o
    PROVE  /\ IsFiniteSet(Copies(o)) /\ Cardinality(Copies(o)) \in Nat
           /\ Copies(o) \subseteq DOMAIN inbound
<1>1. Copies(o) \in SUBSET (1..Len(inbound)) /\ Len(inbound) \in Nat
  BY RowTypes DEF Copies
<1>2. IsFiniteSet(Copies(o))
  BY <1>1, IntervalSets
<1> QED
  BY <1>1, <1>2, FS_CardinalityType, RowTypes

(* Only routing writes a copy, and it writes one.                          *)
LEMMA CopyStep ==
    ASSUME Base, Next, NEW o
    PROVE  /\ ~Routing(o) => Copies(o)' = Copies(o)
           /\ Cardinality(Copies(o)') <= Cardinality(Copies(o)) + 1
<1>1. Grown /\ Tables
  BY StepTypes, Types DEF Base
<1>2. /\ IsFiniteSet(Copies(o)) /\ Cardinality(Copies(o)) \in Nat
      /\ Copies(o) \subseteq DOMAIN inbound
  BY <1>1, CopiesTyped
<1>3. Copies(o) \subseteq Copies(o)'
  BY <1>1 DEF Copies, Grown
<1>4. \A r \in DOMAIN inbound : r \in Copies(o)' => r \in Copies(o)
  BY <1>1 DEF Copies, Grown
<1>5. ASSUME ~Routing(o)
      PROVE  Copies(o)' = Copies(o)
  <2>1. ASSUME NEW r \in Copies(o)', r \notin DOMAIN inbound
        PROVE  FALSE
    <3>1. r \in DOMAIN inbound' /\ inbound'[r].source # 0 /\ inbound'[r].via = o
      BY <2>1 DEF Copies
    <3> QED
      BY <1>5, <2>1, <3>1, InboxStep
  <2> QED
    BY <1>3, <1>4, <2>1
<1>6. ASSUME Routing(o)
      PROVE  Copies(o)' \subseteq Copies(o) \cup {Len(inbound) + 1}
  <2>1. DOMAIN inbound' = DOMAIN inbound \cup {Len(inbound) + 1}
    BY <1>1, <1>6, RoutingStep, OneRow
  <2>2. Copies(o)' \subseteq DOMAIN inbound'
    BY DEF Copies
  <2> QED
    BY <1>4, <2>1, <2>2
<1>7. Copies(o)' \subseteq Copies(o) \cup {Len(inbound) + 1}
  BY <1>5, <1>6
<1>8. /\ IsFiniteSet(Copies(o) \cup {Len(inbound) + 1})
      /\ Cardinality(Copies(o) \cup {Len(inbound) + 1}) <= Cardinality(Copies(o)) + 1
      /\ Cardinality(Copies(o) \cup {Len(inbound) + 1}) \in Nat
  BY <1>2, FS_AddElement, FS_CardinalityType
<1>9. /\ Cardinality(Copies(o)') <= Cardinality(Copies(o) \cup {Len(inbound) + 1})
      /\ Cardinality(Copies(o)') \in Nat
  BY <1>7, <1>8, FS_Subset, FS_CardinalityType
<1> QED
  BY <1>2, <1>5, <1>8, <1>9

(* What was written stays so, unless the host forgets it.                  *)
LEMMA WrittenStays ==
    ASSUME Base, Next, NEW o \in DOMAIN outbound, Written(o), ~HostRestart
    PROVE  Written(o)'
<1>1. Tables /\ Memory /\ Bounds /\ Drains
  BY Types DEF Base
<1>2. CASE ~IsDue(o)
  <2>1. ASSUME NEW s \in 1..MaxSessions, Delivery(s)
        PROVE  state'[o] = state[o]
    <3>1. CASE o = Row(s) /\ drain[s] # {}
      BY <1>1, <1>2, <3>1, FirstRow
    <3>2. CASE o # Row(s) \/ drain[s] = {}
      BY <2>1, <3>2, DeliveryStep
    <3> QED
      BY <3>1, <3>2
  <2>2. state'[o] = state[o]
    BY <2>1, Elsewhere
  <2> QED
    BY <1>2, <2>2 DEF Written, IsDue
<1>3. ASSUME NEW d \in 1..MaxSessions, waits[d] = "wake", Row(d) = o
      PROVE  Written(o)'
  <2>1. CASE drain'[d] = drain[d] /\ waits'[d] = waits[d]
    BY <1>3, <2>1 DEF Written, Row
  <2>2. CASE Delivery(d)
    <3>1. drain[d] # {}
      BY <1>1, <1>3 DEF Drains
    <3>2. Woken(d)
      BY <1>1, <1>3, <2>2, <3>1 DEF Delivery, DrainSession, Routes, Throws, Holds,
         RequestApproval, NobodyToAsk, CardSent, CardFails, Turn
    <3>3. state'[o] = "delivered"
      BY <1>1, <1>3, <3>1, <3>2, Recorded DEF Woken
    <3> QED
      BY <3>3 DEF Written, IsDue
  <2>3. ASSUME NEW s \in 1..MaxSessions, Delivery(s), d # s
        PROVE  drain'[d] = drain[d] /\ waits'[d] = waits[d]
    BY <2>3, DeliveryStep
  <2>4. CASE \A s \in 1..MaxSessions : ~Delivery(s)
    BY <2>1, <2>4, Elsewhere
  <2> QED
    BY <2>1, <2>2, <2>3, <2>4
<1> QED
  BY <1>2, <1>3 DEF Written

(* A drain routes a row that was not written, and then awaits the wake.    *)
LEMMA RouteOnce ==
    ASSUME Base, NEW s \in 1..MaxSessions, Routes(s)
    PROVE  ~Written(Row(s)) /\ waits'[s] = "wake" /\ drain'[s] = drain[s]
<1>1. Tables /\ Memory /\ Bounds /\ Drains
  BY Types DEF Base
<1>2. drain[s] # {} /\ waits[s] = "none" /\ waits' = [waits EXCEPT ![s] = "wake"] /\ drain' = drain
  BY DEF Routes, Turn, Await
<1>3. Row(s) \in drain[s] /\ outbound[Row(s)].session = s /\ IsDue(Row(s))
  BY <1>1, <1>2, FirstRow
<1>4. ASSUME NEW d \in 1..MaxSessions, waits[d] = "wake", Row(d) = Row(s)
      PROVE  FALSE
  <2>1. drain[d] # {}
    BY <1>1, <1>4 DEF Drains
  <2>2. outbound[Row(d)].session = d
    BY <1>1, <2>1, FirstRow
  <2> QED
    BY <1>2, <1>3, <1>4, <2>2
<1> QED
  BY <1>1, <1>2, <1>3, <1>4 DEF Written, Memory

LEMMA CopiedStep ==
    ASSUME Base, Copied, Next
    PROVE  Copied'
<1>1. Grown /\ Tables /\ Memory /\ Limits
  BY StepTypes, Types DEF Base
<1>2. TypeOK' /\ restarts \in Nat /\ restarts' \in Nat
  <2>1. TypeOK'
    BY StepTypes
  <2>2. events' \in 0..MaxEvents /\ restarts' \in 0..events'
    BY <2>1 DEF TypeOK
  <2> QED
    BY <1>1, <2>1, <2>2, ConstantsOK DEF Limits
<1>3. restarts' = (IF HostRestart THEN restarts + 1 ELSE restarts)
  <2>1. ASSUME NEW s \in 1..MaxSessions, Arrive(s) \/ Agent(s) \/ ArchiveSession(s)
        PROVE  restarts' = restarts
    BY <2>1 DEF Arrive, ArchiveSession, Agent, Engage, FollowUp, SendPlain, QueryFails,
       QueryEnds, ContainerDies, SendBlock, SendTool, Event, eventVars
  <2>2. ASSUME NEW s \in 1..MaxSessions, Delivery(s)
        PROVE  restarts' = restarts
    BY <2>2, DeliveryStep
  <2>3. ASSUME NEW k, Decision(k) \/ Rules(k) \/ ArriveNew(k)
        PROVE  restarts' = restarts
    BY <2>3 DEF Decision, ReplayRoutes, ReplayRefused, Applied, Reject, Rules,
       AddDestination, RemoveDestination, SetPolicy, RemovePolicy, ArriveNew, Event, eventVars
  <2>4. HostRestart => restarts' = restarts + 1
    BY DEF HostRestart
  <2>5. HostRestart \/ restarts' = restarts
    BY <2>1, <2>2, <2>3 DEF Next
  <2> QED
    BY <2>4, <2>5
<1>4. SUFFICES ASSUME NEW o \in DOMAIN outbound', ~AskedAbout(o)'
               PROVE  Cardinality(Copies(o)') <= restarts' + (IF Written(o)' THEN 1 ELSE 0)
  BY DEF Copied
<1>5. ~AskedAbout(o)
  BY <1>1, <1>4 DEF AskedAbout, Grown
<1>6. CASE o \notin DOMAIN outbound
  <2>1. outbound' # outbound
    BY <1>4, <1>6
  <2>2. ~Routing(o) /\ Copies(o)' = Copies(o)
    BY <1>6, RoutingStep, CopyStep
  <2>3. Copies(o) = {}
    <3>1. ASSUME NEW r \in Copies(o)
          PROVE  FALSE
      <4>1. r \in DOMAIN inbound /\ inbound[r].via = o /\ inbound[r].source # 0
        BY <3>1 DEF Copies
      <4>2. inbound[r] \in InboundRow
        BY <1>1, <4>1, RowTypes
      <4>3. o = 0
        BY <1>6, <4>1, <4>2 DEF InboundRow
      <4>4. DOMAIN outbound' = 1..Len(outbound') /\ Len(outbound') \in Nat
        BY <1>2, LenProperties DEF TypeOK
      <4> QED
        BY <1>4, <4>3, <4>4
    <3> QED
      BY <3>1
  <2>4. Cardinality(Copies(o)') = 0 /\ Cardinality(Copies(o)') \in Nat
    BY <2>2, <2>3, FS_EmptySet
  <2>5. PICK n \in Nat, w \in Nat : n = restarts' /\ w = (IF Written(o)' THEN 1 ELSE 0)
    BY <1>2
  <2>6. 0 <= n + w
    OBVIOUS
  <2> QED
    BY <2>4, <2>5, <2>6
<1>7. CASE o \in DOMAIN outbound
  <2>1. /\ Cardinality(Copies(o)) \in Nat
        /\ Cardinality(Copies(o)) <= restarts + (IF Written(o) THEN 1 ELSE 0)
    BY <1>1, <1>5, <1>7, CopiesTyped DEF Copied
  <2>2. CASE ~Routing(o)
    <3>1. Copies(o)' = Copies(o)
      BY <2>2, CopyStep
    <3>2. CASE HostRestart
      BY <1>2, <1>3, <2>1, <3>1, <3>2
    <3>3. CASE ~HostRestart
      <4>1. Written(o) => Written(o)'
        BY <1>7, <3>3, WrittenStays
      <4> QED
        BY <1>2, <1>3, <2>1, <3>1, <3>3, <4>1
    <3> QED
      BY <3>2, <3>3
  <2>3. CASE Routing(o)
    <3>1. PICK s \in 1..MaxSessions : Routes(s) /\ o = Row(s)
      <4>1. \A k \in Asked : ReplayRoutes(k) => holds[k].row # o
        BY <1>5 DEF ReplayRoutes, Live, AskedAbout
      <4> QED
        BY <2>3, <4>1 DEF Routing
    <3>2. ~Written(o) /\ waits'[s] = "wake" /\ o = Row(s)'
      BY <3>1, RouteOnce DEF Row
    <3>3. Written(o)'
      BY <3>2 DEF Written
    <3>4. Cardinality(Copies(o)') <= Cardinality(Copies(o)) + 1
      BY CopyStep
    <3>5. restarts' \in {restarts, restarts + 1} /\ Cardinality(Copies(o)') \in Nat
      <4>1. Copies(o)' \in SUBSET (1..Len(inbound')) /\ Len(inbound') \in Nat
        BY <1>2, LenProperties DEF Copies, TypeOK
      <4>2. Cardinality(Copies(o)') \in Nat
        BY <4>1, IntervalSets, FS_CardinalityType
      <4> QED
        BY <1>3, <4>2
    <3> QED
      BY <1>2, <2>1, <3>2, <3>3, <3>4, <3>5
  <2> QED
    BY <2>2, <2>3
<1> QED
  BY <1>6, <1>7

-----------------------------------------------------------------------------
(* The theorems.                                                           *)

LEMMA InitIInv == Init => IInv
<1> SUFFICES ASSUME Init
             PROVE  IInv
  OBVIOUS
<1>1. /\ Start \in Seq(Groups) /\ Len(Start) \in Nat /\ DOMAIN Start = 1..Len(Start)
      /\ \A s \in DOMAIN Start : Start[s] \in Groups
      /\ Len(Start) <= MaxSessions
  BY ConstantsOK, LenProperties, ElementOfSeq
<1>2. sessions \in Seq(SessionRow) /\ Len(sessions) <= MaxSessions
  <2>1. sessions \in [1..Len(Start) -> SessionRow]
    BY <1>1 DEF Init, SessionRow
  <2>2. sessions \in Seq(SessionRow)
    BY <1>1, <2>1, SeqDef
  <2>3. Len(sessions) = Len(Start)
    BY <1>1, <2>1, <2>2, LenProperties
  <2> QED
    BY <1>1, <2>2, <2>3
<1>3. /\ inbound = <<>> /\ outbound = <<>> /\ holds = <<>> /\ state = <<>> /\ taken = {}
      /\ DOMAIN inbound = {} /\ DOMAIN outbound = {} /\ DOMAIN holds = {} /\ DOMAIN state = {}
  BY EmptySeq DEF Init
<1>4. Tables /\ Bounds
  <2>1. inbound \in Seq(InboundRow) /\ outbound \in Seq(OutboundRow) /\ holds \in Seq(HoldRow)
    BY <1>3, EmptySeq
  <2>2. Len(outbound) = 0
    BY <1>3, EmptySeq
  <2> QED
    BY <1>2, <2>1, <2>2, ConstantsOK DEF Tables, Bounds
<1>5. Turns
  BY <1>3, IdleTyped DEF Init, Turns
<1>6. Limits
  BY ConstantsOK DEF Init, Limits
<1>7. Memory
  <2>1. state \in [DOMAIN outbound -> {"due", "delivered", "failed"}]
    BY <1>3
  <2> QED
    BY <1>3, <2>1, ConstantsOK DEF Init, Memory
<1>8. Queries /\ Drains
  BY DEF Init, Queries, Drains
<1>9. Peers /\ Accounted /\ NothingVanishes /\ Copied
  BY <1>3 DEF Init, Peers, Accounted, NothingVanishes, Copied
<1> QED
  BY <1>4, <1>5, <1>6, <1>7, <1>8, <1>9, Types DEF IInv

LEMMA Stutter == IInv /\ UNCHANGED vars => IInv'
<1> SUFFICES ASSUME IInv, UNCHANGED vars
             PROVE  IInv'
  OBVIOUS
<1> USE DEF vars, agentVars, rowVars, hostVars, ruleVars, eventVars
<1>1. Tables /\ Turns /\ Memory /\ Limits
  BY Types DEF IInv
<1>2. Tables' /\ Turns' /\ Memory' /\ Limits' /\ Bounds'
  BY <1>1, TablesUnchanged DEF IInv, Turns, Memory, Limits, Bounds
<1>3. Queries' /\ Drains' /\ Peers'
  BY DEF IInv, Queries, Drains, Peers, IsDue, GroupOf
<1>4. Accounted' /\ NothingVanishes'
  BY DEF IInv, Accounted, NothingVanishes, Answered, Kept, Live, Row
<1>5. Copied'
  BY DEF IInv, Copied, AskedAbout, Copies, Written, IsDue, Row
<1> QED
  BY <1>2, <1>3, <1>4, <1>5, TypesNext DEF IInv

LEMMA NextIInv == IInv /\ [Next]_vars => IInv'
<1> SUFFICES ASSUME IInv, Next
             PROVE  IInv'
  BY Stutter
<1>1. Base
  BY DEF IInv, Base
<1> QED
  BY <1>1, StepTypes, QueriesStep, DrainsStep, PeersStep, AccountedStep, VanishesStep,
     CopiedStep DEF IInv

LEMMA Invariance == Spec => []IInv
BY InitIInv, NextIInv, PTL DEF Spec

(* Every row refers to sessions and rows that exist, a query only to rows  *)
(* that were taken, and the memory of the host only to rows of its tables. *)
THEOREM TypeCorrect == Spec => []TypeOK
<1>1. IInv => TypeOK
  BY DEF IInv
<1> QED
  BY <1>1, Invariance, PTL

(* Whatever fails, whatever is held, refused or replayed, and whenever the *)
(* host restarts, a row that counts as delivered is in an inbox or waits   *)
(* for a decision.                                                         *)
THEOREM NeverVanishes == Spec => []NothingVanishes
<1>1. IInv => NothingVanishes
  BY DEF IInv
<1> QED
  BY <1>1, Invariance, PTL

(* Two polls, retries and refusals never write a message twice: only a     *)
(* restart between writing and recording does, once each.                  *)
THEOREM WrittenOnce == Spec => []OneCopy
<1>1. IInv => OneCopy
  <2> SUFFICES ASSUME IInv, NEW o \in DOMAIN outbound, \A k \in DOMAIN holds : holds[k].row # o
               PROVE  Cardinality(Copies(o)) <= 1 + restarts
    BY DEF OneCopy
  <2>1. Cardinality(Copies(o)) <= restarts + (IF Written(o) THEN 1 ELSE 0)
    BY DEF IInv, Copied, AskedAbout
  <2>2. Cardinality(Copies(o)) \in Nat
    BY CopiesTyped, Types DEF IInv
  <2>3. restarts \in Nat
    BY Types, ConstantsOK DEF IInv, Limits
  <2> QED
    BY <2>1, <2>2, <2>3
<1> QED
  BY <1>1, Invariance, PTL

(* A row of another agent comes from the routing of an outbound row.       *)
LEMMA RoutedBy ==
    ASSUME IInv, Next, NEW r \in Routed
    PROVE  /\ Routing(inbound'[r].via)
           /\ inbound'[r].session = ResolveTargetSession(inbound'[r].via)
<1>1. Base /\ Tables
  BY Types DEF IInv, Base
<1>2. r \in DOMAIN inbound' /\ r \notin DOMAIN inbound /\ inbound'[r].source # 0
  BY DEF Routed
<1>3. PICK o : Routing(o) /\ inbound'[r].via = o
  BY <1>1, <1>2, InboxStep
<1>4. inbound' = Append(inbound, [session |-> ResolveTargetSession(o), peer |-> Sender(o),
                                  source |-> outbound[o].session, via |-> o])
  BY <1>1, <1>3, RoutingStep
<1>5. inbound'[r].session = ResolveTargetSession(o)
  BY <1>1, <1>2, <1>4, OneRow
<1> QED
  BY <1>3, <1>5

(* Every message between agents enters an open session of the group it is  *)
(* addressed to, also one that is made for it in the same step.            *)
THEOREM LandsRight == Spec => LandsWhereAddressed
<1>1. ASSUME IInv, Next, NEW r \in Routed
      PROVE  /\ sessions'[inbound'[r].session].active
             /\ sessions'[inbound'[r].session].group = outbound[inbound'[r].via].to
  <2>1. PICK o : o = inbound'[r].via
    OBVIOUS
  <2>2. Routing(o) /\ inbound'[r].session = ResolveTargetSession(o)
    BY <1>1, <2>1, RoutedBy
  <2>3. o \in DOMAIN outbound /\ PerformAgentRoute(o) /\ outbound' = outbound
    BY <1>1, <2>2, RoutingStep DEF IInv, Base
  <2>4. /\ sessions'[ResolveTargetSession(o)].active
        /\ sessions'[ResolveTargetSession(o)].group = outbound[o].to
    BY <1>1, <2>3, Performed, Types DEF IInv
  <2> QED
    BY <2>1, <2>2, <2>4
<1>2. IInv /\ [Next]_vars =>
        [\A r \in Routed : LET to == sessions'[inbound'[r].session]
                           IN  to.active /\ to.group = outbound[inbound'[r].via].to]_vars
  BY <1>1
<1> QED
  BY <1>2, Invariance, PTL DEF Spec, LandsWhereAddressed

(* No route and no replay passes without a destination, nor without the    *)
(* person a policy asks for, whatever was changed since it was held.       *)
THEOREM Authorised == Spec => RouteIsAuthorised
<1>1. ASSUME IInv, Next, NEW r \in Routed, NEW o, o = inbound'[r].via
      PROVE  \/ Self(o)
             \/ /\ Edge(o) \in links
                /\ Edge(o) \in policies => \E k \in DOMAIN holds : holds[k].row = o /\ Live(k)
  <2>1. Routing(o)
    BY <1>1, RoutedBy
  <2>2. CASE \E s \in 1..MaxSessions : Routes(s) /\ o = Row(s)
    BY <2>2 DEF Routes, Denied, Held
  <2>3. CASE \E k \in Asked : ReplayRoutes(k) /\ o = holds[k].row
    BY <2>3 DEF ReplayRoutes, Denied, Live
  <2> QED
    BY <2>1, <2>2, <2>3 DEF Routing
<1>2. IInv /\ [Next]_vars =>
        [\A r \in Routed :
            LET o == inbound'[r].via
            IN  Self(o) \/ /\ Edge(o) \in links
                           /\ Edge(o) \in policies =>
                                \E k \in DOMAIN holds : holds[k].row = o /\ Live(k)]_vars
  BY <1>1
<1> QED
  BY <1>2, Invariance, PTL DEF Spec, RouteIsAuthorised

(* An answer returns to the session that asked, from any number of         *)
(* sessions on both sides.                                                 *)
THEOREM Returns == Spec => AnswersReturn
<1> DEFINE asked(o) == {q \in DOMAIN inbound : /\ inbound[q].session = outbound[o].session
                                               /\ inbound[q].peer = outbound[o].to
                                               /\ inbound[q].source # 0}
           partners(o) == {inbound[q].source : q \in asked(o)}
<1>1. ASSUME IInv, Next, NEW r \in Routed, NEW o, o = inbound'[r].via, NEW t \in Made,
             partners(o) = {t}, Active(t), ReplySource(o) \in {0, t}
      PROVE  inbound'[r].session = t
  <2>1. Tables /\ Peers
    BY <1>1, Types DEF IInv
  <2>2. PICK q \in asked(o) : inbound[q].source = t
    BY <1>1
  <2>3. GroupOf(t) = outbound[o].to /\ t # 0
    BY <1>1, <2>1, <2>2, RowTypes DEF Peers
  <2>4. Origin(o) = t
    <3>1. CASE ReplySource(o) = t
      BY <2>3, <3>1 DEF Origin
    <3>2. CASE ReplySource(o) = 0
      <4>1. asked(o) \in SUBSET (1..Len(inbound)) /\ Len(inbound) \in Nat /\ asked(o) # {}
        BY <2>1, <2>2, RowTypes
      <4>2. Max(asked(o)) \in asked(o)
        BY <4>1, MaxIn
      <4>3. inbound[Max(asked(o))].source \in partners(o)
        BY <4>2
      <4>4. PeerSource(o) = t
        BY <1>1, <4>1, <4>3 DEF PeerSource
      <4> QED
        BY <3>2, <4>4 DEF Origin
    <3> QED
      BY <1>1, <3>1, <3>2
  <2>5. t \in ActiveOf(outbound[o].to)
    BY <1>1, <2>3 DEF ActiveOf
  <2>6. inbound'[r].session = ResolveTargetSession(o)
    BY <1>1, RoutedBy
  <2> QED
    BY <2>4, <2>5, <2>6 DEF ResolveTargetSession
<1>2. IInv /\ [Next]_vars =>
        [\A r \in Routed :
            LET o == inbound'[r].via
                to == {inbound[q].source : q \in {q \in DOMAIN inbound :
                            /\ inbound[q].session = outbound[o].session
                            /\ inbound[q].peer = outbound[o].to
                            /\ inbound[q].source # 0}}
            IN  \A t \in Made :
                    /\ to = {t} /\ Active(t)
                    /\ ReplySource(o) \in {0, t}
                    => inbound'[r].session = t]_vars
  BY <1>1
<1> QED
  BY <1>2, Invariance, PTL DEF Spec, AnswersReturn

-----------------------------------------------------------------------------
(* AgentRouting implements the queue.                                      *)

Letter == 1..MaxSends
Seen == {o \in Letter : Brought(o)}

LEMMA KnownGrows ==
    ASSUME Grown, NEW o, Brought(o)
    PROVE  Brought(o)'
BY DEF Grown, Brought, Answered, AskedAbout

(* Nobody is asked about another row.                                      *)
SameAsked ==
    DOMAIN holds' = DOMAIN holds /\ \A k \in DOMAIN holds : holds'[k].row = holds[k].row

LEMMA KnownBy ==
    ASSUME Tables, SameAsked, NEW row, inbound' = Append(inbound, row),
           NEW o, Brought(o)', ~Brought(o)
    PROVE  row.via = o
BY OneRow DEF SameAsked, Brought, Answered, AskedAbout

LEMMA KnownAlready ==
    ASSUME SameAsked, inbound' = inbound, NEW o, Brought(o)'
    PROVE  Brought(o)
BY DEF SameAsked, Brought, Answered, AskedAbout

(* A row becomes known while it is due: what is written for a row that has *)
(* been recorded comes of its hold.                                        *)
LEMMA KnownNewly ==
    ASSUME Base, Next, NEW o \in Letter, Brought(o)', ~Brought(o)
    PROVE  o \in DOMAIN outbound /\ IsDue(o)
<1>1. Tables /\ Memory /\ Bounds /\ Drains
  BY Types DEF Base
<1>2. holds' = holds => SameAsked
  BY DEF SameAsked
<1>3. ASSUME NEW k \in DOMAIN holds, NEW x \in {"asked", "applying", "closed"},
             holds' = [holds EXCEPT ![k].state = x]
      PROVE  SameAsked
  BY <1>1, <1>3, HoldChanged DEF SameAsked
<1>4. ASSUME NEW p, PerformAgentRoute(p) \/ NotifyAgent(p), SameAsked
      PROVE  p = o
  BY <1>1, <1>4, KnownBy DEF PerformAgentRoute, NotifyAgent
<1>5. ASSUME NEW s, FromChat(s), holds' = holds
      PROVE  FALSE
  BY <1>1, <1>2, <1>5, KnownBy DEF FromChat, Letter
<1>6. ASSUME UNCHANGED <<inbound, holds>>
      PROVE  FALSE
  BY <1>2, <1>6, KnownAlready
<1>7. ASSUME NEW s \in 1..MaxSessions, Arrive(s) \/ Agent(s) \/ ArchiveSession(s)
      PROVE  FALSE
  BY <1>5, <1>6, <1>7 DEF Arrive, ArchiveSession, Agent, Engage, FollowUp, SendPlain, QueryFails,
     QueryEnds, ContainerDies, SendBlock, SendTool
<1>8. ASSUME NEW s \in 1..MaxSessions, Delivery(s)
      PROVE  o \in DOMAIN outbound /\ IsDue(o)
  <2>1. drain[s] # {} => Row(s) \in DOMAIN outbound /\ IsDue(Row(s))
    BY <1>1, FirstRow
  <2>2. waits[s] # "none" => drain[s] # {}
    BY <1>1 DEF Drains
  <2>3. CASE Routes(s)
    BY <1>2, <1>4, <2>1, <2>3 DEF Routes, Turn
  <2>4. CASE NobodyToAsk(s)
    BY <1>2, <1>4, <2>1, <2>2, <2>4 DEF NobodyToAsk
  <2>5. CASE CardFails(s)
    <3>1. SameAsked
      BY <1>3, <2>5 DEF CardFails, CloseHold
    <3> QED
      BY <1>4, <2>1, <2>2, <2>5, <3>1 DEF CardFails
  <2>6. CASE RequestApproval(s)
    <3> DEFINE hold == [row |-> Row(s), state |-> "asked"]
    <3>1. holds' = Append(holds, hold) /\ holds \in Seq(HoldRow \cup {hold})
      BY <1>1, <2>6, SeqMonotonic DEF RequestApproval, Tables
    <3>2. /\ DOMAIN holds' = DOMAIN holds \cup {Len(holds) + 1}
          /\ \A k \in DOMAIN holds : holds'[k] = holds[k]
          /\ holds'[Len(holds) + 1] = hold
      BY <3>1, Appended
    <3>3. o = Row(s)
      BY <2>6, <3>2 DEF RequestApproval, Brought, Answered, AskedAbout
    <3> QED
      BY <2>1, <2>2, <2>6, <3>3 DEF RequestApproval
  <2>7. CASE DrainSession(s) \/ Woken(s) \/ Throws(s) \/ Holds(s) \/ CardSent(s)
    BY <1>6, <2>7 DEF DrainSession, Woken, Throws, Holds, CardSent
  <2> QED
    BY <1>8, <2>3, <2>4, <2>5, <2>6, <2>7 DEF Delivery
<1>9. ASSUME NEW k, Decision(k)
      PROVE  FALSE
  <2>1. k \in DOMAIN holds
    BY <1>9 DEF Decision, ReplayRoutes, ReplayRefused, Applied, Reject, Live
  <2>2. SameAsked
    BY <1>3, <1>9, <2>1 DEF Decision, ReplayRoutes, ReplayRefused, Applied, Reject, CloseHold
  <2>3. holds[k].row # o
    BY <2>1 DEF Brought, AskedAbout
  <2>4. ~Applied(k)
    BY <2>2, KnownAlready DEF Applied
  <2> QED
    BY <1>4, <1>9, <2>2, <2>3, <2>4 DEF Decision, ReplayRoutes, ReplayRefused, Reject
<1>10. ASSUME HostRestart
       PROVE  FALSE
  <2>1. \A k \in DOMAIN holds : holds[k] \in HoldRow
    BY <1>1, RowTypes
  <2>2. SameAsked
    BY <1>10, <2>1 DEF HostRestart, SameAsked, HoldRow
  <2> QED
    BY <1>10, <2>2, KnownAlready DEF HostRestart
<1>11. ASSUME NEW e, Rules(e)
       PROVE  FALSE
  BY <1>6, <1>11 DEF Rules, AddDestination, RemoveDestination, SetPolicy, RemovePolicy
<1>12. ASSUME NEW g, ArriveNew(g)
       PROVE  FALSE
  BY <1>5, <1>12 DEF ArriveNew
<1> QED
  BY <1>7, <1>8, <1>9, <1>10, <1>11, <1>12 DEF Next

(* A row is settled once, and as delivered only when it is known.          *)
LEMMA SettledOnce ==
    ASSUME Base, Accounted, NothingVanishes, Next, NEW o \in DOMAIN outbound, state'[o] # state[o]
    PROVE  /\ IsDue(o)
           /\ state'[o] = "delivered" => Brought(o)'
<1>1. Grown /\ Tables /\ Memory /\ Bounds /\ Drains /\ NothingVanishes'
  BY StepTypes, Types, VanishesStep DEF Base
<1>2. o \in DOMAIN outbound'
  BY <1>1 DEF Grown
<1>3. state'[o] = "delivered" => Brought(o)'
  BY <1>1, <1>2 DEF NothingVanishes, Brought, Answered, AskedAbout
<1>4. ~HostRestart
  BY DEF HostRestart, rowVars
<1>5. PICK s \in 1..MaxSessions : Delivery(s)
  BY <1>4, Elsewhere
<1>6. o = Row(s) /\ drain[s] # {}
  BY <1>5, DeliveryStep
<1> QED
  BY <1>1, <1>3, <1>6, FirstRow

(* Rows of outbound are written one by one.                                *)
LEMMA OneSent ==
    ASSUME Base, Next, DOMAIN outbound' # DOMAIN outbound
    PROVE  \E m \in Letter : m \notin DOMAIN outbound /\ DOMAIN outbound' = DOMAIN outbound \cup {m}
<1>1. Tables /\ Len(outbound) <= MaxSends
  BY Types DEF Base, Bounds
<1>2. ASSUME NEW s, NEW g, NEW r, WriteMessageOut(s, g, r)
      PROVE  \E m \in Letter : m \notin DOMAIN outbound
                              /\ DOMAIN outbound' = DOMAIN outbound \cup {m}
  <2> DEFINE row == [session |-> s, to |-> g, reply |-> r]
  <2>1. /\ outbound' = Append(outbound, row) /\ Len(outbound) < MaxSends
        /\ outbound \in Seq(OutboundRow \cup {row})
    BY <1>1, <1>2, SeqMonotonic DEF WriteMessageOut, Tables
  <2>2. /\ DOMAIN outbound' = DOMAIN outbound \cup {Len(outbound) + 1}
        /\ Len(outbound) + 1 \notin DOMAIN outbound /\ Len(outbound) \in Nat
    BY <2>1, Appended
  <2>3. Len(outbound) + 1 \in Letter
    BY <2>1, <2>2, ConstantsOK DEF Letter
  <2> QED
    BY <2>2, <2>3
<1>3. ~\E s \in 1..MaxSessions : Delivery(s)
  BY DeliveryStep
<1>4. ~HostRestart
  BY DEF HostRestart, rowVars
<1>5. PICK s \in 1..MaxSessions : Agent(s)
  BY <1>3, <1>4 DEF Next, Arrive, ArriveNew, ArchiveSession, Decision, ReplayRoutes, ReplayRefused,
     Applied, Reject, Rules, AddDestination, RemoveDestination, SetPolicy, RemovePolicy, rowVars
<1>6. ~Engage(s) /\ ~FollowUp(s) /\ ~QueryEnds(s) /\ ~ContainerDies(s)
  BY DEF Engage, FollowUp, QueryEnds, ContainerDies, rowVars
<1> QED
  BY <1>2, <1>5, <1>6 DEF Agent, SendBlock, SendTool, SendPlain, QueryFails

(* The steps of the abstract queue, told row by row.                       *)
LettersPosted(m) ==
    /\ Fate(m) = "absent" /\ Fate(m)' = "queued"
    /\ \A o \in Letter \ {m} : Fate(o)' = Fate(o)
    /\ Seen' = Seen

LettersWorked ==
    /\ Seen \subseteq Seen' /\ \A o \in Seen' \ Seen : Fate(o) = "queued"
    /\ \A o \in Letter : \/ Fate(o)' = Fate(o)
                         \/ Fate(o) = "queued" /\ Fate(o)' = "dead"
                         \/ Fate(o) = "queued" /\ Fate(o)' = "done" /\ o \in Seen'

LEMMA LettersPost ==
    ASSUME NEW m \in Letter, LettersPosted(m)
    PROVE  Letters!Next
BY DEF LettersPosted, Letters!Next, Letters!Post, Seen, Letter

LEMMA LettersWorkSteps ==
    ASSUME NEW handled \in SUBSET Letters!Queued, NEW done \in SUBSET Letters!Queued,
           NEW dead \in SUBSET Letters!Queued, Letters!Work(handled, done, dead)
    PROVE  Letters!Next
BY DEF Letters!Next

LEMMA LettersWork ==
    ASSUME LettersWorked
    PROVE  Letters!Next
<1>1. PICK handled : handled = Seen' \ Seen
  OBVIOUS
<1>2. PICK done : done = {o \in Letter : Fate(o) = "queued" /\ Fate(o)' = "done"}
  OBVIOUS
<1>3. PICK dead : dead = {o \in Letter : Fate(o) = "queued" /\ Fate(o)' = "dead"}
  OBVIOUS
<1>4. /\ handled \in SUBSET Letters!Queued
      /\ done \in SUBSET Letters!Queued /\ dead \in SUBSET Letters!Queued
  BY <1>1, <1>2, <1>3 DEF LettersWorked, Letters!Queued, Letter, Seen
<1>5. /\ \A o \in done \ handled : Brought(o)
      /\ done \cap dead = {}
      /\ \A o \in Letter : (o \in Seen' <=> Brought(o)') /\ (o \in Seen <=> Brought(o))
  BY <1>1, <1>2, <1>3 DEF LettersWorked, Seen
<1>6. [o \in Letter |-> Fate(o)]' = [o \in Letter |-> IF o \in done THEN "done"
                                                    ELSE IF o \in dead THEN "dead"
                                                    ELSE [p \in Letter |-> Fate(p)][o]]
  BY <1>2, <1>3 DEF LettersWorked
<1>7. \A o \in Letter : (IF Brought(o) THEN 1 ELSE 0)'
                          = IF o \in handled THEN (IF Brought(o) THEN 1 ELSE 0) + 1
                                              ELSE IF Brought(o) THEN 1 ELSE 0
  BY <1>1, <1>5 DEF LettersWorked
<1>8. done \subseteq Letter
  BY <1>2
<1>9. Letters!Work(handled, done, dead)
  BY <1>5, <1>6, <1>7, <1>8 DEF Letters!Work, Letter
<1> QED
  BY <1>4, <1>9, LettersWorkSteps

(* Every step posts a row or works on some.                                *)
LEMMA LettersStep ==
    ASSUME IInv, Next
    PROVE  Letters!Next
<1>1. Base /\ Tables /\ Memory /\ Grown /\ Bounds
  BY StepTypes, Types DEF IInv, Base
<1>2. Seen \subseteq Seen'
  BY <1>1, KnownGrows DEF Seen, Letter
<1>3. \A o \in Seen' \ Seen : Fate(o) = "queued"
  BY <1>1, KnownNewly DEF Seen, Letter, Fate
<1>4. CASE DOMAIN outbound' = DOMAIN outbound
  <2>1. ASSUME NEW o \in DOMAIN outbound, o \in Letter
        PROVE  \/ Fate(o)' = Fate(o)
               \/ Fate(o) = "queued" /\ Fate(o)' = "dead"
               \/ Fate(o) = "queued" /\ Fate(o)' = "done" /\ o \in Seen'
    <3>1. CASE state'[o] = state[o]
      BY <1>4, <3>1 DEF Fate, IsDue
    <3>2. CASE state'[o] # state[o]
      <4>1. IsDue(o) /\ (state'[o] = "delivered" => Brought(o)')
        BY <1>1, <3>2, SettledOnce DEF IInv
      <4> QED
        BY <1>4, <2>1, <3>2, <4>1 DEF Fate, IsDue, Seen, Letter
    <3> QED
      BY <3>1, <3>2
  <2>2. \A o \in Letter : o \notin DOMAIN outbound => Fate(o)' = Fate(o)
    BY <1>4 DEF Fate
  <2> QED
    BY <1>2, <1>3, <2>1, <2>2, LettersWork DEF LettersWorked
<1>5. CASE DOMAIN outbound' # DOMAIN outbound
  <2>1. \A s \in 1..MaxSessions : ~Delivery(s)
    BY <1>1, <1>5, DeliveryStep
  <2>2. ~HostRestart
    BY <1>5 DEF HostRestart, rowVars
  <2>3. PICK m \in Letter : m \notin DOMAIN outbound /\ DOMAIN outbound' = DOMAIN outbound \cup {m}
    BY <1>1, <1>5, OneSent
  <2>4. /\ \A o \in DOMAIN outbound : state'[o] = state[o]
        /\ state'[m] = "due" /\ UNCHANGED <<inbound, holds>>
    BY <1>1, <2>1, <2>2, <2>3, Elsewhere
  <2>5. Seen' = Seen
    BY <2>4 DEF Seen, Brought, Answered, AskedAbout
  <2>6. LettersPosted(m)
    BY <2>3, <2>4, <2>5 DEF LettersPosted, Fate, IsDue
  <2> QED
    BY <2>3, <2>6, LettersPost
<1> QED
  BY <1>4, <1>5

(* What delivery.ts, agent-route.ts and message-gate.ts do to a message    *)
(* between agents is what the abstract queue allows: it is recorded as     *)
(* delivered when it has been written or asked about, is settled once, and *)
(* nothing new becomes of it afterwards.                                   *)
THEOREM RoutingImplementsLetters == Spec => ImplementsLetters
<1>1. Init => Letters!Init
  BY DEF Init, Letters!Init, Fate, Brought
<1>2. IInv /\ [Next]_vars => [Letters!Next]_(Letters!vars)
  <2> SUFFICES ASSUME IInv, [Next]_vars
               PROVE  [Letters!Next]_(Letters!vars)
    OBVIOUS
  <2>1. CASE Next
    BY <2>1, LettersStep
  <2>2. CASE UNCHANGED vars
    BY <2>2 DEF vars, rowVars, Letters!vars, Fate, IsDue, Brought
  <2> QED
    BY <2>1, <2>2
<1> QED
  BY <1>1, <1>2, Invariance, PTL DEF Spec, ImplementsLetters, Letters!Spec

(* So what is recorded as delivered or given up stays so, and nobody hears *)
(* of a message for the first time after it was given up.                  *)
THEOREM RoutedRowsRest == Spec => Letters!SettledIsFinal
<1>1. [Letters!Next]_(Letters!vars) => [Letters!LeavesSettled]_(Letters!vars)
  BY DEF Letters!LeavesSettled, Letters!Next, Letters!Post, Letters!Work, Letters!Queued, Letters!vars
<1> QED
  BY <1>1, RoutingImplementsLetters, PTL DEF ImplementsLetters, Letters!Spec, Letters!SettledIsFinal
=============================================================================
