----------------------------- MODULE SeqNumbers -----------------------------
(***************************************************************************)
(* The numbers of the rows of a session.  The host writes messages_in and, *)
(* for slash commands and synchronous turns, messages_out; two processes of*)
(* the container write messages_out: the poll loop and the MCP tool server.*)
(* The agent names a message by its number alone, so messages_in and       *)
(* messages_out share one number space.                                    *)
(*                                                                         *)
(* Every statement of SQLite is one step.  The host takes its numbers and  *)
(* inserts without letting go; writeMessageOut reads the two maxima and    *)
(* inserts in three statements on two databases, without a transaction.    *)
(***************************************************************************)
EXTENDS Naturals, FiniteSets, FiniteSetsExt

CONSTANTS
    Writers,    \* the processes of the container that write messages_out
    MaxSeq      \* bound: the highest number given out

ASSUME MaxSeqIsNat == MaxSeq \in Nat

VARIABLES
    inbox,      \* the numbers in messages_in
    outbox,     \* the numbers in messages_out (UNIQUE)
    step,       \* how far a writer is in writeMessageOut
    maxOut,     \* what it has read
    maxIn,
    direct,     \* history: the numbers given by writeOutboundDirect
    before,     \* history: the rows that were there when the write began
    overtaken   \* history: somebody wrote messages_out since maxOut was read

readVars == <<step, maxOut, maxIn>>
numberVars == <<inbox, outbox, step, maxOut, maxIn, direct, before, overtaken>>

Even == {n \in Nat : n % 2 = 0}

NumbersTypeOK ==
    /\ inbox \subseteq Even /\ IsFiniteSet(inbox)
    /\ outbox \subseteq Nat /\ IsFiniteSet(outbox)
    /\ step \in [Writers -> {"idle", "readOut", "readBoth"}]
    /\ maxOut \in [Writers -> Nat]
    /\ maxIn \in [Writers -> Nat]
    /\ direct \subseteq outbox
    /\ before \in [Writers -> SUBSET Nat]
    /\ overtaken \subseteq Writers

NumbersInit ==
    /\ inbox = {} /\ outbox = {}
    /\ step = [w \in Writers |-> "idle"]
    /\ maxOut = [w \in Writers |-> 0]
    /\ maxIn = [w \in Writers |-> 0]
    /\ direct = {}
    /\ before = [w \in Writers |-> {}]
    /\ overtaken = {}

(* COALESCE(MAX(seq), 0)                                                   *)
Top(seqs) == Max(seqs \cup {0})

(* Bug: the next number, whatever its parity.                              *)
NextAny(top) == top + 1

(* nextEvenSeq                                                             *)
NextEven(top) == IF top < 2 THEN 2 ELSE top + 2 - (top % 2)

(* Bug: an odd maximum is taken for a free number.                         *)
NextOddOrSame(top) == IF top % 2 = 0 THEN top + 1 ELSE top

(* The number writeMessageOut chooses.                                     *)
NextOdd(top) == IF top % 2 = 0 THEN top + 1 ELSE top + 2

-----------------------------------------------------------------------------
(* The host.                                                               *)

(* insertMessage and the scheduling helpers: nextEvenSeq looks at          *)
(* messages_in only.                                                       *)
InsertMessage ==
    LET seq == NextEven(Top(inbox)) IN
    /\ seq <= MaxSeq
    /\ inbox' = inbox \cup {seq}
    /\ UNCHANGED <<outbox, readVars, direct, before, overtaken>>

(* deleteTask removes the rows of a series.                                *)
DeleteTask(series) ==
    /\ inbox' = inbox \ series
    /\ before' = [w \in Writers |-> before[w] \ series]
    /\ UNCHANGED <<outbox, readVars, direct, overtaken>>

(* writeOutboundDirect: the next number but one, in a single statement.    *)
WriteOutboundDirect ==
    LET seq == Top(outbox) + 2 IN
    /\ seq <= MaxSeq
    /\ outbox' = outbox \cup {seq}
    /\ direct' = direct \cup {seq}
    /\ overtaken' = {w \in Writers : step[w] # "idle"}
    /\ UNCHANGED <<inbox, readVars, before>>

-----------------------------------------------------------------------------
(* writeMessageOut.                                                        *)

ReadOut(w) ==
    /\ step[w] = "idle"
    /\ step' = [step EXCEPT ![w] = "readOut"]
    /\ maxOut' = [maxOut EXCEPT ![w] = Top(outbox)]
    /\ before' = [before EXCEPT ![w] = inbox \cup outbox]
    /\ overtaken' = overtaken \ {w}
    /\ UNCHANGED <<inbox, outbox, maxIn, direct>>

(* Bug: only the table of the container is looked at.                      *)
ReadOwnOnly(w) ==
    /\ step[w] = "readOut"
    /\ step' = [step EXCEPT ![w] = "readBoth"]
    /\ maxIn' = [maxIn EXCEPT ![w] = 0]
    /\ UNCHANGED <<inbox, outbox, maxOut, direct, before, overtaken>>

ReadIn(w) ==
    /\ step[w] = "readOut"
    /\ step' = [step EXCEPT ![w] = "readBoth"]
    /\ maxIn' = [maxIn EXCEPT ![w] = Top(inbox)]
    /\ UNCHANGED <<inbox, outbox, maxOut, direct, before, overtaken>>

Chosen(w) == NextOdd(Max({maxOut[w], maxIn[w]}))

(* The variables of the call are gone.                                     *)
Return(writers) ==
    /\ step' = [w \in Writers |-> IF w \in writers THEN "idle" ELSE step[w]]
    /\ maxOut' = [w \in Writers |-> IF w \in writers THEN 0 ELSE maxOut[w]]
    /\ maxIn' = [w \in Writers |-> IF w \in writers THEN 0 ELSE maxIn[w]]
    /\ before' = [w \in Writers |-> IF w \in writers THEN {} ELSE before[w]]

Insert(w) ==
    /\ step[w] = "readBoth" /\ Chosen(w) \notin outbox
    /\ Chosen(w) <= MaxSeq
    /\ outbox' = outbox \cup {Chosen(w)}
    /\ overtaken' = {v \in Writers : v # w /\ step[v] # "idle"}
    /\ Return({w})
    /\ UNCHANGED <<inbox, direct>>

(* The UNIQUE constraint refuses the row: writeMessageOut throws and the   *)
(* message is not written.                                                 *)
Refused(w) ==
    /\ step[w] = "readBoth" /\ Chosen(w) \in outbox
    /\ overtaken' = overtaken \ {w}
    /\ Return({w})
    /\ UNCHANGED <<inbox, outbox, direct>>

(* The container ends in the middle of its writes.                         *)
ContainerEnds ==
    /\ \E w \in Writers : step[w] # "idle"
    /\ overtaken' = {}
    /\ Return(Writers)
    /\ UNCHANGED <<inbox, outbox, direct>>

NumbersNext ==
    \/ InsertMessage \/ WriteOutboundDirect
    \/ \E series \in (SUBSET inbox) \ {{}} : DeleteTask(series)
    \/ \E w \in Writers : ReadOut(w) \/ ReadIn(w) \/ Insert(w) \/ Refused(w)
    \/ ContainerEnds

NumbersSpec == NumbersInit /\ [][NumbersNext]_numberVars

-----------------------------------------------------------------------------
(* Properties.                                                             *)

(* Only a reply the host itself wrote to messages_out can share its number *)
(* with a row of messages_in: what the container writes never does, however*)
(* stale the maxima are that it goes by.                                   *)
OnlyRepliesCollide == inbox \cap outbox \subseteq direct

(* A message of the container sorts after every row, of both tables, that  *)
(* was there when its write began and has not been deleted since.          *)
SortsAfter ==
    [][\A w \in Writers : outbox' # outbox /\ step'[w] # step[w]
          => \A old \in before[w], seq \in outbox' \ outbox : old < seq]_numberVars

(* The database refuses a message only when another process wrote          *)
(* messages_out in the middle of the write: alone, a writer never loses a  *)
(* message.                                                                *)
RefusedOnlyWhenOvertaken ==
    \A w \in Writers : step[w] = "readBoth" /\ Chosen(w) \in outbox => w \in overtaken
=============================================================================
