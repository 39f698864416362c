-------------------------- MODULE AtLeastOnceQueue --------------------------
(***************************************************************************)
(* What a table of messages promises to those who post rows into it: a row *)
(* that is settled as done has been handled at least once, a settled row is*)
(* never handled again, and nothing un-settles it.  How many times a row is*)
(* handled before that, by whom and in which order is left open.           *)
(* SessionMailbox implements it for messages_in, Delivery for messages_out,*)
(* and AgentRouting for the messages that agents send each other.          *)
(***************************************************************************)
EXTENDS Naturals

CONSTANT Items

VARIABLES
    state,      \* state[i]: "absent", "queued", "done" or "dead"
    times       \* how often each item was handled

vars == <<state, times>>

TypeOK ==
    /\ state \in [Items -> {"absent", "queued", "done", "dead"}]
    /\ times \in [Items -> Nat]

Queued == {i \in Items : state[i] = "queued"}

Init ==
    /\ state = [i \in Items |-> "absent"]
    /\ times = [i \in Items |-> 0]

Post(i) ==
    /\ state[i] = "absent"
    /\ state' = [state EXCEPT ![i] = "queued"]
    /\ UNCHANGED times

(* One step of the worker: it handles the items of `handled`, settles as   *)
(* done some items it has handled (now or before), and gives up on others. *)
Work(handled, done, dead) ==
    /\ \A i \in done \ handled : times[i] > 0
    /\ done \cap dead = {}
    /\ times' = [i \in Items |-> IF i \in handled THEN times[i] + 1 ELSE times[i]]
    /\ state' = [i \in Items |-> IF i \in done THEN "done"
                                 ELSE IF i \in dead THEN "dead"
                                 ELSE state[i]]

Next ==
    \/ \E i \in Items : Post(i)
    \/ \E handled, done, dead \in SUBSET Queued : Work(handled, done, dead)

Spec == Init /\ [][Next]_vars

-----------------------------------------------------------------------------
(* What the queue promises.                                                *)

(* A row that is settled as done has been handled.                         *)
DoneWasHandled == \A i \in Items : state[i] = "done" => times[i] > 0

LeavesSettled ==
    \A i \in Items : state[i] \in {"done", "dead"} =>
        state'[i] = state[i] /\ times'[i] = times[i]

(* A settled row stays as it is, and is not handled any more.              *)
SettledIsFinal == [][LeavesSettled]_vars
=============================================================================
