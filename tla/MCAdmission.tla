---------------------------- MODULE MCAdmission ----------------------------
(* Two agents and three messages of two senders: a mention and a plain     *)
(* message of one, a mention of the other.  The card connects a1; a2 hears *)
(* everything the gate lets through, unless the operator restricts it.     *)
EXTENDS Admission

MCFrom == [e1 |-> "s1", e2 |-> "s1", e3 |-> "s2"]
MCMessages == {"e1", "e2", "e3"}
MCMentions == {"e1", "e3"}
MCKnown == {<<"a2", "s1">>}

Listening ==
    [agent |-> "a2", mode |-> "pattern", known |-> FALSE, keeps |-> FALSE, priority |-> -1]
Guarded ==
    [agent |-> "a2", mode |-> "mention", known |-> TRUE, keeps |-> FALSE, priority |-> 1]
Open ==
    [agent |-> "a1", mode |-> "mention", known |-> FALSE, keeps |-> FALSE, priority |-> 0]

Chat(g, ws, ms) == [isGroup |-> g, wirings |-> ws, members |-> [a1 |-> {}, a2 |-> ms]]

MCSetups == {Chat(TRUE, {}, {}), Chat(FALSE, {}, {"s1"}),
             Chat(TRUE, {Listening, CardWiring("a1")}, {"s1"}),
             Chat(FALSE, {Listening, CardWiring("a1")}, {})}
MCChoices == {Listening, Guarded, Open}
=============================================================================
