--------------------------- MODULE MCAgentRouting ---------------------------
(* AgentRouting for TLC: two groups with destinations for each other, the  *)
(* first of which has two sessions, and a third one without a session that *)
(* the second may address with an approval.                                *)
EXTENDS AgentRouting

CONSTANTS asker, helper, other

MCStart == <<asker, asker, helper>>
MCLinks == {<<asker, helper>>, <<helper, asker>>, <<helper, other>>}
MCEdges == {<<helper, asker>>, <<helper, other>>, <<other, helper>>}
MCGated == {<<helper, other>>}
=============================================================================
