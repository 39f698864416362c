-------------------------- MODULE MCSessionMailbox --------------------------
(* SessionMailbox for TLC.                                                 *)
EXTENDS SessionMailbox

CONSTANT Rows   \* how many rows are ever posted

MCMessages == 1..Rows
=============================================================================
