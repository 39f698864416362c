----------------------------- MODULE MCDelivery -----------------------------
(* Delivery for TLC.                                                       *)
EXTENDS Delivery

CONSTANT Count   \* how many rows are ever written

MCRows == 1..Count
=============================================================================
