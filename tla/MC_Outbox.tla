------------------------------ MODULE MC_Outbox ------------------------------
(* Instance of Outbox for TLC: one row, and dispatchers that take it over    *)
(* from one another.                                                         *)
EXTENDS Outbox
=============================================================================
