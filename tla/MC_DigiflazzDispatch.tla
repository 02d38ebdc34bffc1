------------------------ MODULE MC_DigiflazzDispatch ------------------------
(* Instances of DigiflazzDispatch for TLC: one run of the cron, one instant *)
(* dispatch, one callback and one admin at a time.                          *)
EXTENDS DigiflazzDispatch, TLC
=============================================================================
