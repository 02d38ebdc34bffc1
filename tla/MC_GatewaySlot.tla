--------------------------- MODULE MC_GatewaySlot ---------------------------
(* Instance of GatewaySlot for TLC: page loads are interchangeable. *)
EXTENDS GatewaySlot, TLC

PageLoadSymmetry == Permutations(PageLoads)
=============================================================================
