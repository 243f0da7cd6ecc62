-------------------------- MODULE MCPolymarketLive --------------------------
(* Two generations with catalogs of their own, and one client. *)
EXTENDS PolymarketLive

CONSTANTS c1

Catalogs == [g \in Generations |-> g]
=============================================================================
