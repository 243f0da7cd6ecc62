------------------------ MODULE MCHyperliquidShadow ------------------------
(* Small instances of HyperliquidShadow.                                   *)
EXTENDS HyperliquidShadow

CONSTANTS c1
============================================================================
