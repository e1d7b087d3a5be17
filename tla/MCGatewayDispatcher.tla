------------------------- MODULE MCGatewayDispatcher -------------------------
(* TLC instance of GatewayDispatcher.                                      *)
EXTENDS GatewayDispatcher

CONSTANTS k1, x, y, c1, c2, c3
=============================================================================
