--------------------------- MODULE MCGatewayServer ---------------------------
(* Two connections; a route with a timeout like the server's, and one with  *)
(* a longer timeout.                                                        *)
EXTENDS GatewayServer

CONSTANTS c1, c2
=============================================================================
