------------------------------ MODULE MCGateway ------------------------------
(* Instances of Gateway: two connections, tokens of two keys.               *)
EXTENDS GatewayProperties, TLC

CONSTANTS k1, k2, r1, r2

\* Every lookup ends: connections are interchangeable, so one stands for all.
LookupsEnd == LookupEnds(r1)
=============================================================================
