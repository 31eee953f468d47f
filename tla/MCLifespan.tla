------------------------------ MODULE MCLifespan ------------------------------
(* Each of the services, with three connections.                            *)
EXTENDS Lifespan

CONSTANTS r1, r2, r3
=============================================================================
