--------------------------- MODULE MCClerkVerifier ---------------------------
(* Two tasks of a service that verify tokens, and two keys.                 *)
EXTENDS ClerkVerifierProperties

CONSTANTS k1, k2, r1, r2
=============================================================================
