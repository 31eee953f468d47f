------------------------------- MODULE MCSearch -------------------------------
(* An instance of Search: four points, two of them of the same chunk, and   *)
(* two chunks of the same file.                                             *)
EXTENDS SearchProperties

CONSTANTS p1, p2, p3, p4, a1, a2, b1, a, b

MCKeyOf == [p \in Points |-> IF p = p3 THEN b1 ELSE IF p = p2 THEN a2 ELSE a1]
MCFileOf == [k \in Keys |-> IF k = b1 THEN b ELSE a]
=============================================================================
