------------------------------- MODULE Loops -------------------------------
(***************************************************************************)
(* A loop of n turns of one step.                                          *)
(***************************************************************************)
EXTENDS Integers

Iterate(Step(_), n, s) == LET turn[k \in 0..n] == IF k = 0 THEN s ELSE Step(turn[k - 1]) IN turn[n]
=============================================================================
