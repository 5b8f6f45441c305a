-------------------------------- MODULE Sums --------------------------------
(***************************************************************************)
(* SQL's SUM over a set of rows, without recursion, so that the prover can *)
(* reason about it: f[x] tokens for every x in S, counted.  f maps S to    *)
(* natural numbers.                                                        *)
(***************************************************************************)
EXTENDS Integers, FiniteSets

Tokens(f, S) == UNION {{x} \X (1..f[x]) : x \in S}
Total(f, S) == Cardinality(Tokens(f, S))
=============================================================================
