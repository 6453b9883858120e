-------------------------- MODULE MCCircuitBreaker --------------------------
(* CircuitBreaker with two or three interchangeable calls.                  *)
EXTENDS CircuitBreaker, TLC

CONSTANTS c1, c2, c3

Symmetry == Permutations(Calls)
=============================================================================
