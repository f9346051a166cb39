-------------------------- MODULE MCCircuitBreaker --------------------------
(* Calls are interchangeable. *)
EXTENDS CircuitBreaker, TLC

CallSymmetry == Permutations(Calls)
=============================================================================
