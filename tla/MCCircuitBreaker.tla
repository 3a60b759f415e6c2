-------------------------- MODULE MCCircuitBreaker --------------------------
(* The small instance of CircuitBreaker; its liveness properties forbid    *)
(* symmetry.                                                               *)
EXTENDS CircuitBreaker
=============================================================================
