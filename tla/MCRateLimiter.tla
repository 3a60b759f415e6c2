---------------------------- MODULE MCRateLimiter ----------------------------
(* The small instance of RateLimiter that TLC checks. *)
EXTENDS RateLimiter, TLC

CONSTANTS anonymous, pro

MCBurst == anonymous :> 1 @@ pro :> 2

Interchangeable == Permutations(Procs) \cup Permutations(Reqs)
=============================================================================
