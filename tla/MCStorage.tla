----------------------------- MODULE MCStorage -----------------------------
(* Small instances of Storage; its liveness properties forbid symmetry.    *)
EXTENDS Storage
=============================================================================
