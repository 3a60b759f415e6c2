-------------------------- MODULE MCClientSession --------------------------
(* Small instances of ClientSession.                                       *)
EXTENDS ClientSession, TLC

CONSTANTS j1, j2, j3, k1, k2

OneJob == j1 :> k1

TwoAlike == j1 :> k1 @@ j2 :> k1 @@ j3 :> k2

WorkerSymmetry == Permutations(Workers)
=============================================================================
