----------------------------- MODULE MCDialogue -----------------------------
(* Small instances of Dialogue.                                            *)
EXTENDS Dialogue, TLC

CONSTANTS j1, j2, j3, k1, k2

ThreeLines == <<j1, j2, j3>>

TwoAlike == j1 :> k1 @@ j2 :> k2 @@ j3 :> k1
=============================================================================
