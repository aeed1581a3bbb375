----------------------------- MODULE MCZohoPush -----------------------------
(* Instances of ZohoPush for TLC. *)
EXTENDS ZohoPush, TLC

CONSTANTS j1, j2, j3

JobSymmetric == Permutations(Jobs)
=============================================================================
