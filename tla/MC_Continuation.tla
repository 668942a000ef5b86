-------------------------- MODULE MC_Continuation ---------------------------
(***************************************************************************)
(* Instances of Continuation for TLC.                                      *)
(***************************************************************************)
EXTENDS Continuation, TLC

WorkerSymmetry == Permutations(Workers)
=============================================================================
