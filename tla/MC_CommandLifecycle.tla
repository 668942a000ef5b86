------------------------ MODULE MC_CommandLifecycle ------------------------
(***************************************************************************)
(* Instances of CommandLifecycle for TLC.  Workers and execution ids are  *)
(* interchangeable: a symmetry set in the safety runs.                     *)
(***************************************************************************)
EXTENDS CommandLifecycle, TLC

Symmetry == Permutations(Workers) \cup Permutations(Execs)
=============================================================================
