-------------------------- MODULE MC_CommandPolicy --------------------------
(* Instance of CommandPolicy for TLC. *)
EXTENDS CommandPolicy
=============================================================================
