---------------------------- MODULE MC_Planning ----------------------------
(* Instances of Planning for TLC. *)
EXTENDS Planning
=============================================================================
