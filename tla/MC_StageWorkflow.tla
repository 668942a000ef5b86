-------------------------- MODULE MC_StageWorkflow --------------------------
(* Instances of StageWorkflow for TLC. *)
EXTENDS StageWorkflow
=============================================================================
