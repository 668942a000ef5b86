--------------------------- MODULE MC_SourceIntake ---------------------------
(* Instances of SourceIntake for TLC. *)
EXTENDS SourceIntake

\* Both runs are requested for one directory.
OneTarget == [r \in Runs |-> "out"]
=============================================================================
