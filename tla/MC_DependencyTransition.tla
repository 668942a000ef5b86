---------------------- MODULE MC_DependencyTransition -----------------------
(* Instances of DependencyTransition for TLC. *)
EXTENDS DependencyTransition

\* jest-preset-angular at Angular 21, its required companions as one.
Bundle21 == <<"jest", "types_jest", "jest_preset_angular">>
=============================================================================
