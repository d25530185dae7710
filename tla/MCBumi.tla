-------------------------------- MODULE MCBumi --------------------------------
(* Instances of the recommendation pipeline for TLC. *)
EXTENDS BumiPipeline, TLC

\* Modules of one folder are interchangeable: no definition names one.
Symmetry == Permutations(RecModules)
=============================================================================
