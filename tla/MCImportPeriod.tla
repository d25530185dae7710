---------------------------- MODULE MCImportPeriod ----------------------------
(* Instances of ImportPeriod for TLC. *)
EXTENDS ImportPeriod, TLC

Symmetry == Permutations(Resources)
=============================================================================
