--------------------------- MODULE MCExpenseLedger ---------------------------
(* Instances of ExpenseLedger for TLC. *)
EXTENDS LedgerRefinement

\* Importers are interchangeable, and so are days.
Symmetry == Permutations(Importers) \cup Permutations(Dates)
=============================================================================
