--------------------------- MODULE LedgerRefinement ---------------------------
(***************************************************************************)
(* ExpenseLedger implements DailyTotals: the expense a user sees of a day  *)
(* is the sum of cost * sign over its rows.                                *)
(***************************************************************************)
EXTENDS ExpenseLedger

Totals == INSTANCE DailyTotals WITH
             total <- [k \in Keys |-> Total(k)], spoiled <- overlapped

(***************************************************************************)
(* The queries and inserts of an import, its failures at any point and the *)
(* merges of the table amount to atomic corrections of one resource: no    *)
(* reader ever sees one day of a resource corrected and another not, a     *)
(* cost counted twice, or a total moved by a merge.                        *)
(***************************************************************************)
ImplementsDailyTotals == Totals!Spec
=============================================================================
