--------------------------- MODULE MCReportImport ---------------------------
(* Instances of ReportImport for TLC: the bounds are in the configurations. *)
EXTENDS ReportImport
=============================================================================
