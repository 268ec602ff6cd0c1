---------------------------- MODULE MCReportStore ----------------------------
(* Model-checking instance of ReportStore: the configurations give Limit and *)
(* MaxReports, and choose whether NVS calls may fail.                        *)
EXTENDS ReportStore
=============================================================================
