--------------------------- MODULE MCReportingRun ---------------------------
(* Constant values of the runs of ReportingRun.                            *)
EXTENDS ReportingRun

XeonAndArm == <<"GNR", "Neoverse-N1">>
TwoXeons   == <<"SPR", "SPR">>
OneXeon    == <<"SPR">>

\* perfspect report --benchmark all
CategoriesAndBenchmarks == reportCategories \cup benchmarkTableNames

CpuCategory == {"CPU"}

NoInput  == <<>>
TwoFiles == <<"a", "b">>
SameName == <<"a", "a">>
=============================================================================
