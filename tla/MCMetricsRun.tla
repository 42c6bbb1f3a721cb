-------------------------- MODULE MCMetricsRun --------------------------
(* Constant values of the runs of MetricsRun.                              *)
EXTENDS MetricsRun

TwoTargets   == <<"a", "b">>
ThreeTargets == <<"a", "b", "c">>
============================================================================
