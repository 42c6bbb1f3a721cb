--------------------------- MODULE MCMasterScript ---------------------------
(* Constant values of the runs of MasterScript: telemetry with scripts that  *)
(* have a pid file (mpstat, sar) and one that has none (pdu).                *)
EXTENDS MasterScript

KillFirst == <<"mpstat", "pdu">>
KillLast  == <<"pdu", "mpstat">>
TwoToKill == <<"mpstat", "pdu", "sar">>
=============================================================================
