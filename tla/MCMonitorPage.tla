------------------------------ MODULE MCMonitorPage ------------------------------
(* An instance of MonitorPage for TLC: two runs of different variants.            *)
EXTENDS MonitorPage, TLC

TwoVariants == "r1" :> "v1" @@ "r2" :> "v2"
==================================================================================
