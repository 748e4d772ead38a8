------------------------------ MODULE MCAlerts ------------------------------
(* An instance of Alerts for TLC. *)
EXTENDS AlertsProps
QuotaOrTraffic == {{"quota"}, {"rate", "silence"}}
==============================================================================
