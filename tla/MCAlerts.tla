------------------------------- MODULE MCAlerts -------------------------------
(* Instances of Alerts for TLC.                                             *)
EXTENDS Alerts
=============================================================================
