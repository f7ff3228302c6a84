----------------------------- MODULE MCMonitor -----------------------------
(* One adapter that sees one open network, and a dashboard of one chart:   *)
(* the parts have runs of their own.                                       *)
EXTENDS Monitor, TLC

CONSTANTS wlan0, cafe

MCVisible == wlan0 :> {cafe}
=============================================================================
