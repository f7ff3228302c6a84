---------------------------- MODULE MCWifiModal ----------------------------
(* Two adapters that see different networks, one open and two secured.     *)
EXTENDS WifiModalRefinement, TLC

CONSTANTS wlan0, wlan1, cafe, home, lab

MCIfaces   == {wlan0, wlan1}
MCNetworks == {cafe, home, lab}
MCOpenNets == {cafe}
MCVisible  == wlan0 :> {cafe, home} @@ wlan1 :> {lab}
MCPrintable == {"q", "r", "w", "<"}
=============================================================================
