-------------------------- MODULE MCWifiModalKeys --------------------------
(* The instance of MCWifiModal, with the last key visible.                   *)
EXTENDS MCWifiModal, WifiModalKeys
=============================================================================
