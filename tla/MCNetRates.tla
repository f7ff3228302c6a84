----------------------------- MODULE MCNetRates -----------------------------
(* Two adapters of one kind and the loopback interface.                    *)
EXTENDS NetRates, TLC

MCNames == {"eth0", "eth1", "lo"}
MCNameOrder == "eth0" :> 1 @@ "eth1" :> 2 @@ "lo" :> 3
MCKind == "eth0" :> 1 @@ "eth1" :> 1 @@ "lo" :> 3
MCDirs == {"rx"}
MCStatuses == {[isUp |-> TRUE, hasCarrier |-> TRUE], [isUp |-> TRUE, hasCarrier |-> FALSE]}
=============================================================================
