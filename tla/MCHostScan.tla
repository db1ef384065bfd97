----------------------------- MODULE MCHostScan -----------------------------
(* Small instances of HostScan: a host on a card's interface, a host on a     *)
(* VLAN of it, and a host whose device is on PCI itself.                      *)
EXTENDS HostScan, TLC

CONSTANTS onEth, onVlan, onPci, card1, card2

Eth    == [ifindex |-> 2, iflink |-> 2, card |-> card1]
Vlan   == [ifindex |-> 3, iflink |-> 2, card |-> NULL]
Second == [ifindex |-> 21, iflink |-> 21, card |-> card2]

MCInterface == {Eth, Vlan, Second}
MCIfname == {"eth0", "eth0.7", "eth1", "eth2"}
MCBoot == ("eth0" :> Eth) @@ ("eth0.7" :> Vlan) @@ ("eth1" :> Second) @@ ("eth2" :> NULL)
MCOver == (onEth :> "eth0") @@ (onVlan :> "eth0.7") @@ (onPci :> "eth1")
MCPciLink == (onEth :> NULL) @@ (onVlan :> NULL) @@ (onPci :> card2)

=============================================================================
