--------------------------------- MODULE MCLan ---------------------------------
(* EthernetLan for TLC: Ethernet and IP addresses are different things. *)
EXTENDS EthernetLan

Eths == [h \in Host |-> <<"eth", h>>]
IpAddrs == [h \in Host |-> <<"ip", h>>]
=============================================================================
