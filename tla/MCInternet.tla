------------------------------ MODULE MCInternet ------------------------------
(***************************************************************************)
(* Two routers, each the default route of the other, so that datagrams to  *)
(* addresses that neither knows go back and forth.  Addresses have three   *)
(* bits: 00x is the first host's Ethernet, 01x the routers', 10x the       *)
(* second host's.                                                          *)
(***************************************************************************)
EXTENDS Internet

CONSTANTS west, east, none

h1 == 0
h2 == 4

PortsOf == [r \in RouterId |-> IF r = west THEN <<1, 2>> ELSE <<3, 5>>]
Links   == [p \in {0, 1, 2, 3, 4, 5} |-> p \div 2]
Eths    == [p \in {0, 1, 2, 3, 4, 5} |-> 10 + p]
Gates   == [h \in HostPort |-> IF h = h1 THEN 1 ELSE 5]

RouteTo(prefix, len, hop, k) ==
  [prefix |-> prefix, prefix_length |-> len, next_hop |-> hop, interface_num |-> k]

RouteSets ==
  [r \in RouterId |->
     IF r = west THEN {RouteTo(0, 2, none, 1), RouteTo(0, 0, 3, 2)}
     ELSE {RouteTo(4, 2, none, 2), RouteTo(7, 1, 2, 1), RouteTo(0, 0, 2, 1)}]

Datagram(id, src, dst, ttl) == [id |-> id, src |-> src, dst |-> dst, ttl |-> ttl]

Datagrams == {Datagram(1, h1, h2, 3), Datagram(2, h2, 6, 5),
              Datagram(3, h2, h1, 4), Datagram(4, h1, h2, 0)}
=============================================================================
