------------------------------- MODULE Internet -------------------------------
(***************************************************************************)
(* Hosts and routers joined by Ethernets.  A port is an interface, named   *)
(* by its IP address; hosts have one and send everything to their gateway  *)
(* (the Host class of apps/network_simulator.cc), routers have several.    *)
(* Routes are added one at a time, in any order, before traffic starts.    *)
(* Frames arrive in order; losing them and the passage of time are the     *)
(* subject of EthernetLan.                                                 *)
(***************************************************************************)
EXTENDS Router, FiniteSets

CONSTANTS HostPort,      \* the ports that are hosts
          RouterId,
          Ports,         \* Ports[r]: the ports of router r, in order
          Link,          \* Link[p]: the Ethernet that port p is on
          EthOf,         \* EthOf[p]: the Ethernet address of port p
          Gateway,       \* Gateway[h]: the next hop of host h
          Routes,        \* Routes[r]: the routes that will be added to router r
          Dgram          \* datagrams, as they are when sent; each is sent once

RouterPort == UNION {Range(Ports[r]) : r \in RouterId}
Port       == HostPort \cup RouterPort

ASSUME InternetAssumption ==
  /\ Port \subseteq Address
  /\ \A p, q \in Port : p # q => EthOf[p] # EthOf[q] /\ EthOf[p] # Broadcast
  /\ \A h \in HostPort : Link[Gateway[h]] = Link[h]
  /\ \A r \in RouterId : \A t \in Routes[r] :
       t.interface_num \in DOMAIN Ports[r] /\ t.prefix_length \in 0 .. AddressBits
  /\ \A d \in Dgram : d.src \in HostPort /\ d.dst \in Address /\ d.ttl \in 0 .. TtlMod - 1

VARIABLES host,       \* host[h]: the interface of host h
          router,     \* router[r]
          wire,       \* wire[p]: the frames on their way to port p
          received,   \* received[h]: the datagrams handed up at host h, in order
          sent        \* the datagrams sent

vars == <<host, router, wire, received, sent>>

NewHost(h) == NewInterface(EthOf[h], h)

Init ==
  /\ host = [h \in HostPort |-> NewHost(h)]
  /\ router = [r \in RouterId |->
                 NewRouter([k \in DOMAIN Ports[r] |-> NewInterface(EthOf[Ports[r][k]], Ports[r][k])])]
  /\ wire = [p \in Port |-> <<>>]
  /\ received = [h \in HostPort |-> <<>>]
  /\ sent = {}

\* The frames that port p has queued reach every other port of its Ethernet.
Transmit(wires, p, frames) ==
  [q \in Port |-> IF q # p /\ Link[q] = Link[p] THEN wires[q] \o frames ELSE wires[q]]

HostBecomes(h, n, wires) ==
  /\ host' = [host EXCEPT ![h] = [n EXCEPT !.frames_out = <<>>]]
  /\ wire' = Transmit(wires, h, n.frames_out)

RouterBecomes(r, R, wires) ==
  LET ports == Ports[r]
  IN  /\ router' = [router EXCEPT ![r] = [R EXCEPT !.interfaces =
                      [k \in DOMAIN @ |-> [@[k] EXCEPT !.frames_out = <<>>]]]]
      /\ wire' = FoldLeftDomain(LAMBDA w, k : Transmit(w, ports[k], R.interfaces[k].frames_out), wires, ports)

IsAdded(r, t) == \E i \in DOMAIN router[r].routes : router[r].routes[i] = t
SetUp         == \A r \in RouterId : \A t \in Routes[r] : IsAdded(r, t)

AddRoute(r, t) ==
  /\ ~IsAdded(r, t)
  /\ router' = [router EXCEPT ![r] = add_route(@, t.prefix, t.prefix_length, t.next_hop, t.interface_num)]
  /\ UNCHANGED <<host, wire, received, sent>>

Send(d) ==
  /\ SetUp
  /\ d \notin sent
  /\ HostBecomes(d.src, send_datagram(host[d.src], d, Gateway[d.src]), wire)
  /\ sent' = sent \cup {d}
  /\ UNCHANGED <<router, received>>

Arrived(p) == [wire EXCEPT ![p] = Tail(@)]

HostReceive(h) ==
  /\ wire[h] # <<>>
  /\ HostBecomes(h, recv_frame(host[h], Head(wire[h])), Arrived(h))
  /\ received' = [received EXCEPT ![h] = @ \o received_datagrams(host[h], Head(wire[h]))]
  /\ UNCHANGED <<router, sent>>

RouterReceive(r, k) ==
  LET p == Ports[r][k]
  IN  /\ wire[p] # <<>>
      /\ RouterBecomes(r, async_recv_frame(router[r], k, Head(wire[p])), Arrived(p))
      /\ UNCHANGED <<host, received, sent>>

Queued(r) == \E k \in DOMAIN Ports[r] : router[r].datagrams_out[k] # <<>>

Route(r) ==
  /\ Queued(r)
  /\ RouterBecomes(r, route(router[r]), wire)
  /\ UNCHANGED <<host, received, sent>>

Next ==
  \/ \E r \in RouterId : Route(r) \/ \E t \in Routes[r] : AddRoute(r, t)
  \/ \E d \in Dgram : Send(d)
  \/ \E h \in HostPort : HostReceive(h)
  \/ \E r \in RouterId : \E k \in DOMAIN Ports[r] : RouterReceive(r, k)

Spec == Init /\ [][Next]_vars

\* Frames arrive and routers route: weak fairness, written out with the conditions
\* under which the actions are enabled (TLC evaluates ENABLED of them too slowly).
FairSpec ==
  /\ Spec
  /\ \A h \in HostPort : <>[](wire[h] # <<>>) => []<><<HostReceive(h)>>_vars
  /\ \A r \in RouterId :
       /\ <>[]Queued(r) => []<><<Route(r)>>_vars
       /\ \A k \in DOMAIN Ports[r] : <>[](wire[Ports[r][k]] # <<>>) => []<><<RouterReceive(r, k)>>_vars

-----------------------------------------------------------------------------
\* Bit b of an address, the most significant being number 1.
Bit(a, b) == (a \div 2 ^ (AddressBits - b)) % 2

Agree(a, b, len) == \A i \in 1 .. len : Bit(a, i) = Bit(b, i)

\* Whatever the order in which routes were added, the one that is chosen agrees with
\* the destination in all bits of its prefix, none that agrees is longer, and none is
\* chosen only if none agrees.
LongestPrefixChosen ==
  \A r \in RouterId, a \in Address :
    LET routes == router[r].routes
        fits   == {i \in DOMAIN routes : Agree(a, routes[i].prefix, routes[i].prefix_length)}
        best   == best_route(routes, a)
    IN  IF fits = {} THEN best = 0
        ELSE best \in fits /\ \A i \in fits : routes[i].prefix_length <= routes[best].prefix_length

InFlight(frames, d) == {i \in DOMAIN frames : frames[i].type = "IPv4" /\ frames[i].payload.id = d.id}
Among(queue, d)     == {i \in DOMAIN queue : queue[i].id = d.id}

NicOf(p) == IF p \in HostPort THEN host[p]
            ELSE LET r == CHOOSE r \in RouterId : p \in Range(Ports[r])
                 IN  router[r].interfaces[CHOOSE k \in DOMAIN Ports[r] : Ports[r][k] = p]

\* The copies of d that are still under way: on an Ethernet, waiting for an address,
\* or waiting to be routed.
Travelling(d) ==
  UNION {{<<Link[p], wire[p][i].payload>> : i \in InFlight(wire[p], d)} : p \in Port}
  \cup UNION {UNION {{<<Link[p], NicOf(p).pending[ip][i]>> : i \in Among(NicOf(p).pending[ip], d)}
                     : ip \in DOMAIN NicOf(p).pending} : p \in Port}
  \cup UNION {UNION {{<<Link[Ports[r][k]], router[r].datagrams_out[k][i]>> :
                        i \in Among(router[r].datagrams_out[k], d)} : k \in DOMAIN Ports[r]} : r \in RouterId}

Delivered(d) ==
  UNION {{<<Link[h], received[h][i]>> : i \in Among(received[h], d)} : h \in HostPort}

\* A datagram is alive on one Ethernet at a time, and every router it passes takes one
\* from its TTL, which never wraps: beyond the Ethernet it was sent on it has less than
\* it had, but not 0.
TtlSpent ==
  \A d \in sent :
    LET all == Travelling(d) \cup Delivered(d)
    IN  /\ Cardinality(all) <= 1
        /\ \A c \in all : c[2].ttl <= d.ttl /\ (c[1] # Link[d.src] => c[2].ttl \in 1 .. d.ttl - 1)

\* No datagram circulates for ever, though the routes form a loop for its address
\* (the next hops of all routes exist).
Settles == <>[](\A d \in Dgram : Travelling(d) = {})

\* A datagram whose TTL exceeds the routers there are is handed up at the host it is sent
\* to.
Arrives ==
  \A d \in {d \in Dgram : d.dst \in HostPort /\ d.ttl > Cardinality(RouterId)} :
    d \in sent ~> Among(received[d.dst], d) # {}
=============================================================================
