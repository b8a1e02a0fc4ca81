------------------------------ MODULE EthernetLan ------------------------------
(***************************************************************************)
(* Hosts on one Ethernet, each with a NetworkInterface: datagrams are sent *)
(* to other hosts by IP address, frames reach every other host, in order   *)
(* but independently and possibly not at all, and time passes.             *)
(***************************************************************************)
EXTENDS NetworkInterface, FiniteSets, SequencesExt

CONSTANTS Host,
          EthOf, IpOf,   \* the addresses of each host
          Dgram,         \* datagrams; each is sent at most once
          TickSizes,
          MaxLosses,     \* bound: frames lost altogether
          MaxOnWire      \* bound: no tick while more frames are on their way to a host

Ips == {IpOf[h] : h \in Host}

ASSUME LanAssumption ==
  /\ \A g, h \in Host : g # h => EthOf[g] # EthOf[h] /\ IpOf[g] # IpOf[h]
  /\ \A h \in Host : EthOf[h] # Broadcast
  /\ TickSizes \subseteq Nat
  /\ MaxLosses \in Nat /\ MaxOnWire \in Nat

\* 5000 <= 30000: an address that was learned is not forgotten before it may be asked
\* for again.
ASSUME RetryAssumption == ArpRetry <= ArpTtl

VARIABLES nic,       \* nic[h]: the interface of h
          wire,      \* wire[h]: the frames that are on their way to h
          sent,      \* sent[h][ip]: the datagrams h was asked to send to ip, in order
          received,  \* received[h]: the datagrams handed up at h, in order
          asked,     \* asked[h][ip]: ms since h last asked for ip, up to ArpRetry
          flooded,   \* whether an address was asked for again before ArpRetry passed
          losses     \* how many frames were lost

vars == <<nic, wire, sent, received, asked, flooded, losses>>

Init ==
  /\ nic = [h \in Host |-> NewInterface(EthOf[h], IpOf[h])]
  /\ wire = [h \in Host |-> <<>>]
  /\ sent = [h \in Host |-> [ip \in Ips |-> <<>>]]
  /\ received = [h \in Host |-> <<>>]
  /\ asked = [h \in Host |-> [ip \in Ips |-> ArpRetry]]
  /\ flooded = FALSE
  /\ losses = 0

Requested(frames) == {frames[i].payload.target_ip : i \in {j \in 1 .. Len(frames) :
                        frames[j].type = "ARP" /\ frames[j].payload.opcode = Request}}

\* h's interface becomes n; its frames reach the wires of all other hosts.
Becomes(h, n, wires) ==
  /\ nic' = [nic EXCEPT ![h] = [n EXCEPT !.frames_out = <<>>]]
  /\ wire' = [g \in Host |-> IF g = h THEN wires[g] ELSE wires[g] \o n.frames_out]

\* The clocks since the last request, after `frames` left h.
Asks(h, frames, clock) ==
  /\ asked' = [asked EXCEPT ![h] = [ip \in Ips |-> IF ip \in Requested(frames) THEN 0 ELSE clock[ip]]]
  /\ flooded' = (flooded \/ \E ip \in Requested(frames) : clock[ip] < ArpRetry)

Unsent(d) == \A h \in Host, ip \in Ips : ~Contains(sent[h][ip], d)

Send(h, d, ip) ==
  /\ Unsent(d)
  /\ ip # IpOf[h]
  /\ LET n == send_datagram(nic[h], d, ip)
     IN  Becomes(h, n, wire) /\ Asks(h, n.frames_out, asked[h])
  /\ sent' = [sent EXCEPT ![h][ip] = Append(@, d)]
  /\ UNCHANGED <<received, losses>>

Receive(h) ==
  /\ wire[h] # <<>>
  /\ LET frame == Head(wire[h])
         n     == recv_frame(nic[h], frame)
     IN  /\ Becomes(h, n, [wire EXCEPT ![h] = Tail(@)])
         /\ Asks(h, n.frames_out, asked[h])
         /\ received' = [received EXCEPT ![h] = @ \o received_datagrams(nic[h], frame)]
  /\ UNCHANGED <<sent, losses>>

Lose(h) ==
  /\ wire[h] # <<>>
  /\ losses < MaxLosses
  /\ wire' = [wire EXCEPT ![h] = Tail(@)]
  /\ losses' = losses + 1
  /\ UNCHANGED <<nic, sent, received, asked, flooded>>

Elapsed(clock, ms) == [ip \in Ips |-> IF clock[ip] + ms >= ArpRetry THEN ArpRetry ELSE clock[ip] + ms]

Tick(h, ms) ==
  /\ \A g \in Host : Len(wire[g]) <= MaxOnWire
  /\ \E order \in SetToSeqs(unanswered(run_timers(nic[h], ms))) :
       LET n == interface_tick(nic[h], ms, order)
       IN  Becomes(h, n, wire) /\ Asks(h, n.frames_out, Elapsed(asked[h], ms))
  /\ UNCHANGED <<sent, received, losses>>

Next ==
  \E h \in Host :
    \/ \E d \in Dgram, ip \in Ips : Send(h, d, ip)
    \/ Receive(h)
    \/ Lose(h)
    \/ \E ms \in TickSizes : Tick(h, ms)

Spec == Init /\ [][Next]_vars

\* What is on the wire arrives (or is lost), and every interface is ticked.
FairSpec ==
  Spec /\ \A h \in Host : WF_vars(Receive(h)) /\ WF_vars(\E ms \in TickSizes : Tick(h, ms))

-----------------------------------------------------------------------------
\* The ARP bookkeeping of an interface: datagrams wait only for addresses that are
\* not known, every such address has a request under way with time left on its
\* timer, and no timer is left behind.
ArpConsistent ==
  \A h \in Host :
    LET n == nic[h]
    IN  /\ DOMAIN n.timers = DOMAIN n.pending
        /\ DOMAIN n.arp_table \cap DOMAIN n.pending = {}
        /\ \A ip \in DOMAIN n.pending : n.pending[ip] # <<>> /\ n.timers[ip] \in 1 .. ArpRetry
        /\ \A ip \in DOMAIN n.arp_table : n.arp_table[ip].ttl \in 1 .. ArpTtl

\* What was learned is right: an IP address is mapped to its host's Ethernet address.
ArpTableTrue ==
  \A h, g \in Host : IpOf[g] \in DOMAIN nic[h].arp_table => nic[h].arp_table[IpOf[g]].eth = EthOf[g]

\* At least ArpRetry passes between two requests of a host for the same address,
\* across replies, expired entries and unanswered requests.
RequestsRateLimited == ~flooded

\* A datagram is handed up only at the host that was its next hop, at most once, and
\* after all those sent before it to that host that are not lost.
DeliveredInOrder ==
  \A g \in Host : \A h \in Host :
    LET from_h == SelectSeq(received[g], LAMBDA d : Contains(sent[h][IpOf[g]], d))
    IN  /\ \A i \in 1 .. Len(received[g]) : \E k \in Host : Contains(sent[k][IpOf[g]], received[g][i])
        /\ \E S \in SUBSET (1 .. Len(sent[h][IpOf[g]])) :
             from_h = [i \in 1 .. Cardinality(S) |-> sent[h][IpOf[g]][SetToSortSeq(S, <)[i]]]

\* No datagram is forgotten: unless frames are lost it is waiting for its next hop's
\* address, on the wire, or handed up.
NothingForgotten ==
  \A h, g \in Host : losses = 0 =>
    \A i \in 1 .. Len(sent[h][IpOf[g]]) :
      LET d == sent[h][IpOf[g]][i]
      IN  \/ Contains(waiting(nic[h], IpOf[g]), d)
          \/ \E j \in 1 .. Len(wire[g]) : wire[g][j].type = "IPv4" /\ wire[g][j].payload = d
          \/ Contains(received[g], d)

\* A datagram does not wait for ever: its next hop's address is asked for until the
\* answer is not lost.
AddressResolved ==
  \A h \in Host, ip \in Ips : waiting(nic[h], ip) # <<>> ~> waiting(nic[h], ip) = <<>>
=============================================================================
