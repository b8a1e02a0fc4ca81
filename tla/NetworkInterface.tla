--------------------------- MODULE NetworkInterface ---------------------------
(***************************************************************************)
(* libsponge/network_interface.{hh,cc}: datagrams go out in Ethernet       *)
(* frames once the next hop's Ethernet address is known; until then they   *)
(* wait while ARP asks for it.  An interface is a record with one field    *)
(* per data member; frames_out is a sequence, the three maps are functions *)
(* from IP addresses.                                                      *)
(***************************************************************************)
EXTENDS Naturals, Sequences

CONSTANTS Broadcast,   \* ETHERNET_BROADCAST
          ArpTtl,      \* 30000: lifetime of a learned address, in ms
          ArpRetry     \* 5000: the least time between two requests for an address

ASSUME ArpAssumption == ArpTtl \in Nat \ {0} /\ ArpRetry \in Nat \ {0}

NewInterface(eth, ip) ==
  [eth |-> eth, ip |-> ip, frames_out |-> <<>>,
   arp_table |-> <<>>, pending |-> <<>>, timers |-> <<>>]

Without(f, x)    == [y \in DOMAIN f \ {x} |-> f[y]]
With(f, x, v)    == [y \in DOMAIN f \cup {x} |-> IF y = x THEN v ELSE f[y]]

Request == "request"
Reply   == "reply"

ipv4_frame(n, dst, dgram) == [dst |-> dst, src |-> n.eth, type |-> "IPv4", payload |-> dgram]

\* Mutation: sender and target address are swapped.
arp_frame_swapped(n, dst, op, target_ip) ==
  [dst |-> dst, src |-> n.eth, type |-> "ARP",
   payload |-> [opcode |-> op, sender_eth |-> n.eth, sender_ip |-> target_ip, target_ip |-> n.ip]]

arp_frame(n, dst, op, target_ip) ==
  [dst |-> dst, src |-> n.eth, type |-> "ARP",
   payload |-> [opcode |-> op, sender_eth |-> n.eth, sender_ip |-> n.ip, target_ip |-> target_ip]]

push_frame(n, frame) == [n EXCEPT !.frames_out = Append(@, frame)]

\* Broadcasts a request for ip and starts its timer.
request_address(n, ip) ==
  [push_frame(n, arp_frame(n, Broadcast, Request, ip)) EXCEPT !.timers = With(@, ip, ArpRetry)]

\* Mutation: a running timer does not hold requests back.
timer_idle_always(n, ip) == TRUE

timer_idle(n, ip) == ip \notin DOMAIN n.timers \/ n.timers[ip] = 0

waiting(n, ip) == IF ip \in DOMAIN n.pending THEN n.pending[ip] ELSE <<>>

knows(n, ip) == ip \in DOMAIN n.arp_table /\ n.arp_table[ip].ttl > 0

\* Mutation: a datagram replaces the one that waits.
send_datagram_replacing(n, dgram, next_hop) ==
  LET queued == [n EXCEPT !.pending = With(@, next_hop, <<dgram>>)]
  IN  IF knows(n, next_hop)
      THEN push_frame(n, ipv4_frame(n, n.arp_table[next_hop].eth, dgram))
      ELSE IF timer_idle(n, next_hop) THEN request_address(queued, next_hop)
      ELSE queued

send_datagram(n, dgram, next_hop) ==
  LET queued == [n EXCEPT !.pending = With(@, next_hop, Append(waiting(n, next_hop), dgram))]
  IN  IF knows(n, next_hop)
      THEN push_frame(n, ipv4_frame(n, n.arp_table[next_hop].eth, dgram))
      ELSE IF timer_idle(n, next_hop) THEN request_address(queued, next_hop)
      ELSE queued

learn(n, ip, eth) == [n EXCEPT !.arp_table = With(@, ip, [eth |-> eth, ttl |-> ArpTtl])]

answer(n, msg) ==
  IF msg.opcode = Request /\ msg.target_ip = n.ip
  THEN push_frame(n, arp_frame(n, msg.sender_eth, Reply, msg.sender_ip)) ELSE n

\* Mutation: the timer of the answered request keeps running.
flush_keeping_timer(n, ip, eth) ==
  LET queue == waiting(n, ip)
  IN  IF ip \notin DOMAIN n.pending THEN n
      ELSE [n EXCEPT !.frames_out = @ \o [i \in 1 .. Len(queue) |-> ipv4_frame(n, eth, queue[i])],
                     !.pending    = Without(@, ip)]

\* Mutation: the last datagram that waits goes first.
flush_backwards(n, ip, eth) ==
  LET queue == waiting(n, ip)
      size  == Len(queue)
  IN  IF ip \notin DOMAIN n.pending THEN n
      ELSE [n EXCEPT !.frames_out = @ \o [i \in 1 .. size |-> ipv4_frame(n, eth, queue[size + 1 - i])],
                     !.pending    = Without(@, ip),
                     !.timers     = Without(@, ip)]

\* Sends what was waiting for ip, in order, and forgets the request.
flush(n, ip, eth) ==
  LET queue == waiting(n, ip)
  IN  IF ip \notin DOMAIN n.pending THEN n
      ELSE [n EXCEPT !.frames_out = @ \o [i \in 1 .. Len(queue) |-> ipv4_frame(n, eth, queue[i])],
                     !.pending    = Without(@, ip),
                     !.timers     = Without(@, ip)]

accepts_frame(n, frame) == frame.dst = n.eth \/ frame.dst = Broadcast

\* The interface's new state; an accepted IPv4 frame leaves it as it is and its
\* datagram is handed up (received_datagrams).
recv_frame(n, frame) ==
  LET msg == frame.payload
  IN  IF ~accepts_frame(n, frame) \/ frame.type # "ARP" THEN n
      ELSE flush(answer(learn(n, msg.sender_ip, msg.sender_eth), msg), msg.sender_ip, msg.sender_eth)

received_datagrams(n, frame) ==
  IF accepts_frame(n, frame) /\ frame.type = "IPv4" THEN <<frame.payload>> ELSE <<>>

expire_entries(n, ms) ==
  LET alive == {ip \in DOMAIN n.arp_table : n.arp_table[ip].ttl > ms}
  IN  [n EXCEPT !.arp_table = [ip \in alive |-> [n.arp_table[ip] EXCEPT !.ttl = @ - ms]]]

run_timers(n, ms) ==
  [n EXCEPT !.timers = [ip \in DOMAIN @ |-> IF @[ip] <= ms THEN 0 ELSE @[ip] - ms]]

\* Mutation: no request is repeated.
unanswered_never(n) == {}

\* The addresses that are asked for again: something waits and the timer is idle.
unanswered(n) == {ip \in DOMAIN n.pending : n.pending[ip] # <<>> /\ timer_idle(n, ip)}

\* The requests go out in the order of the hash map: in some order (`order`).
resend_requests(n, order) ==
  [n EXCEPT !.frames_out = @ \o [i \in 1 .. Len(order) |-> arp_frame(n, Broadcast, Request, order[i])],
            !.timers = [ip \in DOMAIN @ \cup unanswered(n) |-> IF ip \in unanswered(n) THEN ArpRetry ELSE @[ip]]]

interface_tick(n, ms, order) == resend_requests(run_timers(expire_entries(n, ms), ms), order)
=============================================================================
