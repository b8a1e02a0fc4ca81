-------------------------------- MODULE Adapter --------------------------------
(***************************************************************************)
(* TCPOverIPv4OverTunFdAdapter (tcp_helpers/tuntap_adapter.hh and          *)
(* tcp_over_ip.cc): which datagrams of all that the device delivers reach  *)
(* the connection, and where its segments go.  An adapter that listens     *)
(* takes the addresses of its connection from the first SYN.  Anyone sends *)
(* anything to the device, and one word may be changed on the way.         *)
(***************************************************************************)
EXTENDS Datagrams, FiniteSets

CONSTANTS Here,       \* the addresses whose datagrams the device delivers
          There,      \* the addresses they come from
          Ports, Protos, Flags, Payloads,
          OurPort,
          Kept,       \* the positions of words that are never changed on the way
          Nothing

Endpoint(ip, port) == [ip |-> ip, port |-> port]

ASSUME AdapterAssumption ==
  /\ Here \cup There \cup Ports \subseteq 1 .. WordMod - 2   \* neither of the two zeros
  /\ OurPort \in Ports
  /\ Protos \cup Flags \subseteq Word
  /\ \A p \in Payloads : p \in Seq(Word) /\ Len(p) + TcpLength + IpLength < WordMod

VARIABLES adapter,   \* [listening, source, destination]: FdAdapterBase
          up,        \* what read() last handed over, with what was sent; Nothing when it is dealt with
          out,       \* the segment last written, and its datagram
          peer       \* who it is that the adapter serves: how its first segment was really addressed

vars == <<adapter, up, out, peer>>

\* CS144TCPSocket::connect: both ends are configured.
ConnectedTo(there, port) ==
  \E here \in Here :
    /\ peer = [src |-> Endpoint(there, port), dst |-> Endpoint(here, OurPort)]
    /\ adapter = [listening |-> FALSE, source |-> peer.dst, destination |-> peer.src]

\* A listening adapter has a port, on any address (INADDR_ANY).
Init ==
  /\ \/ /\ adapter = [listening |-> TRUE, source |-> Endpoint(0, OurPort), destination |-> Endpoint(0, 0)]
        /\ peer = Nothing
     \/ \E there \in There, port \in Ports : ConnectedTo(there, port)
  /\ up = Nothing
  /\ out = Nothing

\* The datagram that carries a message: external, but as wrap_tcp_in_ip makes it.
Sent(m) ==
  LET h == [DefaultHeader EXCEPT !.src = m.src.ip, !.dst = m.dst.ip, !.proto = m.proto,
                                 !.len = IpLength + TcpLength + Len(m.payload)]
      seg == [sport |-> m.src.port, dport |-> m.dst.port, flags |-> m.flags, payload |-> m.payload]
  IN  serialize_datagram(h, serialize_segment(seg, pseudo_cksum(h)))

Messages ==
  [src : {Endpoint(ip, port) : ip \in There, port \in Ports},
   dst : {Endpoint(ip, port) : ip \in Here, port \in Ports},
   proto : Protos, flags : Flags, payload : Payloads]

\* As it was sent, with one word changed, or cut short.
Carried(d) ==
  {d} \cup {[d EXCEPT ![i] = w] : i \in DOMAIN d \ Kept, w \in Word} \cup {SubSeq(d, 1, n) : n \in 0 .. Len(d)}

\* The filter of unwrap_tcp_in_ip.
\* Mutation: the source address is not compared.
unrelated_address_but_source(a, h) == ~a.listening /\ h.dst # a.source.ip

unrelated_address(a, h) == ~a.listening /\ (h.dst # a.source.ip \/ h.src # a.destination.ip)

unwraps(a, d) ==
  LET h     == header_of(d)
      words == payload_of(d)
      seg   == segment_of(words)
  IN  /\ datagram_parses(d)
      /\ ~unrelated_address(a, h)
      /\ h.proto = PROTO_TCP
      /\ segment_parses(words, pseudo_cksum(h))
      /\ seg.dport = a.source.port
      /\ IF a.listening THEN syn(seg) /\ ~rst(seg) ELSE seg.sport = a.destination.port

\* Mutation: replies come from the configured address.
after_unwrap_from_any(a, d) ==
  IF ~a.listening THEN a
  ELSE [listening |-> FALSE, source |-> a.source,
        destination |-> Endpoint(header_of(d).src, segment_of(payload_of(d)).sport)]

\* A listening adapter takes the addresses of the SYN, the one it was sent to as its own.
after_unwrap(a, d) ==
  IF ~a.listening THEN a
  ELSE [listening   |-> FALSE,
        source      |-> Endpoint(header_of(d).dst, a.source.port),
        destination |-> Endpoint(header_of(d).src, segment_of(payload_of(d)).sport)]

\* read() of a datagram that it hands over.
Read(m, d) ==
  /\ up = Nothing
  /\ unwraps(adapter, d)
  /\ up' = [sent |-> m, carried |-> d, seg |-> segment_of(payload_of(d))]
  /\ adapter' = after_unwrap(adapter, d)
  /\ peer' = IF adapter.listening THEN [src |-> m.src, dst |-> m.dst] ELSE peer
  /\ out' = Nothing

wrap_tcp_in_ip(a, flags, payload) ==
  LET h == [DefaultHeader EXCEPT !.src = a.source.ip, !.dst = a.destination.ip,
                                 !.len = IpLength + TcpLength + Len(payload)]
      seg == [sport |-> a.source.port, dport |-> a.destination.port, flags |-> flags, payload |-> payload]
  IN  serialize_datagram(h, serialize_segment(seg, pseudo_cksum(h)))

\* write(): the connection answers what was handed over.
Write(flags, payload) ==
  /\ up # Nothing
  /\ up' = Nothing
  /\ out' = [flags |-> flags, payload |-> payload, dgram |-> wrap_tcp_in_ip(adapter, flags, payload)]
  /\ UNCHANGED <<adapter, peer>>

Next ==
  \/ \E m \in Messages : \E d \in Carried(Sent(m)) : Read(m, d)
  \/ \E flags \in Flags, payload \in Payloads : Write(flags, payload)

Spec == Init /\ [][Next]_vars

-----------------------------------------------------------------------------
\* A checksum cannot tell the two zeros of one's complement arithmetic.
SameButForZeros(v, w) ==
  Len(v) = Len(w) /\ \A i \in DOMAIN v : v[i] = w[i] \/ {v[i], w[i]} = {0, WordMod - 1}

\* "Is the IPv4 datagram from our peer?": what an adapter hands over is what its peer has
\* sent to the same address and port, unchanged, though nothing looks at the result of
\* parsing the IPv4 header: the checksum of the segment covers all words that tell one
\* from another.  Only hlen, which says where the segment starts, must have been kept.
OnlyFromPeer ==
  up # Nothing =>
    LET m == up.sent
    IN  /\ m.src = peer.src /\ m.dst = peer.dst /\ m.proto = PROTO_TCP
        /\ up.seg.sport = m.src.port /\ up.seg.dport = m.dst.port
        /\ SameButForZeros(<<up.seg.flags>> \o up.seg.payload, <<m.flags>> \o m.payload)

\* What an adapter writes is handed over, unchanged, by the adapter of its peer, which has
\* the addresses that the peer used in the first place.
RepliesUnderstood ==
  out # Nothing =>
    LET theirs == [listening |-> FALSE, source |-> peer.src, destination |-> peer.dst]
        seg    == segment_of(payload_of(out.dgram))
    IN  unwraps(theirs, out.dgram) /\ seg.flags = out.flags /\ seg.payload = out.payload
=============================================================================
