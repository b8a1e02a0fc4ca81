-------------------------------- MODULE Router --------------------------------
(***************************************************************************)
(* libsponge/router.{hh,cc}: the route with the longest matching prefix    *)
(* decides on which interface a datagram leaves, and to which next hop.    *)
(* An address is a number of AddressBits bits.  A router is a record: its  *)
(* routes in the order they were added, its interfaces, and the datagrams  *)
(* each AsyncNetworkInterface has received and not yet handed over.        *)
(***************************************************************************)
EXTENDS NetworkInterface, SequencesExt

CONSTANTS AddressBits,   \* 32
          TtlMod,        \* 256: the TTL field has eight bits
          Direct         \* an empty optional next hop

ASSUME RouterAssumption ==
  /\ AddressBits \in Nat \ {0} /\ TtlMod \in Nat \ {0}
  /\ Direct \notin 0 .. 2 ^ AddressBits - 1

Address == 0 .. 2 ^ AddressBits - 1

NewRouter(nics) ==
  [routes |-> <<>>, interfaces |-> nics, datagrams_out |-> [k \in DOMAIN nics |-> <<>>]]

add_route(R, prefix, prefix_length, next_hop, interface_num) ==
  [R EXCEPT !.routes = Append(@, [prefix |-> prefix, prefix_length |-> prefix_length,
                                  next_hop |-> next_hop, interface_num |-> interface_num])]

\* a & mask, where the mask has prefix_length ones: 0xFFFFFFFF is shifted in 64 bits
\* and cut to 32, so that no bit is left for length 0.
masked(a, prefix_length) ==
  LET low == 2 ^ (AddressBits - prefix_length) IN (a \div low) * low

matches(r, dst) == masked(dst, r.prefix_length) = masked(r.prefix, r.prefix_length)

\* Mutation: the last route that matches wins.
best_route_last(routes, dst) ==
  FoldLeftDomain(LAMBDA best, i : IF matches(routes[i], dst) THEN i ELSE best, 0, routes)

\* The index of the best route, 0 if none matches: the loop over _routes.
best_route(routes, dst) ==
  FoldLeftDomain(LAMBDA best, i :
    IF matches(routes[i], dst) /\ (best = 0 \/ routes[i].prefix_length > routes[best].prefix_length)
    THEN i ELSE best, 0, routes)

\* Mutation: the TTL is compared but not decremented.
ttl_kept(ttl) == ttl

ttl_minus_one(ttl) == (ttl + TtlMod - 1) % TtlMod

\* Mutation: a TTL that is 0 already is not noticed.
forwards_zero(R, dgram) ==
  best_route(R.routes, dgram.dst) # 0 /\ ttl_minus_one(dgram.ttl) # 0

\* A datagram without route is dropped, as is one whose TTL is or becomes 0.
forwards(R, dgram) ==
  best_route(R.routes, dgram.dst) # 0 /\ dgram.ttl # 0 /\ ttl_minus_one(dgram.ttl) # 0

\* Mutation: every network is taken to be directly attached.
next_hop_addr_direct(route, dgram) == dgram.dst

next_hop_addr(route, dgram) == IF route.next_hop = Direct THEN dgram.dst ELSE route.next_hop

route_one_datagram(R, dgram) ==
  LET r == R.routes[best_route(R.routes, dgram.dst)]
      d == [dgram EXCEPT !.ttl = ttl_minus_one(@)]
  IN  IF ~forwards(R, dgram) THEN R
      ELSE [R EXCEPT !.interfaces[r.interface_num] = send_datagram(@, d, next_hop_addr(r, dgram))]

\* Router::route: the interfaces in turn, each one's datagrams in the order they came.
route(R) ==
  FoldLeft(route_one_datagram,
           [R EXCEPT !.datagrams_out = [k \in DOMAIN @ |-> <<>>]],
           FlattenSeq(R.datagrams_out))

\* AsyncNetworkInterface::recv_frame on interface k.
async_recv_frame(R, k, frame) ==
  [R EXCEPT !.interfaces[k] = recv_frame(@, frame),
            !.datagrams_out[k] = @ \o received_datagrams(R.interfaces[k], frame)]
=============================================================================
