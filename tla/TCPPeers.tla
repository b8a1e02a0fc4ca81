------------------------------- MODULE TCPPeers -------------------------------
(***************************************************************************)
(* Two TCPConnections, the applications that use them, and the network     *)
(* between them.  What the network does to segments is a parameter (the    *)
(* operators below, defined in Networks): net[p] is the state of the path  *)
(* that leads to p.                                                        *)
(*                                                                         *)
(* A connection leaves what it wants to send in segments_out; the code     *)
(* that owns it (TCPSpongeSocket's loop) moves that to the network.  As    *)
(* the network may delay segments anyway, each step does so at once.       *)
(***************************************************************************)
EXTENDS TCPConnection

CONSTANTS Byte,
          Client, Server,   \* the active and the passive opener
          Data,             \* Data[p]: the bytes the application of p will write
          Isn,              \* Isn[p]: the initial sequence number of p
          SendCapacity, RecvCapacity,
          TickSizes,        \* the intervals, in ms, at which tick() may be called
          Aborters,         \* the peers whose connection may be destroyed while active
          MaxInNet,         \* bound: no tick while a path holds more segments
          EmptyPath,        \* a path with nothing on it
          Enter(_, _),      \* Enter(path, segs): the path after a sequence of segments is sent
          Arrivals(_),      \* Arrivals(path): the pairs <<segment, path after it arrived>>
          Losses(_),        \* Losses(path): the paths that result from losing a segment
          OnPath(_)         \* OnPath(path): the segments on a path

Peers == {Client, Server}
Other(p) == IF p = Client THEN Server ELSE Client

ASSUME PeersAssumption ==
  /\ Client # Server
  /\ Data \in [Peers -> Seq(Byte)]
  /\ Isn \in [Peers -> WrappingInt32]
  /\ SendCapacity \in Nat \ {0} /\ RecvCapacity \in Nat \ {0}
  /\ TickSizes \subseteq Nat \ {0}
  /\ Aborters \subseteq Peers
  /\ MaxInNet \in Nat
  /\ NoEof \notin Nat

VARIABLES conn,   \* conn[p]: the TCPConnection of p
          net,    \* net[p]: the path to p
          got     \* got[p]: the bytes the application of p has read

vars == <<conn, net, got>>

Init ==
  /\ conn = [p \in Peers |-> NewConnection(Isn[p], SendCapacity, RecvCapacity)]
  /\ net = [p \in Peers |-> EmptyPath]
  /\ got = [p \in Peers |-> <<>>]

stream_in(p) == conn[p].sender.stream

\* p's connection becomes c, and what c has to send enters the path to the other
\* peer; paths is the network otherwise.
Becomes(p, c, paths) ==
  /\ conn' = [conn EXCEPT ![p] = [c EXCEPT !.segments_out = <<>>]]
  /\ net' = [paths EXCEPT ![Other(p)] = Enter(@, c.segments_out)]

Connect ==
  /\ conn[Client].sender.next = 0
  /\ Becomes(Client, connect(conn[Client]), net)
  /\ UNCHANGED got

\* The application writes some of its remaining bytes, once the handshake began.
AppWrite(p, n) ==
  /\ conn[p].is_active
  /\ conn[p].sender.next > 0
  /\ ~stream_in(p).ended
  /\ remaining_capacity(stream_in(p)) > 0
  /\ stream_in(p).written + n <= Len(Data[p])
  /\ LET w == stream_in(p).written
     IN  Becomes(p, conn_write(conn[p], SubSeq(Data[p], w + 1, w + n)), net)
  /\ UNCHANGED got

\* The application ends its stream, also after the connection was reset.
AppClose(p) ==
  /\ conn[p].sender.next > 0
  /\ ~stream_in(p).ended
  /\ Becomes(p, end_input_stream(conn[p]), net)
  /\ UNCHANGED got

AppRead(p, n) ==
  /\ peekable(inbound_stream(conn[p]), n) > 0
  /\ got' = [got EXCEPT ![p] = @ \o peek_output(inbound_stream(conn[p]), n)]
  /\ conn' = [conn EXCEPT ![p].receiver.reassembler = pop_assembled(@, n)]
  /\ UNCHANGED net

\* A segment arrives, and leaves the path as it is after that.
Deliver(p, arrival) ==
  /\ Becomes(p, conn_segment_received(conn[p], arrival[1]), [net EXCEPT ![p] = arrival[2]])
  /\ UNCHANGED got

Lose(p, path) == net' = [net EXCEPT ![p] = path] /\ UNCHANGED <<conn, got>>

Tick(p, ms) ==
  /\ \A q \in Peers : Cardinality(OnPath(net[q])) <= MaxInNet
  /\ Becomes(p, conn_tick(conn[p], ms), net)
  /\ UNCHANGED got

\* ~TCPConnection: the RST of an active connection dies with its queue.
Abort(p) ==
  /\ p \in Aborters
  /\ active(conn[p])
  /\ conn' = [conn EXCEPT ![p] = [set_rst_state(@, TRUE) EXCEPT !.segments_out = <<>>]]
  /\ UNCHANGED <<net, got>>

\* Everything but the passage of time.
Step(p) ==
  \/ \E n \in 1 .. Len(Data[p]) : AppWrite(p, n)
  \/ AppClose(p)
  \/ \E n \in 1 .. RecvCapacity : AppRead(p, n)
  \/ \E arrival \in Arrivals(net[p]) : Deliver(p, arrival)
  \/ \E path \in Losses(net[p]) : Lose(p, path)
  \/ Abort(p)

Next == Connect \/ \E p \in Peers : Step(p) \/ \E ms \in TickSizes : Tick(p, ms)

Spec == Init /\ [][Next]_vars

-----------------------------------------------------------------------------
(* The same system when the retransmission timeout is longer than a round  *)
(* trip and than an application takes to read: both clocks advance         *)
(* together, and only when nothing is in the network or waits to be read.  *)

Quiet == \A p \in Peers : OnPath(net[p]) = {} /\ inbound_stream(conn[p]).buffer = <<>>

TickTogether(ms) ==
  LET c == [p \in Peers |-> conn_tick(conn[p], ms)]
  IN  /\ Quiet
      /\ conn' = [p \in Peers |-> [c[p] EXCEPT !.segments_out = <<>>]]
      /\ net' = [p \in Peers |-> Enter(net[p], c[Other(p)].segments_out)]
      /\ UNCHANGED got

TimedNext == Connect \/ (\E p \in Peers : Step(p)) \/ \E ms \in TickSizes : TickTogether(ms)

can_tick(p) == conn[p].is_active /\ (conn[p].silence < LingerTime \/ conn[p].sender.timer_running)

ReadAny(p)    == \E n \in 1 .. RecvCapacity : AppRead(p, n)
DeliverAny(p) == \E arrival \in Arrivals(net[p]) : Deliver(p, arrival)
TickAny       == \E ms \in TickSizes : TickTogether(ms)

\* The applications act, the event loop hands over what arrives, and time passes:
\* weak fairness, written out with the condition under which each action is enabled
\* (TLC evaluates ENABLED of these actions too slowly).
Fairness ==
  /\ <>[](conn[Client].sender.next = 0) => []<><<Connect>>_vars
  /\ \A p \in Peers :
       /\ <>[](conn[p].sender.next > 0 /\ ~stream_in(p).ended) => []<><<AppClose(p)>>_vars
       /\ <>[](peekable(inbound_stream(conn[p]), 1) > 0)       => []<><<ReadAny(p)>>_vars
       /\ <>[](Arrivals(net[p]) # {})                          => []<><<DeliverAny(p)>>_vars
  /\ <>[](Quiet /\ \E p \in Peers : can_tick(p)) => []<><<TickAny>>_vars

TimedSpec == Init /\ [][TimedNext]_vars /\ Fairness

-----------------------------------------------------------------------------
failed(p) == stream_in(p).error

\* The connection ended without an error: both applications were told of success.
ended_cleanly(p) == ~active(conn[p]) /\ ~failed(p)

\* What a peer acknowledges it has assembled and what is acknowledged was sent:
\* the counters of the two ends never cross, stale and repeated segments included.
AcksAreTruthful ==
  \A p \in Peers :
    LET s == conn[p].sender  rcv == conn[Other(p)].receiver
    IN  has_ackno(rcv) =>
          /\ rcv.isn = s.isn
          /\ s.last_ack <= abs_ackno(rcv)
          /\ abs_ackno(rcv) <= s.next

\* A connection that ends cleanly has got everything across: the other end has
\* assembled all bytes and the end of the stream, even if that end later fails.
CleanCloseDeliversAll ==
  \A p \in Peers : ended_cleanly(p) =>
    LET out == inbound_stream(conn[Other(p)])
    IN  /\ out.ended
        /\ out.written = stream_in(p).written
        /\ stream_in(p).ended

\* If fewer segments are lost than the sender retries, both connections end, without
\* an error, and each application has read what the other wrote, all of it and in order.
ClosesCleanly ==
  <>[](\A p \in Peers :
         ended_cleanly(p) /\ got[p] = SubSeq(Data[Other(p)], 1, stream_in(Other(p)).written))

\* At least one end lingers: two peers never both decide that theirs was the
\* passive close, so that a lost last ACK can still be answered.
SomeoneLingers == ~(\A p \in Peers : ~conn[p].linger)

\* The direction from the client to the server, as the applications see it.
ToServer == INSTANCE StreamChannel WITH
  written <- SubSeq(Data[Client], 1, stream_in(Client).written),
  closed  <- stream_in(Client).ended,
  arrived <- got[Server] \o inbound_stream(conn[Server]).buffer,
  ended   <- inbound_stream(conn[Server]).ended

\* This direction of the connection implements the pipe of StreamChannel: what the
\* segmenting, the retransmissions and the reassembly add up to.
PipeToServer == ToServer!ChanSpec
=============================================================================
