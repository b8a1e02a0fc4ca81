----------------------------- MODULE TCPConnection -----------------------------
(***************************************************************************)
(* libsponge/tcp_connection.{hh,cc}: a sender and a receiver joined into   *)
(* one endpoint.  A connection is a record with one field per data member. *)
(***************************************************************************)
EXTENDS TCPState

CONSTANTS MaxRetx,     \* TCPConfig::MAX_RETX_ATTEMPTS
          LingerTime,  \* 10 * rt_timeout, the silence after which lingering ends
          MaxWindow    \* 0xffff, the largest window the header can advertise

ASSUME ConnectionAssumption ==
  MaxRetx \in Nat /\ LingerTime \in Nat \ {0} /\ MaxWindow \in Nat \ {0}

NewConnection(isn, send_capacity, recv_capacity) ==
  [sender |-> NewSender(isn, send_capacity), receiver |-> NewReceiver(recv_capacity),
   segments_out |-> <<>>, linger |-> TRUE, is_active |-> TRUE, silence |-> 0]

inbound_stream(c) == stream_out(c.receiver)

\* The receiver's part of the header, filled in when a segment leaves the connection.
stamp(rcv, seg) ==
  IF has_ackno(rcv)
  THEN [seg EXCEPT !.ack = TRUE, !.ackno = ackno(rcv), !.win = Smaller(window_size(rcv), MaxWindow)]
  ELSE seg

\* TCPConnection::_send_segments
send_segments(c) ==
  LET out == c.sender.segments_out
  IN  [c EXCEPT !.segments_out = @ \o [i \in 1 .. Len(out) |-> stamp(c.receiver, out[i])],
                !.sender.segments_out = <<>>]

rst_segment(c) == [EmptySegment EXCEPT !.rst = TRUE, !.seqno = wrap(c.sender.next, c.sender.isn)]

\* TCPConnection::_set_rst_state
set_rst_state(c, send_rst) ==
  [c EXCEPT !.segments_out = IF send_rst THEN Append(@, rst_segment(c)) ELSE @,
            !.receiver.reassembler.output = set_error(@),
            !.sender.stream = set_error(@),
            !.is_active = FALSE]

connect(c) == send_segments([c EXCEPT !.sender = fill_window(@), !.is_active = TRUE])

conn_write(c, data) ==
  LET s == [c.sender EXCEPT !.stream = write(@, data)]
  IN  send_segments([c EXCEPT !.sender = fill_window(s)])

end_input_stream(c) ==
  LET s == [c.sender EXCEPT !.stream = end_input(@)]
  IN  send_segments([c EXCEPT !.sender = fill_window(s)])

\* Mutation: the stream counts as closed before it is acknowledged.
streams_closed_unacked(c) == inbound_stream(c).ended /\ all_sent(c.sender)

\* Both streams are over and everything of ours is acknowledged.
streams_closed(c) ==
  inbound_stream(c).ended /\ all_sent(c.sender) /\ bytes_in_flight(c.sender) = 0

active(c) == c.is_active /\ (streams_closed(c) => c.linger /\ c.silence < LingerTime)

\* Mutation: whoever receives a FIN takes itself for the passive side.
passive_close_always(c) ==
  IF receiver_summary(c.receiver) = "FIN_RECV" THEN [c EXCEPT !.linger = FALSE] ELSE c

\* The peer's FIN came before ours was sent: no need to linger.
passive_close(c) ==
  IF receiver_summary(c.receiver) = "FIN_RECV" /\ sender_summary(c.sender) = "SYN_ACKED"
  THEN [c EXCEPT !.linger = FALSE] ELSE c

\* TCPConnection::state
state(c) == state_of(c.sender, c.receiver, active(c), c.linger)

process_ack(c, seg) ==
  IF seg.ack THEN [c EXCEPT !.sender = ack_received(@, seg.ackno, seg.win)] ELSE c

\* Mutation: only data is sent in reply, never an empty segment.
reply_with_data(c, seg) ==
  IF length_in_sequence_space(seg) = 0 THEN c ELSE [c EXCEPT !.sender = fill_window(@)]

\* Whatever takes sequence numbers is answered, by data if there is some to send.
reply(c, seg) ==
  LET s == fill_window(c.sender)
  IN  IF length_in_sequence_space(seg) = 0 THEN c
      ELSE [c EXCEPT !.sender = IF s.segments_out = <<>> THEN send_empty_segment(s) ELSE s]

\* An empty segment just below the window is a keep-alive and is answered.
answer_keep_alive(c, seg) ==
  IF /\ has_ackno(c.receiver)
     /\ length_in_sequence_space(seg) = 0
     /\ seg.seqno = (ackno(c.receiver) - 1 + MOD) % MOD
  THEN [c EXCEPT !.sender = send_empty_segment(@)] ELSE c

conn_segment_received(c, seg) ==
  LET c0 == [c EXCEPT !.silence = 0]
      c1 == process_ack([c0 EXCEPT !.receiver = receiver_segment_received(@, seg)], seg)
      c2 == passive_close(c1)
  IN  IF ~c.is_active THEN c
      ELSE IF seg.rst THEN set_rst_state(c0, FALSE)
      ELSE IF receiver_summary(c1.receiver) = "SYN_RECV" /\ c1.sender.next = 0 THEN connect(c1)
      ELSE send_segments(answer_keep_alive(reply(c2, seg), seg))

\* The silence is counted up to LingerTime, the only value it is compared with.
conn_tick(c, ms) ==
  LET c1 == [c EXCEPT !.silence = Smaller(@ + ms, LingerTime), !.sender = sender_tick(@, ms)]
      c2 == send_segments(c1)
  IN  IF ~c.is_active THEN c
      ELSE IF c1.sender.retransmissions > MaxRetx THEN set_rst_state(c1, TRUE)
      ELSE [c2 EXCEPT !.is_active = active(c2)]
=============================================================================
