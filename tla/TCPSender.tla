------------------------------- MODULE TCPSender -------------------------------
(***************************************************************************)
(* libsponge/tcp_sender.{hh,cc}: cuts the outgoing stream into segments    *)
(* that fit the peer's window, keeps the unacknowledged ones, and sends    *)
(* the oldest again when the retransmission timer expires.  A sender is a  *)
(* record with one field per data member of the class.                     *)
(***************************************************************************)
EXTENDS ByteStream, TCPSegment, WrappingIntegers, FiniteSetsExt

CONSTANTS MaxPayload,   \* TCPConfig::MAX_PAYLOAD_SIZE
          RtTimeout     \* the initial retransmission timeout, in ms

ASSUME SenderAssumption == MaxPayload \in Nat \ {0} /\ RtTimeout \in Nat \ {0}

NewSender(isn, capacity) ==
  [isn |-> isn, stream |-> NewByteStream(capacity), next |-> 0, last_ack |-> 0,
   fin_sent |-> FALSE, window |-> 1, segments_out |-> <<>>, outstanding |-> <<>>,
   timer_running |-> FALSE, elapsed |-> 0, rto |-> RtTimeout, retransmissions |-> 0]

Senders(Byte, Window) ==
  [isn : WrappingInt32, stream : ByteStreams(Byte), next : Nat, last_ack : Nat,
   fin_sent : BOOLEAN, window : Window,
   segments_out : Seq(Segments(Byte, WrappingInt32, Window)),
   outstanding  : Seq(Segments(Byte, WrappingInt32, Window)),
   timer_running : BOOLEAN, elapsed : Nat, rto : Nat, retransmissions : Nat]

bytes_in_flight(s) == s.next - s.last_ack

\* A zero window counts as one, so that a probe keeps asking for a new one.
current_window(s) == IF s.window = 0 THEN 1 ELSE s.window

\* The loop of fill_window() cuts the readable bytes that fit into segments of
\* MaxPayload; the SYN precedes the first and the FIN follows the last, if the
\* stream is exhausted and the window has room for it.
window_remain(s) == IF current_window(s) > bytes_in_flight(s)
                    THEN current_window(s) - bytes_in_flight(s) ELSE 0

payload_size(s, syn) == peekable(s.stream, window_remain(s) - One(syn))

\* Mutation: the FIN does not wait for the rest of the stream.
sends_fin_early(s, syn, size) == s.stream.ended /\ One(syn) + size < window_remain(s)

\* Mutation: the FIN does not need room in the window.
sends_fin_anyway(s, syn, size) == s.stream.ended /\ size = Len(s.stream.buffer)

sends_fin(s, syn, size) ==
  s.stream.ended /\ size = Len(s.stream.buffer) /\ One(syn) + size < window_remain(s)

\* Mutation: the last, shorter piece gets no segment.
segment_count_floor(size, syn, fin) == Larger(size \div MaxPayload, One(syn \/ fin))

segment_count(size, syn, fin) ==
  Larger((size + MaxPayload - 1) \div MaxPayload, One(syn \/ fin))

\* Mutation: every piece is taken from the front of the buffer.
new_segment_front(s, size, syn, fin, i) ==
  LET from  == (i - 1) * MaxPayload
      count == segment_count(size, syn, fin)
  IN  [EmptySegment EXCEPT
         !.syn     = syn /\ i = 1,
         !.fin     = fin /\ i = count,
         !.payload = SubSeq(s.stream.buffer, 1, Smaller(from + MaxPayload, size) - from),
         !.seqno   = wrap(s.next + from + IF i = 1 THEN 0 ELSE One(syn), s.isn)]

new_segment(s, size, syn, fin, i) ==
  LET from  == (i - 1) * MaxPayload
      count == segment_count(size, syn, fin)
  IN  [EmptySegment EXCEPT
         !.syn     = syn /\ i = 1,
         !.fin     = fin /\ i = count,
         !.payload = SubSeq(s.stream.buffer, from + 1, Smaller(from + MaxPayload, size)),
         !.seqno   = wrap(s.next + from + IF i = 1 THEN 0 ELSE One(syn), s.isn)]

new_segments(s, size, syn, fin) ==
  [i \in 1 .. segment_count(size, syn, fin) |-> new_segment(s, size, syn, fin, i)]

fill_window(s) ==
  LET syn  == s.next = 0
      size == payload_size(s, syn)
      fin  == sends_fin(s, syn, size)
      segs == new_segments(s, size, syn, fin)
  IN  IF s.fin_sent \/ window_remain(s) = 0 \/ segs = <<>> THEN s
      ELSE [s EXCEPT !.stream        = pop_output(@, size),
                     !.next          = @ + One(syn) + size + One(fin),
                     !.fin_sent      = fin,
                     !.segments_out  = @ \o segs,
                     !.outstanding   = @ \o segs,
                     !.elapsed       = IF s.timer_running THEN @ ELSE 0,
                     !.timer_running = TRUE]

\* The end of an outstanding segment, in absolute sequence numbers.
segment_end(s, seg) == unwrap(seg.seqno, s.isn, s.next) + length_in_sequence_space(seg)

\* Mutation: a segment acknowledged in part is dropped.
pop_acked_partly(s, abs_ack) ==
  LET n       == Len(s.outstanding)
      unacked == {i \in 1 .. n : unwrap(s.outstanding[i].seqno, s.isn, s.next) >= abs_ack}
  IN  [s EXCEPT !.outstanding = SubSeq(@, Min(unacked \cup {n + 1}), n)]

\* Outstanding segments leave from the front, up to the first that is not fully
\* acknowledged.
pop_acked(s, abs_ack) ==
  LET n      == Len(s.outstanding)
      unacked == {i \in 1 .. n : segment_end(s, s.outstanding[i]) > abs_ack}
  IN  [s EXCEPT !.outstanding = SubSeq(@, Min(unacked \cup {n + 1}), n)]

\* New data acknowledged: the timer starts over with the initial timeout.
restart_timer(s, abs_ack) ==
  [s EXCEPT !.last_ack = abs_ack, !.rto = RtTimeout, !.retransmissions = 0, !.elapsed = 0]

\* Mutation: the timer is never stopped.
never_stop_timer(s, is_new_data) == [s EXCEPT !.timer_running = @ \/ is_new_data]

stop_idle_timer(s, is_new_data) ==
  IF s.outstanding = <<>> THEN [s EXCEPT !.timer_running = FALSE, !.elapsed = 0]
  ELSE [s EXCEPT !.timer_running = @ \/ is_new_data]

\* The window is taken from every acceptable ACK, old ones included.
take_window(s, win) == [s EXCEPT !.window = win]

ack_received(s, ackno, win) ==
  LET abs_ack == unwrap(ackno, s.isn, s.next)
      is_new  == abs_ack > s.last_ack
      s1      == take_window(s, win)
      s2      == IF is_new THEN restart_timer(s1, abs_ack) ELSE s1
  IN  IF abs_ack > s.next THEN s
      ELSE stop_idle_timer(fill_window(pop_acked(s2, abs_ack)), is_new)

\* The oldest outstanding segment goes out again; the timeout doubles unless the
\* segment is a probe of a closed window.
retransmit(s) ==
  [s EXCEPT !.segments_out    = Append(@, Head(s.outstanding)),
            !.rto             = IF s.window > 0 THEN 2 * @ ELSE @,
            !.retransmissions = @ + 1,
            !.elapsed         = 0]

sender_tick(s, ms) ==
  LET s1 == [s EXCEPT !.elapsed = @ + ms]
  IN  IF ~s.timer_running THEN s
      ELSE IF s1.elapsed >= s.rto /\ s.outstanding # <<>> THEN retransmit(s1)
      ELSE s1

send_empty_segment(s) ==
  [s EXCEPT !.segments_out = Append(@, [EmptySegment EXCEPT !.seqno = wrap(s.next, s.isn)])]
=============================================================================
