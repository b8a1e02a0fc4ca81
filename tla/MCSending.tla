------------------------------- MODULE MCSending -------------------------------
(***************************************************************************)
(* Sending for TLC: a stream longer than a segment, numbers that wrap; and *)
(* the loops of fill_window() and ack_received() one iteration at a time.  *)
(***************************************************************************)
EXTENDS Sending

CONSTANT StreamLength

Bytes    == 1 .. StreamLength
Numbered == [i \in 1 .. StreamLength |-> i]

\* The while loop of fill_window().
RECURSIVE FillLoop(_, _)
FillLoop(t, win) ==
  LET remain == win - bytes_in_flight(t)
      syn    == t.next = 0
      len    == Smaller(remain - One(syn), MaxPayload)
      stream == pop_output(t.stream, len)
      bare   == [EmptySegment EXCEPT !.syn = syn, !.payload = peek_output(t.stream, len)]
      fin    == ~t.fin_sent /\ eof(stream) /\ length_in_sequence_space(bare) < remain
      seg    == [bare EXCEPT !.fin = fin, !.seqno = wrap(t.next, t.isn)]
      size   == length_in_sequence_space(seg)
      after  == [t EXCEPT !.stream = stream, !.fin_sent = @ \/ fin, !.next = @ + size,
                          !.segments_out = Append(@, seg), !.outstanding = Append(@, seg),
                          !.elapsed = IF t.timer_running THEN @ ELSE 0, !.timer_running = TRUE]
  IN  IF win <= bytes_in_flight(t) \/ size = 0 THEN t
      ELSE IF fin THEN after ELSE FillLoop(after, win)

\* The while loop of ack_received().
RECURSIVE PopLoop(_, _)
PopLoop(t, abs_ack) ==
  IF t.outstanding = <<>> \/ segment_end(t, Head(t.outstanding)) > abs_ack THEN t
  ELSE PopLoop([t EXCEPT !.outstanding = Tail(@)], abs_ack)

\* fill_window() and the popping of acknowledged segments compute what their loops
\* compute, for every window and acknowledgment.
SenderMatchesLoops ==
  /\ \A win \in Window :
       LET t == take_window(s, win)
       IN  fill_window(t) = IF t.fin_sent THEN t ELSE FillLoop(t, current_window(t))
  /\ \A abs_ack \in 0 .. s.next : pop_acked(s, abs_ack) = PopLoop(s, abs_ack)
=============================================================================
