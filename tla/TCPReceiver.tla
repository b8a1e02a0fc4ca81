------------------------------ MODULE TCPReceiver ------------------------------
(***************************************************************************)
(* libsponge/tcp_receiver.{hh,cc}: turns segments into pushes on a         *)
(* StreamReassembler, and the reassembler's progress into the ackno and    *)
(* the window it advertises.                                               *)
(***************************************************************************)
EXTENDS StreamReassembler, TCPSegment, WrappingIntegers

NewReceiver(capacity) ==
  [isn |-> 0, syn_received |-> FALSE, reassembler |-> NewReassembler(capacity)]

stream_out(rcv) == rcv.reassembler.output

\* Every SYN sets the ISN, the first and any later one.
note_syn(rcv, seg) ==
  IF seg.syn THEN [rcv EXCEPT !.syn_received = TRUE, !.isn = seg.seqno] ELSE rcv

\* The absolute sequence number of a segment: the one closest to the first
\* unassembled byte.
abs_seqno(rcv, seg) == unwrap(seg.seqno, rcv.isn, stream_out(rcv).written + 1)

\* A segment without SYN at absolute number 0 gets the stream index 2^64 - 1, which
\* the reassembler ignores.  A SYN without payload is pushed only if it is also a FIN.
receiver_segment_received(rcv, seg) ==
  LET rcv1  == note_syn(rcv, seg)
      abs   == abs_seqno(rcv1, seg)
      index == abs - 1 + One(seg.syn)
      push(i) == [rcv1 EXCEPT !.reassembler = push_substring(@, seg.payload, i, seg.fin)]
  IN  IF ~rcv1.syn_received                THEN rcv1
      ELSE IF seg.syn /\ seg.payload = <<>> THEN IF seg.fin THEN push(0) ELSE rcv1
      ELSE IF index < 0                     THEN rcv1
      ELSE push(index)

\* ackno().has_value()
has_ackno(rcv) == rcv.syn_received

\* Mutation: the FIN is counted from the start.
abs_ackno_high(rcv) == stream_out(rcv).written + 2

\* The absolute form of ackno(): the SYN, the assembled bytes, the FIN once assembled.
abs_ackno(rcv) == stream_out(rcv).written + 1 + One(stream_out(rcv).ended)

ackno(rcv) == wrap(abs_ackno(rcv), rcv.isn)

window_size(rcv) == remaining_capacity(stream_out(rcv))
=============================================================================
