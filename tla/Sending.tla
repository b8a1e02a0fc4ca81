-------------------------------- MODULE Sending --------------------------------
(***************************************************************************)
(* A TCPSender at work, against any peer: acknowledgments arrive with any  *)
(* number and any window, in any order, also ones that acknowledge         *)
(* nothing or more than was sent.  Each step is a call that TCPConnection  *)
(* makes, followed by _send_segments(), which empties the sender's queue   *)
(* into the connection's.                                                  *)
(***************************************************************************)
EXTENDS TCPSender

CONSTANTS Byte,
          Stream,      \* the bytes the application writes
          SenderIsn,
          SendCapacity,
          MaxWindow,   \* 0xffff: the largest window a header can carry
          MaxTries     \* bound: no tick once this many retransmissions were made in a row

ASSUME SendingAssumption ==
  /\ Stream \in Seq(Byte)
  /\ SenderIsn \in WrappingInt32
  /\ SendCapacity \in Nat \ {0}
  /\ MaxWindow \in Nat \ {0}
  /\ MaxTries \in Nat

\* Half the sequence space exceeds what can be in flight: 2^31 against 65535 + 1002.
ASSUME FlightAssumption == MaxWindow + MaxPayload + 2 < HalfMOD

VARIABLE s

Window == 0 .. MaxWindow

Init == s = NewSender(SenderIsn, SendCapacity)

drained(t) == [t EXCEPT !.segments_out = <<>>]

\* TCPConnection::connect
Open == s.next = 0 /\ s' = drained(fill_window(s))

\* TCPConnection::write
Write(n) ==
  /\ s.stream.written + n <= Len(Stream)
  /\ LET data == SubSeq(Stream, s.stream.written + 1, s.stream.written + n)
     IN  s' = drained(fill_window([s EXCEPT !.stream = write(@, data)]))

\* TCPConnection::end_input_stream
End == s' = drained(fill_window([s EXCEPT !.stream = end_input(@)]))

Ack(ackno, win) == s' = drained(ack_received(s, ackno, win))

Tick(ms) ==
  /\ s.retransmissions < MaxTries
  /\ s' = drained(sender_tick(s, ms))

\* TCPConnection::_set_rst_state
Fail == s' = [s EXCEPT !.stream = set_error(@)]

Next ==
  \/ Open
  \/ \E n \in 1 .. Len(Stream) : Write(n)
  \/ End
  \/ \E ackno \in WrappingInt32, win \in Window : Ack(ackno, win)
  \/ \E ms \in 1 .. RtTimeout : Tick(ms)
  \/ Fail

Spec == Init /\ [][Next]_s

-----------------------------------------------------------------------------
TypeOK == s \in Senders(Byte, Window)

seg_start(i) == unwrap(s.outstanding[i].seqno, s.isn, s.next)
seg_end(i)   == segment_end(s, s.outstanding[i])

\* The outstanding segments are exactly what is in flight: they follow each other
\* without gap or overlap, the first holds the oldest unacknowledged number and the
\* last ends at next_seqno, whatever acknowledgments arrive and wherever the 32-bit
\* numbers wrap.
OutstandingIsInFlight ==
  LET n == Len(s.outstanding)
  IN  /\ n = 0 => s.last_ack = s.next
      /\ n > 0 => /\ seg_start(1) <= s.last_ack
                  /\ s.last_ack < seg_end(1)
                  /\ seg_end(n) = s.next
      /\ \A i \in 1 .. n - 1 : seg_end(i) = seg_start(i + 1)

\* The retransmission timer runs if and only if something is unacknowledged, so
\* that what is lost is sent again and an idle sender is silent.
TimerRunsWhileOutstanding == s.timer_running <=> s.outstanding # <<>>

\* next_seqno accounts for the SYN, the bytes taken from the stream and the FIN, and
\* the FIN is sent only after the last byte.
SequenceSpaceAccounted ==
  /\ s.next = One(s.next > 0) + s.stream.read + One(s.fin_sent)
  /\ s.fin_sent => s.stream.ended /\ s.stream.buffer = <<>>

\* A retransmission carries what was sent first: segments keep the stream's bytes.
SegmentsCarryStream ==
  \A i \in 1 .. Len(s.outstanding) :
    LET seg == s.outstanding[i]
        pos == seg_start(i) - One(~seg.syn)
    IN  /\ seg.payload = SubSeq(Stream, pos + 1, pos + Len(seg.payload))
        /\ seg.syn <=> seg_start(i) = 0
        /\ seg.fin => seg_end(i) = s.stream.written + 2

\* New numbers are only used within the window that is in force after the step (one
\* number if it is closed); nothing is ever taken back.
StaysInWindow ==
  [][/\ s'.next >= s.next
     /\ s'.last_ack >= s.last_ack
     /\ s'.next > s.next => bytes_in_flight(s') <= current_window(s')]_s
=============================================================================
