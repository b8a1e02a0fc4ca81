------------------------------ MODULE TCPSegment ------------------------------
(***************************************************************************)
(* tcp_helpers/tcp_header.hh and tcp_segment.{hh,cc}: the header fields    *)
(* the connection logic reads, and the payload.  Ports, checksum, offset   *)
(* and urgent pointer carry nothing the logic looks at.                    *)
(***************************************************************************)
EXTENDS Naturals, Sequences

\* A default-constructed segment: every flag off, every number 0.
EmptySegment ==
  [seqno |-> 0, syn |-> FALSE, fin |-> FALSE, rst |-> FALSE, payload |-> <<>>,
   ack |-> FALSE, ackno |-> 0, win |-> 0]

Segments(Byte, SeqNo, Window) ==
  [seqno : SeqNo, syn : BOOLEAN, fin : BOOLEAN, rst : BOOLEAN, payload : Seq(Byte),
   ack : BOOLEAN, ackno : SeqNo, win : Window]

One(flag) == IF flag THEN 1 ELSE 0

length_in_sequence_space(seg) == Len(seg.payload) + One(seg.syn) + One(seg.fin)
=============================================================================
