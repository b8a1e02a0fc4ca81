----------------------------- MODULE StreamChannel -----------------------------
(***************************************************************************)
(* What one direction of a TCP connection promises its two applications: a *)
(* pipe.  Bytes written at one end come out at the other in order, each    *)
(* once; the end of the stream comes out after the last byte and only if   *)
(* the writer ended it.  Either end may fail, after which nothing more     *)
(* needs to come out.                                                      *)
(***************************************************************************)
EXTENDS Naturals, Sequences

CONSTANT Byte

VARIABLES written,   \* the bytes the writer has put in
          closed,    \* the writer has ended its stream
          arrived,   \* the bytes available to, or already taken by, the reader
          ended      \* the reader's stream has ended

chanVars == <<written, closed, arrived, ended>>

ChanInit == written = <<>> /\ closed = FALSE /\ arrived = <<>> /\ ended = FALSE

Put ==
  /\ ~closed
  /\ written' \in Seq(Byte)
  /\ Len(written') > Len(written)
  /\ SubSeq(written', 1, Len(written)) = written
  /\ UNCHANGED <<closed, arrived, ended>>

Close == ~closed /\ closed' = TRUE /\ UNCHANGED <<written, arrived, ended>>

\* More of what was written arrives; the end may arrive with the last of it.
Arrive ==
  /\ ~ended
  /\ Len(arrived') \in Len(arrived) .. Len(written)
  /\ arrived' = SubSeq(written, 1, Len(arrived'))
  /\ ended' => closed /\ arrived' = written
  /\ UNCHANGED <<written, closed>>

ChanNext == Put \/ Close \/ Arrive

ChanSpec == ChanInit /\ [][ChanNext]_chanVars
=============================================================================
