------------------------------- MODULE TCPState -------------------------------
(***************************************************************************)
(* tcp_helpers/tcp_state.{hh,cc}: the summaries of a sender and a receiver *)
(* from which the connection decides, and the official TCP state names     *)
(* they add up to.                                                         *)
(***************************************************************************)
EXTENDS TCPReceiver, TCPSender

\* TCPState::state_summary(const TCPReceiver &)
receiver_summary(rcv) ==
  CASE stream_out(rcv).error                                        -> "ERROR"
    [] ~stream_out(rcv).error /\ ~has_ackno(rcv)                     -> "LISTEN"
    [] ~stream_out(rcv).error /\ has_ackno(rcv) /\ stream_out(rcv).ended  -> "FIN_RECV"
    [] ~stream_out(rcv).error /\ has_ackno(rcv) /\ ~stream_out(rcv).ended -> "SYN_RECV"

\* Whether the FIN has been sent: one number each for SYN and FIN beside the bytes.
all_sent(s) == eof(s.stream) /\ s.next = s.stream.written + 2

\* TCPState::state_summary(const TCPSender &)
sender_summary(s) ==
  CASE s.stream.error                                     -> "ERROR"
    [] ~s.stream.error /\ s.next = 0                      -> "CLOSED"
    [] ~s.stream.error /\ s.next > 0 /\ s.last_ack = 0    -> "SYN_SENT"
    [] ~s.stream.error /\ s.last_ack > 0 /\ ~all_sent(s)  -> "SYN_ACKED"
    [] ~s.stream.error /\ s.last_ack > 0 /\ all_sent(s)   ->
         IF bytes_in_flight(s) > 0 THEN "FIN_SENT" ELSE "FIN_ACKED"

\* The TCPState of a sender and a receiver: an inactive connection does not linger.
state_of(s, rcv, is_active, linger) ==
  [sender |-> sender_summary(s), receiver |-> receiver_summary(rcv),
   active |-> is_active, linger |-> is_active /\ linger]

\* The official states of a handshake, the ones the socket waits in.
Official(rcv, snd) == [sender |-> snd, receiver |-> rcv, active |-> TRUE, linger |-> TRUE]

LISTEN   == Official("LISTEN", "CLOSED")
SYN_RCVD == Official("SYN_RECV", "SYN_SENT")
SYN_SENT == Official("LISTEN", "SYN_SENT")
=============================================================================
