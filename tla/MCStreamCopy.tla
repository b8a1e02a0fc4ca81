----------------------------- MODULE MCStreamCopy -----------------------------
(* Two bytes each way, through streams of two and kernel queues of one. *)
EXTENDS StreamCopy

Bytes   == {1, 2, 11, 12}
ToType  == <<1, 2>>
ToWrite == <<11, 12>>
=============================================================================
