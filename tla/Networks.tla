------------------------------- MODULE Networks -------------------------------
(***************************************************************************)
(* Two networks for TCPPeers.  The adversarial path is the set of all      *)
(* segments ever sent: each may arrive any number of times, in any order,  *)
(* or never.  The fair path is a queue that loses at most MaxLosses        *)
(* segments (LossyFdAdapter drops segments at random).                     *)
(***************************************************************************)
EXTENDS Naturals, Sequences, FiniteSets

CONSTANT MaxLosses

Elements(q) == {q[i] : i \in 1 .. Len(q)}

AnyOrderEmpty          == {}
AnyOrderEnter(S, segs) == S \cup Elements(segs)
AnyOrderArrivals(S)    == {<<seg, S>> : seg \in S}
AnyOrderLosses(S)      == {}
AnyOrderOnPath(S)      == S

FifoEmpty            == [queue |-> <<>>, lost |-> 0]
FifoEnter(f, segs)   == [f EXCEPT !.queue = @ \o segs]
FifoArrivals(f)      == IF f.queue = <<>> THEN {}
                        ELSE {<<Head(f.queue), [f EXCEPT !.queue = Tail(@)]>>}
FifoLosses(f)        == IF f.queue # <<>> /\ f.lost < MaxLosses
                        THEN {[queue |-> Tail(f.queue), lost |-> f.lost + 1]} ELSE {}
FifoOnPath(f)        == Elements(f.queue)
=============================================================================
