------------------------------- MODULE MCAdapter -------------------------------
(* Words of four bits; two addresses and two ports at either end.  On the Ethernet, one    *)
(* host that uses both ports, and addresses that live for two ticks.                       *)
EXTENDS TapAdapter, MCBuffers

NoOrOneWord == {<<>>, <<0>>, <<9>>}
FromOneHost ==
  {m \in Messages : /\ m.src.ip = 3 /\ m.dst = Endpoint(1, 5) /\ m.proto = PROTO_TCP
                    /\ m.flags = 0 /\ m.payload \in {<<>>, <<9>>}}
=============================================================================
