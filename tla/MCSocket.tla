------------------------------- MODULE MCSocket -------------------------------
(* One byte to the peer and two from it, through a socket pair that holds one. *)
EXTENDS SpongeSocket

CONSTANTS OwnerBytes, PeerBytes

Bytes  == 1 .. OwnerBytes \cup 11 .. 10 + PeerBytes
ToSend == [i \in 1 .. OwnerBytes |-> i]
ToRead == [i \in 1 .. PeerBytes |-> 10 + i]
=============================================================================
