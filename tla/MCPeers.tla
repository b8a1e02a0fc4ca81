-------------------------------- MODULE MCPeers --------------------------------
(* TCPPeers for TLC: short streams, sequence numbers that wrap on the way. *)
EXTENDS TCPPeers, Networks

CONSTANTS ClientBytes, ServerBytes   \* how many bytes each application writes

Bytes == 1 .. ClientBytes \cup 11 .. 10 + ServerBytes   \* all bytes differ

Streams == [p \in Peers |-> IF p = Client THEN [i \in 1 .. ClientBytes |-> i]
                                          ELSE [i \in 1 .. ServerBytes |-> 10 + i]]

Isns == [p \in Peers |-> IF p = Client THEN MOD - 2 ELSE MOD - 1]
=============================================================================
