-------------------------------- MODULE MCChat --------------------------------
(* Four clients and room for three: one may be refused, and all may leave in any order. *)
EXTENDS ChatServer, TLC

Clients == Permutations(Conn)
=============================================================================
