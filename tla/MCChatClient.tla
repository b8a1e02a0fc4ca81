------------------------------ MODULE MCChatClient ------------------------------
(* Two connections, three requests, and a message of another client. *)
EXTENDS ChatClient
=============================================================================
