--------------------------- MODULE MCSocketWrite ---------------------------
(* SocketWrite with two senders, the network thread and a world thread. *)
EXTENDS SocketWrite
=============================================================================
