---------------------------- MODULE MCSocketRead ----------------------------
(* SocketRead with headers of two bytes and a small input buffer. *)
EXTENDS SocketRead
=============================================================================
