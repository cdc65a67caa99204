--------------------------- MODULE MCWorldSession ---------------------------
(***************************************************************************)
(* WorldSession with a client that connects up to three times.             *)
(***************************************************************************)
EXTENDS WorldSession
=============================================================================
