----------------------------- MODULE MCSqlDelay -----------------------------
(***************************************************************************)
(* SqlDelay with a world and a network thread, which nobody joins.         *)
(***************************************************************************)
EXTENDS SqlDelay
=============================================================================
