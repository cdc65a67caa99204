---------------------------- MODULE MCMapUpdate ----------------------------
(***************************************************************************)
(* MapUpdate with fewer threads than maps.                                 *)
(***************************************************************************)
EXTENDS MapUpdate
=============================================================================
