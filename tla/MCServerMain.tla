---------------------------- MODULE MCServerMain ----------------------------
(* ServerMain for TLC: two connections at a time. *)
EXTENDS ServerMain

CONSTANTS k1, k2
=============================================================================
