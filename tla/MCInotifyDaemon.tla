-------------------------- MODULE MCInotifyDaemon --------------------------
(* InotifyDaemon for TLC: one or two daemons, two names, a queue of two. *)
EXTENDS InotifyDaemon

CONSTANTS d1, d2
=============================================================================
