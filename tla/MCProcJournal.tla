--------------------------- MODULE MCProcJournal ---------------------------
(* ProcJournal for TLC: the journals of one or two files, written by handler *)
(* threads of one server process and by the daemon.                          *)
EXTENDS ProcJournal

CONSTANTS h1, h2, d

\* The server's threads end together, the daemon is a process of its own.
MCProcess == {Appender \cap {h1, h2}, Appender \cap {d}} \ {{}}
=============================================================================
