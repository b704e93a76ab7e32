----------------------------- MODULE MCExchange -----------------------------
(* Exchange for TLC: one handler thread, one daemon, two names. *)
EXTENDS Exchange

MCPath == [n \in Name |-> "/" \o n]
MCStem == [n \in Name \cup Range(MCPath) |-> IF n \in Name THEN n
              ELSE CHOOSE m \in Name : MCPath[m] = n]
MCBlocks == [x \in Content |-> 1]
=============================================================================
