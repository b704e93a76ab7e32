---------------------------- MODULE MCFileServer ----------------------------
(* FileServer for TLC: a name, a name with an extension whose stem is the    *)
(* first one, and a name the path check refuses; a short and a long content. *)
EXTENDS FileServer, TLC

CONSTANTS s1, s2, c1, c2

MCStem == [n \in Filename |-> "a"]

MCBlocks == [x \in Content |-> IF x = "long" THEN 2 ELSE 1]
\* The sessions are alike, and so are the clients.
MCSymmetry == Permutations({s1, s2}) \cup Permutations({c1, c2})
=============================================================================
