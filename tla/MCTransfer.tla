----------------------------- MODULE MCTransfer -----------------------------
(* Transfer for TLC: files of no, two and three blocks, the last with more blocks *)
(* than the int that counts up to 2 can hold.  Three runs are two uploads of a     *)
(* name and a download.                                                            *)
EXTENDS Transfer

MCVersions == {<<>>, <<"x", "y">>, <<"y", "x", "y">>}
MCShortVersions == {<<>>, <<"x">>, <<"x", "y">>}
MCStackOffset == {-1, 0, 1}
=============================================================================
