------------------------------ MODULE Channel ------------------------------
(***************************************************************************)
(* One direction of a connection as Transfer uses it: messages given to it *)
(* are taken from it whole and in order, or not at all.                    *)
(***************************************************************************)
EXTENDS Naturals, Sequences

CONSTANT Message

VARIABLES
    given,   \* the messages handed to the sending side
    taken    \* the messages the receiving side got

vars == <<given, taken>>

Init == given = <<>> /\ taken = <<>>

Give(m) == given' = Append(given, m) /\ UNCHANGED taken

Take ==
    /\ Len(taken) < Len(given)
    /\ taken' = Append(taken, given[Len(taken) + 1])
    /\ UNCHANGED given

Next == Take \/ \E m \in Message : Give(m)

Spec == Init /\ [][Next]_vars
=============================================================================
