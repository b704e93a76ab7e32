----------------------------- MODULE FileVault -----------------------------
(***************************************************************************)
(* What the file server promises a client, with disk, metadata, keys and   *)
(* threads abstracted away: a file enters the vault as a whole, under the  *)
(* certificate of the client that sent it, and a download that succeeds    *)
(* hands out a file that the same client stored under that name, from a    *)
(* place inside of it to its end.  Nothing stored is ever changed into     *)
(* something else.                                                         *)
(***************************************************************************)
EXTENDS Naturals

CONSTANTS
    Session,    \* the connections answers go to
    Version,    \* what can be stored: owner, name and content
    Size,       \* how long each version is
    Nothing     \* no download has been answered on the connection

VARIABLES
    stored,     \* the versions clients have stored
    answer      \* per connection, what its last download delivered

vars == <<stored, answer>>

Answer == [version : Version, from : Nat]

TypeOK ==
    /\ stored \in SUBSET Version
    /\ answer \in [Session -> Answer \cup {Nothing}]

Init ==
    /\ stored = {}
    /\ answer = [s \in Session |-> Nothing]

Store(v) ==
    /\ stored' = stored \cup {v}
    /\ UNCHANGED answer

\* A download on connection s delivers a stored version from a place inside of it.
Deliver(s, v, from) ==
    /\ v \in stored
    /\ from \in 0..Size[v]
    /\ answer' = [answer EXCEPT ![s] = [version |-> v, from |-> from]]
    /\ UNCHANGED stored

\* Connections move on: another request, another client, the end of the server.
Forget(connections) ==
    /\ answer' = [s \in Session |-> IF s \in connections THEN Nothing ELSE answer[s]]
    /\ UNCHANGED stored

Next ==
    \/ \E v \in Version : Store(v)
    \/ \E s \in Session, v \in Version : \E from \in 0..Size[v] : Deliver(s, v, from)
    \/ \E connections \in SUBSET Session : Forget(connections)

Spec == Init /\ [][Next]_vars
=============================================================================
