------------------------------ MODULE ProcMap ------------------------------
(***************************************************************************)
(* What the "proc" journal of the metadata collection promises, whoever    *)
(* writes it (handler threads of the server, the inotify daemon): a base   *)
(* document is created once and never goes away, its events are numbered   *)
(* 1, 2, 3, ... without a gap, and an event is put either at the next free *)
(* number or over an event that is already there.  It does not promise     *)
(* that an event stays: ProcJournal shows why.                             *)
(***************************************************************************)
EXTENDS Naturals, Sequences

CONSTANTS
    FileId,   \* the _id values of base documents: full paths
    Event     \* the event documents stored under proc.<key>

VARIABLES
    base,     \* the ids that have a base document
    proc      \* the proc map of each id, keys 1..Len

vars == <<base, proc>>

TypeOK ==
    /\ base \in SUBSET FileId
    /\ proc \in [FileId -> Seq(Event)]

Init ==
    /\ base = {}
    /\ proc = [f \in FileId |-> <<>>]

\* A base document with an empty proc map appears.
Create(f) ==
    /\ f \notin base
    /\ base' = base \cup {f}
    /\ UNCHANGED proc

\* Event e becomes number k of the journal of f.
Put(f, k, e) ==
    /\ f \in base
    /\ k \in 1..(Len(proc[f]) + 1)
    /\ proc' = [proc EXCEPT ![f] =
                   [i \in 1..(IF k > Len(@) THEN k ELSE Len(@)) |->
                       IF i = k THEN e ELSE @[i]]]
    /\ UNCHANGED base

Next ==
    \E f \in FileId :
        \/ Create(f)
        \/ \E k \in 1..(Len(proc[f]) + 1), e \in Event : Put(f, k, e)

Spec == Init /\ [][Next]_vars
=============================================================================
