---------------------------- MODULE ProcJournal ----------------------------
(***************************************************************************)
(* append_proc_event as the server threads and the inotify daemon run it,  *)
(* statement for statement the same in src/server/server.c and src/main.c: *)
(* insert the base document (a duplicate is fine), read the document and   *)
(* compute the next key, $set proc.<key>.  The three are separate requests *)
(* to MongoDB, so appenders interleave between them.                       *)
(*                                                                         *)
(* An event carries, as a ghost, the appender that wrote it (field by).    *)
(***************************************************************************)
EXTENDS Naturals, Sequences, FiniteSetsExt

CONSTANTS
    Appender,   \* threads that call append_proc_event
    Process,    \* the appenders of each process: they stop together
    FileId,     \* full paths, the _id of base documents
    Kind,       \* the change types an event is written for
    Errno,      \* values errno may hold when strtol returns
    Faults,     \* may the driver, the network or malloc fail?
    MaxKeys     \* bound: no new call on a file with this many events

ASSUME ErrnoAssumption == Errno \subseteq Nat
ASSUME FaultsAssumption == Faults \in BOOLEAN
ASSUME ProcessAssumption == Process \subseteq SUBSET Appender
ASSUME MaxKeysAssumption == MaxKeys \in Nat
ASSUME NonEmptyAssumption == FileId # {} /\ Kind # {}

Event == [by : Appender, kind : Kind]
Call == [id : FileId, kind : Kind]

\* What call and next hold while the appender is not in append_proc_event.
NoCall == CHOOSE c \in Call : TRUE

VARIABLES
    base,   \* ids with a base document
    proc,   \* the proc map of each id: a function from keys to events
    at,     \* where each appender stands in append_proc_event
    call,   \* the arguments of its last call
    next    \* next_key as get_next_proc_key returned it

vars == <<base, proc, at, call, next>>

Init ==
    /\ base = {}
    /\ proc = [f \in FileId |-> <<>>]
    /\ at = [a \in Appender |-> "idle"]
    /\ call = [a \in Appender |-> NoCall]
    /\ next = [a \in Appender |-> 0]

\* append_proc_event returns.
Return(a) ==
    /\ at' = [at EXCEPT ![a] = "idle"]
    /\ call' = [call EXCEPT ![a] = NoCall]
    /\ next' = [next EXCEPT ![a] = 0]

\* The failures of a request: none, or any when faults are on.
Outcomes == IF Faults THEN {"done", "failed", "done_but_failed"} ELSE {"done"}

\* append_proc_event(id, kind, "success") is entered.
Begin(a, id, kind) ==
    /\ at[a] = "idle"
    /\ at' = [at EXCEPT ![a] = "base"]
    /\ call' = [call EXCEPT ![a] = [id |-> id, kind |-> kind]]
    /\ UNCHANGED <<base, proc, next>>

\* Mutant of CreateBaseDocument: its result is not looked at.
CreateBaseDocumentUnchecked(a) ==
    /\ at[a] = "base"
    /\ \E outcome \in Outcomes :
          base' = IF outcome = "failed" THEN base ELSE base \cup {call[a].id}
    /\ at' = [at EXCEPT ![a] = "key"]
    /\ UNCHANGED <<proc, call, next>>

\* Mutant of CreateBaseDocument: a document that is there already is an error.
CreateBaseDocumentOnce(a) ==
    /\ at[a] = "base"
    /\ \E outcome \in Outcomes :
          /\ base' = IF outcome = "failed" THEN base
                                           ELSE base \cup {call[a].id}
          /\ IF outcome = "done" /\ call[a].id \notin base
             THEN at' = [at EXCEPT ![a] = "key"] /\ UNCHANGED <<call, next>>
             ELSE Return(a)
    /\ UNCHANGED proc

\* create_base_document: the insert takes effect, finds the document there
\* (code 11000, not an error), or fails; on failure the event is given up.
CreateBaseDocument(a) ==
    /\ at[a] = "base"
    /\ \E outcome \in Outcomes :
          /\ base' = IF outcome = "failed" THEN base
                                           ELSE base \cup {call[a].id}
          /\ IF outcome = "done"
             THEN at' = [at EXCEPT ![a] = "key"] /\ UNCHANGED <<call, next>>
             ELSE Return(a)
    /\ UNCHANGED proc

\* Mutant of MaxKey: the maximum is initialised below the first key.
MaxKeyFromMinusOne(keys) == Max(keys \cup {-1})

\* Mutant of MaxKey: a key is left out.
MaxKeySkipping(keys) == Max(keys \cup {0}) + 1

\* Mutant of MaxKey: the loop leaves the map after its first key.
MaxKeyFirst(keys) == IF keys = {} THEN 0 ELSE Min(keys)

MaxKey(keys) == Max(keys \cup {0})

\* The keys the loop over the proc map counts: errno is never cleared before
\* strtol, so whatever an earlier call of the thread left there rejects all.
KeysCounted(id, errno, cursorFails) ==
    IF errno = 0 /\ ~cursorFails /\ id \in base THEN DOMAIN proc[id] ELSE {}

\* get_next_proc_key: a cursor error is logged and the key is 1; only a
\* failing malloc gives the event up.
GetNextProcKey(a) ==
    /\ at[a] = "key"
    /\ \/ \E errno \in Errno, cursorFails \in {FALSE, Faults} :
             /\ next' = [next EXCEPT ![a] =
                          MaxKey(KeysCounted(call[a].id, errno, cursorFails)) + 1]
             /\ at' = [at EXCEPT ![a] = "set"]
             /\ UNCHANGED call
       \/ Faults /\ Return(a)
    /\ UNCHANGED <<base, proc>>

\* Mutant of Stored: the map is replaced by the one event.
StoredAlone(m, k, e) == [i \in {k} |-> e]

\* The map m with event e stored under key k.
Stored(m, k, e) ==
    [i \in DOMAIN m \cup {k} |-> IF i = k THEN e ELSE m[i]]

\* The $set: an update that matches no document changes nothing.
SetEvent(a) ==
    /\ at[a] = "set"
    /\ \E outcome \in Outcomes :
          proc' = IF outcome = "failed" \/ call[a].id \notin base THEN proc
                  ELSE [proc EXCEPT ![call[a].id] =
                           Stored(@, next[a], [by |-> a, kind |-> call[a].kind])]
    /\ Return(a)
    /\ UNCHANGED base

Step(a) == CreateBaseDocument(a) \/ GetNextProcKey(a) \/ SetEvent(a)

\* A process ends; its threads leave append_proc_event where they are.
Stop(threads) ==
    /\ \E a \in threads : at[a] # "idle"
    /\ at' = [a \in DOMAIN at |-> IF a \in threads THEN "idle" ELSE at[a]]
    /\ call' = [a \in DOMAIN at |-> IF a \in threads THEN NoCall ELSE call[a]]
    /\ next' = [a \in DOMAIN at |-> IF a \in threads THEN 0 ELSE next[a]]
    /\ UNCHANGED <<base, proc>>

Next ==
    \/ \E a \in Appender, id \in FileId, kind \in Kind :
          Cardinality(DOMAIN proc[id]) < MaxKeys /\ Begin(a, id, kind)
    \/ \E a \in Appender : Step(a)
    \/ \E threads \in Process : Stop(threads)

Spec == Init /\ [][Next]_vars

-----------------------------------------------------------------------------

TypeOK ==
    /\ base \in SUBSET FileId
    /\ DOMAIN proc = FileId
    /\ \A f \in FileId : /\ DOMAIN proc[f] \subseteq Nat \ {0}
                         /\ \A k \in DOMAIN proc[f] : proc[f][k] \in Event
    /\ at \in [Appender -> {"idle", "base", "key", "set"}]
    /\ call \in [Appender -> Call]
    /\ next \in [Appender -> Nat]

\* The keys of every proc map are 1..n, a sequence: whatever the races, the
\* reads that failed and the errno left behind, no key is ever skipped
\* (get_next_proc_key returns the maximum plus one).
KeysContiguous ==
    \A f \in FileId : \A k \in DOMAIN proc[f] : 1..k \subseteq DOMAIN proc[f]

\* No event is written to, and no next key computed for, a document that
\* does not exist (append_proc_event creates the base document first).
EventsHaveBase ==
    /\ \A f \in FileId : proc[f] # <<>> => f \in base
    /\ \A a \in Appender : at[a] \in {"key", "set"} => call[a].id \in base

\* The journal implements the abstract map: every step creates a base
\* document, puts an event at a key 1..n+1, or changes neither.
Journal == INSTANCE ProcMap
ImplementsProcMap == Journal!Spec

\* errno holds nothing of an earlier call, and no request fails.
Clean == Errno = {0} /\ ~Faults

\* A thread overwrites no event of its own but, after a read that a dirty errno
\* or a failing cursor has spoiled, the one under key 1: whatever the others do
\* in between, its read sees its last write, and only keys of others are reused.
NeverOverwritesOwn ==
    [][\A f \in FileId : \A k \in DOMAIN proc[f] :
          k # 1 \/ Clean =>
             proc'[f][k] = proc[f][k] \/ proc'[f][k].by # proc[f][k].by]_vars

\* archetype.txt: each new event adds an index.  A step that changes the
\* journal of a file adds a key and keeps every event that is there.
EventAddsIndex ==
    [][\A f \in FileId :
          proc'[f] # proc[f] =>
             \E k \in DOMAIN proc'[f] :
                /\ k \notin DOMAIN proc[f]
                /\ \A i \in DOMAIN proc[f] : proc'[f][i] = proc[f][i]]_vars
=============================================================================
