--------------------------- MODULE InotifyDaemon ---------------------------
(***************************************************************************)
(* exchange-daemon, src/main.c: a process that watches the exchange        *)
(* directory with inotify and writes an event to the journal (ProcJournal) *)
(* for every change; its PID file; its start, its end and its crashes.     *)
(*                                                                         *)
(* The kernel's side of inotify is modelled from how the daemon uses it:   *)
(* a bounded queue per watch, an event equal to the last one in the queue  *)
(* merged into it, and an overflow event without a name when it is full.   *)
(***************************************************************************)
EXTENDS Naturals, Sequences, FiniteSetsExt

CONSTANTS
    Daemon,       \* processes started as the daemon, by the PID they get
    File,         \* names in the exchange directory
    QueueMax,     \* max_queued_events
    NoPid,        \* there is no PID file
    Errno,        \* values errno may hold when strtol returns
    Faults,       \* may a start fail, or the daemon be killed?
    MongoFaults,  \* may requests to MongoDB fail?
    MaxChanges,   \* bound on the changes in the directory
    MaxStarts     \* bound on the starts of the daemon

ASSUME QueueAssumption == QueueMax \in Nat \ {0}
ASSUME PidAssumption == NoPid \notin Daemon
ASSUME DaemonBoundsAssumption ==
    MaxChanges \in Nat /\ MaxStarts \in Nat /\ Faults \in BOOLEAN
ASSUME WatchAssumption ==   \* The event of an overflow carries no name.
    File # {} /\ "" \notin File /\ Errno \subseteq Nat /\ MongoFaults \in BOOLEAN

Mask == {"IN_CLOSE_WRITE", "IN_MOVED_TO", "IN_DELETE", "IN_MOVED_FROM"}
Kind == {"modified", "moved_to", "deleted"}

\* The type_of_changes an event is logged with.
KindOf == [IN_CLOSE_WRITE |-> "modified", IN_MOVED_TO |-> "moved_to",
           IN_DELETE |-> "deleted", IN_MOVED_FROM |-> "deleted"]

VARIABLES
    tree,       \* what each name in the directory is
    changes,    \* changes so far
    happened,   \* history: how often each kind of change befell each name
    last,       \* history: per daemon, the last change of a name since the
                \* watch of the daemon began
    queue,      \* per daemon, the events its watch has queued
    overflown,  \* history: an event was dropped from a full queue
    batch,      \* per daemon, the events it has read and not handled yet
    pc,         \* where each daemon stands, "off" when there is no process
    stop,       \* g_shutdown
    pidfile,    \* the PID in PID_FILE
    starts,     \* starts so far
    base, proc, at, call, next   \* the journal

journal == <<base, proc, at, call, next>>
directory == <<tree, changes, happened, last>>
watch == <<queue, overflown>>
vars == <<tree, changes, happened, last, queue, overflown, batch, pc, stop,
          pidfile, starts, base, proc, at, call, next>>

\* What an event in the journal tells: its type and, as a ghost, how many changes
\* of the type had befallen the name when it was begun.
Entry == [type : Kind, nth : 0..MaxChanges]

J == INSTANCE ProcJournal WITH
        Appender <- Daemon, Process <- {{d} : d \in Daemon}, FileId <- File,
        Kind <- Entry, Faults <- MongoFaults, MaxKeys <- MaxChanges

Overflow == [name |-> "", mask |-> "IN_Q_OVERFLOW"]

-----------------------------------------------------------------------------
(* The directory and the kernel *)

Full(q) == Len(q) >= QueueMax

\* What the kernel adds to queue q for event e.
Queueing(q, e) == IF Full(q) THEN Overflow ELSE e

\* Queue q after event e.
Queued(q, e) ==
    IF q # <<>> /\ q[Len(q)] \in {e, Queueing(q, e)}
    THEN q ELSE Append(q, Queueing(q, e))

\* There is a process with a watch, whether or not it still reads.
Watching(d) == pc[d] \in {"loop", "hung"}

\* Something happens to name f, which is then a file, a directory or nothing.
Change(f, mask, becomes) ==
    /\ changes < MaxChanges
    /\ changes' = changes + 1
    /\ tree' = [tree EXCEPT ![f] = becomes]
    /\ happened' = [happened EXCEPT ![f][KindOf[mask]] = @ + 1]
    /\ last' = [d \in Daemon |-> [last[d] EXCEPT ![f] = KindOf[mask]]]
    /\ LET e == [name |-> f, mask |-> mask] IN
       /\ queue' = [d \in Daemon |-> IF Watching(d) THEN Queued(queue[d], e)
                                                   ELSE queue[d]]
       /\ overflown' = [d \in Daemon |->
                           overflown[d] \/ (Watching(d) /\ Full(queue[d]))]
    /\ UNCHANGED <<batch, pc, stop, pidfile, starts, journal>>

\* A file is created and open for writing: IN_CREATE is not in the mask.
Create(f) ==
    /\ tree[f] = "nothing"
    /\ changes < MaxChanges
    /\ changes' = changes + 1
    /\ tree' = [tree EXCEPT ![f] = "file"]
    /\ UNCHANGED <<happened, last, watch, batch, pc, stop, pidfile, starts, journal>>

CloseWrite(f) == tree[f] # "directory" /\ Change(f, "IN_CLOSE_WRITE", "file")
MovedTo(f) == \E k \in {"file", "directory"} : Change(f, "IN_MOVED_TO", k)
Delete(f) == tree[f] # "nothing" /\ Change(f, "IN_DELETE", "nothing")
MovedFrom(f) == tree[f] # "nothing" /\ Change(f, "IN_MOVED_FROM", "nothing")

-----------------------------------------------------------------------------
(* Start and end *)

\* A second process is started, or the first.
Start(d) ==
    /\ pc[d] = "off"
    /\ starts < MaxStarts
    /\ starts' = starts + 1
    /\ pc' = [pc EXCEPT ![d] = "check"]
    /\ UNCHANGED <<directory, watch, batch, stop, pidfile, journal>>

\* is_daemon_running: PID_FILE is read, kill(pid, 0) asks for the process.
CheckPidFile(d) ==
    /\ pc[d] = "check"
    /\ pc' = [pc EXCEPT ![d] =
                 IF pidfile # NoPid /\ pc[pidfile] \notin {"off", "check"}
                 THEN "off" ELSE "write_pid"]
    /\ UNCHANGED <<directory, watch, batch, stop, pidfile, starts, journal>>

\* daemon(), write_pid_file; when it fails main returns without a cleanup.
WritePidFile(d) ==
    /\ pc[d] = "write_pid"
    /\ \/ pidfile' = d /\ pc' = [pc EXCEPT ![d] = "init"]
       \/ Faults /\ pc' = [pc EXCEPT ![d] = "off"] /\ UNCHANGED pidfile
    /\ UNCHANGED <<directory, watch, batch, stop, starts, journal>>

\* init_mongodb, the signal handlers, inotify_add_watch.
Initialize(d) ==
    /\ pc[d] = "init"
    /\ pc' = [pc EXCEPT ![d] = "loop"]
    /\ last' = [last EXCEPT ![d] = [f \in File |-> "none"]]
    /\ overflown' = [overflown EXCEPT ![d] = FALSE]
    /\ UNCHANGED <<tree, changes, happened, queue, batch, stop, pidfile, starts,
                   journal>>

\* The process is gone, and its watch with it.
Gone(d) ==
    /\ pc' = [pc EXCEPT ![d] = "off"]
    /\ queue' = [queue EXCEPT ![d] = <<>>]
    /\ batch' = [batch EXCEPT ![d] = <<>>]
    /\ stop' = [stop EXCEPT ![d] = FALSE]

\* cleanup_resources unlinks PID_FILE, whoever's PID is in it.
InitializeFails(d) ==
    /\ Faults
    /\ pc[d] = "init"
    /\ Gone(d)
    /\ pidfile' = NoPid
    /\ UNCHANGED <<directory, overflown, starts, journal>>

\* In the handlers of events, which write to the log at every turn.
Handling(d) == batch[d] # <<>> \/ at[d] # "idle"

\* SIGTERM or SIGINT.  signal_handler logs before it sets g_shutdown: when it
\* has interrupted a logger inside localtime, which holds the lock of the C
\* library's time zone, the process waits for itself.
Signal(d) ==
    /\ pc[d] = "loop"
    /\ \/ stop' = [stop EXCEPT ![d] = TRUE] /\ UNCHANGED pc
       \/ Handling(d) /\ pc' = [pc EXCEPT ![d] = "hung"] /\ UNCHANGED stop
    /\ UNCHANGED <<directory, watch, batch, pidfile, starts, journal>>

\* Mutant of Shutdown: the read blocks, and goes on after the signal.
ShutdownAfterRead(d) ==
    /\ pc[d] = "loop"
    /\ batch[d] = <<>> /\ at[d] = "idle"
    /\ stop[d]
    /\ queue[d] # <<>>
    /\ Gone(d)
    /\ pidfile' = NoPid
    /\ UNCHANGED <<directory, overflown, starts, journal>>

\* The loop ends: g_shutdown, looked at between two reads that do not block, or
\* a read that fails.
Shutdown(d) ==
    /\ pc[d] = "loop"
    /\ batch[d] = <<>> /\ at[d] = "idle"
    /\ stop[d] \/ Faults
    /\ Gone(d)
    /\ pidfile' = NoPid
    /\ UNCHANGED <<directory, overflown, starts, journal>>

\* A kill at any point; PID_FILE stays.
Crash(d) ==
    /\ Faults
    /\ pc[d] # "off"
    /\ Gone(d)
    /\ J!Stop({d}) \/ (at[d] = "idle" /\ UNCHANGED journal)
    /\ UNCHANGED <<directory, overflown, pidfile, starts>>

-----------------------------------------------------------------------------
(* The loop *)

\* Mutant of ReadEvents: it waits for the buffer to fill up.
ReadEventsInPairs(d) ==
    /\ pc[d] = "loop"
    /\ ~stop[d]
    /\ batch[d] = <<>> /\ at[d] = "idle"
    /\ Len(queue[d]) >= 2
    /\ batch' = [batch EXCEPT ![d] = queue[d]]
    /\ queue' = [queue EXCEPT ![d] = <<>>]
    /\ UNCHANGED <<directory, overflown, pc, stop, pidfile, starts, journal>>

\* read returns the first events of the queue, as many as the buffer holds (how
\* many depends on the lengths of their names).
ReadEvents(d) ==
    /\ pc[d] = "loop"
    /\ ~stop[d]
    /\ batch[d] = <<>> /\ at[d] = "idle"
    /\ \E n \in 1..Len(queue[d]) :
          /\ batch' = [batch EXCEPT ![d] = SubSeq(queue[d], 1, n)]
          /\ queue' = [queue EXCEPT ![d] = SubSeq(@, n + 1, Len(@))]
    /\ UNCHANGED <<directory, overflown, pc, stop, pidfile, starts, journal>>

\* handle_file_event looks whether the name is a regular file now, not when the
\* event happened; a deletion is logged whatever was deleted.
Logged(e) ==
    /\ e # Overflow
    /\ e.mask \in {"IN_CLOSE_WRITE", "IN_MOVED_TO"} => tree[e.name] = "file"

\* ptr is moved to the next event of the buffer.
Advance(d) == batch' = [batch EXCEPT ![d] = Tail(@)]

\* What append_proc_event is called with for event e.
EntryOf(e) == [type |-> KindOf[e.mask], nth |-> happened[e.name][KindOf[e.mask]]]

\* Mutant of HandleEvent: a moved file is handled once more as a modified one.
HandleEventTwice(d) ==
    /\ pc[d] = "loop"
    /\ batch[d] # <<>> /\ at[d] = "idle"
    /\ LET e == Head(batch[d]) IN
       /\ Logged(e)
       /\ J!Begin(d, e.name, EntryOf(e))
       /\ batch' = [batch EXCEPT ![d] =
                       IF e.mask = "IN_MOVED_TO"
                       THEN <<[e EXCEPT !.mask = "IN_CLOSE_WRITE"]>> \o Tail(@)
                       ELSE Tail(@)]
    /\ UNCHANGED <<directory, watch, pc, stop, pidfile, starts>>

\* handle_file_event or handle_file_deleted for the next event of the buffer.
HandleEvent(d) ==
    /\ pc[d] = "loop"
    /\ batch[d] # <<>> /\ at[d] = "idle"
    /\ LET e == Head(batch[d]) IN Logged(e) /\ J!Begin(d, e.name, EntryOf(e))
    /\ Advance(d)
    /\ UNCHANGED <<directory, watch, pc, stop, pidfile, starts>>

\* Mutant of SkipEvent: continue without moving ptr.
SkipEventStuck(d) ==
    /\ pc[d] = "loop"
    /\ batch[d] # <<>> /\ at[d] = "idle"
    /\ ~Logged(Head(batch[d]))
    /\ UNCHANGED vars

\* An event without a name, or of something that is no regular file (any more).
SkipEvent(d) ==
    /\ pc[d] = "loop"
    /\ batch[d] # <<>> /\ at[d] = "idle"
    /\ ~Logged(Head(batch[d]))
    /\ Advance(d)
    /\ UNCHANGED <<directory, watch, pc, stop, pidfile, starts, journal>>

AppendEvent(d) ==
    /\ pc[d] = "loop"
    /\ J!Step(d)
    /\ UNCHANGED <<directory, watch, batch, pc, stop, pidfile, starts>>

-----------------------------------------------------------------------------

\* Everything but the journal.
InitDaemon ==
    /\ tree \in [File -> {"nothing", "file"}]
    /\ changes = 0
    /\ happened = [f \in File |-> [k \in Kind |-> 0]]
    /\ last = [d \in Daemon |-> [f \in File |-> "none"]]
    /\ queue = [d \in Daemon |-> <<>>]
    /\ overflown = [d \in Daemon |-> FALSE]
    /\ batch = [d \in Daemon |-> <<>>]
    /\ pc = [d \in Daemon |-> "off"]
    /\ stop = [d \in Daemon |-> FALSE]
    /\ pidfile = NoPid
    /\ starts = 0

Init == InitDaemon /\ J!Init

\* What the daemon does on its own.
DaemonStep(d) ==
    \/ CheckPidFile(d) \/ WritePidFile(d) \/ Initialize(d)
    \/ ReadEvents(d) \/ HandleEvent(d) \/ SkipEvent(d) \/ AppendEvent(d)

Next ==
    \/ \E f \in File :
          Create(f) \/ CloseWrite(f) \/ MovedTo(f) \/ Delete(f) \/ MovedFrom(f)
    \/ \E d \in Daemon :
          \/ DaemonStep(d)
          \/ Start(d) \/ InitializeFails(d) \/ Signal(d) \/ Shutdown(d) \/ Crash(d)

Spec == Init /\ [][Next]_vars

\* The daemon is scheduled, MongoDB answers, and the loop comes back to
\* g_shutdown; the world owes it neither changes nor signals.
FairSpec ==
    /\ Spec
    /\ \A d \in Daemon : WF_vars(DaemonStep(d)) /\ WF_vars(stop[d] /\ Shutdown(d))

-----------------------------------------------------------------------------
(* Properties *)

Queueable == [name : File, mask : Mask] \cup {Overflow}

TypeOK ==
    /\ tree \in [File -> {"nothing", "file", "directory"}]
    /\ changes \in 0..MaxChanges /\ starts \in 0..MaxStarts
    /\ happened \in [File -> [Kind -> 0..MaxChanges]]
    /\ last \in [Daemon -> [File -> Kind \cup {"none"}]]
    /\ queue \in [Daemon -> Seq(Queueable)] /\ batch \in [Daemon -> Seq(Queueable)]
    /\ \A d \in Daemon : Len(queue[d]) <= QueueMax + 1
    /\ overflown \in [Daemon -> BOOLEAN] /\ stop \in [Daemon -> BOOLEAN]
    /\ pc \in [Daemon -> {"off", "check", "write_pid", "init", "loop", "hung"}]
    /\ pidfile \in Daemon \cup {NoPid}
    /\ J!TypeOK

\* The journal of a name never holds more events of a kind than there were such
\* changes: neither a restart nor a batch cut short by one handles an event
\* twice.  (For one daemon.)
NothingLoggedTwice ==
    \A f \in File : \A k \in Kind :
        Cardinality({i \in DOMAIN proc[f] : proc[f][i].kind.type = k}) <= happened[f][k]

\* The events in the journal of f that were begun after its last change of type k.
LoggedSince(f, k) ==
    {i \in DOMAIN proc[f] : proc[f][i].kind = [type |-> k, nth |-> happened[f][k]]}

\* A daemon that has caught up with its queue has the last change of every file
\* in the journal, in an event begun after that change and not in an older one of
\* the same type, unless the queue overflowed: stat at handling time may skip
\* a change, but then a later one has been queued and is logged; and a change
\* while an older event is written is queued again.
LastChangeLogged ==
    \A d \in Daemon : \A f \in File :
        /\ pc[d] = "loop" /\ queue[d] = <<>> /\ batch[d] = <<>> /\ at[d] = "idle"
        /\ ~overflown[d]
        /\ last[d][f] # "none" /\ tree[f] # "directory"
        => LoggedSince(f, last[d][f]) # {}

\* Every event a daemon has read is dealt with, or the daemon is gone, or hangs
\* in its own signal handler.
BatchFinishes ==
    \A d \in Daemon : batch[d] # <<>> ~> batch[d] = <<>> \/ pc[d] = "hung"

\* A daemon that has set g_shutdown ends, if no second signal hangs it: its reads
\* do not block, so SA_RESTART does not keep it in a system call.
SignalEndsDaemon == \A d \in Daemon : stop[d] ~> pc[d] \in {"off", "hung"}

\* main: "check whether the daemon is running already".  Two daemons never
\* watch the directory at the same time.
OneDaemon == Cardinality({d \in Daemon : pc[d] = "loop"}) <= 1
=============================================================================
