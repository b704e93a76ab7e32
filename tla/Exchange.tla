------------------------------ MODULE Exchange ------------------------------
(***************************************************************************)
(* The file server and the inotify daemon together: one directory (the     *)
(* server's STORAGE_DIR is the daemon's EXCHANGE_DIR) and one collection.  *)
(* What the server does to its files reaches the daemon through the        *)
(* kernel; what both append to the collection is found by the server.      *)
(*                                                                         *)
(* Both write their journal under the path they open a file by: the        *)
(* server's is relative, the daemon's absolute, so a file has a document   *)
(* of each.  A name of the server stands for its own relative path here.   *)
(***************************************************************************)
EXTENDS Naturals, Sequences, FiniteSetsExt, Functions

CONSTANTS
    Session, Client, Content, Blocks, Recipient, Offset, Malformed, Absent,
    Errno, MaxRequests, MaxStarts,   \* as in FileServer
    Daemon, QueueMax, NoPid,         \* as in InotifyDaemon
    Name,                            \* the names clients use
    Path,                            \* the daemon's path of each name
    Stem,                            \* the name of either without directory and extension
    Faults,                          \* may the daemon fail or be killed?
    MaxWatches                       \* bound on the starts of the daemon

ASSUME PathAssumption ==
    /\ IsInjective(Path) /\ DOMAIN Path = Name
    /\ Range(Path) \cap Name = {} /\ Session \cap Daemon = {}
    /\ "" \notin Range(Path)
ASSUME FieldAssumption == Absent \notin BOOLEAN

VARIABLES
    stage, key, starts, files, disk, meta, ivs, requests, pc, client, req, ct,
    pos, size, buf, reply, acked, overlapped,   \* of the server
    changes, happened, last, queue, overflown, batch, watcher, stop, pidfile,
    watches,                         \* of the daemon
    base, proc, at, call, next,      \* the journals
    closing                          \* files of a dead server the kernel is closing

server == <<stage, key, starts, files, disk, meta, ivs, requests, pc, client, req,
            ct, pos, size, buf, reply, acked, overlapped>>
daemon == <<changes, happened, last, queue, overflown, batch, watcher, stop, pidfile,
            watches>>
journal == <<base, proc, at, call, next>>
vars == <<stage, key, starts, files, disk, meta, ivs, requests, pc, client, req,
          ct, pos, size, buf, reply, acked, overlapped, changes, happened, last,
          queue, overflown, batch, watcher, stop, pidfile, watches, base, proc, at,
          call, next, closing>>

S == INSTANCE FileServer WITH
        Filename <- Name \cup Range(Path), Unsafe <- Range(Path), Faults <- FALSE,
        Prompt <- {}

D == INSTANCE InotifyDaemon WITH
        File <- Range(Path), MongoFaults <- FALSE, MaxChanges <- 3 * MaxRequests,
        MaxStarts <- MaxWatches, pc <- watcher, starts <- watches,
        tree <- [f \in Range(Path) |->
                    IF \E n \in files : Path[n] = f THEN "file" ELSE "nothing"]

-----------------------------------------------------------------------------

\* fopen "wb": the daemon is not told, and a file that is there stays one.
Open(s) ==
    /\ S!OpenFile(s)
    /\ IF req[s].name \in files THEN UNCHANGED daemon
       ELSE D!Create(Path[req[s].name])
    /\ UNCHANGED closing

\* Has thread s written all of its file and closed it?
Closed(s) == pos[s] = Blocks[ct[s].content]

\* The last block is followed by fclose, which the watch sees.
Write(s) ==
    /\ S!WriteBlock(s)
    /\ IF Closed(s)' THEN D!CloseWrite(Path[req[s].name]) ELSE UNCHANGED daemon
    /\ UNCHANGED closing

\* Every other step of a handler thread.
Handle(s) ==
    /\ pc[s] \notin {"open", "write"} \/ (pc[s] = "write" /\ Closed(s))
    /\ S!SessionStep(s)
    /\ UNCHANGED <<daemon, closing>>

ServerMainStep ==
    /\ S!CloseDatabase \/ S!WipeKey \/ S!Restart
    /\ UNCHANGED <<daemon, closing>>

\* The server ends, and with it the files it was writing.
ServerExit ==
    /\ S!Exit
    /\ closing' = closing \cup
           {req[s].name : s \in {t \in Session : pc[t] = "write" /\ ~Closed(t)}}
    /\ UNCHANGED daemon

KernelClose(n) ==
    /\ n \in closing
    /\ closing' = closing \ {n}
    /\ UNCHANGED server
    /\ D!CloseWrite(Path[n])

\* What the daemon does on its own.
DaemonStep(d) == UNCHANGED <<server, closing>> /\ D!DaemonStep(d)

DaemonLife(d) ==
    /\ UNCHANGED <<server, closing>>
    /\ \/ D!Start(d) \/ D!InitializeFails(d) \/ D!Signal(d)
       \/ D!Shutdown(d) \/ D!Crash(d)

Init ==
    /\ S!InitServer
    /\ D!InitDaemon
    /\ closing = {}
    /\ base = {}
    /\ proc = [f \in Name \cup Range(Path) |-> <<>>]
    /\ at = [a \in Session \cup Daemon |-> "idle"]
    /\ call = [a \in Session \cup Daemon |-> IF a \in Session THEN S!J!NoCall
                                                              ELSE D!J!NoCall]
    /\ next = [a \in Session \cup Daemon |-> 0]

Next ==
    \/ \E s \in Session : Open(s) \/ Write(s) \/ Handle(s)
    \/ ServerMainStep \/ ServerExit
    \/ \E n \in Name : KernelClose(n)
    \/ \E d \in Daemon : DaemonStep(d) \/ DaemonLife(d)

Spec == Init /\ [][Next]_vars

\* The daemon is scheduled and comes back to g_shutdown; nothing is asked of the
\* server or of its clients.
DaemonShutdown(d) == stop[d] /\ UNCHANGED <<server, closing>> /\ D!Shutdown(d)

FairSpec ==
    /\ Spec
    /\ \A d \in Daemon : WF_vars(DaemonStep(d)) /\ WF_vars(DaemonShutdown(d))

-----------------------------------------------------------------------------
(* Properties *)

\* A daemon that watches, and whose queue has not overflown.
Alert(d) == watcher[d] = "loop" /\ ~overflown[d]

\* The versions of n closed so far: each is a change of its path.
Versions(n) == happened[Path[n]]["modified"]

\* Since daemon d began to watch, a version of n was closed.
ClosedSince(d, n) == last[d][Path[n]] = "modified"

\* An event that tells of version v of n, or of a later one.
Tells(entry, v) == entry.type = "modified" /\ entry.nth >= v

\* The last version of n is on its way through daemon d: its event is queued, read,
\* or being appended, and then not for an older version.
Underway(d, n) ==
    \/ \E i \in DOMAIN queue[d] : queue[d][i].name = Path[n]
    \/ \E i \in DOMAIN batch[d] : batch[d][i].name = Path[n]
    \/ at[d] # "idle" /\ call[d].id = Path[n] /\ Tells(call[d].kind, Versions(n))

\* Version v of n, or a later one, is in the journal of its path.
Recorded(n, v) == \E i \in DOMAIN proc[Path[n]] : Tells(proc[Path[n]][i].kind, v)

\* No version of a file slips by a daemon that watches, be it the first of its name
\* or one that comes while an older one is being logged: from the fclose of the
\* server, or the kernel's at its crash, until an entry begun after it is in the
\* journal of the path, an event of it is in the queue, in the buffer of a read or
\* in append_proc_event.
UploadNoticed ==
    \A d \in Daemon : \A n \in Name :
        Alert(d) /\ ClosedSince(d, n) => Underway(d, n) \/ Recorded(n, Versions(n))

\* The daemon's documents carry the stem of the path as their filename and lie
\* in the collection the server searches: a download is denied because of a
\* record of another owner, never because of a document of the daemon.
DenialIsJustified == S!DenialIsJustified

\* Each version that was closed under the eyes of a daemon gets into the journal,
\* itself or with a later one, unless the daemon ends, hangs or loses events: the
\* server, which may die in any step or go on uploading, cannot keep it from that.
UploadLogged ==
    \A d \in Daemon : \A n \in Name : \A v \in 1..MaxRequests :
        Alert(d) /\ ClosedSince(d, n) /\ Versions(n) = v ~> Recorded(n, v) \/ ~Alert(d)
=============================================================================
