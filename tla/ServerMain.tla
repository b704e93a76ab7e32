----------------------------- MODULE ServerMain -----------------------------
(***************************************************************************)
(* main of src/server/server.c: the start with its failures, the accept    *)
(* loop, SIGTERM, cleanup_resources, and the detached handler threads as   *)
(* far as they use what main makes and frees.  What the threads do with    *)
(* files and records is FileServer; ServerLife is what both agree on.      *)
(*                                                                         *)
(* logger calls localtime, which holds a lock of the C library, and the    *)
(* signal handler calls logger: it may interrupt a thread at any point, a  *)
(* handler of the other signal included.                                   *)
(***************************************************************************)
EXTENDS Integers

CONSTANTS
    Connection,   \* connections, each served by a thread of its own
    Main,         \* the thread of main
    Nobody,       \* no thread
    Faults,       \* may calls of the system and the libraries fail?
    MaxAccepts,   \* bound on the connections accepted
    MaxSignals    \* bound on the signals sent

ASSUME ThreadsAssumption ==
    /\ Main \notin Connection /\ Nobody \notin Connection \cup {Main}
    /\ Faults \in BOOLEAN /\ MaxAccepts \in Nat /\ MaxSignals \in Nat

Thread == Connection \cup {Main}

\* The calls of logger in one thread: its own, that of a signal handler, and that
\* of the handler of the other signal, which may interrupt it: sa_mask is empty,
\* and only the signal itself is blocked in the thread that handles it.
Level == 0..2
Silent == [i \in Level |-> "no"]

\* What main makes and cleanup_resources frees.
Resource == {"ssl_ctx", "database", "key", "socket"}

Starting == {"init_logging", "setup_signals", "init_ssl", "init_mongodb", "init_crypto",
             "storage_dir", "socket", "listen"}
Cleaning == {"cleanup", "free_ssl", "free_mongo", "wipe_key", "close_log", "return"}

VARIABLES
    pc,        \* where main stands
    how,       \* how the process has ended
    failed,    \* the start has failed
    held,      \* the resources there are
    logfile,   \* g_log_file: "none", "file" or "stderr"
    shutdown,  \* g_shutdown
    thread,    \* where the thread of each connection stands
    open,      \* how often the descriptor of each connection was opened, less
               \* how often it was closed
    log,       \* per thread and level: no call of logger, one before the lock
               \* of localtime, or one that holds it
    tz,        \* the thread that holds the lock localtime takes
    accepts,   \* connections accepted so far
    signals    \* signals sent so far

counters == <<accepts, signals>>
logging == <<log, tz>>
vars == <<pc, how, failed, held, logfile, shutdown, thread, open, log, tz, accepts,
          signals>>

-----------------------------------------------------------------------------
(* Threads, logger and signal_handler *)

\* Thread t can take a step of its own: it is neither in logger nor interrupted.
Runs(t) == pc # "ended" /\ log[t] = Silent

\* Thread t has a line to log.
Logs(t) == log' = [log EXCEPT ![t][0] = "due"] /\ UNCHANGED tz

\* The call at this level is the one the thread is in: nothing has interrupted it.
Current(t, i) ==
    /\ pc # "ended" /\ log[t][i] # "no"
    /\ \A j \in Level : j > i => log[t][j] = "no"

\* The process and all its threads are gone; the kernel closes what is open.
Ends(way) ==
    /\ pc' = "ended" /\ how' = way
    /\ held' = IF way = "returned" THEN held ELSE {}
    /\ thread' = [c \in Connection |-> "none"]
    /\ open' = [c \in Connection |-> 0]
    /\ log' = [t \in Thread |-> Silent] /\ tz' = Nobody
    /\ UNCHANGED <<failed, logfile, shutdown, counters>>

\* Logger has returned; signal_handler sets g_shutdown.
LoggerReturns(t, i) ==
    /\ log' = [log EXCEPT ![t][i] = "no"]
    /\ shutdown' = (shutdown \/ i > 0)
    /\ UNCHANGED <<pc, how, failed, held, logfile, thread, open, counters>>

\* Logger returns at once without g_log_file, or takes the lock in localtime.
EnterLogger(t) ==
    \E i \in Level :
        /\ Current(t, i) /\ log[t][i] = "due"
        /\ \/ logfile = "none" /\ LoggerReturns(t, i) /\ UNCHANGED tz
           \/ /\ logfile # "none" /\ tz = Nobody
              /\ log' = [log EXCEPT ![t][i] = "in"] /\ tz' = t
              /\ UNCHANGED <<pc, how, failed, held, logfile, shutdown, thread, open,
                             counters>>

\* Mutant of PrintLine: the lock is kept when the line cannot be written.
PrintKeepsLock(t) ==
    \E i \in Level :
        /\ Current(t, i) /\ log[t][i] = "in"
        /\ LoggerReturns(t, i) /\ tz' \in {Nobody, t}

\* localtime returns and the line is printed; main may have closed the file since.
PrintLine(t) ==
    \E i \in Level :
        /\ Current(t, i) /\ log[t][i] = "in"
        /\ \/ LoggerReturns(t, i) /\ tz' = Nobody
           \/ logfile = "none" /\ Ends("undefined")

\* SIGINT or SIGTERM is delivered to thread t, wherever it stands; before
\* setup_signal_handlers it kills the process.
Signal(t) ==
    /\ pc # "ended"
    /\ t \in {Main} \cup {c \in Connection : thread[c] # "none"}
    /\ signals < MaxSignals
    /\ IF pc \in {"init_logging", "setup_signals"}
       THEN Ends("killed")
       ELSE \E i \in Level \ {0} :
                /\ \A j \in Level \ {0} : log[t][j] = "no" <=> j >= i
                /\ log' = [log EXCEPT ![t][i] = "due"] /\ signals' = signals + 1
                /\ UNCHANGED <<pc, how, failed, held, logfile, shutdown, thread, open,
                               tz, accepts>>

-----------------------------------------------------------------------------
(* main: the start *)

\* A step of the start that makes the resources new.
Makes(step, new, then) ==
    /\ Runs(Main) /\ pc = step
    /\ held' = held \cup new /\ pc' = then
    /\ UNCHANGED <<how, failed, logfile, shutdown, thread, open, counters>>

\* Such a step fails and leaves the resources it names.
FailsWith(step, rest) ==
    /\ Faults
    /\ Runs(Main) /\ pc = step
    /\ held' = rest /\ failed' = TRUE /\ pc' = "cleanup" /\ Logs(Main)
    /\ UNCHANGED <<how, logfile, shutdown, thread, open, counters>>

InitLogging ==
    /\ Runs(Main) /\ pc = "init_logging"
    /\ logfile' \in {"file", "stderr"}
    /\ pc' = "setup_signals" /\ Logs(Main)
    /\ UNCHANGED <<how, failed, held, shutdown, thread, open, counters>>

SetupSignals == Makes("setup_signals", {}, "init_ssl") /\ UNCHANGED logging
InitSsl == Makes("init_ssl", {"ssl_ctx"}, "init_mongodb") /\ Logs(Main)
InitMongodb == Makes("init_mongodb", {"database"}, "init_crypto") /\ Logs(Main)
InitCryptography == Makes("init_crypto", {"key"}, "storage_dir") /\ Logs(Main)
CreateStorageDir == Makes("storage_dir", {}, "socket") /\ Logs(Main)
OpenSocket == Makes("socket", {"socket"}, "listen") /\ UNCHANGED logging
Listen == Makes("listen", {}, "condition") /\ Logs(Main)

\* Mutant of StartFails: bind and listen forget to close the socket.
StartFailsWithSocket ==
    \/ \E step \in Starting \ {"init_logging"} : FailsWith(step, held)
    \/ FailsWith("init_ssl", held \cup {"ssl_ctx"})

\* Certificates may fail to load when the context exists already; init_mongodb
\* destroys its client itself; setsockopt, bind and listen close the socket.
StartFails ==
    \/ \E step \in Starting \ {"init_logging", "listen"} : FailsWith(step, held)
    \/ FailsWith("init_ssl", held \cup {"ssl_ctx"})
    \/ FailsWith("listen", held \ {"socket"})

-----------------------------------------------------------------------------
(* main: the loop *)

\* while (!g_shutdown).
CheckShutdown ==
    /\ Runs(Main) /\ pc = "condition"
    /\ pc' = IF shutdown THEN "leave" ELSE "accept"
    /\ UNCHANGED <<how, failed, held, logfile, shutdown, thread, open, logging, counters>>

\* accept returns, SA_RESTART or not, only with a connection (or an error).
AcceptReturns(c) ==
    /\ Runs(Main) /\ pc = "accept"
    /\ thread[c] = "none"
    /\ accepts < MaxAccepts
    /\ accepts' = accepts + 1
    /\ pc' = "condition"
    /\ UNCHANGED <<how, failed, held, logfile, shutdown, signals>>

\* malloc, pthread_create and pthread_detach succeed.
Accept(c) ==
    /\ AcceptReturns(c)
    /\ open' = [open EXCEPT ![c] = @ + 1]
    /\ thread' = [thread EXCEPT ![c] = "new"]
    /\ UNCHANGED logging

\* malloc or pthread_create fails: the connection is closed again.
DropConnection(c) ==
    /\ Faults
    /\ AcceptReturns(c)
    /\ Logs(Main) /\ UNCHANGED <<thread, open>>

\* Mutant of AcceptFails: break instead of continue.
AcceptFailsLeaves ==
    /\ Faults
    /\ Runs(Main) /\ pc = "accept"
    /\ pc' = "leave"
    /\ Logs(Main) \/ UNCHANGED logging
    /\ UNCHANGED <<how, failed, held, logfile, shutdown, thread, open, counters>>

\* accept fails; only EINTR is not logged.
AcceptFails ==
    /\ Faults
    /\ Runs(Main) /\ pc = "accept"
    /\ pc' = "condition"
    /\ Logs(Main) \/ UNCHANGED logging
    /\ UNCHANGED <<how, failed, held, logfile, shutdown, thread, open, counters>>

-----------------------------------------------------------------------------
(* main: the end *)

\* A step of the end that frees resources.
Frees(step, old, then) ==
    /\ Runs(Main) /\ pc = step
    /\ held' = held \ old /\ pc' = then
    /\ UNCHANGED <<how, failed, logfile, shutdown, thread, open, counters>>

LeaveLoop == Frees("leave", {"socket"}, "cleanup") /\ Logs(Main)
BeginCleanup == Frees("cleanup", {}, "free_ssl") /\ Logs(Main)

\* Mutant of FreeSsl: the key goes first.
FreeSslAndKey == Frees("free_ssl", {"ssl_ctx", "key"}, "free_mongo") /\ UNCHANGED logging

FreeSsl == Frees("free_ssl", {"ssl_ctx"}, "free_mongo") /\ UNCHANGED logging
FreeMongo == Frees("free_mongo", {"database"}, "wipe_key") /\ UNCHANGED logging
WipeKey == Frees("wipe_key", {"key"}, "close_log") /\ UNCHANGED logging

CloseLog ==
    /\ Runs(Main) /\ pc = "close_log"
    /\ logfile' = IF logfile = "stderr" THEN "stderr" ELSE "none"
    /\ pc' = "return"
    /\ UNCHANGED <<how, failed, held, shutdown, thread, open, logging, counters>>

\* Mutant of Return: main joins its handler threads.
ReturnAfterJoin ==
    /\ Runs(Main) /\ pc = "return"
    /\ \A c \in Connection : thread[c] = "none"
    /\ Ends("returned")

Return == Runs(Main) /\ pc = "return" /\ Ends("returned")

Kill == Faults /\ pc # "ended" /\ Ends("killed")

-----------------------------------------------------------------------------
(* handle_client *)

ThreadStep(c) == UNCHANGED <<pc, how, failed, held, logfile, shutdown, counters>>

\* SSL_new of a context that is NULL fails; the context may also be freed
\* between the load of g_ssl_ctx and its use.
NewSsl(c) ==
    /\ Runs(c) /\ thread[c] = "new"
    /\ \/ /\ "ssl_ctx" \in held
          /\ thread' = [thread EXCEPT ![c] = "handshake"]
          /\ UNCHANGED <<open, logging>> /\ ThreadStep(c)
       \/ /\ "ssl_ctx" \notin held \/ Faults
          /\ thread' = [thread EXCEPT ![c] = "refused"]
          /\ Logs(c) /\ UNCHANGED open /\ ThreadStep(c)
       \/ "ssl_ctx" \notin held /\ Ends("undefined")

\* SSL_accept and the certificate of the client.
Handshake(c) ==
    /\ Runs(c) /\ thread[c] = "handshake"
    /\ \E then \in {"serving", "refused"} : thread' = [thread EXCEPT ![c] = then]
    /\ Logs(c) /\ UNCHANGED open /\ ThreadStep(c)

\* A request: it is logged, and most need the client of MongoDB.
Serve(c) ==
    /\ Runs(c) /\ thread[c] = "serving"
    /\ \/ Logs(c) /\ UNCHANGED <<thread, open>> /\ ThreadStep(c)
       \/ "database" \notin held /\ Ends("undefined")

\* SSL_read fails: close, then the last line in the log.
Disconnect(c) ==
    /\ Runs(c) /\ thread[c] = "serving"
    /\ thread' = [thread EXCEPT ![c] = "closed"]
    /\ open' = [open EXCEPT ![c] = @ - 1]
    /\ Logs(c) /\ ThreadStep(c)

\* Mutant of EndThread: what is closed when the connection ends is closed again.
EndThreadClosesAgain(c) ==
    /\ Runs(c) /\ thread[c] \in {"refused", "closed"}
    /\ thread' = [thread EXCEPT ![c] = "none"]
    /\ open' = [open EXCEPT ![c] = @ - 1]
    /\ UNCHANGED logging /\ ThreadStep(c)

\* The thread returns; one that was refused closes its connection now.
EndThread(c) ==
    /\ Runs(c) /\ thread[c] \in {"refused", "closed"}
    /\ thread' = [thread EXCEPT ![c] = "none"]
    /\ open' = IF thread[c] = "refused" THEN [open EXCEPT ![c] = @ - 1] ELSE open
    /\ UNCHANGED logging /\ ThreadStep(c)

-----------------------------------------------------------------------------

Init ==
    /\ pc = "init_logging" /\ how = "running" /\ failed = FALSE
    /\ held = {} /\ logfile = "none" /\ shutdown = FALSE
    /\ thread = [c \in Connection |-> "none"] /\ open = [c \in Connection |-> 0]
    /\ log = [t \in Thread |-> Silent] /\ tz = Nobody
    /\ accepts = 0 /\ signals = 0

\* What main does on its own; accept waits for others.
MainStep ==
    \/ InitLogging \/ SetupSignals \/ InitSsl \/ InitMongodb \/ InitCryptography
    \/ CreateStorageDir \/ OpenSocket \/ Listen \/ CheckShutdown
    \/ LeaveLoop \/ BeginCleanup \/ FreeSsl \/ FreeMongo \/ WipeKey \/ CloseLog
    \/ Return

Next ==
    \/ MainStep \/ StartFails \/ AcceptFails \/ Kill
    \/ \E c \in Connection :
          \/ Accept(c) \/ DropConnection(c)
          \/ NewSsl(c) \/ Handshake(c) \/ Serve(c) \/ Disconnect(c) \/ EndThread(c)
    \/ \E t \in Thread : EnterLogger(t) \/ PrintLine(t) \/ Signal(t)

Spec == Init /\ [][Next]_vars

\* Threads are scheduled, and whoever wants the lock of localtime gets it at some
\* time if it is free again and again.  Connections, what clients do, signals and
\* failures are not fair.
FairSpec ==
    /\ Spec
    /\ WF_vars(MainStep)
    /\ \A t \in Thread : SF_vars(EnterLogger(t)) /\ WF_vars(PrintLine(t))
    /\ \A c \in Connection : WF_vars(NewSsl(c)) /\ WF_vars(EndThread(c))

-----------------------------------------------------------------------------
(* Properties *)

TypeOK ==
    /\ pc \in Starting \cup Cleaning \cup {"condition", "accept", "leave", "ended"}
    /\ how \in {"running", "returned", "killed", "undefined"} /\ failed \in BOOLEAN
    /\ (how = "running") = (pc # "ended")
    /\ held \subseteq Resource /\ logfile \in {"none", "file", "stderr"}
    /\ shutdown \in BOOLEAN
    /\ thread \in [Connection -> {"none", "new", "handshake", "serving", "refused",
                                  "closed"}]
    /\ open \in [Connection -> Int]
    /\ log \in [Thread -> [Level -> {"no", "due", "in"}]]
    /\ tz \in Thread \cup {Nobody}
    /\ tz # Nobody => \E i \in Level : log[tz][i] = "in"
    /\ accepts \in 0..MaxAccepts /\ signals \in 0..MaxSignals

\* Whatever fails in the start, and wherever a signal comes, a process that returns
\* from main has closed its socket, its database and its SSL context and wiped its
\* key: each way out of main calls what undoes the steps that were done.
ReturnsClean == how = "returned" => held = {}

\* A handler thread meets a resource that is freed, or a closed log, only once a
\* signal has made main leave its loop: no other way to an end has threads around.
UndefinedOnlyAfterSignal == how = "undefined" => shutdown

\* A descriptor that accept returned is closed exactly once: it is open as long as
\* there is a thread to close it, and whatever fails between accept and the end of
\* handle_client neither forgets a close nor closes twice.
DescriptorsOwned ==
    \A c \in Connection :
        open[c] = IF thread[c] \in {"new", "handshake", "serving", "refused"} THEN 1
                  ELSE 0

\* signal_handler calls logger in a thread that is inside localtime already.
Deadlocked ==
    \E t \in Thread, i \in Level : Current(t, i) /\ log[t][i] = "due" /\ tz = t

\* A server whose g_shutdown is set ends, unless main waits in accept (SA_RESTART) or
\* a further signal deadlocks it: it does not wait for clients that stay.
ShutdownCompletes == (shutdown /\ pc # "accept") ~> (pc = "ended" \/ Deadlocked)

\* Every line gets logged and every thread gets past logger, unless a signal came to
\* the thread that holds the lock; that one signal stops them all.
LoggersProceed ==
    \A t \in Thread, i \in Level : log[t][i] = "due" ~> (log[t][i] # "due" \/ Deadlocked)

\* The handler threads of FileServer may rely on ServerLife; so main keeps it.
Life == INSTANCE ServerLife WITH
    key <- IF "key" \in held /\ pc \notin Starting /\ ~failed /\ pc # "ended"
           THEN 1 ELSE 0,
    stage <- IF pc \in Starting \/ failed \/ pc = "ended" THEN "down"
             ELSE IF "database" \in held THEN "up"
             ELSE IF "key" \in held THEN "db_closed" ELSE "key_wiped"
ImplementsLife == Life!Spec
=============================================================================
