-------------------------- MODULE ServerMain_proofs --------------------------
(* The safety properties of ServerMain and its refinement of ServerLife, for *)
(* any number of connections and signals and any failure.                    *)
EXTENDS ServerMain, TLAPS

\* What is undone when main stands in its cleanup, whichever way it came.
Undone ==
    /\ pc \in (Starting \ {"listen"}) \cup Cleaning => "socket" \notin held
    /\ pc \in {"free_mongo", "wipe_key", "close_log", "return"} => "ssl_ctx" \notin held
    /\ pc \in {"wipe_key", "close_log", "return"} => "database" \notin held
    /\ pc \in {"close_log", "return"} => "key" \notin held

\* What there is as long as nothing has failed and cleanup has not freed it.
Running == {"condition", "accept", "leave", "cleanup", "free_ssl"}
Built ==
    ~failed =>
        /\ pc \in Running \cup {"init_mongodb", "init_crypto", "storage_dir", "socket",
                                "listen"} => "ssl_ctx" \in held
        /\ pc \in Running \cup {"init_crypto", "storage_dir", "socket", "listen",
                                "free_mongo"} => "database" \in held
        /\ pc \in Running \cup {"storage_dir", "socket", "listen", "free_mongo",
                                "wipe_key"} => "key" \in held

\* Handler threads are there only beside a main that has started, and main leaves
\* its loop only because of a signal.
ThreadsOfLoop ==
    /\ pc \in Starting \cup {"condition", "accept"} => ~failed
    /\ pc \in Starting \/ failed => \A c \in Connection : thread[c] = "none"
    /\ pc \in Cleaning \cup {"leave"} /\ ~failed => shutdown

\* Nobody logs who is not there, nor main where it has no log file.
LogOpen ==
    /\ \A c \in Connection : thread[c] = "none" => log[c] = Silent
    /\ \A t \in Thread : pc = "init_logging" => log[t] = Silent
    /\ pc \in {"init_logging", "return"} => log[Main][0] = "no"
    /\ logfile = "none" => pc \in {"init_logging", "return", "ended"}
    /\ logfile = "none" => \A i \in Level : log[Main][i] # "in"

IInv ==
    /\ TypeOK /\ DescriptorsOwned /\ ReturnsClean /\ UndefinedOnlyAfterSignal
    /\ Undone /\ Built /\ ThreadsOfLoop /\ LogOpen

-----------------------------------------------------------------------------
(* What steps have in common *)

\* The states of a call of logger.
CallState == {"no", "due", "in"}

\* A thread that is not in logger is at none of its levels.
LEMMA SilentCalls == Silent \in [Level -> CallState] /\ \A i \in Level : Silent[i] = "no"
  BY DEF Silent, CallState

\* A step of one call changes no other.
LEMMA OneCall ==
    ASSUME NEW f \in [Thread -> [Level -> CallState]], NEW t \in Thread, NEW i \in Level,
           NEW v \in CallState, NEW g, g = [f EXCEPT ![t][i] = v]
    PROVE  /\ g \in [Thread -> [Level -> CallState]]
           /\ \A u \in Thread, j \in Level :
                 g[u][j] = IF u = t /\ j = i THEN v ELSE f[u][j]
           /\ \A u \in Thread : u # t => g[u] = f[u]
<1>1. [f[t] EXCEPT ![i] = v] \in [Level -> CallState]
  OBVIOUS
<1>2. g = [f EXCEPT ![t] = [f[t] EXCEPT ![i] = v]]
  OBVIOUS
<1> QED
  BY <1>1, <1>2

\* The end of the process, in a way that is allowed where it happens.
LEMMA EndsInv ==
    ASSUME IInv, NEW way \in {"returned", "killed", "undefined"}, Ends(way),
           way = "returned" => held = {},
           way = "undefined" => shutdown
    PROVE  IInv'
<1> USE DEF IInv, Ends, counters
<1>1. log' \in [Thread -> [Level -> CallState]]
  BY SilentCalls
<1>2. TypeOK'
  BY <1>1, ThreadsAssumption DEF TypeOK, Starting, Cleaning, CallState
<1>3. DescriptorsOwned' /\ ReturnsClean' /\ UndefinedOnlyAfterSignal'
  BY DEF DescriptorsOwned, ReturnsClean, UndefinedOnlyAfterSignal
<1>4. Undone' /\ Built' /\ ThreadsOfLoop'
  BY DEF Undone, Built, Running, ThreadsOfLoop, Starting, Cleaning
<1>5. LogOpen'
  BY SilentCalls, 0 \in Level DEF LogOpen, Thread, Level
<1> QED
  BY <1>2, <1>3, <1>4, <1>5

\* Main takes a step: what it may do to the variables of the threads is to log.
MainMoves ==
    /\ Runs(Main)
    /\ log' = log \/ (log' = [log EXCEPT ![Main][0] = "due"] /\ pc' # "return"
                                                             /\ pc' # "init_logging")
    /\ UNCHANGED <<how, shutdown, thread, open, tz, accepts, signals>>

\* Such a step keeps types, descriptors and the threads' part of the log.
LEMMA MainMovesInv ==
    ASSUME IInv, MainMoves,
           pc' \in Starting \cup Cleaning \cup {"condition", "accept", "leave"},
           held' \subseteq Resource, logfile' \in {"none", "file", "stderr"},
           failed' \in BOOLEAN
    PROVE  /\ TypeOK' /\ DescriptorsOwned' /\ ReturnsClean' /\ UndefinedOnlyAfterSignal'
           /\ \A c \in Connection : thread'[c] = "none" => log'[c] = Silent
           /\ \A i \in Level : log'[Main][i] # "in"
<1> USE DEF IInv, MainMoves, Runs
<1>1. pc # "ended" /\ log[Main] = Silent /\ how = "running"
      /\ \A i \in Level : log[Main][i] = "no"
  BY SilentCalls DEF TypeOK
<1>2. Main \in Thread /\ Connection \subseteq Thread /\ Main \notin Connection
      /\ 0 \in Level
  BY ThreadsAssumption DEF Thread, Level
<1>8. log \in [Thread -> [Level -> CallState]]
  BY DEF TypeOK, CallState
<1>9. /\ log' \in [Thread -> [Level -> CallState]]
      /\ \A u \in Thread, j \in Level : log[u][j] = "in" => log'[u][j] = "in"
      /\ \A u \in Thread : u # Main => log'[u] = log[u]
      /\ \A i \in Level : log'[Main][i] # "in"
  <2>1. CASE log' = log
    BY <1>1, <1>8, <2>1
  <2>2. CASE log' = [log EXCEPT ![Main][0] = "due"]
    BY <1>1, <1>2, <1>8, <2>2, OneCall DEF CallState
  <2> QED
    BY <2>1, <2>2
<1>3. TypeOK'
  <2>1. log' \in [Thread -> [Level -> {"no", "due", "in"}]]
    BY <1>9 DEF CallState
  <2>2. tz # Nobody => \E i \in Level : log'[tz][i] = "in"
    BY <1>9 DEF TypeOK
  <2>3. pc' # "ended"
    BY DEF Starting, Cleaning
  <2> QED
    BY <1>1, <2>1, <2>2, <2>3 DEF TypeOK
<1>4. DescriptorsOwned' /\ ReturnsClean' /\ UndefinedOnlyAfterSignal'
  BY <1>1 DEF DescriptorsOwned, ReturnsClean, UndefinedOnlyAfterSignal
<1>5. \A c \in Connection : thread'[c] = "none" => log'[c] = Silent
  BY <1>2, <1>9 DEF LogOpen
<1> QED
  BY <1>3, <1>4, <1>5, <1>9

-----------------------------------------------------------------------------
(* One lemma per group of actions: the start and the loop *)

\* Every step of the start makes what it says and goes on.
LEMMA StartStepInv ==
    ASSUME IInv,
           \/ InitLogging \/ SetupSignals \/ InitSsl \/ InitMongodb \/ InitCryptography
           \/ CreateStorageDir \/ OpenSocket \/ Listen
    PROVE  IInv'
<1> USE DEF IInv, counters, logging
<1>1. /\ pc \in Starting /\ pc' \in Starting \cup {"condition"}
      /\ held' \subseteq held \cup Resource
      /\ Runs(Main) /\ (Logs(Main) \/ UNCHANGED <<log, tz>>)
      /\ UNCHANGED <<how, failed, shutdown, thread, open, counters>>
  BY DEF InitLogging, SetupSignals, InitSsl, InitMongodb, InitCryptography,
     CreateStorageDir, OpenSocket, Listen, Makes, Starting, Resource
<1>2. logfile' \in {"none", "file", "stderr"} /\ pc' # "init_logging" /\ pc' # "return"
  BY DEF InitLogging, SetupSignals, InitSsl, InitMongodb, InitCryptography,
     CreateStorageDir, OpenSocket, Listen, Makes, TypeOK
<1>3. MainMoves
  BY <1>1, <1>2 DEF MainMoves, Logs
<1>4. /\ TypeOK' /\ DescriptorsOwned' /\ ReturnsClean' /\ UndefinedOnlyAfterSignal'
      /\ \A c \in Connection : thread'[c] = "none" => log'[c] = Silent
      /\ \A i \in Level : log'[Main][i] # "in"
  BY <1>1, <1>2, <1>3, MainMovesInv DEF TypeOK
<1>5. Undone'
  BY DEF Undone, InitLogging, SetupSignals, InitSsl, InitMongodb, InitCryptography,
     CreateStorageDir, OpenSocket, Listen, Makes, Starting, Cleaning
<1>6. Built'
  BY DEF Built, Running, InitLogging, SetupSignals, InitSsl, InitMongodb,
     InitCryptography, CreateStorageDir, OpenSocket, Listen, Makes
<1>7. ThreadsOfLoop'
  BY <1>1 DEF ThreadsOfLoop, Starting, Cleaning
<1>8. LogOpen'
  BY <1>2, <1>4 DEF LogOpen, InitLogging, SetupSignals, InitSsl, InitMongodb,
     InitCryptography, CreateStorageDir, OpenSocket, Listen, Makes
<1> QED
  BY <1>4, <1>5, <1>6, <1>7, <1>8

\* A failure of the start leaves no socket open.
LEMMA StartFailsInv ==
    ASSUME IInv, StartFails
    PROVE  IInv'
<1> USE DEF IInv, counters
<1>1. /\ pc \in Starting \ {"init_logging"} /\ pc' = "cleanup" /\ failed' = TRUE
      /\ Runs(Main) /\ Logs(Main) /\ held' \subseteq held \cup {"ssl_ctx"}
      /\ "socket" \in held' => pc # "listen" /\ "socket" \in held
      /\ UNCHANGED <<how, logfile, shutdown, thread, open, counters>>
  BY DEF StartFails, FailsWith, Starting
<1>2. MainMoves
  BY <1>1 DEF MainMoves, Logs
<1>3. /\ TypeOK' /\ DescriptorsOwned' /\ ReturnsClean' /\ UndefinedOnlyAfterSignal'
      /\ \A c \in Connection : thread'[c] = "none" => log'[c] = Silent
      /\ \A i \in Level : log'[Main][i] # "in"
  BY <1>1, <1>2, MainMovesInv DEF TypeOK, Resource, Cleaning
<1>4. Undone' /\ Built' /\ ThreadsOfLoop'
  BY <1>1 DEF Undone, Built, ThreadsOfLoop, Starting, Cleaning
<1>5. LogOpen'
  BY <1>1, <1>3 DEF LogOpen, Starting
<1> QED
  BY <1>3, <1>4, <1>5

\* The loop is left because of g_shutdown only; a failing accept goes on.
LEMMA LoopInv ==
    ASSUME IInv, CheckShutdown \/ AcceptFails
    PROVE  IInv'
<1> USE DEF IInv, counters
<1>1. /\ pc \in {"condition", "accept"} /\ pc' \in {"condition", "accept", "leave"}
      /\ Runs(Main) /\ (Logs(Main) \/ UNCHANGED <<log, tz>>)
      /\ pc' = "leave" => shutdown
      /\ UNCHANGED <<how, failed, held, logfile, shutdown, thread, open, counters>>
  BY DEF CheckShutdown, AcceptFails, logging
<1>2. MainMoves
  BY <1>1 DEF MainMoves, Logs
<1>3. /\ TypeOK' /\ DescriptorsOwned' /\ ReturnsClean' /\ UndefinedOnlyAfterSignal'
      /\ \A c \in Connection : thread'[c] = "none" => log'[c] = Silent
      /\ \A i \in Level : log'[Main][i] # "in"
  BY <1>1, <1>2, MainMovesInv DEF TypeOK
<1>4. Undone' /\ Built' /\ ThreadsOfLoop'
  BY <1>1 DEF Undone, Built, Running, ThreadsOfLoop, Starting, Cleaning
<1>5. LogOpen'
  BY <1>1, <1>3 DEF LogOpen
<1> QED
  BY <1>3, <1>4, <1>5

\* A new connection gets a thread or is closed.
LEMMA AcceptInv ==
    ASSUME IInv, NEW c \in Connection, Accept(c) \/ DropConnection(c)
    PROVE  IInv'
<1> USE DEF IInv
<1>1. /\ Runs(Main) /\ pc = "accept" /\ pc' = "condition" /\ thread[c] = "none"
      /\ accepts < MaxAccepts /\ accepts' = accepts + 1
      /\ UNCHANGED <<how, failed, held, logfile, shutdown, signals, tz>>
      /\ log' = log \/ log' = [log EXCEPT ![Main][0] = "due"]
  BY DEF Accept, DropConnection, AcceptReturns, Logs, logging
<1>2. \/ /\ open' = [open EXCEPT ![c] = @ + 1]
         /\ thread' = [thread EXCEPT ![c] = "new"]
      \/ UNCHANGED <<open, thread>>
  BY DEF Accept, DropConnection
<1>3. Main \in Thread /\ Connection \subseteq Thread /\ Main \notin Connection
      /\ MaxAccepts \in Nat /\ 0 \in Level
  BY ThreadsAssumption DEF Thread, Level
<1>8. log[Main] = Silent /\ \A i \in Level : log[Main][i] = "no"
  BY <1>1, SilentCalls DEF Runs
<1>9. /\ log' \in [Thread -> [Level -> CallState]]
      /\ \A u \in Thread, j \in Level : log[u][j] = "in" => log'[u][j] = "in"
      /\ \A u \in Thread : u # Main => log'[u] = log[u]
      /\ \A i \in Level : log'[Main][i] # "in"
  <2>1. log \in [Thread -> [Level -> CallState]]
    BY DEF TypeOK, CallState
  <2>2. CASE log' = log
    BY <1>8, <2>1, <2>2
  <2>3. CASE log' = [log EXCEPT ![Main][0] = "due"]
    BY <1>3, <1>8, <2>1, <2>3, OneCall DEF CallState
  <2> QED
    BY <1>1, <2>2, <2>3
<1>4. TypeOK'
  <2>1. pc # "ended"
    BY <1>1 DEF Runs
  <2>2. log' \in [Thread -> [Level -> {"no", "due", "in"}]]
        /\ (tz # Nobody => \E i \in Level : log'[tz][i] = "in")
    BY <1>9 DEF TypeOK, CallState
  <2>3. open' \in [Connection -> Int]
        /\ thread' \in [Connection -> {"none", "new", "handshake", "serving",
                                       "refused", "closed"}]
    BY <1>2 DEF TypeOK
  <2>4. accepts' \in 0..MaxAccepts
    BY <1>1, <1>3 DEF TypeOK
  <2> QED
    BY <1>1, <2>1, <2>2, <2>3, <2>4 DEF TypeOK
<1>5. DescriptorsOwned'
  <2>1. open[c] = 0
    BY <1>1 DEF DescriptorsOwned
  <2> QED
    BY <1>2, <2>1 DEF DescriptorsOwned, TypeOK
<1>6. ReturnsClean' /\ UndefinedOnlyAfterSignal' /\ Undone' /\ Built' /\ ThreadsOfLoop'
  BY <1>1 DEF ReturnsClean, UndefinedOnlyAfterSignal, Undone, Built, Running,
              ThreadsOfLoop, Starting, Cleaning
<1>7. LogOpen'
  <2>1. \A k \in Connection : thread'[k] = "none" => log'[k] = Silent
    BY <1>2, <1>3, <1>9 DEF LogOpen, TypeOK
  <2> QED
    BY <1>1, <1>9, <2>1 DEF LogOpen
<1> QED
  BY <1>4, <1>5, <1>6, <1>7

-----------------------------------------------------------------------------
(* The end *)

\* Each step of the end frees what it says, in the order of cleanup_resources.
LEMMA EndStepInv ==
    ASSUME IInv,
           LeaveLoop \/ BeginCleanup \/ FreeSsl \/ FreeMongo \/ WipeKey \/ CloseLog
    PROVE  IInv'
<1> USE DEF IInv, counters, logging
<1>1. /\ Runs(Main) /\ pc \in Cleaning \cup {"leave"} /\ pc' \in Cleaning
      /\ held' \subseteq held
      /\ (Logs(Main) /\ pc' # "return") \/ UNCHANGED <<log, tz>>
      /\ UNCHANGED <<how, failed, shutdown, thread, open, counters>>
  BY DEF LeaveLoop, BeginCleanup, FreeSsl, FreeMongo, WipeKey, CloseLog, Frees, Cleaning
<1>2. logfile' \in {"none", "file", "stderr"}
  BY DEF LeaveLoop, BeginCleanup, FreeSsl, FreeMongo, WipeKey, CloseLog, Frees, TypeOK
<1>3. MainMoves
  BY <1>1 DEF MainMoves, Logs, Cleaning
<1>4. /\ TypeOK' /\ DescriptorsOwned' /\ ReturnsClean' /\ UndefinedOnlyAfterSignal'
      /\ \A c \in Connection : thread'[c] = "none" => log'[c] = Silent
      /\ \A i \in Level : log'[Main][i] # "in"
  BY <1>1, <1>2, <1>3, MainMovesInv DEF TypeOK
<1>5. Undone'
  BY DEF Undone, LeaveLoop, BeginCleanup, FreeSsl, FreeMongo, WipeKey, CloseLog, Frees,
     Starting, Cleaning
<1>6. Built'
  BY DEF Built, Running, LeaveLoop, BeginCleanup, FreeSsl, FreeMongo, WipeKey, CloseLog,
     Frees
<1>7. ThreadsOfLoop'
  BY <1>1 DEF ThreadsOfLoop, Starting, Cleaning
<1>8. LogOpen'
  <2>1. log[Main][0] = "no" /\ pc' # "init_logging"
    BY <1>1, SilentCalls, 0 \in Level DEF Runs, Level, Cleaning
  <2>2. pc' = "return" => log' = log
    BY <1>1
  <2>3. logfile' = "none" => pc' = "return"
    BY <1>1 DEF LogOpen, LeaveLoop, BeginCleanup, FreeSsl, FreeMongo, WipeKey, CloseLog,
       Frees, Cleaning
  <2> QED
    BY <1>4, <2>1, <2>2, <2>3 DEF LogOpen
<1> QED
  BY <1>4, <1>5, <1>6, <1>7, <1>8

\* main returns with nothing held; a kill may come at any time.
LEMMA ReturnInv ==
    ASSUME IInv, Return \/ Kill
    PROVE  IInv'
<1>1. pc = "return" => held = {}
  BY DEF IInv, Undone, TypeOK, Resource, Cleaning
<1> QED
  BY <1>1, EndsInv DEF Return, Kill

-----------------------------------------------------------------------------
(* The threads, logger and the signal handler *)

\* A thread that needs what main has freed was started before a signal came.
LEMMA FreedAfterSignal ==
    ASSUME IInv, pc # "ended", NEW c \in Connection, thread[c] # "none",
           "ssl_ctx" \notin held \/ "database" \notin held \/ logfile = "none"
    PROVE  shutdown
<1>1. pc \in Starting \cup Cleaning \cup {"condition", "accept", "leave"}
  BY DEF IInv, TypeOK
<1>2. pc \notin Starting /\ ~failed
  BY DEF IInv, ThreadsOfLoop
<1>3. pc \in Cleaning
  BY <1>1, <1>2 DEF IInv, Built, Running, LogOpen, Starting, Cleaning
<1> QED
  BY <1>2, <1>3 DEF IInv, ThreadsOfLoop

\* A handler thread takes a step to a place of its own.
LEMMA ThreadMovesInv ==
    ASSUME IInv, NEW c \in Connection, Runs(c), ThreadStep(c),
           NEW then \in {"none", "handshake", "serving", "refused", "closed"},
           thread[c] # "none",
           thread' = [thread EXCEPT ![c] = then],
           \/ /\ open' = open
              /\ \/ then \in {"handshake", "serving", "refused"} /\ thread[c] # "closed"
                 \/ then = "none" /\ thread[c] = "closed"
           \/ /\ open' = [open EXCEPT ![c] = @ - 1]
              /\ then \in {"none", "closed"} /\ thread[c] # "closed",
           UNCHANGED <<log, tz>> \/ (Logs(c) /\ then # "none")
    PROVE  IInv'
<1> USE DEF IInv, ThreadStep, counters
<1>1. c \in Thread /\ Main # c /\ pc # "ended" /\ log[c] = Silent
      /\ Main \in Thread /\ Connection \subseteq Thread /\ 0 \in Level
      /\ \A i \in Level : log[c][i] = "no"
  BY ThreadsAssumption, SilentCalls DEF Thread, Runs, Level
<1>2. /\ log' \in [Thread -> [Level -> CallState]] /\ tz' = tz
      /\ \A u \in Thread, j \in Level : log[u][j] = "in" => log'[u][j] = "in"
      /\ \A u \in Thread : u # c => log'[u] = log[u]
      /\ then = "none" => log' = log
  <2>1. log \in [Thread -> [Level -> CallState]]
    BY DEF TypeOK, CallState
  <2>2. CASE UNCHANGED <<log, tz>>
    BY <2>1, <2>2
  <2>3. CASE Logs(c) /\ then # "none"
    BY <1>1, <2>1, <2>3, OneCall DEF CallState, Logs
  <2> QED
    BY <2>2, <2>3
<1>3. TypeOK'
  <2>1. log' \in [Thread -> [Level -> {"no", "due", "in"}]]
        /\ (tz' # Nobody => \E i \in Level : log'[tz'][i] = "in")
    BY <1>2 DEF TypeOK, CallState
  <2>2. open' \in [Connection -> Int]
    BY DEF TypeOK
  <2>3. thread' \in [Connection -> {"none", "new", "handshake", "serving", "refused",
                                    "closed"}]
    BY DEF TypeOK
  <2> QED
    BY <1>2, <2>1, <2>2, <2>3 DEF TypeOK
<1>4. DescriptorsOwned'
  <2>1. thread[c] \in {"new", "handshake", "serving", "refused", "closed"}
    BY DEF TypeOK
  <2>2. open'[c] = IF then \in {"new", "handshake", "serving", "refused"} THEN 1 ELSE 0
    BY <2>1 DEF DescriptorsOwned, TypeOK
  <2>3. \A k \in Connection : k # c => open'[k] = open[k] /\ thread'[k] = thread[k]
    BY DEF TypeOK
  <2>4. thread'[c] = then
    BY DEF TypeOK
  <2> QED
    BY <2>2, <2>3, <2>4 DEF DescriptorsOwned
<1>5. ReturnsClean' /\ UndefinedOnlyAfterSignal' /\ Undone' /\ Built'
  BY DEF ReturnsClean, UndefinedOnlyAfterSignal, Undone, Built
<1>6. ThreadsOfLoop'
  BY DEF ThreadsOfLoop, TypeOK
<1>7. LogOpen'
  <2>1. pc # "init_logging"
    BY DEF ThreadsOfLoop, Starting
  <2>2. \A k \in Connection : thread'[k] = "none" => log'[k] = Silent
    BY <1>1, <1>2 DEF LogOpen, TypeOK
  <2>3. log'[Main] = log[Main]
    BY <1>1, <1>2
  <2> QED
    BY <2>1, <2>2, <2>3 DEF LogOpen
<1> QED
  BY <1>3, <1>4, <1>5, <1>6, <1>7

\* The steps of handle_client.
LEMMA HandleInv ==
    ASSUME IInv, NEW c \in Connection,
           NewSsl(c) \/ Handshake(c) \/ Serve(c) \/ Disconnect(c) \/ EndThread(c)
    PROVE  IInv'
<1>1. CASE NewSsl(c)
  <2>1. thread[c] = "new" /\ Runs(c)
    BY <1>1 DEF NewSsl
  <2>2. CASE "ssl_ctx" \notin held /\ Ends("undefined")
    BY <2>1, <2>2, FreedAfterSignal, EndsInv DEF Runs
  <2>3. CASE ThreadStep(c)
    BY <1>1, <2>1, <2>3, ThreadMovesInv DEF NewSsl, Ends, ThreadStep, Runs, logging
  <2> QED
    BY <1>1, <2>2, <2>3 DEF NewSsl
<1>2. CASE Handshake(c)
  BY <1>2, ThreadMovesInv DEF Handshake
<1>3. CASE Serve(c)
  <2>1. thread[c] = "serving" /\ Runs(c)
    BY <1>3 DEF Serve
  <2>2. CASE "database" \notin held /\ Ends("undefined")
    BY <2>1, <2>2, FreedAfterSignal, EndsInv DEF Runs
  <2>3. CASE Logs(c) /\ UNCHANGED <<thread, open>> /\ ThreadStep(c)
    <3>1. thread' = [thread EXCEPT ![c] = "serving"]
      BY <2>1, <2>3 DEF IInv, TypeOK
    <3> QED
      BY <2>1, <2>3, <3>1, ThreadMovesInv
  <2> QED
    BY <1>3, <2>2, <2>3 DEF Serve
<1>4. CASE Disconnect(c)
  BY <1>4, ThreadMovesInv DEF Disconnect
<1>5. CASE EndThread(c)
  BY <1>5, ThreadMovesInv DEF EndThread, logging
<1> QED
  BY <1>1, <1>2, <1>3, <1>4, <1>5

\* A call of logger begins, takes the lock or returns; g_shutdown may be set then.
LEMMA CallInv ==
    ASSUME IInv, NEW t \in Thread, NEW i \in Level, NEW v \in CallState,
           log' = [log EXCEPT ![t][i] = v],
           pc \notin {"init_logging", "ended"},
           \A c \in Connection : t = c => thread[c] # "none",
           i = 0 /\ pc = "return" /\ t = Main => v = "no",
           v = "in" => logfile # "none",
           \/ tz' = Nobody
           \/ tz' = t /\ v = "in"
           \/ tz' = tz /\ (tz = t => log[t][i] # "in"),
           shutdown' \in BOOLEAN, shutdown => shutdown',
           signals' \in 0..MaxSignals,
           UNCHANGED <<pc, how, failed, held, logfile, thread, open, accepts>>
    PROVE  IInv'
<1> USE DEF IInv
<1>1. /\ log' \in [Thread -> [Level -> CallState]]
      /\ \A u \in Thread, j \in Level :
             log'[u][j] = IF u = t /\ j = i THEN v ELSE log[u][j]
      /\ \A u \in Thread : u # t => log'[u] = log[u]
  <2>1. log \in [Thread -> [Level -> CallState]]
    BY DEF TypeOK, CallState
  <2> QED
    BY <2>1, OneCall
<1>2. Main \in Thread /\ Connection \subseteq Thread /\ Nobody \notin Thread /\ 0 \in Level
  BY ThreadsAssumption DEF Thread, Level
<1>3. TypeOK'
  <2>1. tz' \in Thread \cup {Nobody}
    BY DEF TypeOK
  <2>2. tz' # Nobody => \E j \in Level : log'[tz'][j] = "in"
    <3>1. CASE tz' = t /\ v = "in"
      BY <1>1, <3>1
    <3>2. CASE tz' = tz /\ (tz = t => log[t][i] # "in")
      BY <1>1, <3>2 DEF TypeOK
    <3> QED
      BY <3>1, <3>2
  <2> QED
    BY <1>1, <2>1, <2>2 DEF TypeOK, CallState
<1>4. LogOpen'
  <2>1. \A c \in Connection : thread'[c] = "none" => log'[c] = Silent
    BY <1>1, <1>2 DEF LogOpen
  <2>2. pc' = "return" => log'[Main][0] = "no"
    BY <1>1, <1>2 DEF LogOpen
  <2>3. logfile' = "none" => \A j \in Level : log'[Main][j] # "in"
    BY <1>1, <1>2 DEF LogOpen
  <2> QED
    BY <2>1, <2>2, <2>3 DEF LogOpen
<1>5. DescriptorsOwned' /\ ReturnsClean' /\ UndefinedOnlyAfterSignal'
  BY DEF DescriptorsOwned, ReturnsClean, UndefinedOnlyAfterSignal
<1>6. Undone' /\ Built'
  BY DEF Undone, Built
<1>7. ThreadsOfLoop'
  BY DEF ThreadsOfLoop
<1> QED
  BY <1>3, <1>4, <1>5, <1>6, <1>7

\* A thread that is in logger is there, and not before init_logging.
LEMMA CallerIsThere ==
    ASSUME IInv, NEW t \in Thread, NEW i \in Level, Current(t, i)
    PROVE  /\ pc \notin {"init_logging", "ended"}
           /\ \A c \in Connection : t = c => thread[c] # "none"
           /\ i = 0 /\ t = Main => pc # "return"
  BY SilentCalls DEF IInv, LogOpen, Current

\* The steps of logger keep everything but the lock and g_shutdown.
LEMMA LoggerInv ==
    ASSUME IInv, NEW t \in Thread, EnterLogger(t) \/ PrintLine(t)
    PROVE  IInv'
<1>1. PICK i \in Level :
         /\ Current(t, i)
         /\ \/ log[t][i] = "due" /\ logfile = "none" /\ LoggerReturns(t, i) /\ UNCHANGED tz
            \/ /\ logfile # "none" /\ tz = Nobody
               /\ log' = [log EXCEPT ![t][i] = "in"] /\ tz' = t
               /\ UNCHANGED <<pc, how, failed, held, logfile, shutdown, thread, open,
                              counters>>
            \/ LoggerReturns(t, i) /\ tz' = Nobody
            \/ log[t][i] = "in" /\ logfile = "none" /\ Ends("undefined")
  BY DEF EnterLogger, PrintLine
<1>2. CASE log[t][i] = "in" /\ logfile = "none" /\ Ends("undefined")
  <2>1. t # Main /\ pc # "ended"
    BY <1>1, <1>2 DEF IInv, LogOpen, Current
  <2>2. t \in Connection /\ thread[t] # "none"
    BY <1>1, <2>1, CallerIsThere DEF Thread
  <2> QED
    BY <1>2, <2>1, <2>2, FreedAfterSignal, EndsInv
<1>3. shutdown \in BOOLEAN /\ (shutdown \/ i > 0) \in BOOLEAN /\ signals \in 0..MaxSignals
      /\ "no" \in CallState /\ "in" \in CallState
  BY DEF IInv, TypeOK, CallState
<1>4. CASE LoggerReturns(t, i) /\ (tz' = Nobody \/ (tz' = tz /\ log[t][i] = "due"))
  BY <1>1, <1>3, <1>4, CallerIsThere, CallInv DEF LoggerReturns, counters
<1>5. CASE /\ logfile # "none" /\ tz' = t
           /\ log' = [log EXCEPT ![t][i] = "in"]
           /\ UNCHANGED <<pc, how, failed, held, logfile, shutdown, thread, open, counters>>
  BY <1>1, <1>3, <1>5, CallerIsThere, CallInv DEF counters
<1> QED
  BY <1>1, <1>2, <1>4, <1>5

\* A signal interrupts a thread or kills the process.
LEMMA SignalInv ==
    ASSUME IInv, NEW t \in Thread, Signal(t)
    PROVE  IInv'
<1>1. CASE Ends("killed")
  BY <1>1, EndsInv
<1>2. CASE pc \notin {"init_logging", "setup_signals"}
  <2>1. PICK i \in Level \ {0} :
           /\ \A j \in Level \ {0} : log[t][j] = "no" <=> j >= i
           /\ log' = [log EXCEPT ![t][i] = "due"] /\ signals' = signals + 1
           /\ UNCHANGED <<pc, how, failed, held, logfile, shutdown, thread, open, tz,
                          accepts>>
    BY <1>2 DEF Signal
  <2>2. log[t][i] = "no" /\ i \in Level /\ i # 0
    BY <2>1 DEF Level
  <2>3. pc # "ended" /\ signals < MaxSignals
        /\ \A c \in Connection : t = c => thread[c] # "none"
    BY ThreadsAssumption DEF Signal
  <2>4. signals' \in 0..MaxSignals /\ shutdown \in BOOLEAN /\ "due" \in CallState
    BY <2>1, <2>3, ThreadsAssumption DEF IInv, TypeOK, CallState
  <2> QED
    BY <1>2, <2>1, <2>2, <2>3, <2>4, CallInv
<1> QED
  BY <1>1, <1>2 DEF Signal

-----------------------------------------------------------------------------
(* The theorems *)

\* The invariant holds at first.
LEMMA InitIInv == Init => IInv
<1> SUFFICES ASSUME Init PROVE IInv
  OBVIOUS
<1> USE DEF Init
<1>1. TypeOK
  <2>1. accepts \in 0..MaxAccepts /\ signals \in 0..MaxSignals
    BY ThreadsAssumption
  <2>2. pc \in Starting /\ how = "running" /\ pc # "ended" /\ held \subseteq Resource
    BY DEF Starting
  <2>3. thread \in [Connection -> {"none"}] /\ open \in [Connection -> Int]
    OBVIOUS
  <2>4. log \in [Thread -> [Level -> CallState]]
    BY SilentCalls
  <2> QED
    BY <2>1, <2>2, <2>3, <2>4 DEF TypeOK, CallState
<1>2. DescriptorsOwned /\ ReturnsClean /\ UndefinedOnlyAfterSignal
  BY DEF DescriptorsOwned, ReturnsClean, UndefinedOnlyAfterSignal
<1>4. LogOpen
  BY SilentCalls, 0 \in Level DEF LogOpen, Thread, Level
<1>3. Undone /\ Built /\ ThreadsOfLoop
  BY DEF Undone, Built, Running, ThreadsOfLoop, Starting, Cleaning
<1> QED
  BY <1>1, <1>2, <1>4, <1>3 DEF IInv

\* Every step preserves it.
LEMMA NextIInv == IInv /\ [Next]_vars => IInv'
<1> SUFFICES ASSUME IInv, [Next]_vars PROVE IInv'
  OBVIOUS
<1>1. CASE MainStep
  BY <1>1, StartStepInv, LoopInv, EndStepInv, ReturnInv DEF MainStep
<1>2. CASE StartFails \/ AcceptFails \/ Kill
  BY <1>2, StartFailsInv, LoopInv, ReturnInv
<1>3. CASE \E c \in Connection :
              \/ Accept(c) \/ DropConnection(c)
              \/ NewSsl(c) \/ Handshake(c) \/ Serve(c) \/ Disconnect(c) \/ EndThread(c)
  BY <1>3, AcceptInv, HandleInv
<1>4. CASE \E t \in Thread : EnterLogger(t) \/ PrintLine(t) \/ Signal(t)
  BY <1>4, LoggerInv, SignalInv
<1>5. CASE UNCHANGED vars
  BY <1>5 DEF vars, IInv, TypeOK, DescriptorsOwned, ReturnsClean,
              UndefinedOnlyAfterSignal, Undone, Built, ThreadsOfLoop, LogOpen
<1> QED
  BY <1>1, <1>2, <1>3, <1>4, <1>5 DEF Next

\* And so it holds in every reachable state.
LEMMA MainInvariant == Spec => []IInv
  BY InitIInv, NextIInv, PTL DEF Spec

\* The variables of main and its threads keep their types; whoever holds the lock
\* of localtime is in logger.
THEOREM MainTypeCorrect == Spec => []TypeOK
  BY MainInvariant, PTL DEF IInv

\* Whatever step of the start fails, and wherever a signal comes, main returns with
\* nothing left that it made.
THEOREM MainReturnsClean == Spec => []ReturnsClean
  BY MainInvariant, PTL DEF IInv

\* No failure between accept and the end of handle_client leaks a descriptor or
\* closes one twice, for any number of connections.
THEOREM DescriptorsHaveOwners == Spec => []DescriptorsOwned
  BY MainInvariant, PTL DEF IInv

\* Only the cleanup after a signal frees anything under a handler thread.
THEOREM UndefinedNeedsSignal == Spec => []UndefinedOnlyAfterSignal
  BY MainInvariant, PTL DEF IInv

-----------------------------------------------------------------------------
(* What the handler threads may rely on *)

\* A step that leaves the start, the failure, the database and the key alone.
LEMMA LifeStutters ==
    ASSUME IInv, pc # "ended", pc' # "ended", failed' = failed,
           pc \in Starting <=> pc' \in Starting,
           \/ failed \/ pc \in Starting
           \/ /\ "key" \in held' <=> "key" \in held
              /\ "database" \in held' <=> "database" \in held
    PROVE  UNCHANGED Life!vars
  BY DEF Life!vars

\* The end of the process is its end in ServerLife.
LEMMA LifeEnds ==
    ASSUME NEW way, Ends(way)
    PROVE  Life!Next
  BY DEF Ends, Life!Next, Life!End, Starting

\* The start is one step of ServerLife, the two steps of the cleanup are one each,
\* and whatever fails in the start leaves the process down.
THEOREM MainKeepsLife == Spec => ImplementsLife
<1>1. Init => Life!Init
  BY DEF Init, Life!Init, Starting
<1>2. IInv /\ [Next]_vars => [Life!Next]_Life!vars
  <2> SUFFICES ASSUME IInv, [Next]_vars PROVE [Life!Next]_Life!vars
    OBVIOUS
  <2>1. CASE InitLogging \/ SetupSignals \/ InitSsl \/ InitMongodb
             \/ InitCryptography \/ CreateStorageDir \/ OpenSocket
    <3>1. /\ pc \in Starting /\ pc' \in Starting /\ failed' = failed
          /\ pc # "ended" /\ pc' # "ended"
      BY <2>1 DEF InitLogging, SetupSignals, InitSsl, InitMongodb, InitCryptography,
         CreateStorageDir, OpenSocket, Makes, Starting
    <3> QED
      BY <3>1, LifeStutters
  <2>2. CASE Listen
    <3>1. pc = "listen" /\ pc' = "condition" /\ held' = held /\ failed' = failed
      BY <2>2 DEF Listen, Makes
    <3>2. ~failed /\ "key" \in held /\ "database" \in held
      BY <3>1 DEF IInv, Built, ThreadsOfLoop, Starting
    <3> QED
      BY <3>1, <3>2 DEF Life!Next, Life!Start, Starting
  <2>3. CASE StartFails
    <3>1. pc \in Starting /\ failed'
      BY <2>3 DEF StartFails, FailsWith, Starting
    <3> QED
      BY <3>1 DEF Life!vars, Starting
  <2>4. CASE FreeMongo
    <3>1. /\ pc = "free_mongo" /\ pc' = "wipe_key" /\ failed' = failed
          /\ held' = held \ {"database"}
      BY <2>4 DEF FreeMongo, Frees
    <3>2. CASE failed
      BY <3>1, <3>2, LifeStutters DEF Starting
    <3>3. CASE ~failed
      <4>1. "key" \in held /\ "database" \in held
        BY <3>1, <3>3 DEF IInv, Built
      <4> QED
        BY <3>1, <3>3, <4>1 DEF Life!Next, Life!CloseDatabase, Starting
    <3> QED
      BY <3>2, <3>3
  <2>5. CASE WipeKey
    <3>1. /\ pc = "wipe_key" /\ pc' = "close_log" /\ failed' = failed
          /\ held' = held \ {"key"}
      BY <2>5 DEF WipeKey, Frees
    <3>2. CASE failed
      BY <3>1, <3>2, LifeStutters DEF Starting
    <3>3. CASE ~failed
      <4>1. "key" \in held /\ "database" \notin held
        BY <3>1, <3>3 DEF IInv, Built, Undone
      <4> QED
        BY <3>1, <3>3, <4>1 DEF Life!Next, Life!WipeKey, Starting
    <3> QED
      BY <3>2, <3>3
  <2>6. CASE \/ CheckShutdown \/ AcceptFails \/ CloseLog
             \/ LeaveLoop \/ BeginCleanup \/ FreeSsl
             \/ \E c \in Connection : Accept(c) \/ DropConnection(c)
    <3>1. /\ pc \notin Starting \cup {"ended"} /\ pc' \notin Starting \cup {"ended"}
          /\ failed' = failed
          /\ held' = held \/ held' = held \ {"socket"} \/ held' = held \ {"ssl_ctx"}
                          \/ held' = held \ {}
      BY <2>6 DEF CheckShutdown, AcceptFails, CloseLog, LeaveLoop, BeginCleanup, FreeSsl,
         Frees, Accept, DropConnection, AcceptReturns, Starting
    <3> QED
      BY <3>1, LifeStutters
  <2>7. CASE \/ \E c \in Connection :
                   NewSsl(c) \/ Handshake(c) \/ Serve(c) \/ Disconnect(c) \/ EndThread(c)
             \/ \E t \in Thread : EnterLogger(t) \/ PrintLine(t) \/ Signal(t)
    <3>1. CASE UNCHANGED <<pc, held, failed>>
      BY <3>1 DEF Life!vars
    <3>2. CASE \E way \in {"undefined", "killed"} : Ends(way)
      BY <3>2, LifeEnds
    <3> QED
      BY <2>7, <3>1, <3>2 DEF NewSsl, Handshake, Serve, Disconnect, EndThread,
         ThreadStep, EnterLogger, PrintLine, LoggerReturns, Signal
  <2>8. CASE Return \/ Kill
    BY <2>8, LifeEnds DEF Return, Kill
  <2>9. CASE UNCHANGED vars
    BY <2>9 DEF vars, Life!vars
  <2> QED
    BY <2>1, <2>2, <2>3, <2>4, <2>5, <2>6, <2>7, <2>8, <2>9 DEF Next, MainStep
<1> QED
  BY <1>1, <1>2, MainInvariant, PTL DEF Spec, ImplementsLife, Life!Spec
=============================================================================
