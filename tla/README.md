# Verification of daemon-file-hosting

TLA+ specifications of the file exchange in this repository, the TLC runs that
check them on small instances, and TLAPS proofs of what matters most for every
instance.

The repository builds three programs. A **server** (`src/server/server.c`) keeps
files encrypted in a storage directory and their metadata in MongoDB, and serves
clients over mutual TLS. A **client** (`src/client/client.c`) uploads, downloads
and lists. A **daemon** (`src/main.c`) watches an exchange directory with inotify.
Server and daemon write a journal of events to the same kind of MongoDB document.

Paths below are relative to the repository; `server.c`, `client.c` and `main.c`
stand for `src/server/server.c`, `src/client/client.c` and `src/main.c`.


## 1. Inventory

### Components

| Component | Source | State it keeps | Operations | Modelled in |
|---|---|---|---|---|
| File server: requests | `server.c`, `include/protocol.h` | files in `STORAGE_DIR`; the collection; `g_file_crypto` (key, `initialized`); the locals of each handler | upload, download, list, unknown command, cleanup, restart | `FileServer`, `FileVault` |
| File server: process | `server.c` (`main`, `cleanup_resources`, `signal_handler`, `logger`, `handle_client`) | `g_ssl_ctx`, `g_mongo_client`, `g_server_sock`, `g_log_file`, `g_shutdown`; threads and their descriptors; the lock in `localtime` | start and its failures, accept, signal, cleanup, return | `ServerMain`, `ServerLife` |
| Event journal | `server.c:129-337`, `main.c:101-281` | base documents, each with a map `proc` from "1", "2", ... to events | `create_base_document`, `get_next_proc_key`, `append_proc_event` | `ProcJournal`, `ProcMap` |
| Wire protocol | `include/protocol.h`, both programs | two byte streams | headers, responses, bodies | `Transfer` |
| Send and receive loops | `client.c`, `server.c`, `src/utils/utils.c` | bytes sent and received of a message | `ssl_send_all`, `ssl_recv_all`, `send_all`, `recv_all`, the bare `SSL_read` of a header | `SocketLoops`, `Channel` |
| Client | `client.c` | the local file; progress of one command | upload, download, list | `Transfer` |
| inotify daemon | `main.c` | the watch and its queue; the buffer of events read; PID file; `g_shutdown` | start, read events, handle an event, signal, cleanup | `InotifyDaemon` |
| Server and daemon together | `server.c`, `main.c` | one directory, one collection | every step of both | `Exchange` |
| MongoDB helpers | `src/db/` | – | insert, find, upsert, a sample program | not modelled: linked, not called |
| AES-GCM helper | `src/crypto/` | – | encrypt, decrypt | not modelled: linked, not called |
| BLAKE3 | `deps/blake3/` | – | hash | vendored; a collision-free hash |
| Others | `src/common`, `src/client/code.c`, `server_obf.c`, `obfus.c`, `test.py`, tests, empty files, scripts | – | – | not modelled, see section 8 |

### How they interact

- Client and server exchange fixed-size headers and bodies on a TLS connection.
  A connection carries any number of requests, one after another; the client of
  this repository sends one and ends. Neither side sets a timeout.
- Each connection has a detached handler thread. The threads share, without a
  lock, the storage directory, the collection, the MongoDB client and the key.
- An upload is: header, ready answer, body, BLAKE3 check, encryption with a
  fresh iv, `fopen "wb"`, `fwrite`, `insert_one` of a record, three requests of
  `append_proc_event`, answer. A download is: header, `find`, owner check,
  `stat`, offset check, `fopen`, `fread`, decryption, answer, plaintext,
  `append_proc_event`. Other threads may run between any two of these.
- `append_proc_event` is three requests to MongoDB with nothing that ties them
  together: insert the base document, read the document and compute the next
  key, `$set proc.<key>`.
- `main` of the server leaves the accept loop on a signal and runs
  `cleanup_resources` (SSL context, collection and client, then the key, then the
  log file) while the detached threads still run. Nobody joins them.
- A signal may be delivered to any thread, between any two of its steps.
  `signal_handler` calls `logger`, and `logger` calls `localtime`, which holds a
  lock of the C library.
- `SA_RESTART` makes `accept` go on after a signal: `main` sees `g_shutdown` with
  the next connection.
- The `fclose` of an upload raises `IN_CLOSE_WRITE` in the daemon's watch; the
  kernel does the same for files a dying server had open. The daemon's documents
  lie in the collection in which the server looks for records.
- The daemon reads whatever the kernel has queued, handles event by event, and
  looks at the file at that time, not at the time of the event.

### What is hard here

*Interleaving.* Threads on one file name: `fopen "wb"` of one between `stat` and
`fread` of another; two uploads that write into one file; journal appenders that
read the same maximum. *Failure of one step of several.* A request to MongoDB
that fails, or that is applied although the caller sees a failure; an `fclose` that
cannot flush and that nobody checks; `malloc` after
the ready answer; an insert that fails after the file was replaced. *Crash and
restart.* The key lives in memory only; the file is truncated before the new
version is complete; the daemon loses what it has read. *Stale state.* `errno`
that nobody cleared; `stat` that comes late; the local file that changes between
`stat`, hash and send; a check of `initialized` before a wipe. *Waiting.* Two
ends of a connection that both wait; a client that stops reading; a thread on a closed database; the loop of
the daemon and its signal; a signal handler that waits for the thread it has
interrupted; a process in `accept` that nobody connects to. *Order.* Cleanup
against running threads; check of the PID file against its writing; a header cut
into records. *Limits.* An `int` that carries a `long long`, the kernel queue,
full socket buffers.

`PROJECT.json` lists these hazards one by one, each with its line and the
properties that cover it.

### What makes each component correct

- **Journal**: the keys of a map are 1..n without a gap; events hang on existing
  documents; an event, once written, stays (this one does not hold, section 5).
- **Server**: a download that succeeds delivers, from the offset asked for to its
  end, a content that the owner of the connection's certificate uploaded under this
  name; records have files, whole but for what an unchecked `fclose` loses; success
  means stored; a refusal has a reason; nothing is stored under the wiped key; a
  request of a client that reads its answers ends, whatever other clients do.
- **Process**: whatever fails in the start is undone on the way out; each
  descriptor is closed exactly once; freed things are met by a thread only after a signal;
  a process told to stop stops, with two named exceptions.
- **Loops**: a message arrives byte for byte or not at all; a header arrives in one
  read; no loop waits for ever for a partner that has ended.
- **Client and wire**: what the client reports is true, but for the last block that a
  failing `fclose` loses; a refusal has a reason; both ends end.
- **Daemon**: no change is logged twice; the last change of a file is logged
  by an entry begun after it; batches and signals are dealt with; one daemon at a time (does not hold).
- **Together**: no version that is closed while a daemon watches slips by it, be it the
  first of its name or a later one, and the daemon's documents do not change whom the server serves.


## 2. The modules

| Module | Role |
|---|---|
| `ProcMap` | abstract: what the journal promises |
| `ProcJournal` | `append_proc_event`, request by request, for any set of appenders |
| `FileVault` | abstract: what the server promises a client |
| `ServerLife` | abstract: the life of the server process as `FileServer` has it |
| `FileServer` | handler threads, disk, collection, key, shutdown, crash; instantiates `ProcJournal` for the journal and `FileVault` for the promise |
| `ServerMain` | `main`, signals, `logger`, threads as far as they use what `main` makes; implements `ServerLife` |
| `Channel` | abstract: messages given, messages taken |
| `SocketLoops` | the send and receive loops over TLS records, and their plain twins; implements `Channel` |
| `Transfer` | one connection: client, handler, two streams, a local file that changes |
| `InotifyDaemon` | daemon processes, kernel queue, PID file; instantiates `ProcJournal` |
| `Exchange` | composes `FileServer` and `InotifyDaemon` on one directory and one collection |
| `ProcJournal_proofs`, `FileServer_proofs`, `FileServerStore_proofs`, `ServerMain_proofs`, `SocketLoops_proofs`, `Transfer_proofs`, `InotifyDaemon_proofs`, `Exchange_proofs` | theorems and proofs |
| `MC*` | definitions and model values for TLC |

`ProcJournal` is not copied: `FileServer` and `InotifyDaemon` hold its five
variables and take its actions through `J == INSTANCE ProcJournal WITH ...`, the
server with one process of many threads, the daemon with processes of one thread.
`Exchange` does the same with both: its actions are theirs, joined where the
kernel joins them.

Two pairs of modules meet in an abstract one. `FileServer` has `main` as four
actions (`CloseDatabase`, `WipeKey`, `Exit`, `Restart`) and `ServerMain` has the
handlers as five; `ServerLife` is those four actions by themselves, what the handlers
take for granted, and `ServerMain` is checked and proved to implement it. `Transfer` has streams
that keep messages whole; `Channel` is that promise, and `SocketLoops` is the code
that keeps it.

### ProcJournal

`base` is the set of ids that have a document, `proc` their maps, `at` the place
of each appender in the function, `call` its arguments, `next` the local
`next_key`. An event carries who wrote it, a ghost field that no action reads. What an
event tells (`Kind`) is a parameter: `FileServer` puts the owner and the content of the
file into it (`Happening`), `InotifyDaemon` the number of the change (`Entry`), ghosts as
well, so that an event of one version is not taken for that of another.

| Action | Code |
|---|---|
| `Begin` | call of `append_proc_event` |
| `CreateBaseDocument` | `create_base_document`: insert; duplicate key (11000) is success; a failure gives the event up |
| `GetNextProcKey` | `get_next_proc_key`: the maximum of the keys `strtol` accepts, plus one; cursor errors are logged and otherwise ignored |
| `SetEvent` | `update_one` with `$set proc.<key>` |
| `Stop` | the process of these appenders ends |

`KeysCounted` is where `errno` enters: the code tests it after `strtol` without
having cleared it (`server.c:189`, `main.c:133`), so any other value rejects all
keys. `Errno` is the set of values it may hold. `Outcomes` gives a failing request
three results: applied, not applied, applied but reported as failed.

### FileServer

| State | Code |
|---|---|
| `stage`, `key`, `starts` | life of the process; `g_file_crypto.key`, 0 when wiped; starts, so that each has a key of its own |
| `files`, `disk` | what is in `STORAGE_DIR`, as sequences of blocks |
| `meta` | records of uploads |
| `pc`, `client`, `req`, `ct`, `pos`, `size`, `buf` | per thread: place in the handler, fingerprint, request, ciphertext or record, position in the file, `st_size`, what `fread` has read |
| `reply` | what the client last received |
| `acked` | history: uploads answered with success |
| `overlapped` | history: names whose file was last opened while another thread wrote it |

The actions are the system calls and requests of the handlers, in their order:
`BeginUpload`, `ReceiveFile` or `RejectFile`, `EncryptFile`, `OpenFile`,
`WriteBlock` (per block), `InsertRecord` or `UploadFails`, the journal's steps,
`FinishUpload`; `BeginDownload`, `FindRecord`, `StatFile`, `ReadBlock` (per
block), `DecryptAndSend` or `DownloadFails`, the journal's steps,
`FinishDownload`; `List`; `UnknownCommand`; `CloseDatabase`, `WipeKey`, `Exit`,
`Restart`.

Five details of the code shape the definitions. `WriteBlock` may lose the last block
and go on: `fwrite` leaves the end of the file in the stdio buffer, and the `fclose` that
flushes it is not checked (`server.c:570-571`); record and answer say success. A download
sends what lies behind the offset (`server.c:865-870`), so a reply holds the content and
the place `from` which it was sent. `UploadRecord` has no
recipient and no public field: `server.c:598-604` appends them after the
document was inserted and destroyed. `Documents` adds the base documents of the
journal to the records: they lie in the same collection, have the file's stem as
their `filename`, and no field `deleted`, which is why `Matching` does not find
them. `Listed` is every document: `find` gets the empty `or_query`.

### ServerMain and ServerLife

| State | Code |
|---|---|
| `pc`, `how`, `failed` | place in `main`; how the process ended; has the start failed |
| `held` | `g_ssl_ctx`, `g_mongo_client`, the key, `g_server_sock`: what was made and not freed |
| `logfile` | `g_log_file`: closed, a file, or `stderr` |
| `thread`, `open` | per connection the place of its thread in `handle_client`; how often its descriptor was opened, less how often it was closed |
| `log`, `tz` | per thread and level, whether it is before or inside the `localtime` of `logger`; who holds the lock there |
| `shutdown` | `g_shutdown` |

A level is a call of `logger` in a thread: its own (0), that of a signal handler (1),
and that of the handler of the other signal, which may interrupt the first (2), for
`sa_mask` is empty (`server.c:1138`) and only the signal itself is blocked meanwhile.
Handlers may run in several threads at once. Each takes the lock of `localtime` and
prints in steps of its own; only the innermost call of a thread moves (`Current`), and
`g_shutdown` is set when the logger of a handler has returned (`LoggerReturns`).

The start is one action per `init_*` call and one for socket, bind and listen;
`StartFails` is each of their error paths with what it leaves behind.
`CheckShutdown`, `Accept`, `DropConnection`, `AcceptFails` are the loop,
`LeaveLoop` to `CloseLog` the lines of `cleanup_resources`, in order. `Ends`
takes all threads with it, which is what the return of `main` does. `NewSsl` and
`Serve` have an outcome "undefined" when what they use is freed.

### Transfer

The client's states are the points between its system calls; `SendHeader` picks `header.offset`
of a download from `StackOffset`: the field is never assigned
(`client.c:325-333`). `DownloadAnswered` opens the local file with "wb" and
counts from its old length (`client.c:353,361`). `ToInt` is the conversion of
`filesize` to the `int plaintext_len` of the encryption (`server.c:546`), with
`IntMax` scaled down. `MisreadBlock` is the handler that finds a piece of a body
where it expects a header: a block holds several headers' worth of bytes, so it is
answered up to `MaxAnswers` times, with what an upload, a list or an unknown command
would get; a header that means CMD_UPLOAD takes further blocks for its body (`spc` is
"stray" then). `WriteLocal` is another program.

Of the server's store there is the file (`stored`, and `written`, the run that wrote
it) and the documents of the name (`records`), one for each upload. `ServeDownload`
takes any of them, as `find` does, and `Fits` says whether its tag accepts the file: it
must be of the upload that wrote it last, whole, and the key must not have changed
since (`RestartServer` notes in `since` the runs whose key is gone). `Saves` is the
path from `fopen "wb"` to `insert_one` with its failures, an unnoticed one of `fclose`
included (`Cut`); `EndOfAnswer` has the same failure on the client's side, after the
success message (`client.c:390-392`). `LocalFails` is every other failure of the local
file that ends a command.

### InotifyDaemon

`tree` is what each name is, `queue` the kernel's queue of each watch, `batch`
the buffer of `read`, `pc` the place in `main`, `stop` is `g_shutdown`.
`happened`, `last` and `overflown` are history; `last` and `overflown` are kept per
daemon and begin anew with its watch. `Logged` is the decision of the
handlers: `stat` now for `IN_CLOSE_WRITE` and `IN_MOVED_TO`, always for the
others, never for an event without a name. `Gone` ends a process and its watch.
`Initialize`, `Shutdown` and `Crash` are `init_*`, `cleanup_resources` and a kill.
`Signal` either sets `g_shutdown` or finds the daemon inside its logger, whose lock
the handler wants again: then `pc` is "hung", a process that never moves but whose
watch keeps filling (`Watching`). `Create` is a file that appears and is still open:
the mask has no `IN_CREATE`.

### SocketLoops and Channel

A byte is a message's number and its place in it, so a byte that is lost, repeated
or taken from a neighbour is visible. `wire` is a
sequence of TLS records, or of single bytes for a plain socket. `SslSendPiece` is one
turn of `ssl_send_all`, `SslReceivePiece` one of `ssl_recv_all`; `PlainSendPiece` and
`PlainReceivePiece` are the turns of `send_all` and `recv_all` of `utils.c`, which
`protocol.h` offers and no program calls: the loops in use have no EINTR branch and need
none over TLS. `ReadHeader` is the bare `SSL_read` at `server.c:941`, which takes what
one record gives. `ImplementsChannel` maps a
message to "given" with its first piece and to "taken" when the loop returns it.

### Exchange

`S` and `D` are the two programs on shared variables; the daemon's `tree` is not a
variable but derived from the server's `files`. `Open` is `fopen "wb"` with the
`Create` of a new file, `Write` with the last block is `fclose` with the daemon's
`CloseWrite`, `ServerExit` leaves the files that were open to `KernelClose`. The
journal's variables are shared too: the server writes under its relative path, the
daemon under its absolute one, so a file has one document of each and `Path` tells
them apart.


## 3. The runs

| Run | Instance | Result |
|---|---|---|
| `journal_races` | two handlers and the daemon, one file, dirty errno, failing requests, processes that end | `TypeOK`, `KeysContiguous`, `EventsHaveBase`, `ImplementsProcMap`, `NeverOverwritesOwn` hold |
| `server_crash` | one thread, two clients, three names (one unsafe, one with an extension whose stem is another), failures, crash, restart | `TypeOK`, `RecordHasFile`, `AckMeansStored`, `JournalBackedByRecord`, `DenialIsJustified`, `RecordedFileIsWhole` hold |
| `server_race` | two threads, two clients, one name, files of two blocks, downloads from the second block, shutdown, fairness of one thread | `ZeroKeyNeverRecorded`, `ServedOwnUpload`, `RecordedFileIsWhole`, `ImplementsVault`, `RequestsFinish` hold |
| `server_main` | two connections at a time, three in all, two signals, every failure, fairness | `TypeOK`, `ReturnsClean`, `UndefinedOnlyAfterSignal`, `DescriptorsOwned`, `ShutdownCompletes`, `LoggersProceed`, `ImplementsLife` hold |
| `transfer_wire` | three runs of the client, contents of no, two and three blocks, one write by another program, restarts of the server, failures, fairness | `TypeOK`, `UploadedIsWhole`, `FreshDownloadIsWhole`, `RefusedForAReason`, `TransferEnds` hold |
| `socket_frames` | five messages, records of two bytes, buffers of four, TLS and plain, resets and kills, fairness | `TypeOK`, `HeaderInOneRead`, `LoopsEnd`, `ImplementsChannel` hold |
| `daemon_loop` | one daemon, started twice, two names, queue of two, dirty errno, kills, fairness | `TypeOK`, `NothingLoggedTwice`, `LastChangeLogged`, `BatchFinishes`, `SignalEndsDaemon` hold |
| `exchange_watch` | one handler thread and one daemon, two names, queue of one, server restarted once, fairness of the daemon | `UploadNoticed`, `DenialIsJustified`, `UploadLogged` hold |
| `journal_lost` | two handlers, no failures | `EventAddsIndex` is violated |
| `server_reupload` | one thread, no failures | `AckedUploadDecrypts` is violated |
| `transfer_resume` | three runs of the client, no failures | `DownloadedIsWhole` is violated |
| `daemon_pidfile` | two daemons, no failures | `OneDaemon` is violated |

Run one with `tlc -config MCFileServer_race.cfg MCFileServer`: the configuration
of a run is named after its module and the second half of its name.

What the passing runs show, beyond the names:

- **`server_race`** is the central one. `find`, `stat`, `fread` and decryption are
  separate steps, two threads truncate and refill one file block by block, and
  the bytes read may be short, torn, mixed from two ciphertexts, or whole but of
  another version than the record. None of this is ever served, because the tag
  in the record fits one ciphertext only. It also shows why a thread that is still
  encrypting when `cleanup_resources` wipes the key does no harm: the database is
  closed first, so nothing encrypted under the zero key gets a record. Swapping
  the two in the model breaks `ZeroKeyNeverRecorded`. One of the two threads is not
  fair: its client may stop reading, and it then stands for ever at some point of its
  work, a file half written or a journal event half appended; the requests of the other
  thread end nevertheless.
- **`server_crash`** relates disk, collection, journal, acknowledgements and refusals
  across every failure, crash and restart. A file that begins like a recorded version
  is that version; only its last block may be missing, when `fclose` has failed unseen.
- **`server_main`** shows that `cleanup_resources` fits every way into it, that the
  freed SSL context, the destroyed MongoDB client and the closed log can only meet
  a thread that outlives a signal, and names the two ways a server told to stop
  does not: `accept` with nobody connecting, and a signal to the thread that holds
  the lock of `localtime`, in a handler or outside, after which no thread gets past
  `logger` again.
- **`socket_frames`** shows why the bare `SSL_read` of a header is enough: a header
  is sent by one call and fits one record, and the loops before it stop exactly at
  the end of their message. A header sent in two calls breaks it.
- **`exchange_watch`** follows an upload from one process through the kernel into
  the other's journal. The daemon may be behind, merge events or stat a file that
  the next upload has already truncated: it is a regular file still, and so it is
  logged. A crash of the server in the middle of a write closes the file and is
  logged like an upload. Both properties ask for an entry begun after the version was
  closed: a second version is not covered by the entry of the first, and one that comes
  while the first is being appended is queued and gets an entry of its own.
- **`transfer_wire`** shows that a client that prints success for an upload is
  right although it looks at the local file three times, because the hash that
  the server checks is of the second look; that the one thing a reported success may
  lack, on either side, is the block a failing `fclose` lost; that a download is refused
  for no other reason than a missing or empty file, a bad offset or a record that does
  not fit, which a second upload or a restart of the server brings about; and that the two ends wait for each
  other for ever in two named situations and no third.
- **`daemon_loop`** shows what late `stat`, merged events and restarts can and
  cannot do to the journal: a change may go unlogged, but then a later change of
  that file is logged, by an entry begun after it, unless the queue overflowed.

Deadlock checking is off in all runs: every bound on requests, starts, runs or
changes is a place where the model stops on purpose, and all three programs
really may be idle for ever. Blocking that is not meant is covered by
`RequestsFinish`, `ShutdownCompletes`, `LoggersProceed`, `TransferEnds`, `LoopsEnd`,
`BatchFinishes`, `SignalEndsDaemon` and `UploadLogged`.

### Bounds

| Bound | Value | Why it is enough |
|---|---|---|
| `MaxKeys` | 2 or 3 events before the last calls | overwriting and numbering need a first event, a race for the second, and a third that comes after; three appenders already in the function may still go beyond it |
| `MaxRequests` | 2 or 3 | upload, upload, download is the shortest history with a stale record; two writers and a reader is the smallest race on a file |
| `MaxStarts` | 1 or 2 | the second start is the first with another key (`server_crash`, `exchange_watch`), and the first daemon start after a crash; in `server_race` the shutdown of the first is what matters |
| `Blocks` | 1 or 2 | two blocks make torn and mixed files |
| `MaxRuns`, `MaxWrites` | 3; 0 or 1 | upload, upload, download is the shortest way to a record that does not fit, and upload, download, download onto what is there; one write moves the local file between any two looks |
| `MaxAnswers` | 1 | one block read as headers already shifts every later answer by one; blocks are misread one after another |
| `Offset` | {1} in `server_race`, {0, 3} in `server_crash` | a place inside of a file of two blocks, which may be shorter when `stat` looks; its beginning, and a place behind any end |
| `IntMax` | 2 | a file of three blocks is counted as a negative number and fails; that a much longer one wraps to a small positive count is in `ToInt` and the proofs, in no run |
| `MaxChanges`, `QueueMax` | 3, 2 | the third change overflows the queue of two, or comes after a restart |
| `MaxAccepts`, `MaxSignals` | 3, 2 | a slot is used again while the other thread lives; the second signal can hit the logger after the first has set `g_shutdown`, the handler of the first, or another thread |
| `RecordMax`, `Capacity` | 2, 4 | a body of three leaves half a record before the next header; a body of four fills the buffers |
| `MaxWatches` | 1 | in `exchange_watch`; restarts of the daemon are in `daemon_loop`. Two requests write one file twice, or two; with three, or two threads, the run exceeds some minutes |

In `server_crash` there is one thread: with two, the interesting interleavings
are those of `server_race`, and failures multiply the states without adding to
what these properties relate. Sessions and clients are symmetric there and in no
run with a temporal property. `daemon_loop` runs one daemon at a time, because
with two, which `daemon_pidfile` shows to be possible, every change is logged by
both.

### Fairness

- `FileServer`: weak fairness of the own work (`Served`) of the threads in `Prompt`,
  those whose clients read what they are sent: the kernel schedules threads, and the
  driver answers or times out. `ssl_send_all` has no timeout, so a thread whose client
  stops reading is stuck; threads outside of `Prompt` may stand anywhere for ever, and
  nothing is asked of them. Not fair either: connecting, sending a header, sending a
  body, which the client may never do; hence `RequestsFinish` begins after the body. A
  signal inside `localtime` that stops all threads at `logger` is the subject of
  `ServerMain` and is left out here. `WipeKey`, and `Exit` once the shutdown
  has begun: `main` runs `cleanup_resources` and returns.
- `Transfer`: weak fairness of the client's steps and of the handler's: two
  processes that are scheduled and a connection that carries what is sent. Not
  fair: `Run`, `WriteLocal`, `Break`, `RestartServer`; and of the choices inside a fair
  step, failing or not, none is promised.
- `InotifyDaemon`: weak fairness of `DaemonStep`, and of `Shutdown` after a signal:
  reads do not block, so the loop comes back to `g_shutdown`. Not fair: changes,
  signals, starts, failures.


## 4. What is proved

`tlapm M.tla` for each of the eight `_proofs` modules checks all proofs. They hold
for all values of the constants that satisfy the named assumptions: any number of
threads, connections, clients, daemons, names, contents, blocks, messages, record
sizes, restarts, signals and requests, with failures and any `errno`. Two theorems
state what holds in a part of this range only; the third column says which part, and
why it does not hold beyond. Where the statement itself has an exception, the column
names it.

Every invariant that a run finds to hold is proved, and so are the refinements and
the one action property; liveness is model-checked.

| Theorem | Statement | For |
|---|---|---|
| `TypeCorrect` | the journal's `TypeOK` | |
| `Contiguous` | `KeysContiguous` | |
| `BaseFirst` | `EventsHaveBase` | |
| `Refinement` | `ProcJournal` implements `ProcMap` | |
| `OwnEventsStay` | `NeverOverwritesOwn` of `ProcJournal` | key 1 is excepted unless errno is clean and nothing fails: a dirty errno makes the next key 1, a cursor error too |
| `ServerTypeCorrect` | the server's `TypeOK`, its journal included | |
| `OnlyOwnUploadsServed` | `ServedOwnUpload` | |
| `RecordsHaveFiles` | `RecordHasFile` | |
| `AcksAreStored` | `AckMeansStored` | |
| `NothingUnderZeroKey` | `ZeroKeyNeverRecorded` | |
| `JournalIsBacked` | `JournalBackedByRecord` | |
| `DenialsAreJustified` | `DenialIsJustified` | |
| `ServerIsVault` | `FileServer` implements `FileVault` | |
| `ServerJournal` | the journal of `FileServer` implements `ProcMap` | |
| `ThreadsKeepOwnEvents` | `NeverOverwritesOwn` of `FileServer` | key 1 as above |
| `RecordedFilesAreWhole` | `RecordedFileIsWhole` | files opened while another thread wrote them are excepted: two uploads of one name mix their blocks; the last block, which an `fclose` may lose, too |
| `MainTypeCorrect` | the `TypeOK` of `ServerMain` | |
| `MainReturnsClean` | `ReturnsClean` | |
| `DescriptorsHaveOwners` | `DescriptorsOwned` | |
| `UndefinedNeedsSignal` | `UndefinedOnlyAfterSignal` | |
| `MainKeepsLife` | `ServerMain` implements `ServerLife` | |
| `LoopTypes` | the `TypeOK` of `SocketLoops` | |
| `HeaderWhole` | `HeaderInOneRead` | |
| `LoopsMakeAChannel` | `SocketLoops` implements `Channel` | |
| `TransferTypes` | the `TypeOK` of `Transfer` | |
| `UploadWhole` | `UploadedIsWhole` | sizes an `int` can count; the last block is excepted when `fclose` failed |
| `DownloadWhole` | `FreshDownloadIsWhole` | the last block is excepted when `fclose` failed |
| `RefusalJustified` | `RefusedForAReason` | |
| `DaemonTypes` | the `TypeOK` of `InotifyDaemon` | |
| `NoEventTwice` | `NothingLoggedTwice` | one daemon: two log every change twice |
| `LastIsLogged` | `LastChangeLogged` | one daemon, whose database answers: an event given up is not tried again |
| `NoUploadSlipsBy` | `UploadNoticed` of `Exchange` | |
| `DaemonsDenyNothing` | `DenialIsJustified` of `Exchange` | |

**Journal.** The inductive invariant is `IInv == TypeOK /\ IsSequence /\
EventsHaveBase /\ NextKeyInRange`. `KeysContiguous` alone is not inductive: a
thread that stands before its `$set` holds a `next` it read some time ago.
`NextKeyInRange` says that this `next` is at most one beyond the present
maximum, which stays true because maps only grow. `IsSequence` says that each
domain is 1..n for some n, a form that the step lemmas can use without taking a
maximum. The arithmetic of `MaxKey` is a lemma of its own about finite sets of
numbers. `Refinement` maps each step: `CreateBaseDocument` to `Create` or a
stutter, `SetEvent` to `Put` or a stutter, the rest to stutters. `OwnEventsStay` adds
`OwnBehind`: the key an appender holds is beyond every event it wrote into that map,
or it is the 1 that a spoiled read returns, whatever spoiled it.
Others may have written beyond it meanwhile, so the key is not beyond the maximum,
and an event of theirs may go; but nobody writes in an appender's name while it
stands before its `$set`.

**Server.** The inductive invariant is `Inv == Typed /\ JournalInv /\ FoundOwn /\
ServedOwnUpload /\ ReadInside`. `ServedOwnUpload` is about answers; it is not inductive because
an answer is decided several steps earlier, when `find` returned a record and
the owner was compared. `FoundOwn` carries this over `stat` and `fread`: a thread
that stands there holds the ciphertext of a record that is in the collection,
under the requested name and of its own client. It survives because records are
never removed, whatever other threads do to the file. `ReadInside` says that the offset
of a thread that reads lies within the size `stat` returned: the check is made once, and
what is read later is as long as that or fails. `Typed` strengthens
`TypeOK` with what the locals hold at each place. `JournalInv` is `IInv` of the
journal under the server's substitution; lemmas `JournalBegin`, `JournalStepInv`
and `JournalStop` carry the journal's step lemmas over, so that the journal is
proved once. There is one lemma per action.

**Server, storage.** `FileServerStore_proofs` adds four groups of conjuncts to `Inv`;
`FullInv` is all of them.

- `StoreInv`: a thread that writes has its file in the directory (`WriterHasFile`),
  the ciphertext it holds is of the content it received (`KeepsContent`), and one
  that journals an upload has its record in (`EventHasRecord`). Files and records
  only grow, so other threads cannot take these facts away; `RecordHasFile` and
  `AckMeansStored` need them.
- `KeyInv`: when the process is down no thread is inside a handler (`DownIsQuiet`),
  and as long as the database is open, a ciphertext is not of the zero key
  (`SealedWhileUp`). An insert needs the database, hence `ZeroKeyNeverRecorded`;
  this is where the order of `cleanup_resources` enters.
- `BackedInv`: a call of `append_proc_event` has a record of its name, owner and
  content (`CallHasRecord`), from which each step of the journal keeps
  `JournalBackedByRecord`.
- `AnswerInv`: a thread at work has not answered yet (`QuietWhileBusy`), so what
  `reply` says was decided when it was set; `DenialIsJustified` follows because a
  download is only denied for a record that `find` returned, and base documents
  are never returned.

`ServerIsVault` maps each step: an insert is the vault's store, `DecryptAndSend` its
delivery, from a place inside (by `FoundOwn`, `ReadInside` and the ideal cipher), the rest
are answers or stutters.
`ServerJournal` and `ThreadsKeepOwnEvents` need nothing new: `JournalMoves` says that
each step of the server is one of its journal or none of it, and the journal's lemmas
do the rest.

`RecordedFilesAreWhole` rests on `WholeInv`, which speaks of files that are not
`overlapped`. `Pieces`: such a file is the first blocks of one ciphertext, and if it is
not all of them, that ciphertext has no record and only a thread that still writes this
file may get one (`Unfinished`), or only the last block is missing (`TailLost`).
`WriterAt`: such a file has one writer at most, and holds what that one has written so
far, for `fopen "wb"` began with nothing. `Fresh`: what is about to be written is of a new
iv, so no record and no other thread is of it; this is what makes a torn file, left by a
failed `fwrite` or a crash, harmless for ever: its first block tells that it is of no
record.

**Server, process.** `IInv` of `ServerMain_proofs` is `TypeOK`, the three safety
properties and four conjuncts they rest on. `Undone`: what is freed at each place of
`cleanup_resources`, whichever way it was reached; at "return" nothing is left,
which is `ReturnsClean`. `Built`: what exists at each place while nothing has
failed. `ThreadsOfLoop`: there are no threads in the start or after a failed one,
and `main` cleans up after a start that succeeded only because of the signal.
`LogOpen`: the log is closed at the very beginning and the very end only, `main` logs in
neither, and no call of a signal handler is inside the log of `main` when it is closed. A thread that meets something freed is, by `Built` and
`ThreadsOfLoop`, beside a `main` that cleans up after a signal
(`FreedAfterSignal`). `MainKeepsLife` needs `Built` as well: `Listen` comes up with a
database and a key, and the cleanup gives up first one, then the other.

**Loops.** `Inv` of `SocketLoops_proofs` says where each byte is. `IsPiece`: a record
is a piece of one message, within what its sender has handed over, and under TLS a
header is one record. `Chain`: the records continue one another, the first where the
receiver stands, behind the last where the sender stands; nothing is lost or twice
because the next byte is always the next. `HeaderInOneRead` follows: when the
receiver stands at the beginning of a header, the first record begins there and is
all of it. `LoopsMakeAChannel` maps the first piece of a message to "given", the
return of the receiving loop to "taken", any other turn to a stutter. That the
messages taken are given, and in order, needs `Chain` for all records at once: it is
an induction along the wire, done with the least counterexample (`LeastElement`).

**Client and wire.** `Shape` types the streams by what is under way: the header is
alone on its stream (`HeaderWaits`), after it come blocks of an upload only, and the
other stream holds responses to an upload, one response and then blocks for the rest
(`ToServer`, `ToClient`). On it rest three groups of facts, one per property.
`UploadRuns`: an upload gets two responses, and the second, where it says
RESP_SUCCESS, is sent when there is a record of the hash's content, the remote name holds
it (but for a block that `fclose` lost) and no body is under way (`Settled`), which no
later message undoes, nor any answer to a misread block. The first formulation of it
was not inductive: the client could have taken the first response for the second. It
needs to say that a handler in "body" has exactly one response under way until the
client has taken it. `DownloadRuns`: what the client has received and what is under
way are together the stored file, block by block, and there is a record of it
(`Described`). `RefusalRuns`: with no fault the
connection stays up, and a response that refuses has its `Reason` in what is stored and recorded.

**Daemon.** Types include the journal's `IInv`, carried over as in the server.
`NothingLoggedTwice` needs an account (`Accounted`): entries in the journal, the one
that is being appended, and the events read and queued that would be logged as this
kind of change of this name are together at most the changes that happened. Each
step moves an event from one column to the next or drops it; an event that overwrites
another makes the sum smaller. `LastChangeLogged` needs `NothingLost`: the last change
of a name is the last event of that name in what is read and queued; or there is none
of that name left and the entry that is being appended was begun after it (its `nth` is
the number of the change, `LastEntry`); or that entry is in the journal and nothing of
that name is under way that could overwrite it. `LastStands` (a name last written or
moved here is there) is why the `stat` of the last event cannot skip it.

**Together.** `Exchange_proofs` has two groups, `ServerInv` and `WatchInv`, about the
variables of one program each; every step of `Exchange` is taken apart into what it
does to both. `WatchInv` holds `UploadNoticed` and what it rests on. All events are of
files in the directory (`Event`, `FilesStored`), and files are never removed, so the
`stat` of the daemon cannot skip an upload (`HandledIsLogged`); with a document there
before the key is computed (`CallHasBase`), and no failure, what is in
`append_proc_event` gets into the journal (`EventGoesOn`), and an entry
of a version stays until one of a later version takes its place (`OnItsWay`). The steps of threads leave the daemons
where they stand in the journal (`Untouched`) because the two write it as different
appenders. `DaemonsDenyNothing` needs that a document of a daemon has no field
`deleted` (`FoundAreRecords`).

The assumptions are those of the modules: names are not empty, `Stem` maps names
to names, block counts are numbers, the marker `Absent` is none of the values it
stands beside, bounds are numbers, the journal's threads belong to processes,
`main` is no connection and `Nobody` no thread, messages have at least one byte and a
header fits a record, a queue holds at least one event, and the event of an overflow
carries no name (`WatchAssumption`, `PathAssumption`).

**Only model-checked.** Liveness (`RequestsFinish`, `ShutdownCompletes`,
`LoggersProceed`, `TransferEnds`, `LoopsEnd`, `BatchFinishes`, `SignalEndsDaemon`,
`UploadLogged`): fairness and ENABLED are out of the prover's reach. The four
properties of section 5, which do not hold. The induction theorems of the library are
out of reach as well, for they take an operator as a parameter; where a proof needs
an induction over positions it takes the least counterexample instead.


## 5. What the code does not keep

Four runs check what the repository says of itself and find a counterexample.

1. **An event gets an index of its own** (`journal_lost`). `archetype.txt:6`: a
   new event adds the next index. Two threads read the same maximum; the later
   `$set` overwrites the event of the earlier. What remains true is `ProcMap`.
2. **An uploaded file can be downloaded** (`server_reupload`). After a second upload
   under one name `find` returns the first record, whose iv and tag belong to
   bytes that are gone.
3. **"Download completed successfully!"** (`transfer_resume`). Onto a local file that
   is not empty, the client keeps a part of the file, or nothing.
4. **The check whether the daemon is running** (`daemon_pidfile`, comment at
   `main.c:432`). Two daemons started together both pass it.

Two more are visible in a definition and have no run of their own. `Listed` is every
document: the comment at `server.c:638-641` speaks of own, received and public
files, but `find` gets the empty `or_query`. `KeysCounted` rejects every key when
`errno` is dirty: in the daemon the non-blocking read leaves EAGAIN there before
`main.c:133` tests it, so each event may overwrite number 1.


## 6. Abstractions

- AES-GCM is an ideal cipher: a tag fits the blocks it was computed for, all of
  them, in order, under one key. Random ivs and keys do not repeat. BLAKE3 has no
  collisions. `RAND_bytes` returns 1 or 0: the -1 that the test at `server.c:1060` would
  take for success is what OpenSSL returns when a replaced RAND method lacks the
  function, and no program here replaces it.
- A request to MongoDB takes effect at one point. That all threads share one
  `mongoc_client_t`, which the driver documents as not thread-safe, is outside of
  the model.
- Undefined behaviour that ends the process (use of the document after
  `bson_destroy`, of the MongoDB client after cleanup, the list buffer that is one
  byte short) is part of `Exit`, which is possible at any time.
- Files are sequences of blocks, read and written one at a time; a hole left by
  two writers is a block of zeros. What stdio buffers until `fclose` is the last block.
  Sizes, offsets and places in a file count blocks. In `Transfer` as well.
- In `Transfer` socket buffers are unbounded; a connection that breaks loses a suffix
  of each stream. In `SocketLoops` they are bounded, `SSL_write` puts its records
  into them one by one, and a message has at least one byte (an empty body is no
  turn of any loop).
- The lock in `localtime` is the C library's, modelled from how `logger` uses it; its
  waiters are served fairly. `exit` handlers and the order in which the kernel
  closes descriptors at the end of a process are one step (`Ends`).
- In `ServerMain` a thread serves with "logs a line" or "uses the database"; what it
  does there is `FileServer`. Certificates, addresses and options are left out.
- In `Exchange` only the server changes the directory, MongoDB does not fail (its
  failures are in `journal_races` and `server_crash`), and the server's directory is
  the one the daemon watches.
- `Transfer` has one connection at a time and one remote name; the server behind it
  holds one plaintext and the records of its uploads. What many threads do to it is
  `FileServer`. A file cut by a failed `fwrite` or `fclose` is its first blocks. A
  misread block never carries a hash that fits a body, so it stores nothing. The local file
  always exists, possibly empty: a download creates it.
- `InotifyDaemon`: a `read` takes any first part of the queue; the PID file is
  written in one step;
  a PID is not reused by another program; `daemon()`, `init_logging` and
  `write_pid_file` are one step, after the step that checks the PID file.
- Logging, progress output, certificate set-up, string formats and timestamps
  are left out.


## 7. Mutants

Every property of a passing run has a mutant: an operator beside the definition it
replaces, marked "Mutant of", with a fault of the kind this code could have. The
run then finds the property violated. `MaxKeySkipping` (a key left out),
`InsertRecordUnchecked` (a result not looked at), `MatchingAnyDocument` (a filter left
out), `OpenFileInPlace` ("r+b" for "wb"), `WipeKeyEarly` (two lines of cleanup
swapped), `EndThreadClosesAgain` (a descriptor closed twice), `CreateBaseDocumentOnce`
(only the first event of a file gets through), `InsertRecordShort` (a count not compared), `SendHeaderInFields`
(one call per field), `ReadEventsInPairs` (a read that waits for a full buffer),
`SkipEventStuck` (`continue` without moving `ptr`) are examples.


## 8. Not modelled

- `src/db/`: no program calls the helpers, so nothing they do is part of a behaviour
  of the system. (`mongo_update_or_insert` is announced as an upsert at
  `mongo_ops_server.c:71` and does not ask for one.)
- `mkdir_p` of `src/utils/utils.c`: never called.
- `src/crypto/`: not called; the server has its own encryption functions.
- `src/common/hash_utils.c`, `src/client/code.c`: do not compile.
- `server_obf.c`, `obfus.c`, `test.py`: tooling and its output.
- Tests: of helpers that the programs do not contain.
- Empty files; build and certificate scripts.
- Data races inside the MongoDB driver (`server.c:1028`) and the write past the list
  buffer (`server.c:692`): they have no outcome to model; the crash they may cause is
  in `Exit`.
- Two connections at once in `Transfer`: what they share is the file, and that is
  `FileServer`; on the wire they are independent.
- TLS itself; argument parsing.


## 9. Plan

Done: `ProcMap` and `ProcJournal`; `FileVault` and `FileServer`; `ServerLife` and
`ServerMain`; `Channel` and `SocketLoops`; `Transfer`; `InotifyDaemon`; `Exchange`;
their runs; the proofs of section 4.

Next, proofs:

1. *The server beside the daemon.* That `FileServer` within `Exchange` still implements
   `FileVault`: its invariants do not depend on who else writes the
   journal, but `Inv` of `FileServer_proofs` holds the journal's types in one piece with
   the threads', and these name the appenders. Parting the two lets `Exchange` use the
   server's lemmas as they are.
2. *The daemon's journal.* That it implements `ProcMap`, alone and beside the server.
3. *Deadlock-freedom of `Transfer` and `SocketLoops` as far as it is an invariant*: when
   neither end can move, one of the two situations that `TransferEnds` names.
