----------------------------- MODULE FileServer -----------------------------
(***************************************************************************)
(* The TLS file server of src/server/server.c: handler threads that serve  *)
(* UPLOAD, DOWNLOAD and LIST on one storage directory and one metadata     *)
(* collection, with no lock between them; the journal events they append   *)
(* (ProcJournal); the encryption key of the process; shutdown while the    *)
(* detached threads still run; crashes and restarts.                       *)
(*                                                                         *)
(* A ciphertext is the record of what AES-GCM was given, [key, iv,         *)
(* content]; on disk it is a sequence of blocks that are written and read  *)
(* one at a time.  The authentication tag of a ciphertext is the           *)
(* ciphertext: it fits these blocks, all of them, under this key, and      *)
(* nothing else (an ideal cipher), and a random iv is never drawn twice.   *)
(***************************************************************************)
EXTENDS Integers, Sequences, FiniteSetsExt

CONSTANTS
    Session,      \* handler threads, each with its connection
    Prompt,       \* the sessions whose clients read what they are sent
    Client,       \* fingerprints of client certificates
    Filename,     \* names in requests
    Unsafe,       \* the names that hold ".." or "/"
    Stem,         \* get_filename_without_extension of each name
    Content,      \* plaintexts
    Blocks,       \* how many blocks each plaintext takes
    Recipient,    \* recipient fields that upload requests carry
    Offset,       \* offsets (in blocks) that download requests carry
    Malformed,    \* a recipient field that is not a fingerprint
    Absent,       \* an empty recipient; a field a document does not have
    Errno,        \* values errno may hold when strtol returns
    Faults,       \* may requests to MongoDB, files, malloc, sends fail?
    MaxRequests,  \* bound on the requests received
    MaxStarts     \* bound on the starts of the server

ASSUME NamesAssumption ==
    /\ Prompt \subseteq Session
    /\ Filename # {}
    /\ Unsafe \subseteq Filename
    /\ Stem \in [Filename -> Filename]
ASSUME ContentAssumption == Blocks \in [Content -> Nat] /\ Content # {} /\ Client # {}
ASSUME OffsetAssumption == Offset \subseteq Int
ASSUME AbsentAssumption ==
    /\ Absent \notin Client \cup {Malformed}
    /\ Absent \notin Content /\ Absent \notin Filename /\ Absent \notin BOOLEAN
    /\ Malformed \notin Client
    /\ Recipient \subseteq Client \cup {Absent, Malformed}
ASSUME BoundsAssumption ==
    MaxRequests \in Nat /\ MaxStarts \in Nat /\ Errno \subseteq Nat /\ Faults \in BOOLEAN

\* Response codes of protocol.h.  Two names share 3 and two share 4.
RESP_SUCCESS == 0
RESP_FILE_NOT_FOUND == 2
RESP_PERMISSION_DENIED == 3
RESP_INTEGRITY_ERROR == 3
RESP_ERROR == 4
RESP_INVALID_OFFSET == 5
RESP_UNKNOWN_COMMAND == 4

Ciphertext == [key : Nat, iv : Nat, content : Content]
Hole == [ct |-> Absent, i |-> 0]        \* zero bytes of a sparse file
Block == [ct : Ciphertext, i : Nat] \cup {Hole}

\* A record of an upload.
Record == [name : Filename, owner : Client, deleted : {FALSE}, public : {Absent},
           recipient : {Absent}, ct : Ciphertext]

\* A document of the collection, upload record or base document.
Document == [name : Filename, owner : Client \cup {Absent},
             deleted : {FALSE, Absent}, public : {Absent},
             recipient : {Absent}, ct : Ciphertext \cup {Absent}]

NoRequest == [name |-> CHOOSE n \in Filename : TRUE, content |-> Absent,
              intact |-> TRUE, offset |-> 0]
Request == [name : Filename, content : Content \cup {Absent}, intact : BOOLEAN,
            offset : Offset \cup {0}]

\* What the client receives; a file is sent from block number from on.
NoReply == [to |-> "nothing", status |-> RESP_SUCCESS, name |-> Absent,
            content |-> Absent, from |-> 0, listed |-> {}]
Reply == [to : {"nothing", "upload", "download", "list", "unknown"},
          status : {RESP_SUCCESS, RESP_FILE_NOT_FOUND, RESP_PERMISSION_DENIED,
                    RESP_ERROR, RESP_INVALID_OFFSET},
          name : Filename \cup {Absent}, content : Content \cup {Absent}, from : Nat,
          listed : SUBSET Document]

VARIABLES
    stage,     \* "up", then cleanup_resources: "db_closed", "key_wiped"; "down"
    key,       \* g_file_crypto.key, 0 when wiped (initialized = 0)
    starts,    \* how often the server was started
    files,     \* names that exist under STORAGE_DIR
    disk,      \* the blocks of each file
    meta,      \* the upload records of the collection
    ivs,       \* ivs drawn so far
    requests,  \* requests received so far
    pc,        \* where each handler thread stands
    client,    \* the fingerprint its connection was opened with
    req,       \* the request it serves
    ct,        \* the ciphertext it stores, or the record it found says
    pos,       \* blocks written or read so far
    size,      \* st_size as stat returned it
    buf,       \* the blocks read
    reply,     \* the last response the client of the connection received
    acked,     \* history: uploads answered with RESP_SUCCESS
    overlapped,\* history: names last opened while another thread wrote the file
    base, proc, at, call, next   \* the journal

journal == <<base, proc, at, call, next>>
process == <<stage, key, starts>>
local == <<req, ct, pos, size, buf>>
vars == <<stage, key, starts, files, disk, meta, ivs, requests, pc, client,
          req, ct, pos, size, buf, reply, acked, overlapped, base, proc, at, call, next>>

\* An event of the journal; owner and content, whose file it was, are a ghost.
Happening == [type : {"upload", "download"}, owner : Client, content : Content]

J == INSTANCE ProcJournal WITH
        Appender <- Session, Process <- {Session}, FileId <- Filename,
        Kind <- Happening, MaxKeys <- MaxRequests

-----------------------------------------------------------------------------
(* Replies, sessions and the collection *)

\* ssl_send_all(s, r): what the client receives; a failing send is ignored
\* by the handlers (except for the first answer to an upload).
Send(s, r) ==
    \E delivered \in {TRUE, ~Faults} :
        reply' = [reply EXCEPT ![s] = IF delivered THEN r ELSE NoReply]

Status(to, n, status) ==
    [NoReply EXCEPT !.to = to, !.name = n, !.status = status]

\* The handler returns to the loop of handle_client.
EndRequest(s) ==
    /\ pc' = [pc EXCEPT ![s] = "idle"]
    /\ req' = [req EXCEPT ![s] = NoRequest]
    /\ ct' = [ct EXCEPT ![s] = Absent]
    /\ pos' = [pos EXCEPT ![s] = 0]
    /\ size' = [size EXCEPT ![s] = 0]
    /\ buf' = [buf EXCEPT ![s] = <<>>]

\* Mutant of UploadRecord: the owner is appended too late as well.
UploadRecordWithoutOwner(s) ==
    [name |-> req[s].name, owner |-> Absent, deleted |-> FALSE,
     public |-> Absent, recipient |-> Absent, ct |-> ct[s]]

\* The record handle_upload_request inserts: recipient, public and uploaded_at
\* are appended after insert and bson_destroy and never reach the collection.
UploadRecord(s) ==
    [name |-> req[s].name, owner |-> client[s], deleted |-> FALSE,
     public |-> Absent, recipient |-> Absent, ct |-> ct[s]]

\* The base document of create_base_document, as find sees it.
BaseDocument(f) ==
    [name |-> Stem[f], owner |-> Absent, deleted |-> Absent,
     public |-> Absent, recipient |-> Absent, ct |-> Absent]

Documents == meta \cup {BaseDocument(f) : f \in base}

-----------------------------------------------------------------------------
(* Connections *)

\* accept, TLS handshake, fingerprint of the client certificate.
Connect(s) ==
    /\ stage = "up"
    /\ pc[s] = "closed"
    /\ \E c \in Client : client' = [client EXCEPT ![s] = c]
    /\ pc' = [pc EXCEPT ![s] = "idle"]
    /\ reply' = [reply EXCEPT ![s] = NoReply]
    /\ UNCHANGED <<process, files, disk, meta, ivs, requests, local, acked, overlapped,
                   journal>>

\* SSL_read fails: the client has closed or is gone.
Disconnect(s) ==
    /\ pc[s] = "idle"
    /\ pc' = [pc EXCEPT ![s] = "closed"]
    /\ client' = [client EXCEPT ![s] = Absent]
    /\ reply' = [reply EXCEPT ![s] = NoReply]
    /\ UNCHANGED <<process, files, disk, meta, ivs, requests, local, acked, overlapped,
                   journal>>

\* A request header arrives.
Receive(s) ==
    /\ stage # "down"
    /\ pc[s] = "idle"
    /\ requests < MaxRequests
    /\ requests' = requests + 1
    /\ UNCHANGED <<process, files, disk, meta, ivs, client, acked, overlapped,
                   journal>>

Refuse(s, to, n, status) ==
    /\ Send(s, Status(to, n, status))
    /\ UNCHANGED <<pc, local>>

-----------------------------------------------------------------------------
(* UPLOAD: handle_upload_request *)

\* The checks before anything is received; the ready answer; malloc.
BeginUpload(s) ==
    /\ Receive(s)
    /\ \E n \in Filename, x \in Content, to \in Recipient, intact \in BOOLEAN :
          \/ key = 0 /\ Refuse(s, "upload", n, RESP_ERROR)
          \/ /\ key # 0
             /\ n \in Unsafe \/ to = Malformed
             /\ Refuse(s, "upload", n, RESP_PERMISSION_DENIED)
          \/ /\ key # 0
             /\ n \notin Unsafe
             /\ to # Malformed
             /\ reply' = [reply EXCEPT ![s] = NoReply]
             /\ pc' = [pc EXCEPT ![s] = "receive"]
             /\ req' = [req EXCEPT ![s] = [name |-> n, content |-> x,
                                             intact |-> intact, offset |-> 0]]
             /\ UNCHANGED <<ct, pos, size, buf>>
          \/ /\ Faults           \* the ready answer cannot be sent, or malloc fails
             /\ key # 0
             /\ n \notin Unsafe
             /\ to # Malformed
             /\ \/ reply' = [reply EXCEPT ![s] = NoReply]
                \/ Send(s, Status("upload", n, RESP_ERROR))
             /\ UNCHANGED <<pc, local>>

\* The body is received and its BLAKE3 hash is the one in the header.
ReceiveFile(s) ==
    /\ pc[s] = "receive"
    /\ req[s].intact
    /\ pc' = [pc EXCEPT ![s] = "encrypt"]
    /\ UNCHANGED <<process, files, disk, meta, ivs, requests, client, local, reply,
                   acked, overlapped, journal>>

\* It is not, or the connection breaks before the body is complete.
RejectFile(s) ==
    /\ pc[s] = "receive"
    /\ \/ ~req[s].intact /\ Send(s, Status("upload", req[s].name, RESP_INTEGRITY_ERROR))
       \/ reply' = [reply EXCEPT ![s] = NoReply]
    /\ EndRequest(s)
    /\ UNCHANGED <<process, files, disk, meta, ivs, requests, client, acked,
                   overlapped, journal>>

\* A fresh iv; AES-256-GCM under whatever g_file_crypto.key holds now.
EncryptFile(s) ==
    /\ pc[s] = "encrypt"
    /\ ivs' = ivs + 1
    /\ ct' = [ct EXCEPT ![s] =
                 [key |-> key, iv |-> ivs + 1, content |-> req[s].content]]
    /\ pc' = [pc EXCEPT ![s] = "open"]
    /\ UNCHANGED <<process, files, disk, meta, requests, client, req, pos, size, buf,
                   reply, acked, overlapped, journal>>

\* Thread s has file n open and not yet closed.
Writes(s, n) ==
    pc[s] = "write" /\ req[s].name = n /\ pos[s] < Blocks[ct[s].content]

\* Thread s opens its file: does another one write it?
NoteOverlap(s) ==
    overlapped' = IF \E t \in Session \ {s} : Writes(t, req[s].name)
                  THEN overlapped \cup {req[s].name}
                  ELSE overlapped \ {req[s].name}

\* Mutant of OpenFile: the file is opened without truncating it.
OpenFileInPlace(s) ==
    /\ pc[s] = "open"
    /\ files' = files \cup {req[s].name}
    /\ pos' = [pos EXCEPT ![s] = 0]
    /\ pc' = [pc EXCEPT ![s] = "write"]
    /\ NoteOverlap(s)
    /\ UNCHANGED <<process, disk, meta, ivs, requests, client, req, ct, size, buf,
                   reply, acked, journal>>

\* fopen(filepath, "wb"): what the file held is gone.
OpenFile(s) ==
    /\ pc[s] = "open"
    /\ files' = files \cup {req[s].name}
    /\ disk' = [disk EXCEPT ![req[s].name] = <<>>]
    /\ pos' = [pos EXCEPT ![s] = 0]
    /\ pc' = [pc EXCEPT ![s] = "write"]
    /\ NoteOverlap(s)
    /\ UNCHANGED <<process, meta, ivs, requests, client, req, ct, size, buf, reply,
                   acked, journal>>

\* File b with block x at place i; the place may lie beyond its end.
Written(b, i, x) ==
    [k \in 1..(IF i > Len(b) THEN i ELSE Len(b)) |->
        IF k = i THEN x ELSE IF k <= Len(b) THEN b[k] ELSE Hole]

\* fwrite, a block at a time, at this thread's own file position.  The last block
\* waits in the stdio buffer for fclose, whose result is not looked at: when it
\* cannot be flushed it is lost, and the upload goes on as if it were written.
WriteBlock(s) ==
    /\ pc[s] = "write"
    /\ pos[s] < Blocks[ct[s].content]
    /\ \/ disk' = [disk EXCEPT ![req[s].name] =
                      Written(@, pos[s] + 1, [ct |-> ct[s], i |-> pos[s] + 1])]
       \/ Faults /\ pos[s] + 1 = Blocks[ct[s].content] /\ UNCHANGED disk
    /\ pos' = [pos EXCEPT ![s] = @ + 1]
    /\ UNCHANGED <<process, files, meta, ivs, requests, pc, client, req, ct, size, buf,
                   reply, acked, overlapped, journal>>

\* Mutant of InsertRecord: the result of the insert is not looked at.
InsertRecordUnchecked(s) ==
    /\ pc[s] = "write"
    /\ pos[s] = Blocks[ct[s].content]
    /\ stage = "up"
    /\ meta' \in {meta, meta \cup {UploadRecord(s)}}
    /\ J!Begin(s, req[s].name, [type |-> "upload", owner |-> client[s],
                                content |-> ct[s].content])
    /\ pc' = [pc EXCEPT ![s] = "upload_event"]
    /\ UNCHANGED <<process, files, disk, ivs, requests, client, local, reply, acked,
                   overlapped>>

\* Mutant of InsertRecord: any part of the file that fwrite has taken is enough.
InsertRecordShort(s) ==
    /\ pc[s] = "write"
    /\ pos[s] > 0
    /\ stage = "up"
    /\ meta' = meta \cup {UploadRecord(s)}
    /\ J!Begin(s, req[s].name, [type |-> "upload", owner |-> client[s],
                                content |-> ct[s].content])
    /\ pc' = [pc EXCEPT ![s] = "upload_event"]
    /\ UNCHANGED <<process, files, disk, ivs, requests, client, local, reply, acked,
                   overlapped>>

\* insert_one of the record, then append_proc_event(filepath, "upload").
InsertRecord(s) ==
    /\ pc[s] = "write"
    /\ pos[s] = Blocks[ct[s].content]
    /\ stage = "up"
    /\ meta' = meta \cup {UploadRecord(s)}
    /\ J!Begin(s, req[s].name, [type |-> "upload", owner |-> client[s],
                                content |-> ct[s].content])
    /\ pc' = [pc EXCEPT ![s] = "upload_event"]
    /\ UNCHANGED <<process, files, disk, ivs, requests, client, local, reply, acked,
                   overlapped>>

\* Mutant of UploadFails: an upload that failed removes its file again.
UploadFailsAndUnlinks(s) ==
    /\ Faults
    /\ pc[s] \in {"encrypt", "open", "write"}
    /\ files' = files \ {req[s].name}
    /\ disk' = [disk EXCEPT ![req[s].name] = <<>>]
    /\ Send(s, Status("upload", req[s].name, RESP_ERROR))
    /\ EndRequest(s)
    /\ UNCHANGED <<process, meta, ivs, requests, client, acked, overlapped, journal>>

\* RAND_bytes, encryption, fopen, fwrite or the insert fails.  A failed fopen
\* or encryption leaves the disk alone, a failed fwrite leaves a part of the
\* file; an insert may fail for the client of MongoDB and still be applied.
UploadFails(s) ==
    /\ Faults
    /\ pc[s] \in {"encrypt", "open", "write"}
    /\ \/ UNCHANGED meta
       \/ /\ pc[s] = "write"
          /\ pos[s] = Blocks[ct[s].content]
          /\ stage = "up"
          /\ meta' = meta \cup {UploadRecord(s)}
    /\ Send(s, Status("upload", req[s].name, RESP_ERROR))
    /\ EndRequest(s)
    /\ UNCHANGED <<process, files, disk, ivs, requests, client, acked, overlapped,
                   journal>>

\* The event is appended or given up; the upload is answered with success.
FinishUpload(s) ==
    /\ pc[s] = "upload_event"
    /\ at[s] = "idle"
    /\ Send(s, Status("upload", req[s].name, RESP_SUCCESS))
    /\ acked' = acked \cup {[client |-> client[s], name |-> req[s].name,
                             content |-> req[s].content]}
    /\ EndRequest(s)
    /\ UNCHANGED <<process, files, disk, meta, ivs, requests, client, overlapped, journal>>

-----------------------------------------------------------------------------
(* DOWNLOAD: handle_download_request *)

BeginDownload(s) ==
    /\ Receive(s)
    /\ \E n \in Filename, offset \in Offset :
          \/ n \in Unsafe /\ Refuse(s, "download", n, RESP_PERMISSION_DENIED)
          \/ /\ n \notin Unsafe
             /\ reply' = [reply EXCEPT ![s] = NoReply]
             /\ pc' = [pc EXCEPT ![s] = "find"]
             /\ req' = [req EXCEPT ![s] =
                           [NoRequest EXCEPT !.name = n, !.offset = offset]]
             /\ UNCHANGED <<ct, pos, size, buf>>

\* Mutant of Matching: the filter on deleted is left out.
MatchingAnyDocument(n) == {doc \in Documents : doc.name = n}

\* The documents find({filename, deleted: false}) matches.
Matching(n) == {doc \in Documents : doc.name = n /\ doc.deleted = FALSE}

\* Mutant of MayDownload: a file without the public field is public.
MayDownloadByDefault(doc, c) == doc.public # FALSE \/ doc.owner = c

MayDownload(doc, c) == doc.public = TRUE \/ doc.owner = c

\* The first match decides; find has no sort, so it may be any of them.  A
\* find that fails looks like one without a match.
FindRecord(s) ==
    /\ pc[s] = "find"
    /\ stage = "up"
    /\ \/ /\ Matching(req[s].name) = {} \/ Faults
          /\ Send(s, Status("download", req[s].name, RESP_FILE_NOT_FOUND))
          /\ EndRequest(s)
       \/ \E doc \in Matching(req[s].name) :
             /\ ~MayDownload(doc, client[s])
             /\ Send(s, Status("download", req[s].name, RESP_PERMISSION_DENIED))
             /\ EndRequest(s)
       \/ \E doc \in Matching(req[s].name) :
             /\ MayDownload(doc, client[s])
             /\ ct' = [ct EXCEPT ![s] = doc.ct]
             /\ pc' = [pc EXCEPT ![s] = "stat"]
             /\ UNCHANGED <<req, pos, size, buf, reply>>
    /\ UNCHANGED <<process, files, disk, meta, ivs, requests, client, acked,
                   overlapped, journal>>

\* stat, the check of the offset, fopen.
StatFile(s) ==
    /\ pc[s] = "stat"
    /\ \/ /\ req[s].name \notin files
          /\ Send(s, Status("download", req[s].name, RESP_FILE_NOT_FOUND))
          /\ EndRequest(s)
       \/ /\ req[s].name \in files
          /\ req[s].offset < 0 \/ req[s].offset > Len(disk[req[s].name])
          /\ Send(s, Status("download", req[s].name, RESP_INVALID_OFFSET))
          /\ EndRequest(s)
       \/ /\ req[s].name \in files
          /\ req[s].offset \in 0..Len(disk[req[s].name])
          /\ size' = [size EXCEPT ![s] = Len(disk[req[s].name])]
          /\ pos' = [pos EXCEPT ![s] = 0]
          /\ buf' = [buf EXCEPT ![s] = <<>>]
          /\ pc' = [pc EXCEPT ![s] = "read"]
          /\ UNCHANGED <<req, ct, reply>>
    /\ UNCHANGED <<process, files, disk, meta, ivs, requests, client, acked,
                   overlapped, journal>>

\* fread of size blocks; it comes out short when the file was truncated.
ReadBlock(s) ==
    /\ pc[s] = "read"
    /\ pos[s] < size[s]
    /\ \/ /\ pos[s] < Len(disk[req[s].name])
          /\ buf' = [buf EXCEPT ![s] = Append(@, disk[req[s].name][pos[s] + 1])]
          /\ pos' = [pos EXCEPT ![s] = @ + 1]
          /\ UNCHANGED <<pc, req, ct, size, reply>>
       \/ /\ pos[s] >= Len(disk[req[s].name])
          /\ Send(s, Status("download", req[s].name, RESP_ERROR))
          /\ EndRequest(s)
    /\ UNCHANGED <<process, files, disk, meta, ivs, requests, client, acked,
                   overlapped, journal>>

\* The first k blocks of a ciphertext, and all of them.
Piece(c, k) == [i \in 1..k |-> [ct |-> c, i |-> i]]
WholeFile(c) == Piece(c, Blocks[c.content])

\* Mutant of TagAccepts: the result of EVP_DecryptFinal_ex is not looked at.
TagIgnored(blocks, c, k) == k # 0

\* EVP_DecryptFinal_ex accepts the tag of ciphertext c for these blocks.
TagAccepts(blocks, c, k) == c.key = k /\ blocks = WholeFile(c)

\* What decryption makes of the blocks: of anything but the whole ciphertext,
\* nothing that anybody stored.
Decrypted(blocks, c, k) == IF c.key = k /\ blocks = WholeFile(c) THEN c.content ELSE Absent

\* Decryption under the key of this process; on success the answer and the part
\* of the file from the offset on are sent, delivered or not, and
\* append_proc_event is entered.
DecryptAndSend(s) ==
    /\ pc[s] = "read"
    /\ pos[s] = size[s]
    /\ \/ /\ TagAccepts(buf[s], ct[s], key)
          /\ Send(s, [NoReply EXCEPT !.to = "download", !.name = req[s].name,
                                     !.content = Decrypted(buf[s], ct[s], key),
                                     !.from = req[s].offset])
          /\ pc' = [pc EXCEPT ![s] = "download_event"]
          /\ J!Begin(s, req[s].name, [type |-> "download", owner |-> client[s],
                                      content |-> ct[s].content])
          /\ UNCHANGED local
       \/ /\ ~TagAccepts(buf[s], ct[s], key)
          /\ Send(s, Status("download", req[s].name, RESP_ERROR))
          /\ EndRequest(s)
          /\ UNCHANGED journal
    /\ UNCHANGED <<process, files, disk, meta, ivs, requests, client, acked,
                   overlapped>>

\* fopen, malloc, fread or the decryption fails.
DownloadFails(s) ==
    /\ Faults
    /\ pc[s] = "read"
    /\ Send(s, Status("download", req[s].name, RESP_ERROR))
    /\ EndRequest(s)
    /\ UNCHANGED <<process, files, disk, meta, ivs, requests, client, acked,
                   overlapped, journal>>

FinishDownload(s) ==
    /\ pc[s] = "download_event"
    /\ at[s] = "idle"
    /\ EndRequest(s)
    /\ UNCHANGED <<process, files, disk, meta, ivs, requests, client, reply, acked,
                   overlapped, journal>>

-----------------------------------------------------------------------------
(* LIST, other commands, the journal, the process *)

\* handle_list_request: the $or filter is built into query, but find is given
\* the empty or_query; a cursor that fails leaves out documents.
Listed(c) == Documents

List(s) ==
    /\ Receive(s)
    /\ stage = "up"
    /\ \E shown \in {Listed(client[s])} \cup (IF Faults THEN {{}} ELSE {}) :
          Send(s, [NoReply EXCEPT !.to = "list", !.listed = shown])
    /\ UNCHANGED <<pc, local>>

UnknownCommand(s) ==
    /\ Receive(s)
    /\ Refuse(s, "unknown", Absent, RESP_UNKNOWN_COMMAND)

\* A step of append_proc_event; all its requests need the client of MongoDB.
JournalStep(s) ==
    /\ stage = "up"
    /\ J!Step(s)
    /\ UNCHANGED <<process, files, disk, meta, ivs, requests, pc, client, local, reply,
                   acked, overlapped>>

SessionStep(s) ==
    \/ Connect(s) \/ Disconnect(s)
    \/ BeginUpload(s) \/ ReceiveFile(s) \/ RejectFile(s) \/ EncryptFile(s)
    \/ OpenFile(s) \/ WriteBlock(s) \/ InsertRecord(s) \/ UploadFails(s)
    \/ FinishUpload(s)
    \/ BeginDownload(s) \/ FindRecord(s) \/ StatFile(s) \/ ReadBlock(s)
    \/ DecryptAndSend(s) \/ DownloadFails(s) \/ FinishDownload(s)
    \/ List(s) \/ UnknownCommand(s) \/ JournalStep(s)

\* main has left the accept loop: cleanup_resources destroys the collection and
\* the client of MongoDB.  The handler threads are detached and still run.
CloseDatabase ==
    /\ stage = "up"
    /\ stage' = "db_closed"
    /\ UNCHANGED <<key, starts, files, disk, meta, ivs, requests, pc, client, local,
                   reply, acked, overlapped, journal>>

\* Mutant of WipeKey: the key may be wiped while the database is still open.
WipeKeyEarly ==
    /\ stage \in {"up", "db_closed"} /\ key # 0
    /\ stage' = IF stage = "up" THEN "up" ELSE "key_wiped"
    /\ key' = 0
    /\ UNCHANGED <<starts, files, disk, meta, ivs, requests, pc, client, local, reply,
                   acked, overlapped, journal>>

\* explicit_bzero of the key, after the database.
WipeKey ==
    /\ stage = "db_closed"
    /\ stage' = "key_wiped"
    /\ key' = 0
    /\ UNCHANGED <<starts, files, disk, meta, ivs, requests, pc, client, local, reply,
                   acked, overlapped, journal>>

\* Mutant of Exit: main joins the handler threads before it returns.
ExitAfterJoin ==
    /\ \A s \in Session : pc[s] = "closed"
    /\ stage \notin {"up", "down"}
    /\ stage' = "down"
    /\ key' = 0
    /\ UNCHANGED <<starts, files, disk, meta, ivs, requests, pc, client, local, reply,
                   acked, overlapped, journal>>

\* The process is gone and its threads with it.  Besides the return of main this
\* stands for a crash at any point: a kill, the use of the bson document after
\* bson_destroy, a handler that uses the client of MongoDB after its end.
Exit ==
    /\ stage # "down"
    /\ stage' = "down"
    /\ key' = 0
    /\ pc' = [s \in Session |-> "closed"]
    /\ client' = [s \in Session |-> Absent]
    /\ req' = [s \in Session |-> NoRequest]
    /\ ct' = [s \in Session |-> Absent]
    /\ pos' = [s \in Session |-> 0]
    /\ size' = [s \in Session |-> 0]
    /\ buf' = [s \in Session |-> <<>>]
    /\ reply' = [s \in Session |-> NoReply]
    /\ \/ J!Stop(Session)
       \/ (\A s \in Session : at[s] = "idle") /\ UNCHANGED journal
    /\ UNCHANGED <<starts, files, disk, meta, ivs, requests, acked, overlapped>>

\* main again: init_cryptography draws a new key, the old one is nowhere.
Restart ==
    /\ stage = "down"
    /\ starts < MaxStarts
    /\ stage' = "up"
    /\ starts' = starts + 1
    /\ key' = starts + 1
    /\ UNCHANGED <<files, disk, meta, ivs, requests, pc, client, local, reply, acked,
                   overlapped, journal>>

\* Everything but the journal.
InitServer ==
    /\ stage = "up" /\ key = 1 /\ starts = 1
    /\ files = {}
    /\ disk = [n \in Filename |-> <<>>]
    /\ meta = {}
    /\ ivs = 0 /\ requests = 0
    /\ pc = [s \in Session |-> "closed"]
    /\ client = [s \in Session |-> Absent]
    /\ req = [s \in Session |-> NoRequest]
    /\ ct = [s \in Session |-> Absent]
    /\ pos = [s \in Session |-> 0]
    /\ size = [s \in Session |-> 0]
    /\ buf = [s \in Session |-> <<>>]
    /\ reply = [s \in Session |-> NoReply]
    /\ acked = {}
    /\ overlapped = {}

Init == InitServer /\ J!Init

Next ==
    \/ \E s \in Session : SessionStep(s)
    \/ CloseDatabase \/ WipeKey \/ Exit \/ Restart

Spec == Init /\ [][Next]_vars

\* MongoDB answers or times out, the kernel schedules every thread, and main runs
\* cleanup_resources to the end once it has begun.  What depends on the client
\* (connecting, sending a header or a body) is not fair.  Nor are the threads that
\* are not in Prompt: ssl_send_all waits without a timeout for a client that has
\* stopped reading, so such a thread may stand at any point of its work for ever.
\* A signal that strikes inside localtime stops everybody at the next line of log;
\* ServerMain has that case, here it is left out.
Served(s) ==
    \/ EncryptFile(s) \/ OpenFile(s) \/ WriteBlock(s) \/ InsertRecord(s)
    \/ FinishUpload(s) \/ FindRecord(s) \/ StatFile(s) \/ ReadBlock(s)
    \/ DecryptAndSend(s) \/ FinishDownload(s) \/ JournalStep(s)

FairSpec ==
    /\ Spec
    /\ \A s \in Prompt : WF_vars(Served(s))
    /\ WF_vars(WipeKey)
    /\ WF_vars(stage # "up" /\ Exit)

-----------------------------------------------------------------------------
(* Properties *)

ProcessTypeOK ==
    /\ stage \in {"up", "db_closed", "key_wiped", "down"}
    /\ key \in Nat /\ starts \in Nat /\ ivs \in Nat /\ requests \in Nat

StoreTypeOK ==
    /\ files \in SUBSET Filename
    /\ disk \in [Filename -> Seq(Block)]
    /\ meta \in SUBSET Record
    /\ acked \in SUBSET [client : Client, name : Filename, content : Content]
    /\ overlapped \in SUBSET Filename

SessionTypeOK ==
    /\ pc \in [Session -> {"closed", "idle", "receive", "encrypt", "open", "write",
                           "upload_event", "find", "stat", "read", "download_event"}]
    /\ client \in [Session -> Client \cup {Absent}]
    /\ req \in [Session -> Request]
    /\ ct \in [Session -> Ciphertext \cup {Absent}]
    /\ pos \in [Session -> Nat] /\ size \in [Session -> Nat]
    /\ buf \in [Session -> Seq(Block)]
    /\ reply \in [Session -> Reply]

TypeOK == ProcessTypeOK /\ StoreTypeOK /\ SessionTypeOK /\ J!TypeOK

\* A download that succeeds delivers a plaintext that the owner of the connection's
\* certificate has uploaded under that name, from the offset asked for to its end,
\* and the offset lies inside of it: not a torn file, not another client's, not one
\* of an earlier key (find, stat with the check of the offset, fread and decrypt
\* are separate steps, and fopen "wb" of another thread may come between).
ServedOwnUpload ==
    \A s \in Session :
        reply[s].to = "download" /\ reply[s].status = RESP_SUCCESS =>
            \E doc \in meta : /\ doc.name = reply[s].name
                             /\ doc.owner = client[s]
                             /\ doc.ct.content = reply[s].content
                             /\ reply[s].from <= Blocks[doc.ct.content]

\* A record never outlives or precedes its file: the file is created before the
\* insert, and nothing in the server unlinks it, crash or not.
RecordHasFile == \A doc \in meta : doc.name \in files

\* An upload answered with success has its record in the collection, whatever
\* failed on the way (the failures of append_proc_event are ignored).
AckMeansStored ==
    \A u \in acked : \E doc \in meta :
        doc.name = u.name /\ doc.owner = u.client /\ doc.ct.content = u.content

\* The journal speaks of a file only after a record of it was stored: the base
\* document has a record of its name behind it, and each event a record of the very
\* version, by that owner and with that content.  It never announces a file that a
\* failed upload left on the disk, nor a download of one.
JournalBackedByRecord ==
    /\ \A n \in base : \E doc \in meta : doc.name = n
    /\ \A n \in Filename : \A k \in DOMAIN proc[n] : \E doc \in meta :
          /\ doc.name = n
          /\ doc.owner = proc[n][k].kind.owner
          /\ doc.ct.content = proc[n][k].kind.content

\* A base document has the file's stem as its filename and lies in the same
\* collection; a download of a file whose name is such a stem must not be
\* denied because of it, only because of a record of another owner.
DenialIsJustified ==
    \A s \in Session :
        /\ reply[s].to = "download" /\ reply[s].status = RESP_PERMISSION_DENIED
        /\ reply[s].name \notin Unsafe
        => \E doc \in meta : doc.name = reply[s].name /\ doc.owner # client[s]

\* cleanup_resources closes the database before it wipes the key, so a handler
\* thread that is still encrypting can never record a file under the zero key.
ZeroKeyNeverRecorded == \A doc \in meta : doc.ct.key # 0

\* A file that starts like a recorded version is that version from the first block
\* to the last, or without its last block where a flush has failed unseen: an upload
\* replaces a longer or a shorter file as a whole, whatever failed or crashed before.
\* (Unless the file was opened while another thread wrote it: two uploads of one
\* name do mix their blocks.)
RecordedFileIsWhole ==
    \A doc \in meta :
        /\ doc.name \notin overlapped
        /\ disk[doc.name] # <<>> /\ disk[doc.name][1].ct = doc.ct
        => \/ disk[doc.name] = WholeFile(doc.ct)
           \/ Faults /\ disk[doc.name] = Piece(doc.ct, Blocks[doc.ct.content] - 1)

Uploading(n) == {s \in Session : req[s].name = n /\
                    pc[s] \in {"encrypt", "open", "write", "upload_event"}}

\* A file that was uploaded successfully can be downloaded: with no failure and
\* nobody uploading under its name, a download of its owner that gets as far as
\* decrypting does not end with RESP_ERROR.
AckedUploadDecrypts ==
    [][\A s \in Session :
          /\ pc[s] = "read" /\ pc'[s] = "idle"
          /\ Uploading(req[s].name) = {}
          /\ \E u \in acked : u.client = client[s] /\ u.name = req[s].name
          => reply'[s].status # RESP_ERROR]_vars

\* A request that reached the server's own work is brought to an end, by an answer
\* or by the end of the process, when its own client reads what it is sent: it
\* waits for no other thread, were that one stuck with its file half written or in
\* the middle of append_proc_event, and shutdown leaves it hanging nowhere.
RequestsFinish ==
    \A s \in Prompt :
        pc[s] \notin {"closed", "idle", "receive"} ~> pc[s] \in {"closed", "idle"}

\* The server implements the vault.
Vault == INSTANCE FileVault WITH
    Version <- [owner : Client, name : Filename, content : Content],
    Size <- [v \in [owner : Client, name : Filename, content : Content] |->
                Blocks[v.content]],
    Nothing <- Absent,
    stored <- {[owner |-> doc.owner, name |-> doc.name, content |-> doc.ct.content] :
                  doc \in meta},
    answer <- [s \in Session |->
                 IF reply[s].to = "download" /\ reply[s].status = RESP_SUCCESS
                 THEN [version |-> [owner |-> client[s], name |-> reply[s].name,
                                    content |-> reply[s].content],
                       from |-> reply[s].from]
                 ELSE Absent]
ImplementsVault == Vault!Spec

\* A thread overwrites no event of its own, but for key 1 after a spoiled read,
\* whatever the other threads append meanwhile.
NeverOverwritesOwn == J!NeverOverwritesOwn

\* The journal of the server is the journal of ProcMap.
ImplementsProcMap == J!ImplementsProcMap
=============================================================================
