------------------------------ MODULE Transfer ------------------------------
(***************************************************************************)
(* One connection between src/client/client.c and a handler thread of      *)
(* src/server/server.c, at the level of what travels on it: headers,       *)
(* responses and blocks of BUFFER_SIZE bytes in two byte streams.  The     *)
(* client is a process that runs one command and ends; it is run again and *)
(* again on one local file and one remote name.  During an upload another  *)
(* program may rewrite the local file: stat, the BLAKE3 pass and the       *)
(* sending loop look at it at three different times.                       *)
(*                                                                         *)
(* Sizes count blocks.  The hash of a content is the content (no           *)
(* collisions).  Of the server's store there is the one file behind the    *)
(* name, as the plaintext of what is on its disk, and the records of its   *)
(* uploads; what other threads do to them is the matter of FileServer.     *)
(***************************************************************************)
EXTENDS Integers, Sequences

CONSTANTS
    Versions,    \* contents of the local file, sequences of blocks
    Command,     \* the commands the client is run with
    StackOffset, \* what header.offset, never assigned, may hold
    IntMax,      \* the largest number of blocks an int can count
    Missing,     \* no file is stored under the remote name
    Faults,      \* may the connection break, the server refuse or fail?
    MaxRuns,     \* bound on the runs of the client
    MaxAnswers,  \* bound on the answers to one block read as headers
    MaxWrites    \* bound on the writes to the local file by others

ASSUME VersionsAssumption ==
    \A v \in Versions : v \in Seq({v[i] : i \in DOMAIN v}) /\ v # Missing
ASSUME CommandAssumption == Command \subseteq {"upload", "download", "list"}
ASSUME SizesAssumption == IntMax \in Nat /\ StackOffset \subseteq Int
ASSUME TransferBoundsAssumption ==
    MaxRuns \in Nat /\ MaxAnswers \in Nat /\ MaxWrites \in Nat /\ Faults \in BOOLEAN

BlockOfFile == UNION {{v[i] : i \in DOMAIN v} : v \in Versions}

\* Messages: request headers, responses, and blocks of a body.
RequestHeader(cmd, size, hash, offset) ==
    [kind |-> "header", cmd |-> cmd, size |-> size, hash |-> hash, offset |-> offset]
ResponseHeader(status, size) == [kind |-> "response", status |-> status, size |-> size]
Body(blocks) == [i \in DOMAIN blocks |-> [kind |-> "block", block |-> blocks[i]]]

NoRequest == RequestHeader("none", 0, <<>>, 0)

\* What handle_list_request sends: at least "[]", one block here.
Listing == <<"names">>

VARIABLES
    local,    \* the local file of the client
    writes,   \* writes to it by others so far
    runs,     \* runs of the client so far
    cmd,      \* the command of this run
    cpc,      \* where the client stands
    size,     \* filesize: st_size, or what the server's response says
    hash,     \* file_hash: the content the BLAKE3 pass read
    sent,     \* total_sent
    offset,   \* the length of the local file when a download began
    total,    \* total_received
    asked,    \* header.offset as it went out
    link,     \* "up", "server_closed", "broken"
    c2s, s2c, \* the two streams
    spc,      \* where the handler stands
    sreq,     \* the header it serves
    got,      \* the blocks of the body it has received
    stored,   \* the file behind the remote name, decrypted
    written,  \* the run whose upload wrote it, with an IV of its own
    records,  \* the documents of the name: run and content of an upload
    since,    \* the runs there had been when the server was started: its key
              \* is new
    faulted   \* history: something failed during this run

file == <<local, writes, runs>>
progress == <<size, hash, sent, offset, total, asked>>
store == <<stored, written, records, since>>
server == <<spc, sreq, got, stored, written, records, since>>
vars == <<local, writes, runs, cmd, cpc, size, hash, sent, offset, total, asked,
          link, c2s, s2c, spc, sreq, got, stored, written, records, since, faulted>>

Ended == {"none", "done", "failed"}

\* A file without its last block: what stdio has buffered goes to the disk when the
\* file is closed, and both programs ignore the result of fclose.
Cut(content) == SubSeq(content, 1, Len(content) - 1)

-----------------------------------------------------------------------------
(* The client *)

\* main: connect, TLS handshake, one command.
Run(c) ==
    /\ cpc \in Ended /\ spc = "closed"
    /\ runs < MaxRuns
    /\ runs' = runs + 1
    /\ cmd' = c
    /\ cpc' = [upload |-> "stat", download |-> "open", list |-> "request"][c]
    /\ size' = 0 /\ hash' = <<>> /\ sent' = 0
    /\ offset' = 0 /\ total' = 0 /\ asked' = 0
    /\ link' = "up" /\ c2s' = <<>> /\ s2c' = <<>>
    /\ spc' = "header" /\ sreq' = NoRequest /\ got' = <<>>
    /\ faulted' = FALSE
    /\ UNCHANGED <<local, writes, store>>

StatLocal ==
    /\ cpc = "stat"
    /\ size' = Len(local)
    /\ cpc' = "hash"
    /\ UNCHANGED <<file, cmd, hash, sent, offset, total, asked, link, c2s, s2c,
                   server, faulted>>

\* compute_file_blake3 opens and reads the file on its own.
HashLocal ==
    /\ cpc = "hash"
    /\ hash' = local
    /\ cpc' = "request"
    /\ UNCHANGED <<file, cmd, size, sent, offset, total, asked, link, c2s, s2c,
                   server, faulted>>

\* Mutant of OpenLocal: a failing ftell is taken for an offset.
OpenLocalUnchecked ==
    /\ cpc = "open"
    /\ offset' = Len(local) - 1
    /\ cpc' = "request"
    /\ UNCHANGED <<file, cmd, size, hash, sent, total, asked, link, c2s, s2c,
                   server, faulted>>

\* fopen "ab" and ftell of a download; the file is created if it is not there.
OpenLocal ==
    /\ cpc = "open"
    /\ offset' = Len(local)
    /\ cpc' = "request"
    /\ UNCHANGED <<file, cmd, size, hash, sent, total, asked, link, c2s, s2c,
                   server, faulted>>

\* The header goes out.  A download never assigns header.offset: the server
\* gets what the stack held.
SendHeader ==
    /\ cpc = "request"
    /\ link = "up"
    /\ asked' \in IF cmd = "download" THEN StackOffset ELSE {0}
    /\ c2s' = Append(c2s, RequestHeader(cmd, size, hash, asked'))
    /\ cpc' = "response"
    /\ UNCHANGED <<file, cmd, size, hash, sent, offset, total, link, s2c, server,
                   faulted>>

\* A response arrives and decides how the client goes on.
Await(at, then) ==
    /\ cpc = at
    /\ s2c # <<>>
    /\ s2c' = Tail(s2c)
    /\ cpc' = then
    /\ UNCHANGED <<writes, runs, cmd, hash, sent, offset, asked, link, c2s, server,
                   faulted>>

Accepted == Head(s2c).status = "RESP_SUCCESS"

UploadAccepted ==
    /\ cmd = "upload" /\ Await("response", IF Accepted THEN "send" ELSE "failed")
    /\ UNCHANGED <<local, size, total>>

\* One round of the sending loop.  After the server has closed, a write may
\* still be taken by the socket.
SendBlock ==
    /\ cpc = "send"
    /\ sent < Len(local)
    /\ \/ link = "up" /\ c2s' = c2s \o Body(<<local[sent + 1]>>)
       \/ link = "server_closed" /\ UNCHANGED c2s
    /\ sent' = sent + 1
    /\ UNCHANGED <<file, cmd, cpc, size, hash, offset, total, asked, link, s2c,
                   server, faulted>>

EndOfLocal ==
    /\ cpc = "send"
    /\ sent >= Len(local)
    /\ cpc' = "status"
    /\ UNCHANGED <<file, cmd, progress, link, c2s, s2c, server, faulted>>

UploadAnswered ==
    /\ Await("status", IF Accepted THEN "done" ELSE "failed")
    /\ UNCHANGED <<local, size, total>>

\* Mutant of Downloadable: a file no longer than the local one is taken for an
\* invalid one.
DownloadableBehindOffset == Accepted /\ Head(s2c).size > offset

\* "Server reported invalid file size" otherwise.
Downloadable == Accepted /\ Head(s2c).size > 0

\* The answer to a download: the local file is opened again, with "wb", and
\* counting starts at its old length.
DownloadAnswered ==
    /\ cmd = "download"
    /\ Await("response", IF Downloadable THEN "receive" ELSE "failed")
    /\ IF Downloadable THEN /\ local' = <<>>
                            /\ size' = Head(s2c).size
                            /\ total' = offset
                       ELSE UNCHANGED <<local, size, total>>

ListAnswered ==
    /\ cmd = "list"
    /\ Await("response", IF Accepted THEN "receive" ELSE "failed")
    /\ size' = Head(s2c).size
    /\ UNCHANGED <<local, total>>

ReceiveBlock ==
    /\ total < size
    /\ Await("receive", "receive")
    /\ total' = total + 1
    /\ local' = IF cmd = "download" THEN Append(local, Head(s2c).block) ELSE local
    /\ UNCHANGED size

\* "Download completed successfully!", and then fclose.
EndOfAnswer ==
    /\ cpc = "receive"
    /\ total >= size
    /\ cpc' = "done"
    /\ \/ UNCHANGED <<local, faulted>>
       \/ /\ Faults /\ cmd = "download" /\ local # <<>>
          /\ local' = Cut(local) /\ faulted' = TRUE
    /\ UNCHANGED <<writes, runs, cmd, progress, link, c2s, s2c, server>>

\* stat, fopen, fread or fwrite of a local file fails, and with it the command.
LocalFails ==
    /\ Faults /\ faulted' = TRUE
    /\ \/ cpc \in {"stat", "hash", "open", "send"} /\ UNCHANGED <<local, s2c>>
       \/ /\ cmd = "download" /\ cpc = "response" /\ s2c # <<>> /\ Downloadable
          /\ s2c' = Tail(s2c) /\ UNCHANGED local
       \/ /\ cmd = "download" /\ cpc = "receive" /\ s2c # <<>>
          /\ s2c' = Tail(s2c)
          /\ \/ UNCHANGED local
             \/ local # <<>> /\ local' = Cut(local)
    /\ cpc' = "failed"
    /\ UNCHANGED <<writes, runs, cmd, progress, link, c2s, server>>

\* SSL_read or SSL_write of the client fails.
ClientFails ==
    /\ link # "up"
    /\ \/ cpc \in {"request", "send"}
       \/ cpc \in {"response", "status", "receive"} /\ s2c = <<>>
    /\ cpc' = "failed"
    /\ UNCHANGED <<file, cmd, progress, link, c2s, s2c, server, faulted>>

\* Another program writes the local file while an upload is under way.
WriteLocal ==
    /\ cmd = "upload" /\ cpc \notin Ended
    /\ writes < MaxWrites
    /\ writes' = writes + 1
    /\ local' \in Versions
    /\ UNCHANGED <<runs, cmd, cpc, progress, link, c2s, s2c, server, faulted>>

-----------------------------------------------------------------------------
(* The handler thread *)

\* ssl_send_all of the handler; on a broken connection nothing arrives.
SendAll(messages) == s2c' = IF link = "up" THEN s2c \o messages ELSE s2c

Respond(status) == SendAll(<<ResponseHeader(status, 0)>>)

\* Answer a request and go back to reading headers.
Answer(status) == Respond(status) /\ spc' = "header" /\ UNCHANGED <<sreq, got, store>>

\* The loop of handle_client reads a header.
NextHeader(c) ==
    /\ spc = "header"
    /\ c2s # <<>>
    /\ Head(c2s).kind = "header" /\ Head(c2s).cmd = c
    /\ c2s' = Tail(c2s)
    /\ UNCHANGED <<file, cmd, cpc, progress, link>>

\* handle_upload_request up to the ready answer; when malloc fails, the ready
\* answer is followed by RESP_ERROR, and the body is not read.
ServeUpload ==
    /\ NextHeader("upload")
    /\ \/ /\ Respond("RESP_SUCCESS")
          /\ spc' = "body"
          /\ sreq' = Head(c2s)
          /\ got' = <<>>
          /\ UNCHANGED <<store, faulted>>
       \/ /\ Faults /\ faulted' = TRUE
          /\ \/ Answer("RESP_PERMISSION_DENIED")
             \/ Answer("RESP_ERROR")
             \/ /\ SendAll(<<ResponseHeader("RESP_SUCCESS", 0),
                           ResponseHeader("RESP_ERROR", 0)>>)
                /\ spc' = "header"
                /\ UNCHANGED <<sreq, got, store>>

ReceiveBody ==
    /\ spc = "body"
    /\ Len(got) < sreq.size
    /\ c2s # <<>>
    /\ got' = Append(got, Head(c2s).block)
    /\ c2s' = Tail(c2s)
    /\ UNCHANGED <<file, cmd, cpc, progress, link, s2c, spc, sreq, store, faulted>>

\* A count of blocks (of any size) as an int parameter receives it.
ToInt(n) == ((n + IntMax + 1) % (2 * (IntMax + 1))) - (IntMax + 1)

\* Mutant of Intact: the hash is computed over the declared size only.
IntactLength(blocks, req) == Len(blocks) = req.size

\* memcmp of the BLAKE3 hashes.
Intact(blocks, req) == blocks = req.hash

\* Mutant of BodyComplete: the receiving loop asks for one block too many.
BodyCompleteLate == Len(got) > sreq.size

BodyComplete == Len(got) >= sreq.size

\* The file is written as far as n says; fopen has thrown away what it was.
Writes(content, n) == stored' = SubSeq(content, 1, n) /\ written' = runs

Records(content) == records' = records \cup {[run |-> runs, content |-> content]}

\* The ciphertext of the content goes to the disk, and then its iv and tag into a
\* document.  fwrite may fail anywhere, fclose at the last block, which nobody
\* notices; insert_one may fail although the document is there.
Saves(content) ==
    \/ /\ Writes(content, Len(content)) /\ Records(content)
       /\ Respond("RESP_SUCCESS") /\ UNCHANGED faulted
    \/ /\ Faults /\ content # <<>> /\ faulted' = TRUE
       /\ Writes(content, Len(content) - 1) /\ Records(content)
       /\ Respond("RESP_SUCCESS")
    \/ /\ Faults /\ faulted' = TRUE
       /\ \E n \in 0..Len(content) :
             /\ Writes(content, n)
             /\ UNCHANGED records \/ (n >= Len(content) - 1 /\ Records(content))
       /\ Respond("RESP_ERROR")

\* The body is there: integrity check, encryption of as many blocks as the int
\* plaintext_len says, file and record.  What fails before fopen leaves the file.
StoreBody ==
    /\ spc = "body"
    /\ BodyComplete
    /\ spc' = "header"
    /\ \/ /\ ~Intact(got, sreq)
          /\ Respond("RESP_INTEGRITY_ERROR")
          /\ UNCHANGED <<stored, written, records, faulted>>
       \/ /\ Intact(got, sreq)
          /\ ToInt(sreq.size) >= 0
          /\ Saves(SubSeq(got, 1, ToInt(sreq.size)))
       \/ /\ Intact(got, sreq)
          /\ ToInt(sreq.size) < 0 \/ Faults
          /\ faulted' = TRUE
          /\ Respond("RESP_ERROR")
          /\ UNCHANGED <<stored, written, records>>
    /\ sreq' = NoRequest /\ got' = <<>>
    /\ UNCHANGED <<file, cmd, cpc, progress, link, c2s, since>>

\* filesize in the answer to a download: pt_len, wherever the offset is.
SizeSent == Len(stored)

\* Mutant of Fits: the plaintext is used without a look at the tag.
FitsWithoutTag(record) == record.run = written /\ record.run > since

\* The iv and the tag of a document decrypt the file that is there now, with the
\* key there is now.
Fits(record) ==
    record.run = written /\ record.run > since /\ record.content = stored

\* handle_download_request, with one of the documents of the name: the answer, then
\* the plaintext from the offset on.
ServeDownload ==
    /\ NextHeader("download")
    /\ LET from == Head(c2s).offset IN
       \/ /\ records = {}
          /\ Answer("RESP_FILE_NOT_FOUND")
          /\ UNCHANGED faulted
       \/ /\ records # {}
          /\ from \notin 0..Len(stored)
          /\ Answer("RESP_INVALID_OFFSET")
          /\ UNCHANGED faulted
       \/ /\ \E record \in records : ~Fits(record)
          /\ from \in 0..Len(stored)
          /\ Answer("RESP_ERROR")
          /\ UNCHANGED faulted
       \/ /\ \E record \in records : Fits(record)
          /\ from \in 0..Len(stored)
          /\ SendAll(<<ResponseHeader("RESP_SUCCESS", SizeSent)>>
                        \o Body(SubSeq(stored, from + 1, Len(stored))))
          /\ spc' = "header"
          /\ UNCHANGED <<sreq, got, store, faulted>>
       \/ /\ Faults /\ faulted' = TRUE
          /\ \E status \in {"RESP_ERROR", "RESP_PERMISSION_DENIED",
                             "RESP_FILE_NOT_FOUND"} : Answer(status)

ServeList ==
    /\ NextHeader("list")
    /\ SendAll(<<ResponseHeader("RESP_SUCCESS", Len(Listing))>> \o Body(Listing))
    /\ spc' = "header"
    /\ UNCHANGED <<sreq, got, store, faulted>>

\* What of the second stream still reaches the client when the connection ends.
Delivered == \E n \in 0..Len(s2c) : s2c' = SubSeq(s2c, 1, n)

\* What a handler answers that takes a piece of a file for headers: a list, the
\* ready answer to an upload, or a refusal, which also ends such an upload, as the
\* hash fits no body.
StrayAnswer ==
    {ResponseHeader("RESP_SUCCESS", 0), ResponseHeader("RESP_INTEGRITY_ERROR", 0),
     Body(Listing)[1]}

\* A block where a header is expected: a body that was given up, or more of the
\* local file than its header announced.  It is read as several headers, each with
\* its answers; one that means CMD_UPLOAD takes more of the blocks for its body,
\* as many as its filesize says; a read that comes out short closes the connection.
MisreadBlock ==
    /\ spc \in {"header", "stray"}
    /\ c2s # <<>> /\ Head(c2s).kind = "block"
    /\ c2s' = Tail(c2s)
    /\ \/ /\ \E n \in 0..MaxAnswers : \E answers \in [1..n -> StrayAnswer] : SendAll(answers)
          /\ spc' \in {"header", "stray"} /\ UNCHANGED link
       \/ Delivered /\ spc' = "closed" /\ link' = "server_closed"
    /\ UNCHANGED <<file, cmd, cpc, progress, sreq, got, store, faulted>>

\* SSL_read of the handler fails: the client is gone or the connection is.
ServerCloses ==
    /\ spc # "closed"
    /\ c2s = <<>>
    /\ link = "broken" \/ cpc \in Ended
    /\ spc' = "closed"
    /\ sreq' = NoRequest /\ got' = <<>>
    /\ link' = IF link = "up" THEN "server_closed" ELSE link
    /\ UNCHANGED <<file, cmd, cpc, progress, c2s, s2c, store, faulted>>

\* The connection breaks; what was on its way is lost, from some point on.
Break ==
    /\ Faults
    /\ link = "up"
    /\ cpc \notin Ended
    /\ link' = "broken"
    /\ faulted' = TRUE
    /\ \E n \in 0..Len(c2s) : c2s' = SubSeq(c2s, 1, n)
    /\ Delivered
    /\ UNCHANGED <<file, cmd, cpc, progress, server>>

\* Between two connections the server is stopped and started again.
RestartServer ==
    /\ cpc \in Ended /\ spc = "closed"
    /\ since' = runs
    /\ UNCHANGED <<file, cmd, cpc, progress, link, c2s, s2c, spc, sreq, got, stored,
                   written, records, faulted>>

-----------------------------------------------------------------------------

Init ==
    /\ local \in Versions
    /\ writes = 0 /\ runs = 0
    /\ cmd = "none" /\ cpc = "none"
    /\ size = 0 /\ hash = <<>> /\ sent = 0
    /\ offset = 0 /\ total = 0 /\ asked = 0
    /\ link = "server_closed" /\ c2s = <<>> /\ s2c = <<>>
    /\ spc = "closed" /\ sreq = NoRequest /\ got = <<>>
    /\ stored = Missing /\ written = 0 /\ records = {} /\ since = 0
    /\ faulted = FALSE

ClientStep ==
    \/ StatLocal \/ HashLocal \/ OpenLocal \/ SendHeader
    \/ UploadAccepted \/ SendBlock \/ EndOfLocal \/ UploadAnswered
    \/ DownloadAnswered \/ ListAnswered \/ ReceiveBlock \/ EndOfAnswer
    \/ ClientFails \/ LocalFails

ServerStep ==
    \/ ServeUpload \/ ReceiveBody \/ StoreBody \/ ServeDownload \/ ServeList
    \/ MisreadBlock \/ ServerCloses

Next ==
    \/ \E c \in Command : Run(c)
    \/ ClientStep \/ ServerStep
    \/ WriteLocal \/ Break \/ RestartServer

Spec == Init /\ [][Next]_vars

\* Both processes are scheduled and the connection carries what is sent.  No
\* run has to be started, and nothing has to break.
FairSpec == Spec /\ WF_vars(ClientStep) /\ WF_vars(ServerStep)

-----------------------------------------------------------------------------
(* Properties *)

Message ==
    [kind : {"header"}, cmd : Command, size : Nat, hash : Seq(BlockOfFile), offset : Int]
    \cup [kind : {"block"}, block : BlockOfFile \cup {Listing[1]}]
    \cup [kind : {"response"}, size : Nat,
          status : {"RESP_SUCCESS", "RESP_ERROR", "RESP_PERMISSION_DENIED",
                    "RESP_INTEGRITY_ERROR", "RESP_FILE_NOT_FOUND",
                    "RESP_INVALID_OFFSET", "RESP_UNKNOWN_COMMAND"}]

TypeOK ==
    /\ local \in Seq(BlockOfFile)
    /\ writes \in 0..MaxWrites /\ runs \in 0..MaxRuns
    /\ cmd \in Command \cup {"none"}
    /\ cpc \in Ended \cup {"stat", "hash", "open", "request", "response", "send",
                           "status", "receive"}
    /\ size \in Nat /\ sent \in Nat /\ offset \in Nat /\ total \in Nat /\ asked \in Int
    /\ hash \in Seq(BlockOfFile)
    /\ link \in {"up", "server_closed", "broken"}
    /\ c2s \in Seq(Message) /\ s2c \in Seq(Message)
    /\ spc \in {"closed", "header", "body", "stray"}
    /\ sreq \in Message \cup {NoRequest}
    /\ got \in Seq(BlockOfFile)
    /\ stored \in Seq(BlockOfFile) \cup {Missing}
    /\ written \in 0..MaxRuns /\ since \in 0..MaxRuns
    /\ records \subseteq [run : 1..MaxRuns, content : Seq(BlockOfFile)]
    /\ faulted \in BOOLEAN

\* "Upload completed successfully!": there is a record of exactly the content the
\* client hashed, although stat, the hash and the sending loop read the local file at
\* different times, and the file of the server is that content; it may lack its last
\* block when fclose failed.  All as long as an int can count the blocks.
UploadedIsWhole ==
    cpc = "done" /\ cmd = "upload" /\ size <= IntMax =>
        /\ [run |-> runs, content |-> hash] \in records
        /\ written = runs
        /\ stored = hash \/ (faulted /\ stored = Cut(hash))

\* A download that starts without a local file and with a header.offset that
\* happens to be 0 ends with a file some upload recorded, whole, as it is on the
\* server: no cut, replaced or foreign file passes for a download.  Only a failing
\* fclose of the client itself takes its last block.
FreshDownloadIsWhole ==
    cpc = "done" /\ cmd = "download" /\ offset = 0 /\ asked = 0 =>
        /\ [run |-> written, content |-> stored] \in records
        /\ local = stored \/ (faulted /\ local = Cut(stored))

\* When nothing failed on the way, a download is only refused for a file that is not
\* there, a file without content (what was uploaded empty cannot be fetched), an
\* offset outside of it, or a record that does not fit the file and the key: of an
\* earlier upload of the name, of one whose file was cut, or of an earlier server.
RefusedForAReason ==
    cpc = "failed" /\ cmd = "download" /\ ~faulted =>
        \/ records = {} \/ stored = <<>> \/ asked \notin 0..Len(stored)
        \/ \E record \in records : ~Fits(record)

\* The two ends never wait for each other for ever, save in two cases: the file
\* shrank after stat, so the server waits for the rest of the body and the
\* client for its status; or header.offset lies behind the local file, so the
\* server sends less than the client waits for.
TransferEnds ==
    cpc \notin Ended ~>
        \/ cpc \in Ended
        \/ cmd = "upload" /\ cpc = "status" /\ sent < size
        \/ cmd = "download" /\ cpc = "receive" /\ asked > offset

\* "Download completed successfully! Saved to ...": the local file is the file.
DownloadedIsWhole ==
    cpc = "done" /\ cmd = "download" => local = stored
=============================================================================
