--------------------------- MODULE Exchange_proofs ---------------------------
(* The proofs about Exchange: whatever the handler threads of the server, its  *)
(* crashes and the kernel do between two steps of a daemon, no version of a    *)
(* file slips by a daemon that watches, for any number of threads, names and   *)
(* versions; and none of the documents of the daemons, however many there are, *)
(* makes the server deny a download.                                           *)
EXTENDS Exchange, TLAPS, SequenceTheorems

\* The events a watch can see: the server only ever closes what it has written.
Event == {D!Overflow} \cup [name : {Path[n] : n \in files}, mask : {"IN_CLOSE_WRITE"}]

\* What the variables are functions on.
ServerTyped ==
    /\ DOMAIN pc = Session /\ DOMAIN req = Session
    /\ DOMAIN client = Session /\ DOMAIN reply = Session

\* The documents of the server are those of names, the paths are the daemon's.
JournalTyped ==
    /\ DOMAIN at = Session \cup Daemon /\ DOMAIN call = Session \cup Daemon
    /\ DOMAIN proc = Name \cup Range(Path)
    /\ \A s \in Session : at[s] # "idle" => call[s].id \in Name

DaemonTyped ==
    /\ DOMAIN last = Daemon /\ \A d \in Daemon : DOMAIN last[d] = Range(Path)
    /\ happened \in [Range(Path) -> [D!Kind -> Nat]]
    /\ DOMAIN watcher = Daemon /\ DOMAIN overflown = Daemon
    /\ queue \in [Daemon -> Seq(Event)] /\ batch \in [Daemon -> Seq(Event)]

\* Requests that are carried out name no path; a thread that writes, and a file the
\* kernel has yet to close, are in the directory.
FilesStored ==
    /\ files \subseteq Name /\ closing \subseteq files
    /\ \A s \in Session :
          /\ pc[s] \notin {"closed", "idle"} => req[s].name \in Name
          /\ pc[s] = "write" => req[s].name \in files

\* The document of an event is there before the event is written.
CallHasBase == \A d \in Daemon : at[d] \in {"key", "set"} => call[d].id \in base

\* The last version of n that was closed is on its way through daemon d, or it is in
\* the journal and d is about to write nothing else there.
OnItsWay(d, n) ==
    \/ \E i \in DOMAIN queue[d] : queue[d][i].name = Path[n]
    \/ \E i \in DOMAIN batch[d] : batch[d][i].name = Path[n]
    \/ at[d] # "idle" /\ call[d].id = Path[n] /\ Tells(call[d].kind, Versions(n))
    \/ (at[d] = "idle" \/ call[d].id # Path[n]) /\ Recorded(n, Versions(n))

NoticedBy(d) == \A n \in Name : Alert(d) /\ ClosedSince(d, n) => OnItsWay(d, n)

\* The server and its files.
ServerInv == ServerTyped /\ FilesStored /\ DenialIsJustified

\* The journal and the watches.
WatchInv ==
    JournalTyped /\ DaemonTyped /\ CallHasBase /\ \A d \in Daemon : NoticedBy(d)

-----------------------------------------------------------------------------
(* The journal *)

\* Documents are never removed, and nothing is written under the path of a file.
PathsKept ==
    /\ base \subseteq base'
    /\ \A f \in Range(Path) : proc'[f] = proc[f]

\* Daemon d stands where it stood in append_proc_event.
Untouched(d) == at'[d] = at[d] /\ call'[d] = call[d]

\* A handler thread in append_proc_event, and the end of all of them, leave the
\* daemons and what they have written in the journal alone.
LEMMA ThreadsJournal ==
    ASSUME JournalTyped, NEW s \in Session, NEW id \in Name, NEW kind,
           S!J!Begin(s, id, kind) \/ S!J!Step(s) \/ S!J!Stop(Session)
    PROVE  JournalTyped' /\ PathsKept /\ \A d \in Daemon : Untouched(d)
<1> USE DEF JournalTyped, PathsKept, Untouched
<1>0. \A d \in Daemon : d \notin Session
  BY PathAssumption
<1>1. CASE S!J!Begin(s, id, kind)
  BY <1>0, <1>1 DEF S!J!Begin
<1>2. CASE S!J!CreateBaseDocument(s)
  BY <1>0, <1>2 DEF S!J!CreateBaseDocument, S!J!Return
<1>3. CASE S!J!GetNextProcKey(s)
  BY <1>0, <1>3 DEF S!J!GetNextProcKey, S!J!Return
<1>4. CASE S!J!SetEvent(s)
  <2>1. JournalTyped' /\ UNCHANGED base /\ \A d \in Daemon : Untouched(d)
    BY <1>0, <1>4 DEF S!J!SetEvent, S!J!Return
  <2>2. call[s].id \in Name /\ \A f \in Range(Path) : f # call[s].id
    BY <1>4, PathAssumption DEF S!J!SetEvent
  <2>3. \A f \in Range(Path) : proc'[f] = proc[f]
    BY <1>4, <2>2 DEF S!J!SetEvent
  <2> QED
    BY <2>1, <2>3
<1>5. CASE S!J!Stop(Session)
  BY <1>0, <1>5 DEF S!J!Stop
<1> QED
  BY <1>1, <1>2, <1>3, <1>4, <1>5 DEF S!J!Step

\* The threads of the server stand where they stood when daemon d moves.
LEMMA DaemonsJournal ==
    ASSUME JournalTyped, NEW d \in Daemon, NEW id, NEW kind,
           D!J!Begin(d, id, kind) \/ D!J!Step(d) \/ D!J!Stop({d})
    PROVE  JournalTyped' /\ base \subseteq base'
<1> USE DEF JournalTyped
<1>0. d \notin Session
  BY PathAssumption
<1>1. CASE D!J!Begin(d, id, kind)
  BY <1>0, <1>1 DEF D!J!Begin
<1>2. CASE D!J!CreateBaseDocument(d)
  BY <1>0, <1>2 DEF D!J!CreateBaseDocument, D!J!Return
<1>3. CASE D!J!GetNextProcKey(d)
  BY <1>0, <1>3 DEF D!J!GetNextProcKey, D!J!Return
<1>4. CASE D!J!SetEvent(d)
  BY <1>0, <1>4 DEF D!J!SetEvent, D!J!Return
<1>5. CASE D!J!Stop({d})
  BY <1>0, <1>5 DEF D!J!Stop
<1> QED
  BY <1>1, <1>2, <1>3, <1>4, <1>5 DEF D!J!Step

\* A daemon whose database answers goes from the base document to the key to the
\* event: nothing makes it give up the event it is appending, and it writes nothing
\* under another path.
LEMMA EventGoesOn ==
    ASSUME JournalTyped, CallHasBase, NEW d \in Daemon, D!J!Step(d)
    PROVE  /\ at'[d] \in {"key", "set"} => call'[d].id \in base'
           /\ at[d] # "idle"
           /\ \/ at'[d] # "idle" /\ call'[d] = call[d] /\ proc' = proc
              \/ /\ at'[d] = "idle"
                 /\ \A f \in DOMAIN proc :
                       /\ f # call[d].id => proc'[f] = proc[f]
                       /\ f = call[d].id => \E i \in DOMAIN proc'[f] :
                                               proc'[f][i].kind = call[d].kind
<1> USE DEF JournalTyped, CallHasBase
<1>1. CASE D!J!CreateBaseDocument(d)
  BY <1>1 DEF D!J!CreateBaseDocument, D!J!Outcomes
<1>2. CASE D!J!GetNextProcKey(d)
  BY <1>2 DEF D!J!GetNextProcKey
<1>3. CASE D!J!SetEvent(d)
  <2>1. call[d].id \in base /\ at'[d] = "idle" /\ at[d] = "set"
    BY <1>3 DEF D!J!SetEvent, D!J!Return
  <2> DEFINE e == [by |-> d, kind |-> call[d].kind]
             i == call[d].id
  <2>2. proc' = [proc EXCEPT ![i] = D!J!Stored(proc[i], next[d], e)]
    BY <1>3, <2>1 DEF D!J!SetEvent, D!J!Outcomes
  <2>3. /\ next[d] \in DOMAIN D!J!Stored(proc[i], next[d], e)
        /\ D!J!Stored(proc[i], next[d], e)[next[d]] = e
    BY DEF D!J!Stored
  <2> QED
    BY <2>1, <2>2, <2>3
<1> QED
  BY <1>1, <1>2, <1>3 DEF D!J!Step

-----------------------------------------------------------------------------
(* The handler threads *)

\* Thread t stands where it stood, for the same client with the same answer.
Stays(t) ==
    /\ pc'[t] = pc[t] /\ req'[t] = req[t]
    /\ client'[t] = client[t] /\ reply'[t] = reply[t]

\* A step of a thread is one in append_proc_event, enters it for the file of the request,
\* or is none of it.
LEMMA ThreadInJournal ==
    ASSUME JournalTyped, FilesStored, NEW s \in Session, S!SessionStep(s)
    PROVE  JournalTyped' /\ PathsKept /\ \A d \in Daemon : Untouched(d)
<1>1. \/ /\ pc[s] \notin {"closed", "idle"}
         /\ \E kind : S!J!Begin(s, req[s].name, kind)
      \/ S!J!Step(s)
      \/ UNCHANGED journal
  BY DEF journal, S!journal, S!SessionStep, S!Connect, S!Disconnect, S!BeginUpload,
     S!ReceiveFile, S!RejectFile, S!EncryptFile, S!OpenFile, S!WriteBlock,
     S!InsertRecord, S!UploadFails, S!FinishUpload, S!BeginDownload, S!FindRecord,
     S!StatFile, S!ReadBlock, S!DecryptAndSend, S!DownloadFails, S!FinishDownload,
     S!List, S!UnknownCommand, S!JournalStep, S!Receive
<1>2. CASE UNCHANGED journal
  BY <1>2 DEF journal, JournalTyped, PathsKept, Untouched
<1>3. CASE S!J!Step(s)
  <2>1. call[s].id \in Name
    BY <1>3 DEF JournalTyped, S!J!Step, S!J!CreateBaseDocument, S!J!GetNextProcKey,
       S!J!SetEvent
  <2> QED
    BY <1>3, <2>1, ThreadsJournal
<1>4. ASSUME NEW kind, pc[s] \notin {"closed", "idle"}, S!J!Begin(s, req[s].name, kind)
      PROVE  JournalTyped' /\ PathsKept /\ \A d \in Daemon : Untouched(d)
  BY <1>4, ThreadsJournal DEF FilesStored
<1> QED
  BY <1>1, <1>2, <1>3, <1>4

\* A thread moves itself alone; files and records are never removed.
LEMMA ThreadMoves ==
    ASSUME ServerTyped, NEW s \in Session, S!SessionStep(s)
    PROVE  /\ ServerTyped' /\ \A t \in Session \ {s} : Stays(t)
           /\ files \subseteq files' /\ meta \subseteq meta'
<1> USE DEF ServerTyped, Stays
<1>1. CASE S!Connect(s) \/ S!Disconnect(s)
  BY <1>1 DEF S!Connect, S!Disconnect, S!local
<1>2. CASE S!BeginUpload(s) \/ S!BeginDownload(s)
  BY <1>2 DEF S!BeginUpload, S!BeginDownload, S!Receive, S!Refuse, S!Send, S!local
<1>3. CASE S!ReceiveFile(s) \/ S!RejectFile(s) \/ S!EncryptFile(s)
  BY <1>3 DEF S!ReceiveFile, S!RejectFile, S!EncryptFile, S!Send, S!EndRequest, S!local
<1>4. CASE S!OpenFile(s) \/ S!WriteBlock(s) \/ S!InsertRecord(s)
  BY <1>4 DEF S!OpenFile, S!WriteBlock, S!InsertRecord, S!local
<1>5. CASE S!UploadFails(s) \/ S!FinishUpload(s)
  BY <1>5 DEF S!UploadFails, S!FinishUpload, S!Send, S!EndRequest
<1>6. CASE S!FindRecord(s) \/ S!StatFile(s) \/ S!ReadBlock(s)
  BY <1>6 DEF S!FindRecord, S!StatFile, S!ReadBlock, S!Send, S!EndRequest
<1>7. CASE S!DecryptAndSend(s) \/ S!DownloadFails(s) \/ S!FinishDownload(s)
  BY <1>7 DEF S!DecryptAndSend, S!DownloadFails, S!FinishDownload, S!Send,
     S!EndRequest, S!local
<1>8. CASE S!List(s) \/ S!UnknownCommand(s) \/ S!JournalStep(s)
  BY <1>8 DEF S!List, S!UnknownCommand, S!JournalStep, S!Receive, S!Refuse, S!Send,
     S!local
<1> QED
  BY <1>1, <1>2, <1>3, <1>4, <1>5, <1>6, <1>7, <1>8 DEF S!SessionStep

\* A thread writes under a name, never under a path, and has created the file.
LEMMA ThreadFiles ==
    ASSUME ServerTyped, FilesStored, NEW s \in Session, S!SessionStep(s)
    PROVE  /\ files' \subseteq Name
           /\ pc'[s] \notin {"closed", "idle"} => req'[s].name \in Name
           /\ pc'[s] = "write" => req'[s].name \in files'
<1> USE DEF ServerTyped, FilesStored
<1>1. CASE S!Connect(s) \/ S!Disconnect(s)
  BY <1>1 DEF S!Connect, S!Disconnect, S!local
<1>2. CASE S!BeginUpload(s) \/ S!BeginDownload(s)
  <2>1. UNCHANGED files /\ pc[s] = "idle"
    BY <1>2 DEF S!BeginUpload, S!BeginDownload, S!Receive
  <2>2. CASE S!BeginUpload(s)
    <3>1. PICK n \in Name \cup Range(Path), x \in Content, intact \in BOOLEAN :
                \/ UNCHANGED <<pc, req>>
                \/ /\ n \notin Range(Path)
                   /\ pc' = [pc EXCEPT ![s] = "receive"]
                   /\ req' = [req EXCEPT ![s] = [name |-> n, content |-> x,
                                                   intact |-> intact, offset |-> 0]]
      BY <2>2 DEF S!BeginUpload, S!Refuse, S!local
    <3> QED
      BY <2>1, <3>1
  <2>3. CASE S!BeginDownload(s)
    <3>1. PICK n \in Name \cup Range(Path), offset \in Offset :
                \/ UNCHANGED <<pc, req>>
                \/ /\ n \notin Range(Path)
                   /\ pc' = [pc EXCEPT ![s] = "find"]
                   /\ req' = [req EXCEPT ![s] =
                                [S!NoRequest EXCEPT !.name = n, !.offset = offset]]
      BY <2>3 DEF S!BeginDownload, S!Refuse, S!local
    <3>2. [S!NoRequest EXCEPT !.name = n, !.offset = offset].name = n
      BY DEF S!NoRequest
    <3> QED
      BY <2>1, <3>1, <3>2
  <2> QED
    BY <1>2, <2>2, <2>3
<1>3. CASE S!ReceiveFile(s) \/ S!RejectFile(s) \/ S!EncryptFile(s)
  BY <1>3 DEF S!ReceiveFile, S!RejectFile, S!EncryptFile, S!EndRequest, S!local
<1>4. CASE S!OpenFile(s) \/ S!WriteBlock(s) \/ S!InsertRecord(s)
  BY <1>4 DEF S!OpenFile, S!WriteBlock, S!InsertRecord, S!local
<1>5. CASE S!UploadFails(s) \/ S!FinishUpload(s)
  BY <1>5 DEF S!UploadFails, S!FinishUpload, S!EndRequest
<1>6. CASE S!FindRecord(s) \/ S!StatFile(s) \/ S!ReadBlock(s)
  BY <1>6 DEF S!FindRecord, S!StatFile, S!ReadBlock, S!EndRequest
<1>7. CASE S!DecryptAndSend(s) \/ S!DownloadFails(s) \/ S!FinishDownload(s)
  BY <1>7 DEF S!DecryptAndSend, S!DownloadFails, S!FinishDownload, S!EndRequest, S!local
<1>8. CASE S!List(s) \/ S!UnknownCommand(s) \/ S!JournalStep(s)
  BY <1>8 DEF S!List, S!UnknownCommand, S!JournalStep, S!Receive, S!Refuse, S!local
<1> QED
  BY <1>1, <1>2, <1>3, <1>4, <1>5, <1>6, <1>7, <1>8 DEF S!SessionStep

-----------------------------------------------------------------------------
(* The answers *)

\* What the client of a thread is told is no denial, one of a name that is a path, or
\* one for which there is a record of another owner.
HasReason(r, c) ==
    /\ r.to = "download" /\ r.status = S!RESP_PERMISSION_DENIED
    /\ r.name \notin Range(Path)
    => \E doc \in meta : doc.name = r.name /\ doc.owner # c

\* The statuses of protocol.h that a download is answered with.
LEMMA Statuses ==
    /\ S!RESP_PERMISSION_DENIED = 3 /\ S!RESP_SUCCESS = 0
    /\ S!RESP_FILE_NOT_FOUND = 2 /\ S!RESP_ERROR = 4 /\ S!RESP_INVALID_OFFSET = 5
  BY DEF S!RESP_PERMISSION_DENIED, S!RESP_SUCCESS, S!RESP_FILE_NOT_FOUND,
         S!RESP_ERROR, S!RESP_INVALID_OFFSET

\* What Status builds.
LEMMA StatusFields ==
    ASSUME NEW to, NEW n, NEW status
    PROVE  /\ S!Status(to, n, status).to = to
           /\ S!Status(to, n, status).name = n
           /\ S!Status(to, n, status).status = status
  BY DEF S!Status, S!NoReply

\* No answer is no denial.
LEMMA NothingNeedsNoReason == \A c : HasReason(S!NoReply, c)
  BY DEF HasReason, S!NoReply

\* In this composition no send of the server fails.
LEMMA Sent ==
    ASSUME ServerTyped, NEW s \in Session, NEW r, S!Send(s, r)
    PROVE  reply'[s] = r
  BY DEF ServerTyped, S!Send

\* A document of a daemon has no field deleted, so find returns records only.
LEMMA FoundAreRecords ==
    ASSUME NEW n, NEW doc \in S!Matching(n)
    PROVE  doc \in meta /\ doc.name = n
<1>1. FALSE # Absent
  BY FieldAssumption
<1>2. \A f : S!BaseDocument(f).deleted = Absent
  BY DEF S!BaseDocument
<1> QED
  BY <1>1, <1>2 DEF S!Matching, S!Documents

\* Whatever a thread tells its client, a denial has its reason.
LEMMA ThreadAnswers ==
    ASSUME ServerTyped, NEW s \in Session, S!SessionStep(s)
    PROVE  \/ reply'[s] = reply[s] /\ client'[s] = client[s]
           \/ HasReason(reply'[s], client'[s])
<1> USE DEF ServerTyped
<1>1. CASE S!Connect(s) \/ S!Disconnect(s)
  <2>1. reply'[s] = S!NoReply
    BY <1>1 DEF S!Connect, S!Disconnect
  <2> QED
    BY <2>1, NothingNeedsNoReason
<1>2. CASE S!BeginUpload(s)
  <2>1. \/ reply'[s] = S!NoReply
        \/ \E n, status : S!Send(s, S!Status("upload", n, status))
    BY <1>2 DEF S!BeginUpload, S!Refuse
  <2> QED
    BY <2>1, Sent, StatusFields, NothingNeedsNoReason DEF HasReason
<1>3. CASE S!BeginDownload(s)
  <2>1. \/ reply'[s] = S!NoReply
        \/ \E n \in Range(Path) : \E status : S!Send(s, S!Status("download", n, status))
    BY <1>3 DEF S!BeginDownload, S!Refuse
  <2> QED
    BY <2>1, Sent, StatusFields, NothingNeedsNoReason DEF HasReason
<1>4. CASE S!RejectFile(s) \/ S!UploadFails(s) \/ S!FinishUpload(s)
  <2>1. \/ reply'[s] = S!NoReply
        \/ \E n, status : S!Send(s, S!Status("upload", n, status))
    BY <1>4 DEF S!RejectFile, S!UploadFails, S!FinishUpload
  <2> QED
    BY <2>1, Sent, StatusFields, NothingNeedsNoReason DEF HasReason
<1>5. CASE S!FindRecord(s)
  <2>1. UNCHANGED <<client, meta>>
    BY <1>5 DEF S!FindRecord
  <2>2. CASE \E n : S!Send(s, S!Status("download", n, S!RESP_FILE_NOT_FOUND))
    BY <2>2, Sent, StatusFields, Statuses DEF HasReason
  <2>3. ASSUME NEW n, NEW doc \in S!Matching(n), ~S!MayDownload(doc, client[s]),
               S!Send(s, S!Status("download", n, S!RESP_PERMISSION_DENIED))
        PROVE  HasReason(reply'[s], client'[s])
    <3>1. doc \in meta /\ doc.name = n /\ doc.owner # client'[s]
      BY <2>1, <2>3, FoundAreRecords DEF S!MayDownload
    <3> QED
      BY <2>3, <3>1, Sent, StatusFields DEF HasReason
  <2> QED
    BY <1>5, <2>1, <2>2, <2>3 DEF S!FindRecord
<1>6. CASE S!StatFile(s) \/ S!ReadBlock(s) \/ S!DownloadFails(s)
  <2>1. \/ UNCHANGED <<reply, client>>
        \/ \E n : \/ S!Send(s, S!Status("download", n, S!RESP_FILE_NOT_FOUND))
                  \/ S!Send(s, S!Status("download", n, S!RESP_ERROR))
                  \/ S!Send(s, S!Status("download", n, S!RESP_INVALID_OFFSET))
    BY <1>6 DEF S!StatFile, S!ReadBlock, S!DownloadFails
  <2> QED
    BY <2>1, Sent, StatusFields, Statuses DEF HasReason
<1>7. CASE S!DecryptAndSend(s)
  <2> DEFINE r(n, x, o) == [S!NoReply EXCEPT !.to = "download", !.name = n,
                                             !.content = x, !.from = o]
  <2>1. \/ \E n, x, o : S!Send(s, r(n, x, o))
        \/ \E n : S!Send(s, S!Status("download", n, S!RESP_ERROR))
    BY <1>7 DEF S!DecryptAndSend
  <2>2. \A n, x, o : r(n, x, o).status = S!RESP_SUCCESS
    BY DEF S!NoReply
  <2> HIDE DEF r
  <2> QED
    BY <2>1, <2>2, Sent, StatusFields, Statuses DEF HasReason
<1>8. CASE S!List(s) \/ S!UnknownCommand(s)
  <2> DEFINE r(x) == [S!NoReply EXCEPT !.to = "list", !.listed = x]
  <2>1. \/ \E x : S!Send(s, r(x))
        \/ \E n, status : S!Send(s, S!Status("unknown", n, status))
    BY <1>8 DEF S!List, S!UnknownCommand, S!Refuse
  <2>2. \A x : r(x).to = "list"
    BY DEF S!NoReply
  <2> HIDE DEF r
  <2> QED
    BY <2>1, <2>2, Sent, StatusFields DEF HasReason
<1>9. CASE \/ S!ReceiveFile(s) \/ S!EncryptFile(s) \/ S!OpenFile(s) \/ S!WriteBlock(s)
           \/ S!InsertRecord(s) \/ S!FinishDownload(s) \/ S!JournalStep(s)
  BY <1>9 DEF S!ReceiveFile, S!EncryptFile, S!OpenFile, S!WriteBlock, S!InsertRecord,
     S!FinishDownload, S!JournalStep
<1> QED
  BY <1>1, <1>2, <1>3, <1>4, <1>5, <1>6, <1>7, <1>8, <1>9 DEF S!SessionStep

-----------------------------------------------------------------------------
(* The watch *)

\* Every name has its path among the paths.
LEMMA PathsInRange == \A n \in Name : Path[n] \in Range(Path)
  BY PathAssumption DEF Range

\* The events of the names in the directory.
LEMMA EventOfName ==
    ASSUME NEW n \in files
    PROVE  [name |-> Path[n], mask |-> "IN_CLOSE_WRITE"] \in Event
  BY DEF Event

\* More files, more events.
LEMMA EventsGrow ==
    ASSUME files \subseteq files'
    PROVE  Event \subseteq Event'
  BY DEF Event, D!Overflow

\* What is on its way, or written down, is not lost.
LEMMA OnItsWayIsNoticed ==
    ASSUME NEW d \in Daemon, NoticedBy(d), NEW n \in Name, Alert(d), ClosedSince(d, n)
    PROVE  Underway(d, n) \/ Recorded(n, Versions(n))
  BY DEF NoticedBy, OnItsWay, Underway

\* A step that leaves the watch of daemon d, its place in append_proc_event and what it
\* has written alone.
LEMMA NoticedKept ==
    ASSUME NEW d \in Daemon, NoticedBy(d), PathsKept, Untouched(d),
           UNCHANGED <<last, happened>>, Alert(d)' => Alert(d),
           queue'[d] = queue[d], batch'[d] = batch[d]
    PROVE  NoticedBy(d)'
<1> SUFFICES ASSUME NEW n \in Name, Alert(d)', ClosedSince(d, n)'
             PROVE  OnItsWay(d, n)'
  BY DEF NoticedBy
<1>1. OnItsWay(d, n)
  BY DEF NoticedBy, ClosedSince
<1>2. proc'[Path[n]] = proc[Path[n]] /\ Versions(n)' = Versions(n)
  BY PathsInRange DEF PathsKept, Versions
<1>3. Recorded(n, Versions(n)) => Recorded(n, Versions(n))'
  BY <1>2 DEF Recorded
<1> QED
  BY <1>1, <1>2, <1>3 DEF OnItsWay, Untouched

\* What an event does to a queue: it stays, grows, and holds the event unless it was
\* full.
LEMMA QueueTakes ==
    ASSUME NEW q \in Seq(Event), NEW e \in Event
    PROVE  /\ D!Queued(q, e) \in Seq(Event)
           /\ \A i \in DOMAIN q : i \in DOMAIN D!Queued(q, e) /\ D!Queued(q, e)[i] = q[i]
           /\ ~D!Full(q) => \E i \in DOMAIN D!Queued(q, e) : D!Queued(q, e)[i] = e
<1> DEFINE x == D!Queueing(q, e)
<1>1. x \in Event /\ (~D!Full(q) => x = e)
  BY DEF D!Queueing, Event
<1>2. CASE q # <<>> /\ q[Len(q)] \in {e, x}
  <2>1. D!Queued(q, e) = q
    BY <1>2 DEF D!Queued
  <2>2. Len(q) \in DOMAIN q
    BY <1>2
  <2> QED
    BY <1>1, <1>2, <2>1, <2>2
<1>3. CASE ~(q # <<>> /\ q[Len(q)] \in {e, x})
  <2>1. D!Queued(q, e) = Append(q, x)
    BY <1>3 DEF D!Queued
  <2> HIDE DEF x
  <2>2. /\ Append(q, x) \in Seq(Event) /\ Len(q) + 1 \in DOMAIN Append(q, x)
        /\ Append(q, x)[Len(q) + 1] = x
        /\ \A i \in DOMAIN q : i \in DOMAIN Append(q, x) /\ Append(q, x)[i] = q[i]
    BY <1>1
  <2> QED
    BY <1>1, <2>1, <2>2
<1> QED
  BY <1>2, <1>3

\* A version of a file is closed: every daemon that is alert has the event queued.
LEMMA CloseSeen ==
    ASSUME WatchInv, NEW n \in Name, n \in files, files' = files, D!CloseWrite(Path[n])
    PROVE  DaemonTyped' /\ \A d \in Daemon : NoticedBy(d)'
<1> DEFINE e == [name |-> Path[n], mask |-> "IN_CLOSE_WRITE"]
<1> USE DEF WatchInv
<1>1. /\ last' = [d \in Daemon |-> [last[d] EXCEPT ![Path[n]] = "modified"]]
      /\ happened' = [happened EXCEPT ![Path[n]]["modified"] = @ + 1]
      /\ queue' = [d \in Daemon |-> IF D!Watching(d) THEN D!Queued(queue[d], e)
                                                     ELSE queue[d]]
      /\ overflown' = [d \in Daemon |-> overflown[d] \/ (D!Watching(d) /\ D!Full(queue[d]))]
      /\ UNCHANGED <<batch, watcher, base, proc, at, call, next>>
  BY DEF D!CloseWrite, D!Change, D!KindOf, D!journal
<1>2. Event' = Event /\ e \in Event /\ D!Overflow \in Event
  BY EventOfName DEF Event, D!Overflow
<1> HIDE DEF e
<1>3. \A d \in Daemon :
         /\ D!Queued(queue[d], e) \in Seq(Event)
         /\ \A i \in DOMAIN queue[d] : i \in DOMAIN D!Queued(queue[d], e)
                                       /\ D!Queued(queue[d], e)[i] = queue[d][i]
         /\ ~D!Full(queue[d]) => \E i \in DOMAIN D!Queued(queue[d], e) :
                                     D!Queued(queue[d], e)[i] = e
  <2> TAKE d \in Daemon
  <2>1. PICK q : q = queue[d]
    OBVIOUS
  <2>2. q \in Seq(Event) /\ e \in Event
    BY <1>2, <2>1 DEF DaemonTyped
  <2>3. /\ D!Queued(q, e) \in Seq(Event)
        /\ \A i \in DOMAIN q : i \in DOMAIN D!Queued(q, e) /\ D!Queued(q, e)[i] = q[i]
        /\ ~D!Full(q) => \E i \in DOMAIN D!Queued(q, e) : D!Queued(q, e)[i] = e
    BY <2>2, QueueTakes
  <2> QED
    BY <2>1, <2>3
<1>4. happened' \in [Range(Path) -> [D!Kind -> Nat]]
  BY <1>1, PathsInRange DEF DaemonTyped, D!Kind
<1>5. DaemonTyped'
  <2>1. DOMAIN last' = Daemon /\ \A d \in Daemon : DOMAIN last'[d] = Range(Path)
    BY <1>1 DEF DaemonTyped
  <2>2. /\ DOMAIN watcher' = Daemon /\ DOMAIN overflown' = Daemon
        /\ batch' \in [Daemon -> Seq(Event')]
    BY <1>1, <1>2 DEF DaemonTyped
  <2>3. queue' \in [Daemon -> Seq(Event')]
    BY <1>1, <1>2, <1>3 DEF DaemonTyped
  <2> QED
    BY <1>4, <2>1, <2>2, <2>3 DEF DaemonTyped
<1>6. ASSUME NEW d \in Daemon, NEW m \in Name, Alert(d)', ClosedSince(d, m)'
      PROVE  OnItsWay(d, m)'
  <2>1. Alert(d) /\ D!Watching(d) /\ ~D!Full(queue[d])
    BY <1>1, <1>6 DEF Alert, D!Watching, DaemonTyped
  <2>2. queue'[d] = D!Queued(queue[d], e)
    BY <1>1, <2>1
  <2>3. CASE Path[m] = Path[n]
    <3>1. PICK i \in DOMAIN queue'[d] : queue'[d][i] = e
      BY <1>3, <2>1, <2>2
    <3> QED
      BY <2>3, <3>1 DEF OnItsWay, e
  <2>4. CASE Path[m] # Path[n]
    <3>1. ClosedSince(d, m) /\ Versions(m)' = Versions(m)
      BY <1>1, <1>6, <2>4, PathsInRange DEF ClosedSince, DaemonTyped, Versions
    <3>2. OnItsWay(d, m)
      BY <2>1, <3>1 DEF NoticedBy
    <3>3. CASE \E i \in DOMAIN queue[d] : queue[d][i].name = Path[m]
      BY <1>3, <2>2, <3>3 DEF OnItsWay
    <3>4. Recorded(m, Versions(m)) => Recorded(m, Versions(m))'
      BY <1>1, <3>1 DEF Recorded
    <3> QED
      BY <1>1, <3>1, <3>2, <3>3, <3>4 DEF OnItsWay
  <2> QED
    BY <2>3, <2>4
<1> QED
  BY <1>5, <1>6 DEF NoticedBy

-----------------------------------------------------------------------------
(* The daemons *)

\* Everything a daemon does: its loop, and its start and end.
DaemonMove(d) ==
    \/ D!DaemonStep(d)
    \/ D!Start(d) \/ D!InitializeFails(d) \/ D!Signal(d) \/ D!Shutdown(d) \/ D!Crash(d)

\* A daemon enters append_proc_event, goes on in it, is torn from it, or none of these.
LEMMA DaemonFrame ==
    ASSUME JournalTyped, NEW d \in Daemon, DaemonMove(d)
    PROVE  JournalTyped' /\ base \subseteq base'
<1>1. \/ \E id, kind : D!J!Begin(d, id, kind)
      \/ D!J!Step(d) \/ D!J!Stop({d}) \/ UNCHANGED journal
  BY DEF DaemonMove, journal, D!journal, D!DaemonStep, D!CheckPidFile, D!WritePidFile,
     D!Initialize, D!ReadEvents, D!HandleEvent, D!SkipEvent, D!AppendEvent, D!Start,
     D!InitializeFails, D!Signal, D!Shutdown, D!Crash
<1>2. CASE UNCHANGED journal
  BY <1>2 DEF journal, JournalTyped
<1> QED
  BY <1>1, <1>2, DaemonsJournal

\* read moves events from the queue to the buffer and loses none.
LEMMA ReadNotices ==
    ASSUME DaemonTyped, NEW d \in Daemon, D!ReadEvents(d), NoticedBy(d), files' = files
    PROVE  DaemonTyped' /\ NoticedBy(d)'
<1> PICK q : q = queue[d]
  OBVIOUS
<1>1. q \in Seq(Event)
  BY DEF DaemonTyped
<1>2. PICK n \in 1..Len(q) :
         /\ batch' = [batch EXCEPT ![d] = SubSeq(q, 1, n)]
         /\ queue' = [queue EXCEPT ![d] = SubSeq(q, n + 1, Len(q))]
  BY DEF D!ReadEvents
<1>3. /\ SubSeq(q, 1, n) \in Seq(Event) /\ SubSeq(q, n + 1, Len(q)) \in Seq(Event)
      /\ \A i \in DOMAIN q :
            \/ i \in DOMAIN SubSeq(q, 1, n) /\ SubSeq(q, 1, n)[i] = q[i]
            \/ /\ i - n \in DOMAIN SubSeq(q, n + 1, Len(q))
               /\ SubSeq(q, n + 1, Len(q))[i - n] = q[i]
  BY <1>1
<1>4. /\ batch[d] = <<>> /\ at[d] = "idle"
      /\ UNCHANGED <<last, happened, overflown, watcher, base, proc, at, call, next>>
  BY DEF D!ReadEvents, D!directory, D!journal
<1>5. Event' = Event
  BY DEF Event, D!Overflow
<1>6. DaemonTyped'
  BY <1>2, <1>3, <1>4, <1>5 DEF DaemonTyped
<1>7. batch'[d] = SubSeq(q, 1, n) /\ queue'[d] = SubSeq(q, n + 1, Len(q))
  BY <1>2 DEF DaemonTyped
<1>8. ASSUME NEW m \in Name, OnItsWay(d, m) PROVE OnItsWay(d, m)'
  <2>1. CASE \E i \in DOMAIN q : q[i].name = Path[m]
    <3>1. PICK i \in DOMAIN q : q[i].name = Path[m]
      BY <2>1
    <3> QED
      BY <1>3, <1>7, <3>1 DEF OnItsWay
  <2>2. CASE Recorded(m, Versions(m))
    <3>1. Recorded(m, Versions(m))'
      BY <1>4, <2>2 DEF Recorded, Versions
    <3> QED
      BY <1>4, <3>1 DEF OnItsWay
  <2> QED
    BY <1>4, <1>8, <2>1, <2>2 DEF OnItsWay
<1> QED
  BY <1>4, <1>6, <1>8 DEF NoticedBy, Alert, ClosedSince

\* The name of an event is a file of the directory when it is handled, for nothing in
\* the server removes one; so the event is handed to append_proc_event, and tells of
\* the last version.
LEMMA HandledIsLogged ==
    ASSUME DaemonTyped, NEW e \in Event, NEW n \in Name, e.name = Path[n]
    PROVE  D!Logged(e) /\ Tells(D!EntryOf(e), Versions(n))
<1>1. Path[n] # ""
  BY PathAssumption, PathsInRange
<1>2. e # D!Overflow
  <2>1. D!Overflow.name = ""
    BY DEF D!Overflow
  <2> QED
    BY <1>1, <2>1
<1>3. e.mask = "IN_CLOSE_WRITE" /\ \E m \in files : e.name = Path[m]
  BY <1>2 DEF Event
<1>4. e.name \in Range(Path)
  BY PathsInRange
<1>5. D!Logged(e)
  BY <1>2, <1>3, <1>4 DEF D!Logged
<1>6. D!EntryOf(e) = [type |-> "modified", nth |-> Versions(n)]
  BY <1>3 DEF D!EntryOf, D!KindOf, Versions
<1>7. Versions(n) \in Nat
  BY PathsInRange DEF DaemonTyped, D!Kind, Versions
<1> QED
  BY <1>5, <1>6, <1>7 DEF Tells

\* The next event of the buffer is appended, or is none of an upload.
LEMMA HandleNotices ==
    ASSUME DaemonTyped, JournalTyped, NEW d \in Daemon,
           D!HandleEvent(d) \/ D!SkipEvent(d), NoticedBy(d), files' = files
    PROVE  DaemonTyped' /\ NoticedBy(d)' /\ at'[d] \in {"idle", "base"}
<1> PICK b : b = batch[d]
  OBVIOUS
<1>1. b \in Seq(Event) /\ b # <<>> /\ at[d] = "idle"
  BY DEF DaemonTyped, D!HandleEvent, D!SkipEvent
<1>2. /\ Head(b) = b[1] /\ b[1] \in Event /\ Tail(b) \in Seq(Event)
      /\ \A i \in DOMAIN b : i # 1 => i - 1 \in DOMAIN Tail(b) /\ Tail(b)[i - 1] = b[i]
  BY <1>1
<1>3. /\ batch' = [batch EXCEPT ![d] = Tail(b)]
      /\ UNCHANGED <<last, happened, queue, overflown, watcher, proc>>
  BY DEF D!HandleEvent, D!SkipEvent, D!Advance, D!directory, D!watch, D!journal,
     D!J!Begin
<1>4. Event' = Event
  BY DEF Event, D!Overflow
<1>5. DaemonTyped'
  BY <1>2, <1>3, <1>4 DEF DaemonTyped
<1>6. \/ at'[d] = "base" /\ call'[d] = [id |-> b[1].name, kind |-> D!EntryOf(b[1])]
      \/ at'[d] = "idle" /\ ~D!Logged(b[1])
  BY <1>1, <1>2 DEF D!HandleEvent, D!SkipEvent, D!journal, D!J!Begin, JournalTyped
<1>7. ASSUME NEW n \in Name, OnItsWay(d, n) PROVE OnItsWay(d, n)'
  <2>1. CASE \E i \in DOMAIN queue[d] : queue[d][i].name = Path[n]
    BY <1>3, <2>1 DEF OnItsWay
  <2>2. ASSUME NEW i \in DOMAIN b, b[i].name = Path[n], i # 1
        PROVE  OnItsWay(d, n)'
    BY <1>2, <1>3, <2>2 DEF OnItsWay, DaemonTyped
  <2>3. CASE b[1].name = Path[n]
    <3>1. D!Logged(b[1]) /\ Tells(D!EntryOf(b[1]), Versions(n))
      BY <1>2, <2>3, HandledIsLogged
    <3>2. at'[d] # "idle" /\ call'[d].id = Path[n]
          /\ call'[d].kind = D!EntryOf(b[1]) /\ Versions(n)' = Versions(n)
      BY <1>3, <1>6, <2>3, <3>1 DEF Versions
    <3> QED
      BY <3>1, <3>2 DEF OnItsWay
  <2>4. CASE Recorded(n, Versions(n)) /\ b[1].name # Path[n]
    <3>1. Recorded(n, Versions(n))'
      BY <1>3, <2>4 DEF Recorded, Versions
    <3> QED
      BY <1>6, <2>4, <3>1 DEF OnItsWay
  <2> QED
    BY <1>1, <1>7, <2>1, <2>2, <2>3, <2>4 DEF OnItsWay
<1> QED
  BY <1>3, <1>5, <1>6, <1>7 DEF NoticedBy, Alert, ClosedSince

\* A step of append_proc_event: the event gets further, or into the journal.
LEMMA AppendNotices ==
    ASSUME DaemonTyped, JournalTyped, CallHasBase, NEW d \in Daemon,
           D!AppendEvent(d), NoticedBy(d), files' = files
    PROVE  /\ DaemonTyped' /\ NoticedBy(d)'
           /\ at'[d] \in {"key", "set"} => call'[d].id \in base'
<1>1. D!J!Step(d) /\ UNCHANGED <<last, happened, queue, overflown, batch, watcher>>
  BY DEF D!AppendEvent, D!directory, D!watch
<1>2. Event' = Event
  BY DEF Event, D!Overflow
<1>3. /\ at[d] # "idle"
      /\ \/ at'[d] # "idle" /\ call'[d] = call[d] /\ proc' = proc
         \/ /\ at'[d] = "idle"
            /\ \A f \in DOMAIN proc :
                  /\ f # call[d].id => proc'[f] = proc[f]
                  /\ f = call[d].id => \E i \in DOMAIN proc'[f] :
                                          proc'[f][i].kind = call[d].kind
  BY <1>1, EventGoesOn
<1>4. ASSUME NEW n \in Name, OnItsWay(d, n) PROVE OnItsWay(d, n)'
  <2>1. Path[n] \in DOMAIN proc /\ Versions(n)' = Versions(n)
    BY <1>1, PathsInRange DEF JournalTyped, Versions
  <2>2. CASE call[d].id = Path[n] /\ Tells(call[d].kind, Versions(n))
    <3>1. \/ at'[d] # "idle" /\ call'[d] = call[d]
          \/ /\ at'[d] = "idle"
             /\ \E i \in DOMAIN proc'[Path[n]] : proc'[Path[n]][i].kind = call[d].kind
      BY <1>3, <2>1, <2>2
    <3>2. ASSUME NEW i \in DOMAIN proc'[Path[n]], proc'[Path[n]][i].kind = call[d].kind
          PROVE  Recorded(n, Versions(n))'
      BY <2>1, <2>2, <3>2 DEF Recorded
    <3> QED
      BY <2>1, <2>2, <3>1, <3>2 DEF OnItsWay
  <2>3. CASE call[d].id # Path[n] /\ Recorded(n, Versions(n))
    <3>1. /\ proc'[Path[n]] = proc[Path[n]]
          /\ at'[d] = "idle" \/ call'[d].id # Path[n]
      BY <1>3, <2>1, <2>3
    <3>2. Recorded(n, Versions(n))'
      BY <2>1, <2>3, <3>1 DEF Recorded
    <3> QED
      BY <3>1, <3>2 DEF OnItsWay
  <2>4. CASE \/ \E i \in DOMAIN queue[d] : queue[d][i].name = Path[n]
             \/ \E i \in DOMAIN batch[d] : batch[d][i].name = Path[n]
    BY <1>1, <2>4 DEF OnItsWay
  <2> QED
    BY <1>3, <1>4, <2>2, <2>3, <2>4 DEF OnItsWay
<1>5. DaemonTyped'
  BY <1>1, <1>2 DEF DaemonTyped
<1> QED
  BY <1>1, <1>4, <1>5, EventGoesOn DEF NoticedBy, Alert, ClosedSince

\* The start and the end of a daemon, and its signals: it does not watch afterwards, or
\* begins with nothing closed, or watches as before.
LEMMA LifeNotices ==
    ASSUME DaemonTyped, JournalTyped, CallHasBase, NEW d \in Daemon, NoticedBy(d),
           \/ D!CheckPidFile(d) \/ D!WritePidFile(d) \/ D!Initialize(d) \/ D!Start(d)
           \/ D!InitializeFails(d) \/ D!Signal(d) \/ D!Shutdown(d) \/ D!Crash(d),
           files' = files
    PROVE  /\ DaemonTyped' /\ NoticedBy(d)'
           /\ at'[d] \in {"key", "set"} => call'[d].id \in base'
<1>1. Event' = Event
  BY DEF Event, D!Overflow
<1>2. CASE D!CheckPidFile(d) \/ D!WritePidFile(d) \/ D!Start(d)
  <2>1. /\ UNCHANGED <<last, happened, queue, overflown, batch, base, proc, at, call>>
        /\ DOMAIN watcher' = Daemon /\ watcher'[d] # "loop"
    BY <1>2 DEF D!CheckPidFile, D!WritePidFile, D!Start, D!directory, D!watch,
       D!journal, DaemonTyped
  <2> QED
    BY <1>1, <2>1 DEF DaemonTyped, NoticedBy, Alert, CallHasBase
<1>3. CASE D!Initialize(d)
  <2>1. /\ UNCHANGED <<happened, queue, batch, base, proc, at, call>>
        /\ last' = [last EXCEPT ![d] = [f \in Range(Path) |-> "none"]]
        /\ DOMAIN watcher' = Daemon /\ DOMAIN overflown' = Daemon
    BY <1>3 DEF D!Initialize, D!journal, DaemonTyped
  <2>2. \A n \in Name : ~ClosedSince(d, n)'
    BY <2>1, PathsInRange DEF ClosedSince, DaemonTyped
  <2> QED
    BY <1>1, <2>1, <2>2 DEF DaemonTyped, NoticedBy, CallHasBase
<1>4. CASE D!Signal(d)
  <2>1. /\ UNCHANGED <<last, happened, queue, overflown, batch, base, proc, at, call>>
        /\ DOMAIN watcher' = Daemon /\ watcher[d] = "loop"
    BY <1>4 DEF D!Signal, D!directory, D!watch, D!journal, DaemonTyped
  <2>2. NoticedBy(d)'
    BY <2>1, PathsInRange, NoticedKept DEF Alert, PathsKept, Untouched
  <2> QED
    BY <1>1, <2>1, <2>2 DEF DaemonTyped, CallHasBase
<1>5. CASE D!InitializeFails(d) \/ D!Shutdown(d) \/ D!Crash(d)
  <2>1. /\ UNCHANGED <<last, happened, overflown, base>>
        /\ watcher' = [watcher EXCEPT ![d] = "off"]
        /\ queue' = [queue EXCEPT ![d] = <<>>] /\ batch' = [batch EXCEPT ![d] = <<>>]
    BY <1>5 DEF D!InitializeFails, D!Shutdown, D!Crash, D!Gone, D!directory, D!journal,
       D!J!Stop
  <2>2. DaemonTyped' /\ watcher'[d] # "loop"
    BY <1>1, <2>1 DEF DaemonTyped
  <2>3. UNCHANGED <<at, call>> \/ at'[d] = "idle"
    BY <1>5 DEF D!InitializeFails, D!Shutdown, D!Crash, D!journal, D!J!Stop,
       JournalTyped
  <2> QED
    BY <2>1, <2>2, <2>3 DEF NoticedBy, Alert, CallHasBase
<1> QED
  BY <1>2, <1>3, <1>4, <1>5

\* Whatever the one daemon does, no upload slips by it.
LEMMA DaemonNotices ==
    ASSUME WatchInv, NEW d, Daemon = {d}, DaemonMove(d), files' = files
    PROVE  WatchInv'
<1>1. JournalTyped' /\ d \in Daemon
  BY DaemonFrame DEF WatchInv
<1>2. /\ DaemonTyped' /\ NoticedBy(d)'
      /\ at'[d] \in {"key", "set"} => call'[d].id \in base'
  BY ReadNotices, HandleNotices, AppendNotices, LifeNotices
     DEF DaemonMove, D!DaemonStep, D!ReadEvents, D!journal, CallHasBase, WatchInv
<1> QED
  BY <1>1, <1>2 DEF WatchInv, CallHasBase

-----------------------------------------------------------------------------
(* Every step *)

\* What the denials of the server are justified by.
LEMMA Denials ==
    DenialIsJustified <=> \A s \in Session : HasReason(reply[s], client[s])
  BY DEF DenialIsJustified, S!DenialIsJustified, HasReason

\* Threads and process of the server leave the watches alone.
LEMMA WatchKept ==
    ASSUME WatchInv, JournalTyped', PathsKept, \A d \in Daemon : Untouched(d),
           files \subseteq files',
           UNCHANGED <<last, happened, queue, overflown, batch, watcher>>
    PROVE  WatchInv'
<1> USE DEF WatchInv
<1>1. DaemonTyped'
  BY EventsGrow DEF DaemonTyped
<1>2. CallHasBase'
  BY DEF CallHasBase, PathsKept, Untouched
<1>3. \A d \in Daemon : NoticedBy(d)'
  BY NoticedKept DEF Alert
<1> QED
  BY <1>1, <1>2, <1>3

\* A thread of the server.
LEMMA ThreadServes ==
    ASSUME ServerInv, NEW s \in Session, S!SessionStep(s), UNCHANGED closing
    PROVE  ServerInv' /\ files \subseteq files'
<1> USE DEF ServerInv
<1>1. /\ ServerTyped' /\ \A t \in Session \ {s} : Stays(t)
      /\ files \subseteq files' /\ meta \subseteq meta'
  BY ThreadMoves
<1>2. FilesStored'
  BY <1>1, ThreadFiles DEF FilesStored, Stays
<1>3. \A t \in Session : HasReason(reply'[t], client'[t])
  BY <1>1, Denials, ThreadAnswers DEF Stays
<1>4. DenialIsJustified'
  BY <1>1, <1>3 DEF DenialIsJustified, S!DenialIsJustified, HasReason
<1> QED
  BY <1>1, <1>2, <1>4

\* Its main, and its end.
LEMMA MainServes ==
    ASSUME ServerInv, ServerMainStep \/ ServerExit
    PROVE  ServerInv' /\ files' = files
<1>1. UNCHANGED <<files, meta>>
  BY DEF ServerMainStep, ServerExit, S!CloseDatabase, S!WipeKey, S!Restart, S!Exit
<1>2. CASE ServerMainStep
  <2>1. UNCHANGED <<pc, req, client, reply, files, meta, closing>>
    BY <1>1, <1>2 DEF ServerMainStep, S!CloseDatabase, S!WipeKey, S!Restart, S!local
  <2> QED
    BY <2>1 DEF ServerInv, ServerTyped, FilesStored, DenialIsJustified,
       S!DenialIsJustified
<1>3. CASE ServerExit
  <2>1. /\ pc' = [s \in Session |-> "closed"] /\ reply' = [s \in Session |-> S!NoReply]
        /\ DOMAIN req' = Session /\ DOMAIN client' = Session
    BY <1>3 DEF ServerExit, S!Exit
  <2>2. closing' \subseteq files
    BY <1>3 DEF ServerExit, ServerInv, FilesStored
  <2>3. ServerTyped' /\ FilesStored'
    BY <1>1, <2>1, <2>2 DEF ServerInv, ServerTyped, FilesStored
  <2>4. DenialIsJustified'
    BY <2>1, NothingNeedsNoReason, <1>1 DEF DenialIsJustified, S!DenialIsJustified,
       HasReason
  <2> QED
    BY <1>1, <2>3, <2>4 DEF ServerInv
<1> QED
  BY <1>2, <1>3

\* The journal when the server's main moves or the server dies.
LEMMA MainKeepsWatch ==
    ASSUME WatchInv, files' = files, ServerMainStep \/ ServerExit
    PROVE  WatchInv'
<1>1. UNCHANGED <<last, happened, queue, overflown, batch, watcher>>
  BY DEF ServerMainStep, ServerExit, daemon
<1>2. UNCHANGED journal \/ S!J!Stop(Session)
  BY DEF ServerMainStep, ServerExit, S!CloseDatabase, S!WipeKey, S!Restart, S!Exit,
     S!journal, journal
<1>3. CASE S!J!Stop(Session)
  <2>1. PICK s \in Session : at[s] # "idle"
    BY <1>3 DEF S!J!Stop
  <2>2. call[s].id \in Name
    BY <2>1 DEF WatchInv, JournalTyped
  <2>3. JournalTyped' /\ PathsKept /\ \A d \in Daemon : Untouched(d)
    BY <1>3, <2>2, ThreadsJournal DEF WatchInv
  <2> QED
    BY <1>1, <2>3, WatchKept
<1>4. CASE UNCHANGED journal
  <2>1. JournalTyped' /\ PathsKept /\ \A d \in Daemon : Untouched(d)
    BY <1>4 DEF WatchInv, journal, JournalTyped, PathsKept, Untouched
  <2> QED
    BY <1>1, <2>1, WatchKept
<1> QED
  BY <1>2, <1>3, <1>4

\* A version is closed, by the server or by the kernel after its crash.
LEMMA CloseKept ==
    ASSUME WatchInv, NEW n \in Name, n \in files, files' = files, D!CloseWrite(Path[n])
    PROVE  WatchInv'
<1>1. DaemonTyped' /\ \A d \in Daemon : NoticedBy(d)'
  BY CloseSeen
<1>2. UNCHANGED <<base, proc, at, call>>
  BY DEF D!CloseWrite, D!Change, D!journal
<1> QED
  BY <1>1, <1>2 DEF WatchInv, JournalTyped, CallHasBase

\* What each step of Exchange comes to for the server and its files.
LEMMA ServerKeeps ==
    ASSUME ServerInv, Next
    PROVE  ServerInv' /\ files \subseteq files'
<1>1. ASSUME NEW s \in Session, Open(s) \/ Write(s) \/ Handle(s)
      PROVE  ServerInv' /\ files \subseteq files'
  <2>1. S!SessionStep(s) /\ UNCHANGED closing
    BY <1>1 DEF Open, Write, Handle, S!SessionStep
  <2> QED
    BY <2>1, ThreadServes
<1>2. CASE ServerMainStep \/ ServerExit
  BY <1>2, MainServes
<1>3. ASSUME \/ \E n \in Name : KernelClose(n)
             \/ \E d \in Daemon : DaemonStep(d) \/ DaemonLife(d)
      PROVE  ServerInv' /\ files \subseteq files'
  <2>1. /\ UNCHANGED <<pc, req, client, reply, files, meta>>
        /\ closing' \subseteq closing
    BY <1>3 DEF KernelClose, DaemonStep, DaemonLife, server
  <2> QED
    BY <2>1 DEF ServerInv, ServerTyped, FilesStored, DenialIsJustified,
       S!DenialIsJustified
<1> QED
  BY <1>1, <1>2, <1>3 DEF Next

\* And for the one daemon: a thread, with the watch that sees its fclose; the process of
\* the server; the kernel; the daemon itself.
LEMMA WatchKeeps ==
    ASSUME ServerInv, WatchInv, NEW d, Daemon = {d}, Next
    PROVE  WatchInv'
<1>1. ASSUME NEW s \in Session, Open(s) \/ Write(s) \/ Handle(s)
      PROVE  WatchInv'
  <2>1. S!SessionStep(s) /\ UNCHANGED closing
    BY <1>1 DEF Open, Write, Handle, S!SessionStep
  <2>2. files \subseteq files'
    BY <2>1, ThreadServes
  <2>3. JournalTyped' /\ PathsKept /\ \A c \in Daemon : Untouched(c)
    BY <2>1, ThreadInJournal DEF WatchInv, ServerInv
  <2>4. CASE UNCHANGED <<last, happened, queue, overflown, batch, watcher>>
    BY <2>2, <2>3, <2>4, WatchKept
  <2>5. CASE Write(s) /\ D!CloseWrite(Path[req[s].name])
    <3> PICK n : n = req[s].name
      OBVIOUS
    <3>1. n \in Name /\ n \in files /\ files' = files
      BY <2>5 DEF Write, S!WriteBlock, ServerInv, FilesStored
    <3>2. D!CloseWrite(Path[n])
      BY <2>5 DEF D!CloseWrite, D!Change
    <3> QED
      BY <3>1, <3>2, CloseKept
  <2>6. \/ UNCHANGED <<last, happened, queue, overflown, batch, watcher>>
        \/ Write(s) /\ D!CloseWrite(Path[req[s].name])
    BY <1>1 DEF Open, Write, Handle, daemon, D!Create, D!watch
  <2> QED
    BY <2>4, <2>5, <2>6
<1>2. CASE ServerMainStep \/ ServerExit
  BY <1>2, MainServes, MainKeepsWatch
<1>3. ASSUME NEW n \in Name, KernelClose(n) PROVE WatchInv'
  <2>1. n \in files /\ files' = files /\ D!CloseWrite(Path[n])
    BY <1>3 DEF KernelClose, server, ServerInv, FilesStored
  <2> QED
    BY <2>1, CloseKept
<1>4. CASE DaemonStep(d) \/ DaemonLife(d)
  <2>1. DaemonMove(d) /\ files' = files
    BY <1>4 DEF DaemonStep, DaemonLife, DaemonMove, server
  <2> QED
    BY <2>1, DaemonNotices
<1> QED
  BY <1>1, <1>2, <1>3, <1>4 DEF Next

\* The server before its first connection.
LEMMA ServerBegins == Init => ServerInv
  BY NothingNeedsNoReason
     DEF Init, S!InitServer, ServerInv, ServerTyped, FilesStored, DenialIsJustified,
         S!DenialIsJustified, HasReason

\* The daemons before the first start of one.
LEMMA WatchBegins == Init => WatchInv
  BY DEF Init, D!InitDaemon, WatchInv, JournalTyped, DaemonTyped, CallHasBase,
         NoticedBy, Alert

\* The server's part is inductive by itself.
LEMMA ServerInvariant == Spec => []ServerInv
<1>1. ASSUME ServerInv, UNCHANGED vars PROVE ServerInv'
  BY <1>1 DEF vars, ServerInv, ServerTyped, FilesStored, DenialIsJustified,
     S!DenialIsJustified
<1> QED
  BY <1>1, ServerKeeps, ServerBegins, PTL DEF Spec

\* Whatever the handler threads do at the time, and also when the server dies with the
\* file open, each version that is closed under the eyes of the daemon, not only the
\* first of its name, is in its hands until an entry begun after it is in the journal.
\* (For one daemon: two would lose entries of each other, as MCProcJournal_lost shows.)
THEOREM NoUploadSlipsBy ==
    ASSUME NEW d, Daemon = {d}
    PROVE  Spec => []UploadNoticed
<1>1. ASSUME WatchInv, UNCHANGED vars PROVE WatchInv'
  <2>1. JournalTyped' /\ PathsKept /\ \A c \in Daemon : Untouched(c)
    BY <1>1 DEF vars, WatchInv, JournalTyped, PathsKept, Untouched
  <2>2. files' = files /\ UNCHANGED <<last, happened, queue, overflown, batch, watcher>>
    BY <1>1 DEF vars
  <2> QED
    BY <1>1, <2>1, <2>2, WatchKept
<1>2. ServerInv /\ WatchInv /\ [Next]_vars => WatchInv'
  BY <1>1, WatchKeeps
<1>3. WatchInv => UploadNoticed
  BY OnItsWayIsNoticed DEF WatchInv, UploadNoticed
<1> QED
  BY <1>2, <1>3, ServerInvariant, WatchBegins, PTL DEF Spec

\* Nothing a daemon writes into the collection makes the server deny a download.
THEOREM DaemonsDenyNothing == Spec => []DenialIsJustified
  BY ServerInvariant, PTL DEF ServerInv
===============================================================================
