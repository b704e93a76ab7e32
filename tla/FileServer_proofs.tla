-------------------------- MODULE FileServer_proofs --------------------------
(* The proofs about FileServer: its types, and that a download only ever     *)
(* delivers what the same client uploaded, for any number of threads,        *)
(* clients, files and blocks, with any failures, crashes and restarts.       *)
EXTENDS FileServer, TLAPS, SequenceTheorems

\* The journal's own invariant and its proofs.
JP == INSTANCE ProcJournal_proofs WITH
        Appender <- Session, Process <- {Session}, FileId <- Filename,
        Kind <- Happening, MaxKeys <- MaxRequests

JournalInv == JP!IInv

\* Where a handler thread stands tells what its local variables hold.
Shape ==
    \A s \in Session :
        /\ pc[s] # "closed" => client[s] \in Client
        /\ pc[s] \in {"receive", "encrypt", "open", "write", "upload_event"} =>
              req[s].content \in Content
        /\ pc[s] \in {"open", "write", "upload_event", "stat", "read",
                      "download_event"} => ct[s] \in Ciphertext

\* A thread that reads has the blocks it has counted, of a file that holds the
\* offset it was asked for.
ReadInside ==
    \A s \in Session : pc[s] = "read" =>
        req[s].offset \in 0..size[s] /\ Len(buf[s]) = pos[s]

\* A download that got past the find works for a record of its own client.
FoundOwn ==
    \A s \in Session :
        pc[s] \in {"stat", "read"} =>
            \E doc \in meta : /\ doc.name = req[s].name
                              /\ doc.owner = client[s]
                              /\ doc.ct = ct[s]

Typed == ProcessTypeOK /\ StoreTypeOK /\ SessionTypeOK /\ Shape

Core == Typed /\ JournalInv /\ FoundOwn /\ ServedOwnUpload

Inv == Core /\ ReadInside

-----------------------------------------------------------------------------
(* The journal inside the server *)

\* There are events to write: the journal's own assumption.
LEMMA SomeHappening == Happening # {}
<1>1. PICK c \in Client, x \in Content : TRUE
  BY ContentAssumption
<1>2. [type |-> "upload", owner |-> c, content |-> x] \in Happening
  BY DEF Happening
<1> QED
  BY <1>2

\* The server's calls of append_proc_event, their steps and their end are those
\* of ProcJournal, so its invariant carries over.
LEMMA JournalBegin ==
    ASSUME JournalInv, NEW s \in Session, NEW n \in Filename,
           NEW k \in Happening, J!Begin(s, n, k)
    PROVE  JournalInv'
<1>1. JP!Begin(s, n, k)
  BY DEF J!Begin, JP!Begin
<1> QED
  BY <1>1, JP!BeginIInv, BoundsAssumption, NamesAssumption, SomeHappening DEF JournalInv

\* A step of append_proc_event in the server is one of ProcJournal.
LEMMA JournalSteps ==
    ASSUME NEW s \in Session, J!Step(s)
    PROVE  JP!Step(s)
<1>1. ASSUME J!CreateBaseDocument(s) PROVE JP!CreateBaseDocument(s)
  BY <1>1 DEF J!CreateBaseDocument, JP!CreateBaseDocument, J!Outcomes, JP!Outcomes,
              J!Return, JP!Return, J!NoCall, JP!NoCall, J!Call, JP!Call
<1>2. ASSUME J!GetNextProcKey(s) PROVE JP!GetNextProcKey(s)
  BY <1>2 DEF J!GetNextProcKey, JP!GetNextProcKey, J!MaxKey, JP!MaxKey,
              J!KeysCounted, JP!KeysCounted, J!Return, JP!Return, J!NoCall, JP!NoCall,
              J!Call, JP!Call, J!Max, JP!Max
<1>3. ASSUME J!SetEvent(s) PROVE JP!SetEvent(s)
  BY <1>3 DEF J!SetEvent, JP!SetEvent, J!Outcomes, JP!Outcomes, J!Stored, JP!Stored,
              J!Return, JP!Return, J!NoCall, JP!NoCall, J!Call, JP!Call
<1> QED
  BY <1>1, <1>2, <1>3 DEF J!Step, JP!Step

\* Each keeps the journal's invariant.
LEMMA JournalStepInv ==
    ASSUME JournalInv, NEW s \in Session, J!Step(s)
    PROVE  JournalInv'
<1>1. JP!Step(s)
  BY JournalSteps
<1>2. ASSUME JP!CreateBaseDocument(s) PROVE JournalInv'
  BY <1>2, JP!CreateBaseDocumentIInv, BoundsAssumption, NamesAssumption, SomeHappening DEF JournalInv
<1>3. ASSUME JP!GetNextProcKey(s) PROVE JournalInv'
  BY <1>3, JP!GetNextProcKeyIInv, BoundsAssumption, NamesAssumption, SomeHappening DEF JournalInv
<1>4. ASSUME JP!SetEvent(s) PROVE JournalInv'
  BY <1>4, JP!SetEventIInv, BoundsAssumption, NamesAssumption, SomeHappening DEF JournalInv
<1> QED
  BY <1>1, <1>2, <1>3, <1>4 DEF JP!Step

\* The end of the process in the middle of append_proc_event.
LEMMA JournalStop ==
    ASSUME JournalInv, J!Stop(Session)
    PROVE  JournalInv'
<1>1. JP!Stop(Session)
  BY DEF J!Stop, JP!Stop, J!NoCall, JP!NoCall, J!Call, JP!Call
<1> QED
  BY <1>1, JP!StopIInv, BoundsAssumption, NamesAssumption, SomeHappening DEF JournalInv

\* A step of the server that is none of the journal.
LEMMA JournalUnchanged ==
    ASSUME JournalInv, UNCHANGED journal
    PROVE  JournalInv'
  BY DEF JournalInv, journal, JP!IInv, JP!TypeOK, JP!IsSequence, JP!EventsHaveBase,
         JP!NextKeyInRange

\* The empty collection.
LEMMA JournalInit ==
    ASSUME J!Init
    PROVE  JournalInv
<1>1. JP!Init
  BY DEF J!Init, JP!Init, J!NoCall, JP!NoCall, J!Call, JP!Call
<1> QED
  BY <1>1, JP!InitIInv, BoundsAssumption, NamesAssumption, SomeHappening DEF JournalInv

\* What the server's type invariant says of the journal.
LEMMA JournalTyped ==
    ASSUME JournalInv
    PROVE  J!TypeOK
  BY DEF JournalInv, JP!IInv, JP!TypeOK, J!TypeOK, JP!Call, J!Call, JP!Event, J!Event

-----------------------------------------------------------------------------
(* Values and frames *)

\* The records handler threads keep while they serve nothing.
LEMMA IdleValues ==
    /\ NoRequest \in Request
    /\ NoReply \in Reply
    /\ NoReply.to = "nothing"
    /\ Absent \notin Client /\ Absent \notin Content /\ Absent # TRUE
<1>1. (CHOOSE n \in Filename : TRUE) \in Filename
  BY NamesAssumption
<1>2. NoRequest \in Request
  BY <1>1 DEF NoRequest, Request
<1>3. NoReply \in Reply /\ NoReply.to = "nothing"
  BY DEF NoReply, Reply
<1> QED
  BY <1>2, <1>3, AbsentAssumption

\* A status without a file is a reply; only RESP_SUCCESS is a success.
LEMMA StatusReply ==
    ASSUME NEW to \in {"upload", "download", "unknown"},
           NEW n \in Filename \cup {Absent},
           NEW status \in {RESP_SUCCESS, RESP_FILE_NOT_FOUND, RESP_PERMISSION_DENIED,
                           RESP_ERROR, RESP_INVALID_OFFSET}
    PROVE  /\ Status(to, n, status) \in Reply
           /\ Status(to, n, status).to = to
           /\ Status(to, n, status).status = status
  BY DEF Status, NoReply, Reply

\* The codes of the two pairs of names that share a value.
LEMMA SharedCodes ==
    /\ RESP_INTEGRITY_ERROR = RESP_PERMISSION_DENIED
    /\ RESP_UNKNOWN_COMMAND = RESP_ERROR
    /\ RESP_SUCCESS \notin {RESP_FILE_NOT_FOUND, RESP_PERMISSION_DENIED, RESP_ERROR,
                            RESP_INVALID_OFFSET}
  BY DEF RESP_SUCCESS, RESP_FILE_NOT_FOUND, RESP_PERMISSION_DENIED, RESP_ERROR,
         RESP_INVALID_OFFSET, RESP_INTEGRITY_ERROR, RESP_UNKNOWN_COMMAND

\* A send gives one client the reply or nothing, the others keep theirs.
LEMMA SendFrame ==
    ASSUME SessionTypeOK, NEW s \in Session, NEW r \in Reply, Send(s, r)
    PROVE  /\ reply' \in [Session -> Reply]
           /\ reply'[s] \in {r, NoReply}
           /\ \A t \in Session \ {s} : reply'[t] = reply[t]
  BY IdleValues DEF SessionTypeOK, Send

\* A handler that returns forgets its request and disturbs no other.
LEMMA EndRequestFrame ==
    ASSUME SessionTypeOK, NEW s \in Session, EndRequest(s)
    PROVE  /\ pc' \in [Session -> {"closed", "idle", "receive", "encrypt", "open",
                                   "write", "upload_event", "find", "stat", "read",
                                   "download_event"}]
           /\ req' \in [Session -> Request]
           /\ ct' \in [Session -> Ciphertext \cup {Absent}]
           /\ pos' \in [Session -> Nat] /\ size' \in [Session -> Nat]
           /\ buf' \in [Session -> Seq(Block)]
           /\ pc'[s] = "idle"
           /\ \A t \in Session \ {s} :
                 /\ pc'[t] = pc[t] /\ req'[t] = req[t] /\ ct'[t] = ct[t]
                 /\ pos'[t] = pos[t] /\ size'[t] = size[t] /\ buf'[t] = buf[t]
  BY IdleValues DEF SessionTypeOK, EndRequest

\* Writing a block past or inside a file gives a file.
LEMMA WrittenIsFile ==
    ASSUME NEW b \in Seq(Block), NEW i \in Nat \ {0}, NEW x \in Block
    PROVE  Written(b, i, x) \in Seq(Block)
<1> DEFINE n == IF i > Len(b) THEN i ELSE Len(b)
<1>1. Len(b) \in Nat /\ n \in Nat /\ Hole \in Block
  BY DEF Block
<1>2. \A k \in 1..n : (IF k = i THEN x ELSE IF k <= Len(b) THEN b[k] ELSE Hole) \in Block
  BY <1>1
<1>3. Written(b, i, x) \in [1..n -> Block]
  BY <1>2 DEF Written
<1> QED
  BY <1>1, <1>3, SeqDef

\* The first blocks of a ciphertext make a file of that many blocks.
LEMMA PieceIsFile ==
    ASSUME NEW c \in Ciphertext, NEW k \in Nat
    PROVE  Piece(c, k) \in Seq(Block) /\ Len(Piece(c, k)) = k
<1>1. \A i \in 1..k : [ct |-> c, i |-> i] \in Block
  BY DEF Block
<1>2. Piece(c, k) \in [1..k -> Block]
  BY <1>1 DEF Piece
<1>3. Piece(c, k) \in Seq(Block)
  BY <1>2, SeqDef
<1> QED
  BY <1>3, LenProperties DEF Piece

\* Base documents lack the field deleted, so find returns upload records.
LEMMA MatchingAreRecords ==
    ASSUME NEW n
    PROVE  /\ Matching(n) \subseteq meta
           /\ \A doc \in Matching(n) : doc.name = n
<1>1. FALSE # Absent
  BY AbsentAssumption
<1>2. \A f : BaseDocument(f).deleted = Absent
  BY DEF BaseDocument
<1> QED
  BY <1>1, <1>2 DEF Matching, Documents

\* No record has a public field, so only the owner passes the check.
LEMMA OnlyOwners ==
    ASSUME StoreTypeOK, NEW doc \in meta, NEW c \in Client, MayDownload(doc, c)
    PROVE  doc.owner = c
  BY IdleValues DEF StoreTypeOK, Record, MayDownload

-----------------------------------------------------------------------------
(* What steps of the same shape have in common *)

\* Answers stay justified while records stay and connections keep their client.
LEMMA ServedKept ==
    ASSUME ServedOwnUpload, meta \subseteq meta',
           \A t \in Session :
              \/ reply'[t] = reply[t] /\ client'[t] = client[t]
              \/ reply'[t].to # "download" \/ reply'[t].status # RESP_SUCCESS
    PROVE  ServedOwnUpload'
  BY DEF ServedOwnUpload

\* The same for the downloads under way.
LEMMA FoundKept ==
    ASSUME FoundOwn, meta \subseteq meta',
           \A t \in Session :
              \/ /\ pc'[t] = pc[t] /\ req'[t] = req[t] /\ ct'[t] = ct[t]
                 /\ client'[t] = client[t]
              \/ pc'[t] \notin {"stat", "read"}
    PROVE  FoundOwn'
  BY DEF FoundOwn

\* And for the locals of the threads.
LEMMA ShapeKept ==
    ASSUME Shape,
           \A t \in Session :
              \/ /\ pc'[t] = pc[t] /\ req'[t] = req[t] /\ ct'[t] = ct[t]
                 /\ client'[t] = client[t]
              \/ pc'[t] = "closed"
              \/ pc'[t] = "idle" /\ client'[t] \in Client
    PROVE  Shape'
  BY DEF Shape

\* A handler ends its request with a status that is no successful download.
LEMMA EndsRequest ==
    ASSUME SessionTypeOK, Shape, FoundOwn, ServedOwnUpload,
           NEW s \in Session, pc[s] # "closed", EndRequest(s),
           reply' \in [Session -> Reply],
           reply'[s].to # "download" \/ reply'[s].status # RESP_SUCCESS,
           \A t \in Session \ {s} : reply'[t] = reply[t],
           UNCHANGED client, meta \subseteq meta'
    PROVE  SessionTypeOK' /\ Shape' /\ FoundOwn' /\ ServedOwnUpload'
<1>1. SessionTypeOK'
  BY EndRequestFrame DEF SessionTypeOK
<1>2. client[s] \in Client
  BY DEF Shape
<1>3. Shape'
  BY <1>2, EndRequestFrame, ShapeKept
<1>4. FoundOwn'
  BY EndRequestFrame, FoundKept
<1>5. ServedOwnUpload'
  BY ServedKept
<1> QED
  BY <1>1, <1>3, <1>4, <1>5

\* The form most failures take.
LEMMA EndsWithStatus ==
    ASSUME SessionTypeOK, Shape, FoundOwn, ServedOwnUpload,
           NEW s \in Session, pc[s] # "closed", EndRequest(s),
           NEW to \in {"upload", "download"}, NEW n \in Filename,
           NEW status \in {RESP_SUCCESS, RESP_FILE_NOT_FOUND, RESP_PERMISSION_DENIED,
                           RESP_ERROR, RESP_INVALID_OFFSET},
           to = "upload" \/ status # RESP_SUCCESS,
           Send(s, Status(to, n, status)),
           UNCHANGED client, meta \subseteq meta'
    PROVE  SessionTypeOK' /\ Shape' /\ FoundOwn' /\ ServedOwnUpload'
<1>1. /\ Status(to, n, status) \in Reply
      /\ Status(to, n, status).to = to
      /\ Status(to, n, status).status = status
  BY StatusReply
<1>2. /\ reply' \in [Session -> Reply]
      /\ reply'[s].to # "download" \/ reply'[s].status # RESP_SUCCESS
      /\ \A t \in Session \ {s} : reply'[t] = reply[t]
  BY <1>1, SendFrame, IdleValues
<1> QED
  BY <1>2, EndsRequest

\* A refused request leaves the handler where it was.
LEMMA Refused ==
    ASSUME SessionTypeOK, Shape, FoundOwn, ServedOwnUpload, NEW s \in Session,
           NEW to \in {"upload", "download", "unknown"},
           NEW n \in Filename \cup {Absent},
           NEW status \in {RESP_PERMISSION_DENIED, RESP_ERROR},
           Refuse(s, to, n, status),
           UNCHANGED <<client, meta>>
    PROVE  SessionTypeOK' /\ Shape' /\ FoundOwn' /\ ServedOwnUpload'
<1>1. /\ Status(to, n, status) \in Reply
      /\ Status(to, n, status).status # RESP_SUCCESS
  BY StatusReply, SharedCodes
<1>2. /\ reply' \in [Session -> Reply]
      /\ reply'[s].to # "download" \/ reply'[s].status # RESP_SUCCESS
      /\ \A t \in Session \ {s} : reply'[t] = reply[t]
      /\ UNCHANGED <<pc, req, ct, pos, size, buf>>
  BY <1>1, SendFrame, IdleValues DEF Refuse, local
<1>3. SessionTypeOK'
  BY <1>2 DEF SessionTypeOK
<1> QED
  BY <1>2, <1>3, ShapeKept, FoundKept, ServedKept

-----------------------------------------------------------------------------
(* One lemma per action: connections and uploads *)

\* A new connection has a client and no answer yet.
LEMMA ConnectInv ==
    ASSUME Inv, NEW s \in Session, Connect(s) PROVE Core'
<1> USE DEF Inv, Core, Typed
<1>1. PICK c \in Client : client' = [client EXCEPT ![s] = c]
  BY DEF Connect
<1>2. /\ pc' = [pc EXCEPT ![s] = "idle"] /\ reply' = [reply EXCEPT ![s] = NoReply]
      /\ UNCHANGED <<req, ct, meta, journal>>
  BY DEF Connect, local
<1>3. ProcessTypeOK' /\ StoreTypeOK'
  BY DEF ProcessTypeOK, StoreTypeOK, Connect, process
<1>4. SessionTypeOK'
  BY <1>1, <1>2, IdleValues DEF SessionTypeOK, Connect, local
<1>5. Shape' /\ FoundOwn'
  BY <1>1, <1>2, ShapeKept, FoundKept DEF SessionTypeOK
<1>6. ServedOwnUpload'
  BY <1>1, <1>2, ServedKept, IdleValues DEF SessionTypeOK
<1>7. JournalInv'
  BY <1>2, JournalUnchanged
<1> QED
  BY <1>3, <1>4, <1>5, <1>6, <1>7

\* A closed connection has no client and no answer.
LEMMA DisconnectInv ==
    ASSUME Inv, NEW s \in Session, Disconnect(s) PROVE Core'
<1> USE DEF Inv, Core, Typed
<1>1. /\ pc' = [pc EXCEPT ![s] = "closed"] /\ reply' = [reply EXCEPT ![s] = NoReply]
      /\ client' = [client EXCEPT ![s] = Absent]
      /\ UNCHANGED <<req, ct, meta, journal>>
  BY DEF Disconnect, local
<1>2. ProcessTypeOK' /\ StoreTypeOK'
  BY DEF ProcessTypeOK, StoreTypeOK, Disconnect, process
<1>3. SessionTypeOK'
  BY <1>1, IdleValues DEF SessionTypeOK, Disconnect, local
<1>4. Shape' /\ FoundOwn'
  BY <1>1, ShapeKept, FoundKept DEF SessionTypeOK
<1>5. ServedOwnUpload'
  BY <1>1, ServedKept, IdleValues DEF SessionTypeOK
<1>6. JournalInv'
  BY <1>1, JournalUnchanged
<1> QED
  BY <1>2, <1>3, <1>4, <1>5, <1>6

\* What every received request leaves alone.
LEMMA ReceiveFrame ==
    ASSUME Inv, NEW s \in Session, Receive(s)
    PROVE  /\ ProcessTypeOK' /\ StoreTypeOK' /\ JournalInv'
           /\ UNCHANGED <<client, meta>> /\ pc[s] = "idle"
  BY JournalUnchanged DEF Inv, Core, Typed, ProcessTypeOK, StoreTypeOK, Receive, process

\* An upload is refused, or its handler waits for the body with a content to come.
LEMMA BeginUploadInv ==
    ASSUME Inv, NEW s \in Session, BeginUpload(s) PROVE Core'
<1> USE DEF Inv, Core, Typed
<1>1. /\ ProcessTypeOK' /\ StoreTypeOK' /\ JournalInv'
      /\ UNCHANGED <<client, meta>> /\ pc[s] = "idle"
  BY ReceiveFrame DEF BeginUpload
<1>2. ASSUME NEW n \in Filename, NEW status \in {RESP_PERMISSION_DENIED, RESP_ERROR},
             Refuse(s, "upload", n, status)
      PROVE  Core'
  BY <1>1, <1>2, Refused
<1>3. ASSUME NEW n \in Filename, NEW x \in Content, NEW intact \in BOOLEAN,
             reply' = [reply EXCEPT ![s] = NoReply],
             pc' = [pc EXCEPT ![s] = "receive"],
             req' = [req EXCEPT ![s] = [name |-> n, content |-> x,
                                        intact |-> intact, offset |-> 0]],
             UNCHANGED <<ct, pos, size, buf>>
      PROVE  Core'
  <2>1. [name |-> n, content |-> x, intact |-> intact, offset |-> 0] \in Request
    BY DEF Request
  <2>2. SessionTypeOK'
    BY <1>1, <1>3, <2>1, IdleValues DEF SessionTypeOK
  <2>3. Shape'
    BY <1>1, <1>3, <2>1 DEF SessionTypeOK, Shape
  <2>4. FoundOwn'
    BY <1>1, <1>3, FoundKept DEF SessionTypeOK
  <2>5. ServedOwnUpload'
    BY <1>1, <1>3, ServedKept, IdleValues DEF SessionTypeOK
  <2> QED
    BY <1>1, <2>2, <2>3, <2>4, <2>5
<1>4. ASSUME reply' = [reply EXCEPT ![s] = NoReply], UNCHANGED <<pc, local>>
      PROVE  Core'
  <2>1. SessionTypeOK'
    BY <1>1, <1>4, IdleValues DEF SessionTypeOK, local
  <2>2. Shape' /\ FoundOwn'
    BY <1>1, <1>4, ShapeKept, FoundKept DEF local
  <2>3. ServedOwnUpload'
    BY <1>1, <1>4, ServedKept, IdleValues DEF SessionTypeOK
  <2> QED
    BY <1>1, <2>1, <2>2, <2>3
<1>5. ASSUME NEW n \in Filename, Send(s, Status("upload", n, RESP_ERROR)),
             UNCHANGED <<pc, local>>
      PROVE  Core'
  BY <1>2, <1>5 DEF Refuse
<1> QED
  BY <1>2, <1>3, <1>4, <1>5 DEF BeginUpload

\* A received body changes nothing but the place of the handler.
LEMMA ReceiveFileInv ==
    ASSUME Inv, NEW s \in Session, ReceiveFile(s) PROVE Core'
<1> USE DEF Inv, Core, Typed
<1>1. /\ pc[s] = "receive" /\ pc' = [pc EXCEPT ![s] = "encrypt"]
      /\ UNCHANGED <<client, req, ct, pos, size, buf, meta, reply, journal>>
  BY DEF ReceiveFile, local
<1>2. ProcessTypeOK' /\ StoreTypeOK'
  BY DEF ProcessTypeOK, StoreTypeOK, ReceiveFile, process
<1>3. SessionTypeOK' /\ Shape'
  BY <1>1 DEF SessionTypeOK, Shape
<1>4. FoundOwn' /\ ServedOwnUpload' /\ JournalInv'
  BY <1>1, FoundKept, ServedKept, JournalUnchanged DEF SessionTypeOK
<1> QED
  BY <1>2, <1>3, <1>4

\* A body that is broken off or fails the hash ends the request.
LEMMA RejectFileInv ==
    ASSUME Inv, NEW s \in Session, RejectFile(s) PROVE Core'
<1> USE DEF Inv, Core, Typed
<1>1. /\ pc[s] = "receive" /\ EndRequest(s) /\ UNCHANGED <<client, meta, journal>>
      /\ req[s].name \in Filename
  BY DEF RejectFile, SessionTypeOK, Request
<1>2. ProcessTypeOK' /\ StoreTypeOK'
  BY DEF ProcessTypeOK, StoreTypeOK, RejectFile, process
<1>3. CASE Send(s, Status("upload", req[s].name, RESP_INTEGRITY_ERROR))
  BY <1>1, <1>2, <1>3, SharedCodes, EndsWithStatus, JournalUnchanged
<1>4. CASE reply' = [reply EXCEPT ![s] = NoReply]
  <2>1. /\ reply' \in [Session -> Reply] /\ reply'[s].to # "download"
        /\ \A t \in Session \ {s} : reply'[t] = reply[t]
    BY <1>4, IdleValues DEF SessionTypeOK
  <2> QED
    BY <1>1, <1>2, <2>1, EndsRequest, JournalUnchanged
<1> QED
  BY <1>3, <1>4 DEF RejectFile

\* The handler holds a ciphertext of its content from here on.
LEMMA EncryptFileInv ==
    ASSUME Inv, NEW s \in Session, EncryptFile(s) PROVE Core'
<1> USE DEF Inv, Core, Typed
<1> DEFINE c == [key |-> key, iv |-> ivs + 1, content |-> req[s].content]
<1>1. /\ pc[s] = "encrypt" /\ pc' = [pc EXCEPT ![s] = "open"]
      /\ ct' = [ct EXCEPT ![s] = c] /\ ivs' = ivs + 1
      /\ UNCHANGED <<client, req, pos, size, buf, meta, reply, journal>>
  BY DEF EncryptFile
<1>2. c \in Ciphertext
  BY <1>1 DEF ProcessTypeOK, Shape, Ciphertext
<1>3. ProcessTypeOK' /\ StoreTypeOK'
  BY DEF ProcessTypeOK, StoreTypeOK, EncryptFile, process
<1> HIDE DEF c
<1>4. SessionTypeOK' /\ Shape'
  BY <1>1, <1>2 DEF SessionTypeOK, Shape
<1>5. FoundOwn' /\ ServedOwnUpload' /\ JournalInv'
  BY <1>1, FoundKept, ServedKept, JournalUnchanged DEF SessionTypeOK
<1> QED
  BY <1>3, <1>4, <1>5

\* Truncating a file disturbs no invariant: downloads rest on records, not on
\* what is on the disk.
LEMMA OpenFileInv ==
    ASSUME Inv, NEW s \in Session, OpenFile(s) PROVE Core'
<1> USE DEF Inv, Core, Typed
<1>1. /\ pc[s] = "open" /\ pc' = [pc EXCEPT ![s] = "write"]
      /\ pos' = [pos EXCEPT ![s] = 0]
      /\ UNCHANGED <<client, req, ct, size, buf, meta, reply, acked, journal>>
      /\ NoteOverlap(s)
      /\ files' = files \cup {req[s].name}
      /\ disk' = [disk EXCEPT ![req[s].name] = <<>>]
  BY DEF OpenFile
<1>2. ProcessTypeOK'
  BY DEF ProcessTypeOK, OpenFile, process
<1>3. StoreTypeOK'
  <2>1. req[s].name \in Filename /\ <<>> \in Seq(Block)
    BY DEF SessionTypeOK, Request
  <2>2. overlapped' \in SUBSET Filename
    BY <1>1, <2>1 DEF StoreTypeOK, NoteOverlap
  <2> QED
    BY <1>1, <2>1, <2>2 DEF StoreTypeOK
<1>4. SessionTypeOK' /\ Shape'
  BY <1>1 DEF SessionTypeOK, Shape
<1>5. FoundOwn' /\ ServedOwnUpload' /\ JournalInv'
  BY <1>1, FoundKept, ServedKept, JournalUnchanged DEF SessionTypeOK
<1> QED
  BY <1>2, <1>3, <1>4, <1>5

\* Nor does a block written at any place of a file.
LEMMA WriteBlockInv ==
    ASSUME Inv, NEW s \in Session, WriteBlock(s) PROVE Core'
<1> USE DEF Inv, Core, Typed
<1> DEFINE n == req[s].name
           x == [ct |-> ct[s], i |-> pos[s] + 1]
           w == Written(disk[n], pos[s] + 1, x)
<1>1. /\ pc[s] = "write"
      /\ pos' = [pos EXCEPT ![s] = pos[s] + 1]
      /\ UNCHANGED <<files, client, req, ct, size, buf, meta, reply, acked, overlapped>>
      /\ UNCHANGED <<pc, journal>>
      /\ disk' = [disk EXCEPT ![n] = w] \/ UNCHANGED disk
  BY DEF WriteBlock
<1>2. ProcessTypeOK'
  BY DEF ProcessTypeOK, WriteBlock, process
<1>3. StoreTypeOK'
  <2>1. n \in Filename /\ disk[n] \in Seq(Block) /\ pos[s] \in Nat
    BY DEF SessionTypeOK, StoreTypeOK, Request
  <2>2. x \in Block
    BY <1>1, <2>1 DEF Shape, Block
  <2>3. pos[s] + 1 \in Nat \ {0}
    BY <2>1
  <2>4. w \in Seq(Block)
    <3>1. ASSUME NEW b \in Seq(Block), NEW i \in Nat \ {0}, NEW y \in Block
          PROVE  Written(b, i, y) \in Seq(Block)
      BY <3>1, WrittenIsFile
    <3> HIDE DEF x, n
    <3> QED
      BY <2>1, <2>2, <2>3, <3>1
  <2> HIDE DEF w, n
  <2> QED
    BY <1>1, <2>1, <2>4 DEF StoreTypeOK
<1>4. SessionTypeOK' /\ Shape'
  BY <1>1 DEF SessionTypeOK, Shape
<1>5. FoundOwn' /\ ServedOwnUpload' /\ JournalInv'
  BY <1>1, FoundKept, ServedKept, JournalUnchanged
<1> QED
  BY <1>2, <1>3, <1>4, <1>5

\* The record a handler inserts is a record of its client.
LEMMA RecordTyped ==
    ASSUME Inv, NEW s \in Session, pc[s] = "write"
    PROVE  UploadRecord(s) \in Record
<1>1. client[s] \in Client /\ ct[s] \in Ciphertext /\ req[s].name \in Filename
  BY DEF Inv, Core, Typed, Shape, SessionTypeOK, Request
<1> QED
  BY <1>1 DEF UploadRecord, Record

\* The insert adds a record of the handler's client; all other records stay.
LEMMA InsertRecordInv ==
    ASSUME Inv, NEW s \in Session, InsertRecord(s) PROVE Core'
<1> USE DEF Inv, Core, Typed
<1>1. /\ pc[s] = "write" /\ pc' = [pc EXCEPT ![s] = "upload_event"]
      /\ meta' = meta \cup {UploadRecord(s)}
      /\ J!Begin(s, req[s].name, [type |-> "upload", owner |-> client[s],
                                  content |-> ct[s].content])
      /\ UNCHANGED <<files, disk, acked, overlapped, client, req, ct, pos, size, buf>>
      /\ UNCHANGED reply
  BY DEF InsertRecord, local
<1>2. ProcessTypeOK'
  BY DEF ProcessTypeOK, InsertRecord, process
<1>3. StoreTypeOK'
  BY <1>1, RecordTyped DEF StoreTypeOK
<1>4. SessionTypeOK' /\ Shape'
  BY <1>1 DEF SessionTypeOK, Shape
<1>5. FoundOwn' /\ ServedOwnUpload'
  BY <1>1, FoundKept, ServedKept DEF SessionTypeOK
<1>6. JournalInv'
  <2>1. req[s].name \in Filename
    BY DEF SessionTypeOK, Request
  <2>2. [type |-> "upload", owner |-> client[s], content |-> ct[s].content] \in Happening
    BY <1>1 DEF Shape, Ciphertext, Happening
  <2> QED
    BY <1>1, <2>1, <2>2, JournalBegin
<1> QED
  BY <1>2, <1>3, <1>4, <1>5, <1>6

\* A failed upload ends the request, with or without its record.
LEMMA UploadFailsInv ==
    ASSUME Inv, NEW s \in Session, UploadFails(s) PROVE Core'
<1> USE DEF Inv, Core, Typed
<1>1. /\ pc[s] # "closed" /\ EndRequest(s) /\ UNCHANGED <<files, disk, acked, client, journal>>
      /\ UNCHANGED overlapped
      /\ Send(s, Status("upload", req[s].name, RESP_ERROR))
      /\ meta' = meta \/ (pc[s] = "write" /\ meta' = meta \cup {UploadRecord(s)})
  BY DEF UploadFails
<1>2. ProcessTypeOK'
  BY DEF ProcessTypeOK, UploadFails, process
<1>3. StoreTypeOK'
  BY <1>1, RecordTyped DEF StoreTypeOK
<1>4. req[s].name \in Filename
  BY DEF SessionTypeOK, Request
<1>5. SessionTypeOK' /\ Shape' /\ FoundOwn' /\ ServedOwnUpload'
  BY <1>1, <1>4, EndsWithStatus
<1> QED
  BY <1>1, <1>2, <1>3, <1>5, JournalUnchanged

\* The answer to an upload is no answer to a download.
LEMMA FinishUploadInv ==
    ASSUME Inv, NEW s \in Session, FinishUpload(s) PROVE Core'
<1> USE DEF Inv, Core, Typed
<1> DEFINE u == [client |-> client[s], name |-> req[s].name,
                 content |-> req[s].content]
<1>1. /\ pc[s] = "upload_event" /\ EndRequest(s)
      /\ UNCHANGED <<files, disk, meta, client, overlapped, journal>>
      /\ Send(s, Status("upload", req[s].name, RESP_SUCCESS))
      /\ acked' = acked \cup {u}
  BY DEF FinishUpload
<1>2. ProcessTypeOK'
  BY DEF ProcessTypeOK, FinishUpload, process
<1>3. req[s].name \in Filename /\ client[s] \in Client /\ req[s].content \in Content
  BY <1>1 DEF SessionTypeOK, Request, Shape
<1>4. StoreTypeOK'
  BY <1>1, <1>3 DEF StoreTypeOK
<1>5. SessionTypeOK' /\ Shape' /\ FoundOwn' /\ ServedOwnUpload'
  BY <1>1, <1>3, EndsWithStatus
<1> QED
  BY <1>1, <1>2, <1>4, <1>5, JournalUnchanged

-----------------------------------------------------------------------------
(* Downloads *)

\* A download is refused, or its handler goes on with a name and an offset.
LEMMA BeginDownloadInv ==
    ASSUME Inv, NEW s \in Session, BeginDownload(s) PROVE Core'
<1> USE DEF Inv, Core, Typed
<1>1. /\ ProcessTypeOK' /\ StoreTypeOK' /\ JournalInv'
      /\ UNCHANGED <<client, meta>> /\ pc[s] = "idle"
  BY ReceiveFrame DEF BeginDownload
<1>2. ASSUME NEW n \in Filename, Refuse(s, "download", n, RESP_PERMISSION_DENIED)
      PROVE  Core'
  BY <1>1, <1>2, Refused
<1>3. ASSUME NEW n \in Filename, NEW offset \in Offset,
             reply' = [reply EXCEPT ![s] = NoReply],
             pc' = [pc EXCEPT ![s] = "find"],
             req' = [req EXCEPT ![s] = [NoRequest EXCEPT !.name = n, !.offset = offset]],
             UNCHANGED <<ct, pos, size, buf>>
      PROVE  Core'
  <2>1. [NoRequest EXCEPT !.name = n, !.offset = offset] \in Request
    BY DEF NoRequest, Request
  <2>2. SessionTypeOK'
    BY <1>1, <1>3, <2>1, IdleValues DEF SessionTypeOK
  <2>3. Shape' /\ FoundOwn'
    BY <1>1, <1>3, FoundKept DEF SessionTypeOK, Shape
  <2>4. ServedOwnUpload'
    BY <1>1, <1>3, ServedKept, IdleValues DEF SessionTypeOK
  <2> QED
    BY <1>1, <2>2, <2>3, <2>4
<1> QED
  BY <1>2, <1>3 DEF BeginDownload

\* The check of the owner: what the handler goes on with is its client's own.
LEMMA FindRecordInv ==
    ASSUME Inv, NEW s \in Session, FindRecord(s) PROVE Core'
<1> USE DEF Inv, Core, Typed
<1>1. /\ pc[s] = "find" /\ UNCHANGED <<meta, client, journal>>
      /\ req[s].name \in Filename /\ client[s] \in Client
  BY DEF FindRecord, SessionTypeOK, Request, Shape
<1>2. ProcessTypeOK' /\ StoreTypeOK'
  BY DEF ProcessTypeOK, StoreTypeOK, FindRecord, process
<1>3. ASSUME NEW status \in {RESP_FILE_NOT_FOUND, RESP_PERMISSION_DENIED},
             Send(s, Status("download", req[s].name, status)), EndRequest(s)
      PROVE  Core'
  BY <1>1, <1>2, <1>3, SharedCodes, EndsWithStatus, JournalUnchanged
<1>4. ASSUME NEW doc \in Matching(req[s].name), MayDownload(doc, client[s]),
             ct' = [ct EXCEPT ![s] = doc.ct], pc' = [pc EXCEPT ![s] = "stat"],
             UNCHANGED <<req, pos, size, buf, reply>>
      PROVE  Core'
  <2>1. doc \in meta /\ doc.name = req[s].name /\ doc.ct \in Ciphertext
    BY MatchingAreRecords DEF StoreTypeOK, Record
  <2>2. doc.owner = client[s]
    BY <1>1, <1>4, <2>1, OnlyOwners
  <2>3. SessionTypeOK' /\ Shape'
    BY <1>1, <1>4, <2>1 DEF SessionTypeOK, Shape
  <2>4. FoundOwn'
    BY <1>1, <1>4, <2>1, <2>2 DEF FoundOwn, SessionTypeOK
  <2>5. ServedOwnUpload' /\ JournalInv'
    BY <1>1, <1>4, ServedKept, JournalUnchanged
  <2> QED
    BY <1>2, <2>3, <2>4, <2>5
<1> QED
  BY <1>3, <1>4 DEF FindRecord

\* stat and the check of the offset keep what find has found.
LEMMA StatFileInv ==
    ASSUME Inv, NEW s \in Session, StatFile(s) PROVE Core'
<1> USE DEF Inv, Core, Typed
<1>1. /\ pc[s] = "stat" /\ UNCHANGED <<meta, client, journal>>
      /\ req[s].name \in Filename
  BY DEF StatFile, SessionTypeOK, Request
<1>2. ProcessTypeOK' /\ StoreTypeOK'
  BY DEF ProcessTypeOK, StoreTypeOK, StatFile, process
<1>3. ASSUME NEW status \in {RESP_FILE_NOT_FOUND, RESP_INVALID_OFFSET},
             Send(s, Status("download", req[s].name, status)), EndRequest(s)
      PROVE  Core'
  BY <1>1, <1>2, <1>3, SharedCodes, EndsWithStatus, JournalUnchanged
<1>4. ASSUME size' = [size EXCEPT ![s] = Len(disk[req[s].name])],
             pos' = [pos EXCEPT ![s] = 0], buf' = [buf EXCEPT ![s] = <<>>],
             pc' = [pc EXCEPT ![s] = "read"], UNCHANGED <<req, ct, reply>>
      PROVE  Core'
  <2>1. Len(disk[req[s].name]) \in Nat /\ <<>> \in Seq(Block)
    BY <1>1 DEF StoreTypeOK
  <2>2. SessionTypeOK' /\ Shape'
    BY <1>1, <1>4, <2>1 DEF SessionTypeOK, Shape
  <2>3. FoundOwn'
    BY <1>1, <1>4 DEF FoundOwn, SessionTypeOK
  <2>4. ServedOwnUpload' /\ JournalInv'
    BY <1>1, <1>4, ServedKept, JournalUnchanged
  <2> QED
    BY <1>2, <2>2, <2>3, <2>4
<1> QED
  BY <1>3, <1>4 DEF StatFile

\* So does a block read; what is read is not looked at before the decryption.
LEMMA ReadBlockInv ==
    ASSUME Inv, NEW s \in Session, ReadBlock(s) PROVE Core'
<1> USE DEF Inv, Core, Typed
<1>1. /\ pc[s] = "read" /\ UNCHANGED <<meta, client, journal>>
      /\ req[s].name \in Filename
  BY DEF ReadBlock, SessionTypeOK, Request
<1>2. ProcessTypeOK' /\ StoreTypeOK'
  BY DEF ProcessTypeOK, StoreTypeOK, ReadBlock, process
<1>3. ASSUME Send(s, Status("download", req[s].name, RESP_ERROR)), EndRequest(s)
      PROVE  Core'
  BY <1>1, <1>2, <1>3, SharedCodes, EndsWithStatus, JournalUnchanged
<1>4. ASSUME pos[s] < Len(disk[req[s].name]),
             buf' = [buf EXCEPT ![s] = Append(@, disk[req[s].name][pos[s] + 1])],
             pos' = [pos EXCEPT ![s] = @ + 1],
             UNCHANGED <<pc, req, ct, size, reply>>
      PROVE  Core'
  <2>1. /\ disk[req[s].name] \in Seq(Block) /\ pos[s] \in Nat
        /\ buf[s] \in Seq(Block)
    BY <1>1 DEF StoreTypeOK, SessionTypeOK
  <2>2. disk[req[s].name][pos[s] + 1] \in Block
    BY <1>4, <2>1
  <2>3. Append(buf[s], disk[req[s].name][pos[s] + 1]) \in Seq(Block)
    BY <2>1, <2>2
  <2>4. SessionTypeOK' /\ Shape'
    BY <1>1, <1>4, <2>3 DEF SessionTypeOK, Shape
  <2>5. FoundOwn' /\ ServedOwnUpload' /\ JournalInv'
    BY <1>1, <1>4, FoundKept, ServedKept, JournalUnchanged
  <2> QED
    BY <1>2, <2>4, <2>5
<1> QED
  BY <1>3, <1>4 DEF ReadBlock

\* The tag of a record of the client's own accepts only its own ciphertext, so
\* what is sent is the plaintext of that record.
LEMMA DecryptAndSendInv ==
    ASSUME Inv, NEW s \in Session, DecryptAndSend(s) PROVE Core'
<1> USE DEF Inv, Core, Typed
<1>1. /\ pc[s] = "read" /\ UNCHANGED <<meta, client>>
      /\ req[s].name \in Filename /\ ct[s] \in Ciphertext
  BY DEF DecryptAndSend, SessionTypeOK, Request, Shape
<1>2. ProcessTypeOK' /\ StoreTypeOK'
  BY DEF ProcessTypeOK, StoreTypeOK, DecryptAndSend, process
<1>3. ASSUME Send(s, Status("download", req[s].name, RESP_ERROR)), EndRequest(s),
             UNCHANGED journal
      PROVE  Core'
  BY <1>1, <1>2, <1>3, SharedCodes, EndsWithStatus, JournalUnchanged
<1>4. ASSUME TagAccepts(buf[s], ct[s], key),
             Send(s, [NoReply EXCEPT !.to = "download", !.name = req[s].name,
                                     !.content = Decrypted(buf[s], ct[s], key),
                                     !.from = req[s].offset]),
             pc' = [pc EXCEPT ![s] = "download_event"],
             J!Begin(s, req[s].name, [type |-> "download", owner |-> client[s],
                                      content |-> ct[s].content]),
             UNCHANGED local
      PROVE  Core'
  <2> DEFINE r == [NoReply EXCEPT !.to = "download", !.name = req[s].name,
                                  !.content = Decrypted(buf[s], ct[s], key),
                                  !.from = req[s].offset]
  <2>1. Decrypted(buf[s], ct[s], key) = ct[s].content /\ ct[s].content \in Content
    BY <1>1, <1>4 DEF TagAccepts, Decrypted, Ciphertext
  <2>8. req[s].offset \in Nat /\ req[s].offset <= Blocks[ct[s].content]
    <3>1. /\ buf[s] = Piece(ct[s], Blocks[ct[s].content]) /\ pos[s] = size[s]
          /\ req[s].offset \in 0..size[s] /\ Len(buf[s]) = pos[s]
      BY <1>1, <1>4 DEF TagAccepts, WholeFile, ReadInside, DecryptAndSend
    <3>2. Len(buf[s]) = Blocks[ct[s].content]
      BY <1>1, <2>1, <3>1, PieceIsFile, ContentAssumption
    <3> QED
      BY <3>1, <3>2 DEF SessionTypeOK
  <2>2. /\ r \in Reply /\ r.name = req[s].name /\ r.content = ct[s].content
        /\ r.from = req[s].offset
    BY <1>1, <2>1, <2>8 DEF NoReply, Reply
  <2> HIDE DEF r
  <2>3. /\ reply' \in [Session -> Reply]
        /\ reply'[s] \in {r, NoReply}
        /\ \A t \in Session \ {s} : reply'[t] = reply[t]
    BY <1>4, <2>2, SendFrame DEF r
  <2>4. SessionTypeOK' /\ Shape'
    BY <1>1, <1>4, <2>3 DEF SessionTypeOK, Shape, local
  <2>5. FoundOwn'
    BY <1>1, <1>4, FoundKept DEF SessionTypeOK, local
  <2>6. ServedOwnUpload'
    <3>1. PICK doc \in meta : doc.name = req[s].name /\ doc.owner = client[s]
                              /\ doc.ct = ct[s]
      BY <1>1 DEF FoundOwn
    <3> QED
      BY <1>1, <2>2, <2>3, <2>8, <3>1, IdleValues DEF ServedOwnUpload
  <2>7. JournalInv'
    <3>1. [type |-> "download", owner |-> client[s], content |-> ct[s].content]
             \in Happening
      BY <1>1, <2>1 DEF Shape, Happening
    <3> QED
      BY <1>1, <1>4, <3>1, JournalBegin
  <2> QED
    BY <1>2, <2>4, <2>5, <2>6, <2>7
<1> QED
  BY <1>3, <1>4 DEF DecryptAndSend

\* A failure while reading or decrypting ends the request with an error.
LEMMA DownloadFailsInv ==
    ASSUME Inv, NEW s \in Session, DownloadFails(s) PROVE Core'
<1> USE DEF Inv, Core, Typed
<1>1. /\ pc[s] = "read" /\ UNCHANGED <<meta, client, journal>> /\ EndRequest(s)
      /\ Send(s, Status("download", req[s].name, RESP_ERROR))
      /\ req[s].name \in Filename
  BY DEF DownloadFails, SessionTypeOK, Request
<1>2. ProcessTypeOK' /\ StoreTypeOK'
  BY DEF ProcessTypeOK, StoreTypeOK, DownloadFails, process
<1> QED
  BY <1>1, <1>2, SharedCodes, EndsWithStatus, JournalUnchanged

\* The answer to a download was justified when it was sent, and stays.
LEMMA FinishDownloadInv ==
    ASSUME Inv, NEW s \in Session, FinishDownload(s) PROVE Core'
<1> USE DEF Inv, Core, Typed
<1>1. /\ pc[s] = "download_event" /\ UNCHANGED <<meta, client, reply, journal>>
      /\ EndRequest(s) /\ client[s] \in Client
  BY DEF FinishDownload, Shape
<1>2. ProcessTypeOK' /\ StoreTypeOK'
  BY DEF ProcessTypeOK, StoreTypeOK, FinishDownload, process
<1>3. SessionTypeOK'
  BY <1>1, EndRequestFrame DEF SessionTypeOK
<1>4. Shape' /\ FoundOwn' /\ ServedOwnUpload' /\ JournalInv'
  BY <1>1, EndRequestFrame, ShapeKept, FoundKept, ServedKept, JournalUnchanged
<1> QED
  BY <1>2, <1>3, <1>4

-----------------------------------------------------------------------------
(* The other commands, the journal and the process *)

\* A list of documents is no answer to a download.
LEMMA ListInv ==
    ASSUME Inv, NEW s \in Session, List(s) PROVE Core'
<1> USE DEF Inv, Core, Typed
<1>1. /\ ProcessTypeOK' /\ StoreTypeOK' /\ JournalInv'
      /\ UNCHANGED <<client, meta>> /\ pc[s] = "idle"
  BY ReceiveFrame DEF List
<1>2. PICK shown \in {Documents, {}} :
         Send(s, [NoReply EXCEPT !.to = "list", !.listed = shown])
  BY DEF List, Listed
<1> DEFINE r == [NoReply EXCEPT !.to = "list", !.listed = shown]
<1>3. Documents \subseteq Document
  <2>1. meta \subseteq Document
    BY DEF StoreTypeOK, Record, Document
  <2>2. base \subseteq Filename
    BY JournalTyped DEF J!TypeOK
  <2>3. \A f \in Filename : BaseDocument(f) \in Document
    BY NamesAssumption DEF BaseDocument, Document
  <2> QED
    BY <2>1, <2>2, <2>3 DEF Documents
<1>4. r \in Reply /\ r.to = "list"
  BY <1>2, <1>3 DEF NoReply, Reply
<1> HIDE DEF r
<1>5. /\ reply' \in [Session -> Reply] /\ reply'[s].to # "download"
      /\ \A t \in Session \ {s} : reply'[t] = reply[t]
      /\ UNCHANGED <<pc, req, ct, pos, size, buf>>
  BY <1>2, <1>4, SendFrame, IdleValues DEF List, local, r
<1>6. SessionTypeOK'
  BY <1>1, <1>5 DEF SessionTypeOK
<1> QED
  BY <1>1, <1>5, <1>6, ShapeKept, FoundKept, ServedKept

\* Nor is the answer to an unknown command.
LEMMA UnknownCommandInv ==
    ASSUME Inv, NEW s \in Session, UnknownCommand(s) PROVE Core'
<1> USE DEF Inv, Core, Typed
<1>1. /\ ProcessTypeOK' /\ StoreTypeOK' /\ JournalInv' /\ UNCHANGED <<client, meta>>
  BY ReceiveFrame DEF UnknownCommand
<1>2. Refuse(s, "unknown", Absent, RESP_ERROR)
  BY SharedCodes DEF UnknownCommand
<1> QED
  BY <1>1, <1>2, Refused

\* A step of append_proc_event touches the journal and nothing else.
LEMMA JournalStepKeepsInv ==
    ASSUME Inv, NEW s \in Session, JournalStep(s) PROVE Core'
<1> USE DEF Inv, Core, Typed
<1>1. /\ J!Step(s) /\ UNCHANGED <<meta, pc, client, req, ct, reply>>
  BY DEF JournalStep, local
<1>2. ProcessTypeOK' /\ StoreTypeOK' /\ SessionTypeOK'
  BY DEF ProcessTypeOK, StoreTypeOK, SessionTypeOK, JournalStep, process, local
<1>3. Shape' /\ FoundOwn' /\ ServedOwnUpload' /\ JournalInv'
  BY <1>1, ShapeKept, FoundKept, ServedKept, JournalStepInv
<1> QED
  BY <1>2, <1>3

\* Closing the database, wiping the key and a start leave threads and records
\* alone.
LEMMA ProcessInv ==
    ASSUME Inv, CloseDatabase \/ WipeKey \/ Restart PROVE Core'
<1> USE DEF Inv, Core, Typed
<1>1. UNCHANGED <<files, disk, meta, ivs, requests, pc, client, local, reply, acked,
                  overlapped, journal>>
  BY DEF CloseDatabase, WipeKey, Restart
<1>2. ProcessTypeOK'
  BY <1>1 DEF ProcessTypeOK, CloseDatabase, WipeKey, Restart
<1>3. StoreTypeOK' /\ SessionTypeOK'
  BY <1>1 DEF StoreTypeOK, SessionTypeOK, local
<1>4. Shape' /\ FoundOwn' /\ ServedOwnUpload' /\ JournalInv'
  BY <1>1, ShapeKept, FoundKept, ServedKept, JournalUnchanged DEF local
<1> QED
  BY <1>2, <1>3, <1>4

\* The end of the process closes all connections and keeps the records.
LEMMA ExitInv ==
    ASSUME Inv, Exit PROVE Core'
<1> USE DEF Inv, Core, Typed
<1>1. /\ pc' = [s \in Session |-> "closed"]
      /\ client' = [s \in Session |-> Absent]
      /\ reply' = [s \in Session |-> NoReply]
      /\ UNCHANGED meta
  BY DEF Exit
<1>2. ProcessTypeOK' /\ StoreTypeOK'
  BY DEF ProcessTypeOK, StoreTypeOK, Exit
<1>3. SessionTypeOK'
  BY IdleValues DEF SessionTypeOK, Exit
<1>4. Shape' /\ FoundOwn' /\ ServedOwnUpload'
  BY <1>1, IdleValues DEF Shape, FoundOwn, ServedOwnUpload
<1>5. JournalInv'
  BY JournalStop, JournalUnchanged DEF Exit
<1> QED
  BY <1>2, <1>3, <1>4, <1>5

-----------------------------------------------------------------------------
(* What a thread reads *)

\* Threads that do not read, or stand where they stood, keep what they have read.
LEMMA ReadKept ==
    ASSUME ReadInside,
           \A t \in Session :
              \/ /\ pc'[t] = pc[t] /\ req'[t] = req[t]
                 /\ pos'[t] = pos[t] /\ size'[t] = size[t] /\ buf'[t] = buf[t]
              \/ pc'[t] # "read"
    PROVE  ReadInside'
  BY DEF ReadInside

\* The size is that of the file the offset was checked against, and every block
\* that is read is counted.
LEMMA ReadStep ==
    ASSUME SessionTypeOK, StoreTypeOK, ReadInside, NEW s \in Session, SessionStep(s)
    PROVE  ReadInside'
<1> USE DEF SessionTypeOK
<1>1. ASSUME EndRequest(s) PROVE ReadInside'
  BY <1>1, EndRequestFrame, ReadKept
<1>2. ASSUME UNCHANGED local, pc' = pc \/ \E p \in {"closed", "idle", "encrypt",
                "upload_event", "download_event"} : pc' = [pc EXCEPT ![s] = p]
      PROVE  ReadInside'
  BY <1>2, ReadKept DEF local
<1>3. CASE Connect(s) \/ Disconnect(s) \/ ReceiveFile(s) \/ InsertRecord(s)
           \/ List(s) \/ UnknownCommand(s) \/ JournalStep(s)
  BY <1>2, <1>3 DEF Connect, Disconnect, ReceiveFile, InsertRecord, List,
     UnknownCommand, Refuse, JournalStep
<1>4. CASE RejectFile(s) \/ UploadFails(s) \/ FinishUpload(s) \/ DownloadFails(s)
           \/ FinishDownload(s)
  BY <1>1, <1>4 DEF RejectFile, UploadFails, FinishUpload, DownloadFails, FinishDownload
<1>5. CASE BeginUpload(s) \/ BeginDownload(s)
  <2>1. CASE UNCHANGED local /\ pc' = pc
    BY <1>2, <2>1
  <2>2. ASSUME NEW p \in {"receive", "find"}, NEW r,
               pc' = [pc EXCEPT ![s] = p], req' = [req EXCEPT ![s] = r],
               UNCHANGED <<ct, pos, size, buf>>
        PROVE  ReadInside'
    BY <2>2, ReadKept
  <2> QED
    BY <1>5, <2>1, <2>2 DEF BeginUpload, BeginDownload, Refuse
<1>6. CASE EncryptFile(s) \/ OpenFile(s) \/ WriteBlock(s)
  BY <1>6, ReadKept DEF EncryptFile, OpenFile, WriteBlock
<1>7. CASE FindRecord(s)
  <2>1. CASE pc' = [pc EXCEPT ![s] = "stat"] /\ UNCHANGED <<req, pos, size, buf>>
    BY <2>1, ReadKept
  <2> QED
    BY <1>1, <1>7, <2>1 DEF FindRecord
<1>8. CASE StatFile(s)
  <2>1. ASSUME req[s].offset \in 0..Len(disk[req[s].name]),
               size' = [size EXCEPT ![s] = Len(disk[req[s].name])],
               pos' = [pos EXCEPT ![s] = 0], buf' = [buf EXCEPT ![s] = <<>>],
               pc' = [pc EXCEPT ![s] = "read"], UNCHANGED req
        PROVE  ReadInside'
    BY <2>1 DEF ReadInside
  <2> QED
    BY <1>1, <1>8, <2>1 DEF StatFile
<1>9. CASE ReadBlock(s)
  <2>1. ASSUME NEW b, buf' = [buf EXCEPT ![s] = Append(@, b)],
               pos' = [pos EXCEPT ![s] = @ + 1], UNCHANGED <<pc, req, size>>
        PROVE  ReadInside'
    <3>1. Len(buf'[s]) = Len(buf[s]) + 1 /\ pos'[s] = pos[s] + 1
      BY <2>1
    <3> QED
      BY <2>1, <3>1 DEF ReadInside
  <2> QED
    BY <1>1, <1>9, <2>1 DEF ReadBlock
<1>10. CASE DecryptAndSend(s)
  BY <1>1, <1>2, <1>10 DEF DecryptAndSend
<1> QED
  BY <1>3, <1>4, <1>5, <1>6, <1>7, <1>8, <1>9, <1>10 DEF SessionStep

-----------------------------------------------------------------------------
(* The theorems *)

\* The initial states satisfy the inductive invariant.
LEMMA InitInv == Init => Inv
<1> SUFFICES ASSUME Init PROVE Inv
  OBVIOUS
<1>1. ProcessTypeOK /\ StoreTypeOK /\ SessionTypeOK
  BY IdleValues DEF Init, InitServer, ProcessTypeOK, StoreTypeOK, SessionTypeOK
<1>2. Shape /\ FoundOwn /\ ServedOwnUpload
  BY IdleValues DEF Init, InitServer, Shape, FoundOwn, ServedOwnUpload
<1>3. JournalInv
  BY JournalInit DEF Init
<1> QED
  BY <1>1, <1>2, <1>3 DEF Inv, Core, Typed, ReadInside, Init, InitServer

\* Every step preserves the inductive invariant: one case per action.
LEMMA NextInv == Inv /\ [Next]_vars => Inv'
<1> SUFFICES ASSUME Inv, [Next]_vars PROVE Inv'
  OBVIOUS
<1>1. ASSUME NEW s \in Session, SessionStep(s) PROVE Core'
  BY <1>1, ConnectInv, DisconnectInv, BeginUploadInv, ReceiveFileInv, RejectFileInv,
     EncryptFileInv, OpenFileInv, WriteBlockInv, InsertRecordInv, UploadFailsInv,
     FinishUploadInv, BeginDownloadInv, FindRecordInv, StatFileInv, ReadBlockInv,
     DecryptAndSendInv, DownloadFailsInv, FinishDownloadInv, ListInv,
     UnknownCommandInv, JournalStepKeepsInv
  DEF SessionStep
<1>4. ASSUME NEW s \in Session, SessionStep(s) PROVE ReadInside'
  BY <1>4, ReadStep DEF Inv, Core, Typed
<1>2. CASE CloseDatabase \/ WipeKey \/ Exit \/ Restart
  <2>1. Core'
    BY <1>2, ProcessInv, ExitInv
  <2>2. UNCHANGED <<pc, local>> \/ pc' = [s \in Session |-> "closed"]
    BY <1>2 DEF CloseDatabase, WipeKey, Exit, Restart
  <2>3. ReadInside'
    BY <2>2, ReadKept DEF Inv, local
  <2> QED
    BY <2>1, <2>3 DEF Inv
<1>3. CASE UNCHANGED vars
  <2>1. UNCHANGED <<meta, pc, client, req, ct, reply, journal>>
    BY <1>3 DEF vars, journal
  <2>2. ProcessTypeOK' /\ StoreTypeOK' /\ SessionTypeOK'
    BY <1>3 DEF Inv, Core, Typed, ProcessTypeOK, StoreTypeOK, SessionTypeOK, vars
  <2>3. Shape' /\ FoundOwn' /\ ServedOwnUpload' /\ JournalInv'
    BY <2>1, ShapeKept, FoundKept, ServedKept, JournalUnchanged DEF Inv, Core, Typed
  <2>4. ReadInside'
    BY <1>3, ReadKept DEF Inv, vars
  <2> QED
    BY <2>2, <2>3, <2>4 DEF Inv, Core, Typed
<1> QED
  BY <1>1, <1>2, <1>3, <1>4 DEF Next, Inv

\* The inductive invariant of the server.
THEOREM ServerInvariant == Spec => []Inv
  BY InitInv, NextInv, PTL DEF Spec

\* Every variable of the server keeps its type, for any constants.
THEOREM ServerTypeCorrect == Spec => []TypeOK
<1>1. Inv => TypeOK
  BY JournalTyped DEF Inv, Core, Typed, TypeOK
<1> QED
  BY <1>1, ServerInvariant, PTL

\* handle_download_request never delivers anything but a file that the same client
\* uploaded under the name it asks for, from an offset inside of it to its end.
THEOREM OnlyOwnUploadsServed == Spec => []ServedOwnUpload
  BY ServerInvariant, PTL DEF Inv, Core
=============================================================================
