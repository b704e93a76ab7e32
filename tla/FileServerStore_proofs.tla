----------------------- MODULE FileServerStore_proofs -----------------------
(* Further proofs about FileServer, for the same generality: collection,     *)
(* disk, acknowledgements, journal and key agree; a denied download was      *)
(* denied for a reason; the server implements FileVault and, in its journal, *)
(* ProcMap; no thread overwrites its own events; a file that begins like a   *)
(* recorded version is that version.                                         *)
(*                                                                           *)
(* First what a step does to threads, store, journal and answers, one case   *)
(* per action; the invariants follow from these facts alone.                 *)
EXTENDS FileServer_proofs

-----------------------------------------------------------------------------
(* What a step does *)

\* Thread t stands where it stood, with what it held.
Stays(t) ==
    /\ pc'[t] = pc[t] /\ req'[t] = req[t] /\ ct'[t] = ct[t] /\ client'[t] = client[t]

\* Thread t goes on with the same request for the same client.
GoesOn(t, from, to) ==
    /\ pc[t] = from /\ pc'[t] = to
    /\ req'[t] = req[t] /\ client'[t] = client[t]

\* The ways of a thread through an upload.
ThreadStep(t) ==
    \/ Stays(t)
    \/ pc'[t] \notin {"open", "write", "upload_event"}
    \/ /\ GoesOn(t, "encrypt", "open")
       /\ ct'[t].key = key /\ ct'[t].content = req[t].content
    \/ /\ GoesOn(t, "open", "write")
       /\ ct'[t] = ct[t] /\ req[t].name \in files'
    \/ /\ GoesOn(t, "write", "upload_event")
       /\ ct'[t] = ct[t] /\ UploadRecord(t) \in meta'

\* Files and records are never removed.
LEMMA StoreGrows ==
    ASSUME Next
    PROVE  files \subseteq files' /\ meta \subseteq meta'
<1>1. ASSUME NEW s \in Session, SessionStep(s)
      PROVE  files \subseteq files' /\ meta \subseteq meta'
  BY <1>1 DEF SessionStep, Connect, Disconnect, BeginUpload, ReceiveFile, RejectFile,
     EncryptFile, OpenFile, WriteBlock, InsertRecord, UploadFails, FinishUpload,
     BeginDownload, FindRecord, StatFile, ReadBlock, DecryptAndSend, DownloadFails,
     FinishDownload, List, UnknownCommand, JournalStep, Receive
<1> QED
  BY <1>1 DEF Next, CloseDatabase, WipeKey, Exit, Restart

\* A new record is that of a thread that has written its file, with the database open.
LEMMA NewRecords ==
    ASSUME Next, NEW doc \in meta', doc \notin meta
    PROVE  stage = "up" /\ \E s \in Session : pc[s] = "write" /\ doc = UploadRecord(s)
<1>1. ASSUME NEW s \in Session, SessionStep(s)
      PROVE  stage = "up" /\ pc[s] = "write" /\ doc = UploadRecord(s)
  BY <1>1 DEF SessionStep, Connect, Disconnect, BeginUpload, ReceiveFile, RejectFile,
     EncryptFile, OpenFile, WriteBlock, InsertRecord, UploadFails, FinishUpload,
     BeginDownload, FindRecord, StatFile, ReadBlock, DecryptAndSend, DownloadFails,
     FinishDownload, List, UnknownCommand, JournalStep, Receive
<1> QED
  BY <1>1 DEF Next, CloseDatabase, WipeKey, Exit, Restart

\* An upload is acknowledged by the thread that has come to its last place.
LEMMA NewAcks ==
    ASSUME Next, NEW u \in acked', u \notin acked
    PROVE  \E s \in Session :
              /\ pc[s] = "upload_event"
              /\ u.client = client[s] /\ u.name = req[s].name
              /\ u.content = req[s].content
<1>1. ASSUME NEW s \in Session, SessionStep(s)
      PROVE  /\ pc[s] = "upload_event"
             /\ u = [client |-> client[s], name |-> req[s].name,
                     content |-> req[s].content]
  BY <1>1 DEF SessionStep, Connect, Disconnect, BeginUpload, ReceiveFile, RejectFile,
     EncryptFile, OpenFile, WriteBlock, InsertRecord, UploadFails, FinishUpload,
     BeginDownload, FindRecord, StatFile, ReadBlock, DecryptAndSend, DownloadFails,
     FinishDownload, List, UnknownCommand, JournalStep, Receive
<1> QED
  BY <1>1 DEF Next, CloseDatabase, WipeKey, Exit, Restart

\* A session step leaves the other threads and their answers alone.
LEMMA OthersStay ==
    ASSUME Inv, NEW s \in Session, SessionStep(s), NEW t \in Session \ {s}
    PROVE  Stays(t) /\ reply'[t] = reply[t]
<1>1. SessionTypeOK
  BY DEF Inv, Core, Typed
<1>2. ASSUME NEW r, Send(s, r) PROVE reply'[t] = reply[t]
  BY <1>1, <1>2 DEF SessionTypeOK, Send
<1>3. ASSUME EndRequest(s) PROVE pc'[t] = pc[t] /\ req'[t] = req[t] /\ ct'[t] = ct[t]
  BY <1>1, <1>3, EndRequestFrame
<1> USE <1>1 DEF Stays, SessionTypeOK, local
<1>4. CASE Connect(s) \/ Disconnect(s)
  BY <1>4 DEF Connect, Disconnect
<1>5. CASE BeginUpload(s)
  BY <1>2, <1>5 DEF BeginUpload, Receive, Refuse
<1>6. CASE ReceiveFile(s) \/ EncryptFile(s) \/ OpenFile(s) \/ WriteBlock(s)
  BY <1>6 DEF ReceiveFile, EncryptFile, OpenFile, WriteBlock
<1>7. CASE RejectFile(s) \/ UploadFails(s) \/ FinishUpload(s)
  BY <1>2, <1>3, <1>7 DEF RejectFile, UploadFails, FinishUpload
<1>8. CASE InsertRecord(s) \/ JournalStep(s)
  BY <1>8 DEF InsertRecord, JournalStep
<1>9. CASE BeginDownload(s)
  BY <1>2, <1>9 DEF BeginDownload, Receive, Refuse
<1>10. CASE FindRecord(s)
  BY <1>2, <1>3, <1>10 DEF FindRecord
<1>11. CASE StatFile(s)
  BY <1>2, <1>3, <1>11 DEF StatFile
<1>12. CASE ReadBlock(s)
  BY <1>2, <1>3, <1>12 DEF ReadBlock
<1>13. CASE DecryptAndSend(s)
  BY <1>2, <1>3, <1>13 DEF DecryptAndSend
<1>14. CASE DownloadFails(s) \/ FinishDownload(s)
  BY <1>2, <1>3, <1>14 DEF DownloadFails, FinishDownload
<1>15. CASE List(s) \/ UnknownCommand(s)
  BY <1>2, <1>15 DEF List, UnknownCommand, Receive, Refuse
<1> QED
  BY <1>4, <1>5, <1>6, <1>7, <1>8, <1>9, <1>10, <1>11, <1>12, <1>13, <1>14, <1>15
     DEF SessionStep

\* The thread that takes the step goes one of the ways of ThreadStep.
LEMMA OwnStep ==
    ASSUME Inv, NEW s \in Session, SessionStep(s)
    PROVE  ThreadStep(s)
<1>1. SessionTypeOK
  BY DEF Inv, Core, Typed
<1>2. ASSUME EndRequest(s) PROVE pc'[s] = "idle"
  BY <1>1, <1>2, EndRequestFrame
<1> USE <1>1 DEF ThreadStep, Stays, SessionTypeOK, local
<1>3. CASE Connect(s) \/ Disconnect(s) \/ ReceiveFile(s)
  BY <1>3 DEF Connect, Disconnect, ReceiveFile
<1>4. CASE BeginUpload(s)
  BY <1>4 DEF BeginUpload, Receive, Refuse
<1>5. CASE BeginDownload(s)
  BY <1>5 DEF BeginDownload, Receive, Refuse
<1>6. CASE EncryptFile(s)
  BY <1>6 DEF EncryptFile, GoesOn
<1>7. CASE OpenFile(s) \/ WriteBlock(s)
  BY <1>7 DEF OpenFile, WriteBlock, GoesOn
<1>8. CASE InsertRecord(s) \/ JournalStep(s)
  BY <1>8 DEF InsertRecord, JournalStep, GoesOn
<1>9. CASE RejectFile(s) \/ UploadFails(s) \/ FinishUpload(s)
           \/ DownloadFails(s) \/ FinishDownload(s)
  BY <1>2, <1>9 DEF RejectFile, UploadFails, FinishUpload, DownloadFails, FinishDownload
<1>10. CASE FindRecord(s)
  BY <1>2, <1>10 DEF FindRecord
<1>11. CASE StatFile(s)
  BY <1>2, <1>11 DEF StatFile
<1>12. CASE ReadBlock(s)
  BY <1>2, <1>12 DEF ReadBlock
<1>13. CASE DecryptAndSend(s)
  BY <1>2, <1>13 DEF DecryptAndSend
<1>14. CASE List(s) \/ UnknownCommand(s)
  BY <1>14 DEF List, UnknownCommand, Receive, Refuse
<1> QED
  BY <1>3, <1>4, <1>5, <1>6, <1>7, <1>8, <1>9, <1>10, <1>11, <1>12, <1>13, <1>14
     DEF SessionStep

\* So does every thread in every step.
LEMMA ThreadSteps ==
    ASSUME Inv, Next, NEW t \in Session
    PROVE  ThreadStep(t)
<1>1. ASSUME NEW s \in Session, SessionStep(s) PROVE ThreadStep(t)
  BY <1>1, OwnStep, OthersStay DEF ThreadStep
<1>2. CASE CloseDatabase \/ WipeKey \/ Exit \/ Restart
  BY <1>2 DEF CloseDatabase, WipeKey, Exit, Restart, ThreadStep, Stays, local
<1> QED
  BY <1>1, <1>2 DEF Next

-----------------------------------------------------------------------------
(* Collection, disk and acknowledgements *)

\* The file of a thread that writes is there.
WriterHasFile == \A s \in Session : pc[s] = "write" => req[s].name \in files

\* What a thread stores is what its client has sent.
KeepsContent ==
    \A s \in Session : pc[s] \in {"open", "write"} => ct[s].content = req[s].content

\* A thread that has come to the event of its upload has its record stored.
EventHasRecord ==
    \A s \in Session : pc[s] = "upload_event" =>
        \E doc \in meta : /\ doc.name = req[s].name
                          /\ doc.owner = client[s]
                          /\ doc.ct.content = req[s].content

StoreInv ==
    WriterHasFile /\ KeepsContent /\ EventHasRecord /\ RecordHasFile /\ AckMeansStored

\* There is nothing stored and nobody writing at first.
LEMMA StoreInit == Init => StoreInv
  BY DEF Init, InitServer, StoreInv, WriterHasFile, KeepsContent, EventHasRecord,
         RecordHasFile, AckMeansStored

\* Records, files and acknowledgements come in the order of the upload.
LEMMA StoreNext ==
    ASSUME Inv, StoreInv, Next
    PROVE  StoreInv'
<1> USE DEF StoreInv
<1>1. files \subseteq files' /\ meta \subseteq meta'
  BY StoreGrows
<1>2. \A t \in Session : ThreadStep(t)
  BY ThreadSteps
<1>3. WriterHasFile'
  BY <1>1, <1>2 DEF WriterHasFile, ThreadStep, Stays, GoesOn
<1>4. KeepsContent'
  BY <1>2 DEF KeepsContent, ThreadStep, Stays, GoesOn
<1>5. EventHasRecord'
  <2> SUFFICES ASSUME NEW s \in Session, pc'[s] = "upload_event"
               PROVE  \E doc \in meta' : /\ doc.name = req'[s].name
                                         /\ doc.owner = client'[s]
                                         /\ doc.ct.content = req'[s].content
    BY DEF EventHasRecord
  <2>1. CASE Stays(s)
    BY <1>1, <2>1 DEF EventHasRecord, Stays
  <2>2. CASE GoesOn(s, "write", "upload_event") /\ UploadRecord(s) \in meta'
    <3>1. ct[s].content = req[s].content
      BY <2>2 DEF KeepsContent, GoesOn
    <3>2. /\ UploadRecord(s).name = req'[s].name /\ UploadRecord(s).owner = client'[s]
          /\ UploadRecord(s).ct.content = req'[s].content
      BY <2>2, <3>1 DEF UploadRecord, GoesOn
    <3> QED
      BY <2>2, <3>2
  <2> QED
    BY <1>2, <2>1, <2>2 DEF ThreadStep, GoesOn
<1>6. RecordHasFile'
  <2> SUFFICES ASSUME NEW doc \in meta', doc \notin meta PROVE doc.name \in files'
    BY <1>1 DEF RecordHasFile
  <2>1. PICK s \in Session : pc[s] = "write" /\ doc = UploadRecord(s)
    BY NewRecords
  <2> QED
    BY <1>1, <2>1 DEF WriterHasFile, UploadRecord
<1>7. AckMeansStored'
  <2> SUFFICES ASSUME NEW u \in acked', u \notin acked
               PROVE  \E doc \in meta : /\ doc.name = u.name /\ doc.owner = u.client
                                        /\ doc.ct.content = u.content
    BY <1>1 DEF AckMeansStored
  <2>1. PICK s \in Session : /\ pc[s] = "upload_event"
                             /\ u.client = client[s] /\ u.name = req[s].name
                             /\ u.content = req[s].content
    BY NewAcks
  <2> QED
    BY <2>1 DEF EventHasRecord
<1> QED
  BY <1>3, <1>4, <1>5, <1>6, <1>7

-----------------------------------------------------------------------------
(* The key *)

\* A dead process has no threads.
DownIsQuiet == stage = "down" => \A s \in Session : pc[s] = "closed"

\* While the database is open there is a key, and no thread holds anything that was
\* encrypted without it.
SealedWhileUp ==
    stage = "up" => /\ key # 0
                    /\ \A s \in Session : pc[s] \in {"open", "write"} => ct[s].key # 0

KeyInv == DownIsQuiet /\ SealedWhileUp /\ ZeroKeyNeverRecorded

\* The first start draws a key.
LEMMA KeyInit == Init => KeyInv
  BY DEF Init, InitServer, KeyInv, DownIsQuiet, SealedWhileUp, ZeroKeyNeverRecorded

\* Threads do not change the process, and none begins anything in a dead one.
LEMMA ThreadsLeaveProcess ==
    ASSUME NEW s \in Session, SessionStep(s)
    PROVE  UNCHANGED <<stage, key>> /\ (stage = "down" => pc[s] # "closed")
<1>1. UNCHANGED <<stage, key>>
  BY DEF SessionStep, Connect, Disconnect, BeginUpload, ReceiveFile, RejectFile,
     EncryptFile, OpenFile, WriteBlock, InsertRecord, UploadFails, FinishUpload,
     BeginDownload, FindRecord, StatFile, ReadBlock, DecryptAndSend, DownloadFails,
     FinishDownload, List, UnknownCommand, JournalStep, Receive, process
<1>2. stage = "down" => pc[s] # "closed"
  BY DEF SessionStep, Connect, Disconnect, BeginUpload, ReceiveFile, RejectFile,
     EncryptFile, OpenFile, WriteBlock, InsertRecord, UploadFails, FinishUpload,
     BeginDownload, FindRecord, StatFile, ReadBlock, DecryptAndSend, DownloadFails,
     FinishDownload, List, UnknownCommand, JournalStep, Receive
<1> QED
  BY <1>1, <1>2

\* The database is closed before the key is wiped and opened with a key only.
LEMMA KeyNext ==
    ASSUME Inv, KeyInv, Next
    PROVE  KeyInv'
<1> USE DEF KeyInv
<1>1. ZeroKeyNeverRecorded'
  <2> SUFFICES ASSUME NEW doc \in meta', doc \notin meta PROVE doc.ct.key # 0
    BY DEF ZeroKeyNeverRecorded
  <2>1. stage = "up" /\ \E s \in Session : pc[s] = "write" /\ doc = UploadRecord(s)
    BY NewRecords
  <2> QED
    BY <2>1 DEF SealedWhileUp, UploadRecord
<1>2. ASSUME NEW s \in Session, SessionStep(s)
      PROVE  DownIsQuiet' /\ SealedWhileUp'
  <2>1. UNCHANGED <<stage, key>> /\ (stage = "down" => pc[s] # "closed")
    BY <1>2, ThreadsLeaveProcess
  <2>2. \A t \in Session : ThreadStep(t)
    BY ThreadSteps
  <2>3. DownIsQuiet'
    BY <2>1 DEF DownIsQuiet
  <2>4. SealedWhileUp'
    BY <2>1, <2>2 DEF SealedWhileUp, ThreadStep, Stays, GoesOn
  <2> QED
    BY <2>3, <2>4
<1>3. CASE CloseDatabase \/ WipeKey \/ Exit
  BY <1>1, <1>3 DEF CloseDatabase, WipeKey, Exit, DownIsQuiet, SealedWhileUp
<1>4. CASE Restart
  <2>1. starts + 1 # 0
    BY DEF Inv, Core, Typed, ProcessTypeOK
  <2> QED
    BY <1>1, <1>4, <2>1 DEF Restart, local, DownIsQuiet, SealedWhileUp
<1> QED
  BY <1>1, <1>2, <1>3, <1>4 DEF Next

-----------------------------------------------------------------------------
(* The journal *)

\* Among the records is one of the version event k tells of, under name n.
HasRecord(docs, n, k) ==
    \E doc \in docs : doc.name = n /\ doc.owner = k.owner /\ doc.ct.content = k.content

\* Whoever is in append_proc_event was called for a version with a record.
CallHasRecord ==
    \A s \in Session : at[s] # "idle" => HasRecord(meta, call[s].id, call[s].kind)

BackedInv == CallHasRecord /\ JournalBackedByRecord

\* The journal is empty at first.
LEMMA BackedInit == Init => BackedInv
  BY DEF Init, J!Init, BackedInv, CallHasRecord, JournalBackedByRecord

\* What the journal says stays true while records stay.
LEMMA BackedKept ==
    ASSUME BackedInv, meta \subseteq meta', DOMAIN proc' = Filename,
           \A n \in base' : n \in base \/ \E k : HasRecord(meta, n, k),
           \A t \in Session : at'[t] # "idle" =>
              HasRecord(meta', call'[t].id, call'[t].kind)
                 \/ (at[t] # "idle" /\ call'[t] = call[t]),
           \A f \in Filename : \A i \in DOMAIN proc'[f] :
              HasRecord(meta, f, proc'[f][i].kind)
                 \/ (i \in DOMAIN proc[f] /\ proc'[f][i] = proc[f][i])
    PROVE  BackedInv'
<1>1. \A n, k : HasRecord(meta, n, k) => HasRecord(meta', n, k)
  BY DEF HasRecord
<1>2. CallHasRecord'
  BY <1>1 DEF BackedInv, CallHasRecord
<1>3. \A n \in base' : \E doc \in meta' : doc.name = n
  BY DEF HasRecord, BackedInv, JournalBackedByRecord
<1>4. ASSUME NEW f \in Filename, NEW i \in DOMAIN proc'[f]
      PROVE  HasRecord(meta', f, proc'[f][i].kind)
  <2>1. CASE HasRecord(meta, f, proc'[f][i].kind)
    BY <1>1, <2>1
  <2>2. CASE i \in DOMAIN proc[f] /\ proc'[f][i] = proc[f][i]
    BY <1>1, <1>4, <2>2 DEF HasRecord, BackedInv, JournalBackedByRecord
  <2> QED
    BY <1>4, <2>1, <2>2
<1> QED
  BY <1>2, <1>3, <1>4 DEF BackedInv, JournalBackedByRecord, HasRecord

\* A call of append_proc_event is entered for a version with a record.
LEMMA CallBegins ==
    ASSUME Inv, Next, BackedInv, NEW s \in Session, NEW n, NEW k,
           J!Begin(s, n, k), HasRecord(meta', n, k)
    PROVE  BackedInv'
<1>1. meta \subseteq meta'
  BY StoreGrows
<1>2. J!TypeOK
  BY JournalTyped DEF Inv, Core
<1>3. /\ base' = base /\ proc' = proc /\ at' = [at EXCEPT ![s] = "base"]
      /\ call' = [call EXCEPT ![s] = [id |-> n, kind |-> k]]
  BY DEF J!Begin
<1>4. \A t \in Session : t # s => at'[t] = at[t] /\ call'[t] = call[t]
  BY <1>2, <1>3 DEF J!TypeOK
<1>5. call'[s].id = n /\ call'[s].kind = k
  BY <1>2, <1>3 DEF J!TypeOK
<1>6. HasRecord(meta', call'[s].id, call'[s].kind)
  BY <1>5
<1> QED
  BY <1>1, <1>2, <1>3, <1>4, <1>6, BackedKept DEF J!TypeOK

\* A request of append_proc_event writes for the version it was called for.
LEMMA CallProceeds ==
    ASSUME Inv, Next, BackedInv, NEW s \in Session, J!Step(s)
    PROVE  BackedInv'
<1>1. meta \subseteq meta'
  BY StoreGrows
<1>2. J!TypeOK
  BY JournalTyped DEF Inv, Core
<1>3. \A t \in Session : at'[t] # "idle" => at[t] # "idle" /\ call'[t] = call[t]
  BY <1>2 DEF J!TypeOK, J!Step, J!CreateBaseDocument, J!GetNextProcKey, J!SetEvent,
     J!Return
<1>4. HasRecord(meta, call[s].id, call[s].kind) /\ base' \subseteq base \cup {call[s].id}
  BY DEF J!Step, J!CreateBaseDocument, J!GetNextProcKey, J!SetEvent, BackedInv,
         CallHasRecord
<1>5. DOMAIN proc' = Filename /\
      \A f \in Filename : \A i \in DOMAIN proc'[f] :
         \/ f = call[s].id /\ proc'[f][i].kind = call[s].kind
         \/ i \in DOMAIN proc[f] /\ proc'[f][i] = proc[f][i]
  <2>1. CASE UNCHANGED proc
    BY <1>2, <2>1 DEF J!TypeOK
  <2>2. CASE proc' = [proc EXCEPT ![call[s].id] =
                J!Stored(@, next[s], [by |-> s, kind |-> call[s].kind])]
    BY <1>2, <2>2 DEF J!TypeOK, J!Stored
  <2> QED
    BY <2>1, <2>2 DEF J!Step, J!CreateBaseDocument, J!GetNextProcKey, J!SetEvent
<1> QED
  BY <1>1, <1>3, <1>4, <1>5, BackedKept

\* The journal that stays, or stops, stays backed: records are never removed.
LEMMA CallsKept ==
    ASSUME Inv, Next, BackedInv, UNCHANGED journal \/ J!Stop(Session)
    PROVE  BackedInv'
<1>1. meta \subseteq meta'
  BY StoreGrows
<1>2. J!TypeOK
  BY JournalTyped DEF Inv, Core
<1>3. /\ base' = base /\ proc' = proc
      /\ \A t \in Session : at'[t] # "idle" => at'[t] = at[t] /\ call'[t] = call[t]
  BY <1>2 DEF J!TypeOK, J!Stop, journal
<1> QED
  BY <1>1, <1>2, <1>3, BackedKept DEF J!TypeOK

\* An upload appends after its insert, a download for the record it has found.
LEMMA BackedNext ==
    ASSUME Inv, BackedInv, Next
    PROVE  BackedInv'
<1>1. ASSUME NEW s \in Session, InsertRecord(s) PROVE BackedInv'
  <2>1. PICK n, k : n = req[s].name /\ k = [type |-> "upload", owner |-> client[s],
                                            content |-> ct[s].content]
    OBVIOUS
  <2>2. J!Begin(s, n, k)
    BY <1>1, <2>1 DEF InsertRecord
  <2>3. UploadRecord(s) \in meta' /\ UploadRecord(s).name = n
        /\ UploadRecord(s).owner = k.owner /\ UploadRecord(s).ct.content = k.content
    BY <1>1, <2>1 DEF InsertRecord, UploadRecord
  <2>4. HasRecord(meta', n, k)
    BY <2>3 DEF HasRecord
  <2> QED
    BY <2>2, <2>4, CallBegins
<1>2. ASSUME NEW s \in Session, DecryptAndSend(s) PROVE BackedInv'
  <2>1. PICK n, k : n = req[s].name /\ k = [type |-> "download", owner |-> client[s],
                                            content |-> ct[s].content]
    OBVIOUS
  <2>2. J!Begin(s, n, k) \/ UNCHANGED journal
    BY <1>2, <2>1 DEF DecryptAndSend
  <2>3. PICK doc \in meta' : doc.name = n /\ doc.owner = k.owner
                             /\ doc.ct.content = k.content
    BY <1>2, <2>1, StoreGrows DEF DecryptAndSend, Inv, Core, FoundOwn
  <2>4. HasRecord(meta', n, k)
    BY <2>3 DEF HasRecord
  <2> QED
    BY <2>2, <2>4, CallBegins, CallsKept
<1>3. ASSUME NEW s \in Session, JournalStep(s) PROVE BackedInv'
  BY <1>3, CallProceeds DEF JournalStep
<1>4. ASSUME NEW s \in Session, SessionStep(s),
             ~InsertRecord(s), ~DecryptAndSend(s), ~JournalStep(s)
      PROVE  UNCHANGED journal
  BY <1>4 DEF SessionStep, Connect, Disconnect, BeginUpload, ReceiveFile, RejectFile,
     EncryptFile, OpenFile, WriteBlock, UploadFails, FinishUpload, BeginDownload,
     FindRecord, StatFile, ReadBlock, DownloadFails, FinishDownload, List,
     UnknownCommand, Receive
<1>5. CASE CloseDatabase \/ WipeKey \/ Exit \/ Restart
  <2>1. UNCHANGED journal \/ J!Stop(Session)
    BY <1>5 DEF CloseDatabase, WipeKey, Exit, Restart
  <2> QED
    BY <2>1, CallsKept
<1> QED
  BY <1>1, <1>2, <1>3, <1>4, <1>5, CallsKept DEF Next

-----------------------------------------------------------------------------
(* The answers *)

\* The client of a thread that works on a request has not been answered yet.
QuietWhileBusy ==
    \A s \in Session :
        pc[s] \notin {"closed", "idle", "download_event"} => reply[s].to # "download"

AnswerInv == QuietWhileBusy /\ DenialIsJustified

\* Nobody has been answered at first.
LEMMA AnswerInit == Init => AnswerInv
  BY IdleValues DEF Init, InitServer, AnswerInv, QuietWhileBusy, DenialIsJustified

\* What the answer of a thread may become in its own step: none to a download, a
\* refusal or an error, the delivery of a record, or a denial with its reason; and
\* a thread that works goes on without one.
OwnAnswer(s) ==
    \/ reply'[s].to # "download"
    \/ /\ pc'[s] = "idle" /\ pc[s] # "download_event" /\ client'[s] = client[s]
       /\ reply'[s].status # RESP_SUCCESS
       /\ reply'[s].status = RESP_PERMISSION_DENIED /\ reply'[s].name \notin Unsafe =>
             \E doc \in meta : doc.name = reply'[s].name /\ doc.owner # client[s]
    \/ /\ pc[s] = "read" /\ pc'[s] = "download_event" /\ client'[s] = client[s]
       /\ reply'[s].status = RESP_SUCCESS
    \/ /\ reply'[s] = reply[s] /\ client'[s] = client[s]
       /\ pc'[s] \in {pc[s], "idle"} \/ pc[s] \notin {"closed", "idle", "download_event"}

\* A download ends with an error of the server, an invalid offset or no file.
LEMMA EndsWithError ==
    ASSUME SessionTypeOK, NEW s \in Session, pc[s] # "download_event", EndRequest(s),
           NEW n \in Filename,
           NEW status \in {RESP_FILE_NOT_FOUND, RESP_ERROR, RESP_INVALID_OFFSET},
           Send(s, Status("download", n, status)), UNCHANGED client
    PROVE  OwnAnswer(s)
<1>1. Status("download", n, status) \in Reply
      /\ Status("download", n, status).status = status
  BY StatusReply
<1>2. status # RESP_SUCCESS /\ status # RESP_PERMISSION_DENIED
  BY DEF RESP_SUCCESS, RESP_FILE_NOT_FOUND, RESP_PERMISSION_DENIED, RESP_ERROR,
         RESP_INVALID_OFFSET
<1>3. reply'[s] \in {Status("download", n, status), NoReply} /\ pc'[s] = "idle"
  BY <1>1, SendFrame, EndRequestFrame
<1> QED
  BY <1>1, <1>2, <1>3, IdleValues DEF OwnAnswer

\* An answer to another command.
LEMMA AnswersOther ==
    ASSUME SessionTypeOK, NEW s \in Session, NEW r \in Reply, r.to # "download",
           Send(s, r)
    PROVE  OwnAnswer(s)
  BY SendFrame, IdleValues DEF OwnAnswer

\* The answers of uploads and of refused requests.
LEMMA AnswersStatus ==
    ASSUME SessionTypeOK, NEW s \in Session, NEW to \in {"upload", "unknown"},
           NEW n \in Filename \cup {Absent},
           NEW status \in {RESP_SUCCESS, RESP_PERMISSION_DENIED, RESP_ERROR},
           Send(s, Status(to, n, status))
    PROVE  OwnAnswer(s)
<1>1. Status(to, n, status) \in Reply /\ Status(to, n, status).to = to
  BY StatusReply
<1> QED
  BY <1>1, AnswersOther

\* No answer.
LEMMA AnswersNothing ==
    ASSUME SessionTypeOK, NEW s \in Session, reply' = [reply EXCEPT ![s] = NoReply]
    PROVE  OwnAnswer(s)
  BY IdleValues DEF OwnAnswer, SessionTypeOK

\* An unsafe name is refused before anything is looked up.
LEMMA RefusesUnsafe ==
    ASSUME SessionTypeOK, NEW s \in Session, pc[s] = "idle", NEW n \in Unsafe,
           Refuse(s, "download", n, RESP_PERMISSION_DENIED), UNCHANGED client
    PROVE  OwnAnswer(s)
<1> DEFINE r == Status("download", n, RESP_PERMISSION_DENIED)
<1>1. r \in Reply /\ r.status = RESP_PERMISSION_DENIED /\ r.name = n
  BY NamesAssumption DEF Status, NoReply, Reply
<1>2. RESP_PERMISSION_DENIED # RESP_SUCCESS
  BY SharedCodes
<1> HIDE DEF r
<1>3. reply'[s] \in {r, NoReply} /\ pc'[s] = "idle"
  BY <1>1, SendFrame DEF Refuse, r
<1> QED
  BY <1>1, <1>2, <1>3, IdleValues DEF OwnAnswer

\* The answers of a find: base documents are not among what it returns, so a record
\* of another owner is why it denies.
LEMMA FindAnswers ==
    ASSUME Inv, NEW s \in Session, FindRecord(s)
    PROVE  OwnAnswer(s)
<1>1. SessionTypeOK /\ pc[s] = "find" /\ req[s].name \in Filename /\ UNCHANGED client
  BY DEF Inv, Core, Typed, SessionTypeOK, Request, FindRecord
<1>2. CASE EndRequest(s) /\ Send(s, Status("download", req[s].name, RESP_FILE_NOT_FOUND))
  BY <1>1, <1>2, EndsWithError
<1>3. ASSUME NEW doc \in Matching(req[s].name), ~MayDownload(doc, client[s]),
             Send(s, Status("download", req[s].name, RESP_PERMISSION_DENIED)),
             EndRequest(s)
      PROVE  OwnAnswer(s)
  <2> DEFINE r == Status("download", req[s].name, RESP_PERMISSION_DENIED)
  <2>1. r \in Reply /\ r.status = RESP_PERMISSION_DENIED /\ r.name = req[s].name
    BY <1>1 DEF Status, NoReply, Reply
  <2>2. RESP_PERMISSION_DENIED # RESP_SUCCESS
    BY SharedCodes
  <2> HIDE DEF r
  <2>3. reply'[s] \in {r, NoReply} /\ pc'[s] = "idle"
    BY <1>1, <1>3, <2>1, SendFrame, EndRequestFrame DEF r
  <2>4. doc \in meta /\ doc.name = req[s].name /\ doc.owner # client[s]
    BY <1>3, MatchingAreRecords DEF MayDownload
  <2> QED
    BY <1>1, <2>1, <2>2, <2>3, <2>4, IdleValues DEF OwnAnswer
<1>4. CASE pc' = [pc EXCEPT ![s] = "stat"] /\ UNCHANGED reply
  BY <1>1, <1>4 DEF OwnAnswer
<1> QED
  BY <1>2, <1>3, <1>4 DEF FindRecord

\* The decryption answers with a file or an error.
LEMMA DecryptAnswers ==
    ASSUME Inv, NEW s \in Session, DecryptAndSend(s)
    PROVE  OwnAnswer(s)
<1>1. /\ SessionTypeOK /\ pc[s] = "read" /\ req[s].name \in Filename
      /\ ct[s] \in Ciphertext /\ UNCHANGED client
  BY DEF Inv, Core, Typed, Shape, SessionTypeOK, Request, DecryptAndSend
<1>2. CASE EndRequest(s) /\ Send(s, Status("download", req[s].name, RESP_ERROR))
  BY <1>1, <1>2, EndsWithError
<1>3. ASSUME TagAccepts(buf[s], ct[s], key),
             Send(s, [NoReply EXCEPT !.to = "download", !.name = req[s].name,
                                     !.content = Decrypted(buf[s], ct[s], key),
                                     !.from = req[s].offset]),
             pc' = [pc EXCEPT ![s] = "download_event"]
      PROVE  OwnAnswer(s)
  <2> DEFINE r == [NoReply EXCEPT !.to = "download", !.name = req[s].name,
                                  !.content = Decrypted(buf[s], ct[s], key),
                                  !.from = req[s].offset]
  <2>1. Decrypted(buf[s], ct[s], key) \in Content
    BY <1>1, <1>3 DEF TagAccepts, Decrypted, Ciphertext
  <2>4. req[s].offset \in Nat
    BY <1>1 DEF Inv, ReadInside, SessionTypeOK
  <2>2. r \in Reply /\ r.status = RESP_SUCCESS
    BY <1>1, <2>1, <2>4 DEF NoReply, Reply
  <2> HIDE DEF r
  <2>3. reply'[s] \in {r, NoReply} /\ pc'[s] = "download_event"
    BY <1>1, <1>3, <2>2, SendFrame DEF r, SessionTypeOK
  <2> QED
    BY <1>1, <2>2, <2>3, IdleValues DEF OwnAnswer
<1> QED
  BY <1>2, <1>3 DEF DecryptAndSend

\* The steps of an upload answer no download.
LEMMA UploadAnswers ==
    ASSUME Inv, NEW s \in Session,
           BeginUpload(s) \/ RejectFile(s) \/ UploadFails(s) \/ FinishUpload(s)
    PROVE  OwnAnswer(s)
<1>1. SessionTypeOK /\ req[s].name \in Filename
  BY DEF Inv, Core, Typed, SessionTypeOK, Request
<1>2. RESP_INTEGRITY_ERROR = RESP_PERMISSION_DENIED
  BY SharedCodes
<1> QED
  BY <1>1, <1>2, AnswersStatus, AnswersNothing
     DEF BeginUpload, Refuse, RejectFile, UploadFails, FinishUpload

\* The answer of a list is one to a list.
LEMMA ListAnswers ==
    ASSUME Inv, NEW s \in Session, List(s)
    PROVE  OwnAnswer(s)
<1>1. SessionTypeOK
  BY DEF Inv, Core, Typed
<1>2. PICK shown : Send(s, [NoReply EXCEPT !.to = "list", !.listed = shown])
  BY DEF List
<1>3. [NoReply EXCEPT !.to = "list", !.listed = shown].to = "list"
  BY DEF NoReply
<1> QED
  BY <1>1, <1>2, <1>3, IdleValues DEF OwnAnswer, Send, SessionTypeOK

\* Every step of a thread leaves its client with an answer of OwnAnswer.
LEMMA OwnAnswers ==
    ASSUME Inv, NEW s \in Session, SessionStep(s)
    PROVE  OwnAnswer(s)
<1>1. SessionTypeOK /\ req[s].name \in Filename
  BY DEF Inv, Core, Typed, SessionTypeOK, Request
<1>2. CASE Connect(s) \/ Disconnect(s)
  BY <1>1, <1>2, AnswersNothing DEF Connect, Disconnect
<1>3. CASE ReceiveFile(s) \/ EncryptFile(s) \/ OpenFile(s) \/ WriteBlock(s)
           \/ InsertRecord(s) \/ JournalStep(s)
  BY <1>1, <1>3 DEF ReceiveFile, EncryptFile, OpenFile, WriteBlock, InsertRecord,
     JournalStep, OwnAnswer, SessionTypeOK
<1>4. CASE BeginDownload(s)
  BY <1>1, <1>4, RefusesUnsafe, AnswersNothing DEF BeginDownload, Receive
<1>5. CASE StatFile(s)
  BY <1>1, <1>5, EndsWithError DEF StatFile, OwnAnswer
<1>6. CASE ReadBlock(s)
  BY <1>1, <1>6, EndsWithError DEF ReadBlock, OwnAnswer
<1>7. CASE DownloadFails(s)
  BY <1>1, <1>7, EndsWithError DEF DownloadFails
<1>8. CASE FinishDownload(s)
  BY <1>1, <1>8, EndRequestFrame DEF FinishDownload, OwnAnswer
<1>9. CASE UnknownCommand(s)
  BY <1>1, <1>9, SharedCodes, AnswersStatus DEF UnknownCommand, Refuse
<1> QED
  BY <1>2, <1>3, <1>4, <1>5, <1>6, <1>7, <1>8, <1>9, UploadAnswers, FindAnswers,
     DecryptAnswers, ListAnswers
  DEF SessionStep

\* Answers are given at the end of the work, and a denial keeps its reason.
LEMMA AnswerNext ==
    ASSUME Inv, AnswerInv, Next
    PROVE  AnswerInv'
<1> USE DEF AnswerInv
<1>1. meta \subseteq meta'
  BY StoreGrows
<1>2. ASSUME NEW s \in Session, SessionStep(s) PROVE AnswerInv'
  <2>1. OwnAnswer(s) /\ \A t \in Session \ {s} : Stays(t) /\ reply'[t] = reply[t]
    BY <1>2, OwnAnswers, OthersStay
  <2>2. RESP_SUCCESS # RESP_PERMISSION_DENIED
    BY SharedCodes
  <2>3. QuietWhileBusy'
    BY <2>1 DEF QuietWhileBusy, OwnAnswer, Stays
  <2>4. DenialIsJustified'
    BY <1>1, <2>1, <2>2 DEF DenialIsJustified, OwnAnswer, Stays
  <2> QED
    BY <2>3, <2>4
<1>3. CASE CloseDatabase \/ WipeKey \/ Restart
  BY <1>3 DEF CloseDatabase, WipeKey, Restart, QuietWhileBusy, DenialIsJustified
<1>4. CASE Exit
  BY <1>4, IdleValues DEF Exit, QuietWhileBusy, DenialIsJustified
<1> QED
  BY <1>2, <1>3, <1>4 DEF Next

-----------------------------------------------------------------------------
(* The invariants *)

FullInv == Inv /\ StoreInv /\ KeyInv /\ BackedInv /\ AnswerInv

\* All of these together are inductive.
LEMMA FullInvNext == FullInv /\ [Next]_vars => FullInv'
<1> SUFFICES ASSUME FullInv, [Next]_vars PROVE FullInv'
  OBVIOUS
<1>1. Inv'
  BY NextInv DEF FullInv
<1>2. CASE Next
  BY <1>1, <1>2, StoreNext, KeyNext, BackedNext, AnswerNext DEF FullInv
<1>3. CASE UNCHANGED vars
  <2>1. /\ UNCHANGED <<stage, key, files, meta, pc, client, req, ct, reply, acked>>
        /\ UNCHANGED <<base, proc, at, call>>
    BY <1>3 DEF vars
  <2>2. StoreInv'
    BY <2>1 DEF FullInv, StoreInv, WriterHasFile, KeepsContent, EventHasRecord,
                RecordHasFile, AckMeansStored
  <2>3. KeyInv'
    BY <2>1 DEF FullInv, KeyInv, DownIsQuiet, SealedWhileUp, ZeroKeyNeverRecorded
  <2>4. BackedInv' /\ AnswerInv'
    BY <2>1 DEF FullInv, BackedInv, CallHasRecord, HasRecord, JournalBackedByRecord, AnswerInv,
                QuietWhileBusy, DenialIsJustified
  <2> QED
    BY <1>1, <2>2, <2>3, <2>4 DEF FullInv
<1> QED
  BY <1>2, <1>3

\* They hold in every reachable state.
LEMMA FullInvariant == Spec => []FullInv
<1>1. Init => FullInv
  BY InitInv, StoreInit, KeyInit, BackedInit, AnswerInit DEF FullInv
<1> QED
  BY <1>1, FullInvNext, PTL DEF Spec

\* No crash and no failure leaves a record in the collection without its file in
\* the storage directory.
THEOREM RecordsHaveFiles == Spec => []RecordHasFile
  BY FullInvariant, PTL DEF FullInv, StoreInv

\* handle_upload_request answers with success only what insert_one has stored.
THEOREM AcksAreStored == Spec => []AckMeansStored
  BY FullInvariant, PTL DEF FullInv, StoreInv

\* cleanup_resources never lets a handler thread record a file under the wiped key.
THEOREM NothingUnderZeroKey == Spec => []ZeroKeyNeverRecorded
  BY FullInvariant, PTL DEF FullInv, KeyInv

\* append_proc_event of the server never announces a version without a record of it.
THEOREM JournalIsBacked == Spec => []JournalBackedByRecord
  BY FullInvariant, PTL DEF FullInv, BackedInv

\* handle_download_request denies a file only to others than its owner.
THEOREM DenialsAreJustified == Spec => []DenialIsJustified
  BY FullInvariant, PTL DEF FullInv, AnswerInv

-----------------------------------------------------------------------------
(* Refinement *)

Stored == {[owner |-> doc.owner, name |-> doc.name, content |-> doc.ct.content] :
              doc \in meta}
Answer(t) ==
    IF reply[t].to = "download" /\ reply[t].status = RESP_SUCCESS
    THEN [version |-> [owner |-> client[t], name |-> reply[t].name,
                       content |-> reply[t].content],
          from |-> reply[t].from]
    ELSE Absent

\* Every record is a version of the vault.
LEMMA RecordsAreVersions ==
    ASSUME Inv
    PROVE  Stored \subseteq [owner : Client, name : Filename, content : Content]
<1>1. ASSUME NEW doc \in meta
      PROVE  doc.owner \in Client /\ doc.name \in Filename /\ doc.ct.content \in Content
  <2>1. doc \in Record
    BY DEF Inv, Core, Typed, StoreTypeOK
  <2> QED
    BY <2>1 DEF Record, Ciphertext
<1> QED
  BY <1>1 DEF Stored

\* A step of a thread stores a version, delivers one, or makes the vault forget
\* the answer on its connection.
LEMMA ThreadStepOfVault ==
    ASSUME FullInv, FullInv', NEW s \in Session, SessionStep(s)
    PROVE  Vault!Next
<1>1. \A t \in Session \ {s} : Answer(t)' = Answer(t)
  BY OthersStay DEF FullInv, Stays, Answer
<1>2. CASE UNCHANGED meta
  <2>1. Stored' = Stored
    BY <1>2 DEF Stored
  <2>2. CASE Answer(s)' = Absent
    <3>1. [t \in Session |-> Answer(t)]' =
             [t \in Session |-> IF t \in {s} THEN Absent ELSE [u \in Session |-> Answer(u)][t]]
      BY <1>1, <2>2
    <3>2. Vault!Forget({s})
      BY <2>1, <3>1 DEF Vault!Forget, Stored, Answer
    <3> QED
      BY <3>2 DEF Vault!Next
  <2>3. CASE Answer(s)' # Absent
    <3>1. PICK v, i : /\ Answer(s)' = [version |-> v, from |-> i]
                      /\ v = [owner |-> client'[s], name |-> reply'[s].name,
                              content |-> reply'[s].content]
                      /\ i = reply'[s].from
      BY <2>3 DEF Answer
    <3>2. v \in Stored /\ i \in 0..Blocks[v.content]
      <4>1. PICK doc \in meta : /\ doc.name = reply'[s].name /\ doc.owner = client'[s]
                                /\ doc.ct.content = reply'[s].content
                                /\ reply'[s].from <= Blocks[doc.ct.content]
        BY <1>2, <2>3 DEF FullInv, Inv, Core, ServedOwnUpload, Answer
      <4>2. v = [owner |-> doc.owner, name |-> doc.name, content |-> doc.ct.content]
        BY <3>1, <4>1
      <4>3. i \in Nat /\ Blocks[v.content] \in Nat
        <5>1. reply'[s].from \in Nat /\ doc.ct.content \in Content
          BY DEF FullInv, Inv, Core, Typed, SessionTypeOK, StoreTypeOK, Reply, Record, Ciphertext
        <5> QED
          BY <3>1, <4>2, <5>1, ContentAssumption
      <4> QED
        BY <3>1, <4>1, <4>2, <4>3 DEF Stored
    <3>3. v \in [owner : Client, name : Filename, content : Content]
      BY <3>2, RecordsAreVersions DEF FullInv
    <3>4. [t \in Session |-> Answer(t)]' =
             [[t \in Session |-> Answer(t)] EXCEPT ![s] = [version |-> v, from |-> i]]
      BY <1>1, <3>1
    <3>5. Vault!Deliver(s, v, i)
      BY <2>1, <3>2, <3>3, <3>4 DEF Vault!Deliver, Stored, Answer
    <3> QED
      BY <3>2, <3>3, <3>5 DEF Vault!Next
  <2> QED
    BY <2>2, <2>3
<1>3. CASE ~UNCHANGED meta
  <2>1. /\ InsertRecord(s) \/ UploadFails(s)
        /\ pc[s] = "write" /\ meta' = meta \cup {UploadRecord(s)}
    BY <1>3 DEF SessionStep, Connect, Disconnect, BeginUpload, ReceiveFile, RejectFile,
       EncryptFile, OpenFile, WriteBlock, InsertRecord, UploadFails, FinishUpload,
       BeginDownload, FindRecord, StatFile, ReadBlock, DecryptAndSend, DownloadFails,
       FinishDownload, List, UnknownCommand, JournalStep, Receive
  <2>0. PICK v : v = [owner |-> UploadRecord(s).owner, name |-> UploadRecord(s).name,
                      content |-> UploadRecord(s).ct.content]
    OBVIOUS
  <2>2. Stored' = Stored \cup {v}
    BY <2>0, <2>1 DEF Stored
  <2>3. v \in [owner : Client, name : Filename, content : Content]
    <3>1. UploadRecord(s) \in Record
      BY <2>1, RecordTyped DEF FullInv
    <3> QED
      BY <2>0, <3>1 DEF Record, Ciphertext
  <2>4. Answer(s)' = Answer(s)
    <3>1. reply[s].to # "download"
      BY <2>1 DEF FullInv, AnswerInv, QuietWhileBusy
    <3>2. reply'[s].to # "download"
      <4>1. SessionTypeOK /\ req[s].name \in Filename
        BY DEF FullInv, Inv, Core, Typed, SessionTypeOK, Request
      <4>2. CASE InsertRecord(s)
        BY <3>1, <4>2 DEF InsertRecord
      <4>3. CASE UploadFails(s)
        BY <4>1, <4>3, StatusReply, SendFrame, IdleValues DEF UploadFails
      <4> QED
        BY <2>1, <4>2, <4>3
    <3> QED
      BY <3>1, <3>2 DEF Answer
  <2>5. [t \in Session |-> Answer(t)]' = [t \in Session |-> Answer(t)]
    BY <1>1, <2>4
  <2>6. Vault!Store(v)
    BY <2>2, <2>5 DEF Vault!Store, Stored, Answer
  <2> QED
    BY <2>3, <2>6 DEF Vault!Next
<1> QED
  BY <1>2, <1>3

\* So does every step; the end of the process makes the vault forget all answers.
LEMMA StepOfVault ==
    ASSUME FullInv, FullInv', [Next]_vars
    PROVE  [Vault!Next]_Vault!vars
<1>1. CASE \E s \in Session : SessionStep(s)
  BY <1>1, ThreadStepOfVault
<1>2. CASE Exit
  <2>1. UNCHANGED meta /\ \A t \in Session : reply'[t].to # "download"
    BY <1>2, IdleValues DEF Exit
  <2>2. Vault!Forget(Session)
    BY <2>1 DEF Vault!Forget
  <2> QED
    BY <2>2 DEF Vault!Next
<1>3. CASE CloseDatabase \/ WipeKey \/ Restart \/ UNCHANGED vars
  <2>1. UNCHANGED <<meta, client, reply>>
    BY <1>3 DEF CloseDatabase, WipeKey, Restart, vars
  <2> QED
    BY <2>1 DEF Vault!vars
<1> QED
  BY <1>1, <1>2, <1>3 DEF Next

\* For any number of threads, clients, files, blocks, failures, crashes and restarts,
\* the handlers of server.c with their unlocked find, stat, fread and fopen behave as
\* a vault that stores whole files and delivers what the same client has stored, from
\* a place inside of it to the end.
THEOREM ServerIsVault == Spec => ImplementsVault
<1>1. Init => Vault!Init
  BY IdleValues DEF Init, InitServer, Vault!Init
<1> QED
  BY <1>1, StepOfVault, FullInvariant, PTL DEF Spec, ImplementsVault, Vault!Spec

-----------------------------------------------------------------------------
(* The events of a thread *)

\* What the other steps do to the journal: a call, its end, or nothing.
LEMMA JournalMoves ==
    ASSUME Inv, Next
    PROVE  \/ UNCHANGED journal
           \/ \E s \in Session : J!Step(s)
           \/ \E s \in Session, k \in Happening : J!Begin(s, req[s].name, k)
           \/ J!Stop(Session)
<1>1. ASSUME NEW s \in Session, SessionStep(s)
      PROVE  \/ UNCHANGED journal
             \/ J!Step(s)
             \/ \E k \in Happening : J!Begin(s, req[s].name, k)
  <2>1. \A type \in {"upload", "download"} : pc[s] \in {"write", "read"} =>
           [type |-> type, owner |-> client[s], content |-> ct[s].content] \in Happening
    BY DEF Inv, Core, Typed, Shape, Ciphertext, Happening
  <2> QED
    BY <1>1, <2>1 DEF SessionStep, Connect, Disconnect, BeginUpload, ReceiveFile,
       RejectFile, EncryptFile, OpenFile, WriteBlock, InsertRecord, UploadFails,
       FinishUpload, BeginDownload, FindRecord, StatFile, ReadBlock, DecryptAndSend,
       DownloadFails, FinishDownload, List, UnknownCommand, JournalStep, Receive
<1> QED
  BY <1>1 DEF Next, CloseDatabase, WipeKey, Exit, Restart

\* Whatever the server does, no thread overwrites an event of its own, but for key 1.
LEMMA OwnNext ==
    ASSUME Inv, JP!OwnBehind, [Next]_vars
    PROVE  JP!OwnBehind' /\ JP!KeepsOwn
<1> USE BoundsAssumption, NamesAssumption, SomeHappening DEF Inv, Core, JournalInv
<1>1. CASE UNCHANGED journal
  BY <1>1 DEF journal, JP!OwnBehind, JP!KeepsOwn
<1>2. ASSUME NEW s \in Session, J!Step(s) PROVE JP!OwnBehind' /\ JP!KeepsOwn
  BY <1>2, JournalSteps, JP!StepOwn
<1>3. ASSUME NEW s \in Session, NEW k \in Happening,
             J!Begin(s, req[s].name, k)
      PROVE  JP!OwnBehind' /\ JP!KeepsOwn
  <2>1. JP!Begin(s, req[s].name, k) /\ req[s].name \in Filename
    BY <1>3 DEF J!Begin, JP!Begin, Typed, SessionTypeOK, Request
  <2> QED
    BY <2>1, JP!BeginOwn
<1>4. CASE J!Stop(Session)
  <2>1. JP!Stop(Session)
    BY <1>4 DEF J!Stop, JP!Stop, J!NoCall, JP!NoCall, J!Call, JP!Call
  <2> QED
    BY <2>1, JP!StopOwn
<1>5. CASE UNCHANGED vars
  BY <1>1, <1>5 DEF vars, journal
<1> QED
  BY <1>1, <1>2, <1>3, <1>4, <1>5, JournalMoves

\* However the threads interleave, shut down or crash inside append_proc_event, and
\* whatever errno holds or fails, none overwrites its own event, but for the one under
\* key 1 after a spoiled read.
THEOREM ThreadsKeepOwnEvents == Spec => NeverOverwritesOwn
<1>1. Init => JP!OwnBehind
  BY DEF Init, J!Init, JP!OwnBehind
<1>2. Inv /\ JP!OwnBehind /\ [Next]_vars => JP!OwnBehind'
  BY OwnNext
<1>3. Inv /\ JP!OwnBehind /\ [Next]_vars => [JP!KeepsOwn]_J!vars
  BY OwnNext
<1> QED
  BY <1>1, <1>2, <1>3, ServerInvariant, PTL
  DEF Spec, NeverOverwritesOwn, J!NeverOverwritesOwn, JP!KeepsOwn,
      JP!Clean, J!Clean


\* A step of the server is a step of ProcMap or leaves the journal alone.
LEMMA StepOfJournal ==
    ASSUME Inv, [Next]_vars
    PROVE  [J!Journal!Next]_J!Journal!vars
<1> USE BoundsAssumption, NamesAssumption, SomeHappening DEF Inv, Core, JournalInv
<1>1. ASSUME NEW s \in Session, J!Step(s) PROVE [J!Journal!Next]_J!Journal!vars
  <2>1. JP!Next
    BY <1>1, JournalSteps DEF JP!Next
  <2>2. [JP!Journal!Next]_JP!Journal!vars
    BY <2>1, JP!StepSimulation
  <2> QED
    BY <2>2 DEF J!Journal!Next, JP!Journal!Next, J!Journal!vars, JP!Journal!vars,
       J!Journal!Create, JP!Journal!Create, J!Journal!Put, JP!Journal!Put,
       J!Event, JP!Event
<1>2. CASE UNCHANGED <<base, proc>>
  BY <1>2 DEF J!Journal!vars
<1>3. CASE UNCHANGED vars
  BY <1>2, <1>3 DEF vars
<1> QED
  BY <1>1, <1>2, <1>3, JournalMoves DEF journal, J!Begin, J!Stop

\* The journal the handler threads write is that of ProcMap, crashes included.
THEOREM ServerJournal == Spec => ImplementsProcMap
<1>1. Init => J!Journal!Init
  BY DEF Init, J!Init, J!Journal!Init
<1> QED
  BY <1>1, StepOfJournal, ServerInvariant, PTL
  DEF Spec, ImplementsProcMap, J!ImplementsProcMap, J!Journal!Spec


-----------------------------------------------------------------------------
(* Whole files *)

Writing(t) == pc[t] \in {"open", "write"}

\* A random iv is never drawn twice: what a thread is about to write is new, no other
\* thread holds it, and no record is of it yet.
Fresh ==
    /\ \A doc \in meta : doc.ct.iv <= ivs
    /\ \A t \in Session : Writing(t) =>
          ct[t].iv <= ivs /\ \A doc \in meta : doc.ct # ct[t]
    /\ \A t, u \in Session : Writing(t) /\ Writing(u) /\ ct[t] = ct[u] => t = u

\* A file that was not opened under another writer has one writer at most, and holds
\* what that one has written so far.
WriterAt ==
    \A n \in Filename \ overlapped : \A t \in Session : Writes(t, n) =>
        /\ \A u \in Session : Writes(u, n) => u = t
        /\ disk[n] = Piece(ct[t], pos[t])

\* Ciphertext c was not written to its end: there is no record of it, and a thread
\* that may still get there is writing file n.
Unfinished(c, n) ==
    /\ \A doc \in meta : doc.ct # c
    /\ \A t \in Session : Writing(t) /\ ct[t] = c => Writes(t, n)

\* All of ciphertext c but the last block, which an fclose has lost.
TailLost(c, k) == Faults /\ k = Blocks[c.content] - 1

\* File n holds the first k blocks of ciphertext c; all of them, or c has no record.
IsPiece(n, c, k) ==
    /\ disk[n] = Piece(c, k)
    /\ c.iv <= ivs
    /\ k < Blocks[c.content] => Unfinished(c, n) \/ TailLost(c, k)

\* A file that was not opened under another writer is the beginning of a ciphertext.
Pieces ==
    \A n \in Filename \ overlapped :
        \/ disk[n] = <<>>
        \/ \E c \in Ciphertext : \E k \in 1..Blocks[c.content] : IsPiece(n, c, k)

WholeInv == Fresh /\ WriterAt /\ Pieces

\* One more block makes the next piece.
LEMMA NextPiece ==
    ASSUME NEW c \in Ciphertext, NEW k \in Nat
    PROVE  /\ Piece(c, 0) = <<>>
           /\ Written(Piece(c, k), k + 1, [ct |-> c, i |-> k + 1]) = Piece(c, k + 1)
           /\ k > 0 => Piece(c, k)[1] = [ct |-> c, i |-> 1]
<1>1. Piece(c, 0) = <<>>
  BY DEF Piece
<1>2. Len(Piece(c, k)) = k
  BY PieceIsFile
<1>3. Written(Piece(c, k), k + 1, [ct |-> c, i |-> k + 1]) = Piece(c, k + 1)
  <2>1. Written(Piece(c, k), k + 1, [ct |-> c, i |-> k + 1]) =
          [j \in 1..(k + 1) |-> IF j = k + 1 THEN [ct |-> c, i |-> k + 1]
                                ELSE IF j <= k THEN Piece(c, k)[j] ELSE Hole]
    BY <1>2 DEF Written
  <2>2. \A j \in 1..(k + 1) :
          (IF j = k + 1 THEN [ct |-> c, i |-> k + 1]
           ELSE IF j <= k THEN Piece(c, k)[j] ELSE Hole) = [ct |-> c, i |-> j]
    BY DEF Piece
  <2> QED
    BY <2>1, <2>2 DEF Piece
<1>4. k > 0 => Piece(c, k)[1] = [ct |-> c, i |-> 1]
  BY DEF Piece
<1> QED
  BY <1>1, <1>3, <1>4

\* Nothing is written at first.
LEMMA WholeInit == Init => WholeInv
  BY DEF Init, InitServer, WholeInv, Fresh, WriterAt, Pieces, Writing, Writes

\* A file that stays is the piece it was while its ciphertext stays unfinished.
LEMMA PiecesKept ==
    ASSUME Pieces, NEW n \in Filename \ overlapped, disk'[n] = disk[n],
           \A c \in Ciphertext : c.iv <= ivs => c.iv <= ivs',
           \A c \in Ciphertext : c.iv <= ivs /\ Unfinished(c, n) => Unfinished(c, n)'
    PROVE  \/ disk'[n] = <<>>
           \/ \E c \in Ciphertext : \E k \in 1..Blocks[c.content] : IsPiece(n, c, k)'
<1>1. CASE disk[n] = <<>>
  BY <1>1
<1>2. ASSUME NEW c \in Ciphertext, NEW k \in 1..Blocks[c.content], IsPiece(n, c, k)
      PROVE  IsPiece(n, c, k)'
  BY <1>2 DEF IsPiece, TailLost
<1> QED
  BY <1>1, <1>2 DEF Pieces

\* A step that writes, records and draws nothing, and brings no thread to its file.
LEMMA WholeKept ==
    ASSUME WholeInv, UNCHANGED <<disk, meta, ivs, overlapped>>,
           \A t \in Session : \/ pc'[t] \notin {"open", "write"}
                              \/ Stays(t) /\ pos'[t] = pos[t]
    PROVE  WholeInv'
<1>1. \A t \in Session : \A n : /\ Writes(t, n)' => Writes(t, n)
                                /\ Writing(t)' /\ Writes(t, n) => Writes(t, n)'
  BY DEF Writes, Writing, Stays
<1>2. \A t \in Session : Writing(t)' => Writing(t) /\ ct'[t] = ct[t] /\ pos'[t] = pos[t]
  BY DEF Writing, Stays
<1>3. Fresh'
  BY <1>2 DEF WholeInv, Fresh
<1>4. WriterAt'
  BY <1>1, <1>2 DEF WholeInv, WriterAt, Writes, Writing
<1>5. \A c, n : Unfinished(c, n) => Unfinished(c, n)'
  BY <1>1, <1>2 DEF Unfinished
<1>6. Pieces'
  BY <1>5, PiecesKept DEF WholeInv, Pieces
<1> QED
  BY <1>3, <1>4, <1>6 DEF WholeInv

\* The new iv makes a ciphertext no file, no thread and no record has.
LEMMA EncryptWhole ==
    ASSUME Inv, WholeInv, NEW s \in Session, EncryptFile(s)
    PROVE  WholeInv'
<1>1. ivs \in Nat /\ meta \subseteq Record /\ SessionTypeOK
  BY DEF Inv, Core, Typed, ProcessTypeOK, StoreTypeOK
<1>2. /\ UNCHANGED <<disk, meta, req, pos, overlapped>> /\ ivs' = ivs + 1
      /\ pc[s] = "encrypt" /\ pc'[s] = "open" /\ ct'[s].iv = ivs + 1
      /\ \A t \in Session \ {s} : pc'[t] = pc[t] /\ ct'[t] = ct[t]
  BY <1>1 DEF EncryptFile, SessionTypeOK
<1>3. /\ \A doc \in meta : doc.ct.iv \in Nat
      /\ \A t \in Session : Writing(t) => ct[t] \in Ciphertext /\ ct[t].iv \in Nat
  BY <1>1 DEF Record, Ciphertext, Inv, Core, Typed, Shape, Writing
<1>4. Fresh'
  <2>1. \A doc \in meta : doc.ct.iv <= ivs + 1 /\ doc.ct # ct'[s]
    BY <1>1, <1>2, <1>3 DEF WholeInv, Fresh
  <2>2. \A t \in Session \ {s} : Writing(t)' =>
           /\ Writing(t) /\ ct'[t] = ct[t]
           /\ ct'[t].iv <= ivs + 1 /\ \A doc \in meta : doc.ct # ct'[t]
           /\ ct'[t] # ct'[s]
    BY <1>1, <1>2, <1>3 DEF WholeInv, Fresh, Writing
  <2>3. \A t, u \in Session : Writing(t)' /\ Writing(u)' /\ ct'[t] = ct'[u] => t = u
    BY <2>2 DEF WholeInv, Fresh
  <2> QED
    BY <1>1, <1>2, <2>1, <2>2, <2>3 DEF Fresh
<1>5. \A t \in Session : \A n : Writes(t, n)' <=> Writes(t, n)
  BY <1>2 DEF Writes
<1>6. WriterAt'
  BY <1>2, <1>5 DEF WholeInv, WriterAt, Writes
<1>7. Pieces'
  <2>1. ASSUME NEW c \in Ciphertext, NEW n, c.iv <= ivs, Unfinished(c, n)
        PROVE  Unfinished(c, n)'
    <3>1. c # ct'[s]
      BY <1>1, <1>2, <2>1 DEF Ciphertext
    <3> QED
      BY <1>2, <1>5, <2>1, <3>1 DEF Unfinished, Writing
  <2>2. \A c \in Ciphertext : c.iv <= ivs => c.iv <= ivs'
    BY <1>1, <1>2 DEF Ciphertext
  <2> QED
    BY <1>2, <2>1, <2>2, PiecesKept DEF WholeInv, Pieces
<1> QED
  BY <1>4, <1>6, <1>7 DEF WholeInv

\* fopen "wb" leaves an empty file; where nobody else was writing it has one writer.
LEMMA OpenWhole ==
    ASSUME Inv, WholeInv, NEW s \in Session, OpenFile(s)
    PROVE  WholeInv'
<1>0. PICK f : f = req[s].name
  OBVIOUS
<1>1. SessionTypeOK /\ disk \in [Filename -> Seq(Block)] /\ f \in Filename
      /\ ct[s] \in Ciphertext /\ pc[s] = "open"
  BY <1>0 DEF Inv, Core, Typed, StoreTypeOK, SessionTypeOK, Request, Shape, OpenFile
<1>2. /\ UNCHANGED <<meta, ivs, req, ct>> /\ pc'[s] = "write" /\ pos'[s] = 0
      /\ disk'[f] = <<>>
      /\ \A n \in Filename \ {f} : disk'[n] = disk[n]
      /\ \A t \in Session \ {s} : pc'[t] = pc[t] /\ pos'[t] = pos[t]
  BY <1>0, <1>1 DEF OpenFile, SessionTypeOK
<1>3. /\ \A n : n # f => (n \in overlapped' <=> n \in overlapped)
      /\ f \notin overlapped' => \A t \in Session \ {s} : ~Writes(t, f)
  BY <1>0 DEF OpenFile, NoteOverlap
<1>4. /\ \A t \in Session \ {s} : \A n : Writes(t, n)' <=> Writes(t, n)
      /\ \A n : n # f => ~Writes(s, n)'
      /\ \A n : ~Writes(s, n)
  BY <1>0, <1>1, <1>2 DEF Writes
<1>5. Fresh'
  BY <1>1, <1>2 DEF WholeInv, Fresh, Writing
<1>6. WriterAt'
  <2> SUFFICES ASSUME NEW n \in Filename \ overlapped', NEW t \in Session, Writes(t, n)'
               PROVE  /\ \A u \in Session : Writes(u, n)' => u = t
                      /\ disk'[n] = Piece(ct'[t], pos'[t])
    BY DEF WriterAt
  <2>1. CASE n = f
    <3>1. t = s /\ \A u \in Session : Writes(u, n)' => u = s
      BY <1>3, <1>4, <2>1
    <3>2. Piece(ct[s], 0) = <<>>
      BY <1>1, NextPiece, 0 \in Nat
    <3> QED
      BY <1>2, <2>1, <3>1, <3>2
  <2>2. CASE n # f
    BY <1>2, <1>3, <1>4, <2>2 DEF WholeInv, WriterAt
  <2> QED
    BY <2>1, <2>2
<1>7. Pieces'
  <2> SUFFICES ASSUME NEW n \in Filename \ overlapped', n # f
               PROVE  \/ disk'[n] = <<>>
                      \/ \E c \in Ciphertext : \E k \in 1..Blocks[c.content] :
                            IsPiece(n, c, k)'
    BY <1>2 DEF Pieces
  <2>1. \A c : Unfinished(c, n) => Unfinished(c, n)'
    BY <1>1, <1>2, <1>4 DEF Unfinished, Writing
  <2> QED
    BY <1>2, <1>3, <2>1, PiecesKept DEF WholeInv, Pieces
<1> QED
  BY <1>5, <1>6, <1>7 DEF WholeInv

\* The step of fwrite, or of the fclose that loses the last block, on file f.
WritesBlock(s, f, c, k, b) ==
    /\ f \in Filename /\ c \in Ciphertext /\ k \in Nat /\ b \in Nat /\ k < b
    /\ f = req[s].name /\ c = ct[s] /\ k = pos[s] /\ b = Blocks[c.content]
    /\ pc[s] = "write" /\ pos'[s] = k + 1
    /\ UNCHANGED <<meta, ivs, req, ct, pc, overlapped>>
    /\ \A t \in Session \ {s} : pos'[t] = pos[t]
    /\ \/ disk'[f] = Written(disk[f], k + 1, [ct |-> c, i |-> k + 1])
       \/ Faults /\ k + 1 = b /\ disk'[f] = disk[f]
    /\ \A n \in Filename \ {f} : disk'[n] = disk[n]

\* What WriteBlock does.
LEMMA WriteBlockFrame ==
    ASSUME Inv, NEW s \in Session, WriteBlock(s)
    PROVE  WritesBlock(s, req[s].name, ct[s], pos[s], Blocks[ct[s].content])
<1>1. /\ SessionTypeOK /\ disk \in [Filename -> Seq(Block)] /\ req[s].name \in Filename
      /\ ct[s] \in Ciphertext /\ pos[s] \in Nat /\ pc[s] = "write"
      /\ Blocks[ct[s].content] \in Nat
  BY ContentAssumption DEF Inv, Core, Typed, StoreTypeOK, SessionTypeOK, Request, Shape,
     WriteBlock, Ciphertext
<1>2. /\ UNCHANGED <<meta, ivs, req, ct, pc, overlapped>>
      /\ pos[s] < Blocks[ct[s].content] /\ pos' = [pos EXCEPT ![s] = @ + 1]
  BY DEF WriteBlock
<1>3. pos'[s] = pos[s] + 1 /\ \A t \in Session \ {s} : pos'[t] = pos[t]
  BY <1>1, <1>2 DEF SessionTypeOK
<1>4. /\ \/ disk'[req[s].name] = Written(disk[req[s].name], pos[s] + 1,
                                         [ct |-> ct[s], i |-> pos[s] + 1])
         \/ Faults /\ pos[s] + 1 = Blocks[ct[s].content]
                   /\ disk'[req[s].name] = disk[req[s].name]
      /\ \A n \in Filename \ {req[s].name} : disk'[n] = disk[n]
  <2>1. CASE disk' = [disk EXCEPT ![req[s].name] =
                      Written(@, pos[s] + 1, [ct |-> ct[s], i |-> pos[s] + 1])]
    BY <1>1, <2>1
  <2>2. CASE Faults /\ pos[s] + 1 = Blocks[ct[s].content] /\ UNCHANGED disk
    BY <2>2
  <2> QED
    BY <2>1, <2>2 DEF WriteBlock
<1> QED
  BY <1>1, <1>2, <1>3, <1>4 DEF WritesBlock

\* Each fwrite adds the next block at the end of the thread's own piece, or loses the
\* last one.
LEMMA WriteWhole ==
    ASSUME Inv, WholeInv, NEW s \in Session, WriteBlock(s)
    PROVE  WholeInv'
<1>1. PICK f, c, k, b : WritesBlock(s, f, c, k, b)
  BY WriteBlockFrame
<1>2. /\ Writes(s, f) /\ \A n : n # f => ~Writes(s, n) /\ ~Writes(s, n)'
      /\ \A t \in Session \ {s} : \A n : Writes(t, n)' <=> Writes(t, n)
      /\ Writes(s, f)' <=> k + 1 < b
  BY <1>1 DEF WritesBlock, Writes
<1>3. Fresh'
  BY <1>1 DEF WritesBlock, WholeInv, Fresh, Writing
<1>4. ASSUME f \notin overlapped
      PROVE  /\ disk[f] = Piece(c, k) /\ \A t \in Session : Writes(t, f) => t = s
             /\ \/ disk'[f] = Piece(c, k + 1)
                \/ Faults /\ k + 1 = b /\ disk'[f] = Piece(c, k)
  <2>1. disk[f] = Piece(c, k) /\ \A t \in Session : Writes(t, f) => t = s
    BY <1>1, <1>2, <1>4 DEF WritesBlock, WholeInv, WriterAt
  <2>2. Written(Piece(c, k), k + 1, [ct |-> c, i |-> k + 1]) = Piece(c, k + 1)
    BY <1>1, NextPiece DEF WritesBlock
  <2> QED
    BY <1>1, <2>1, <2>2 DEF WritesBlock
<1>5. WriterAt'
  <2> SUFFICES ASSUME NEW n \in Filename \ overlapped, NEW t \in Session, Writes(t, n)'
               PROVE  /\ \A u \in Session : Writes(u, n)' => u = t
                      /\ disk'[n] = Piece(ct'[t], pos'[t])
    BY <1>1 DEF WritesBlock, WriterAt
  <2>1. CASE n = f
    <3>1. t = s /\ \A u \in Session : Writes(u, n)' => u = s
      BY <1>2, <1>4, <2>1
    <3>2. k + 1 < b /\ k \in Nat /\ b \in Nat
      BY <1>1, <1>2, <2>1, <3>1 DEF WritesBlock
    <3> QED
      BY <1>1, <1>4, <2>1, <3>1, <3>2 DEF WritesBlock
  <2>2. CASE n # f
    <3>1. t # s /\ Writes(t, n)
      BY <1>2, <2>2
    <3> QED
      BY <1>1, <1>2, <2>2, <3>1 DEF WritesBlock, WholeInv, WriterAt
  <2> QED
    BY <2>1, <2>2
<1>6. Pieces'
  <2> SUFFICES ASSUME NEW n \in Filename \ overlapped
               PROVE  \/ disk'[n] = <<>>
                      \/ \E d \in Ciphertext : \E j \in 1..Blocks[d.content] :
                            IsPiece(n, d, j)'
    BY <1>1 DEF WritesBlock, Pieces
  <2>1. CASE n = f
    <3>1. c.iv <= ivs' /\ \A doc \in meta' : doc.ct # c
      BY <1>1 DEF WritesBlock, WholeInv, Fresh, Writing
    <3>2. k + 1 < b => Unfinished(c, f)'
      <4>1. \A t \in Session : Writing(t)' /\ ct'[t] = c => t = s
        BY <1>1 DEF WritesBlock, WholeInv, Fresh, Writing
      <4> QED
        BY <1>2, <3>1, <4>1 DEF Unfinished
    <3>3. k \in Nat /\ b \in Nat /\ k < b /\ b = Blocks[c.content] /\ c \in Ciphertext
      BY <1>1 DEF WritesBlock
    <3>4. CASE disk'[f] = Piece(c, k + 1)
      <4>1. IsPiece(f, c, k + 1)'
        BY <3>1, <3>2, <3>3, <3>4 DEF IsPiece
      <4>2. k + 1 \in 1..Blocks[c.content]
        BY <3>3
      <4> QED
        BY <2>1, <3>3, <4>1, <4>2
    <3>5. CASE Faults /\ k + 1 = b /\ disk'[f] = Piece(c, k)
      <4>1. CASE k = 0
        BY <2>1, <3>3, <3>5, <4>1, NextPiece
      <4>2. CASE k # 0
        <5>1. TailLost(c, k) /\ k \in 1..Blocks[c.content]
          <6>1. k = b - 1 /\ k \in 1..b
            BY <3>3, <3>5, <4>2
          <6> QED
            BY <3>3, <3>5, <6>1 DEF TailLost
        <5>2. IsPiece(f, c, k)'
          BY <3>1, <3>5, <5>1 DEF IsPiece, TailLost
        <5> QED
          BY <2>1, <3>3, <5>1, <5>2
      <4> QED
        BY <4>1, <4>2
    <3> QED
      BY <1>4, <2>1, <3>4, <3>5
  <2>2. CASE n # f
    <3>1. \A d : Unfinished(d, n) => Unfinished(d, n)'
      BY <1>1, <1>2, <2>2 DEF WritesBlock, Unfinished, Writing
    <3> QED
      BY <1>1, <2>2, <3>1, PiecesKept DEF WritesBlock, WholeInv, Pieces
  <2> QED
    BY <2>1, <2>2
<1> QED
  BY <1>3, <1>5, <1>6 DEF WholeInv

\* The record of a thread that has come to the end of its file does not belong to an
\* unfinished piece.
LEMMA RecordWhole ==
    ASSUME Inv, WholeInv, NEW s \in Session,
           pc[s] = "write", pos[s] = Blocks[ct[s].content],
           UNCHANGED <<disk, ivs, overlapped>>, meta' = meta \cup {UploadRecord(s)},
           pc'[s] \notin {"open", "write"},
           \A t \in Session \ {s} : Stays(t) /\ pos'[t] = pos[t]
    PROVE  WholeInv'
<1>1. \A n : ~Writes(s, n)
  <2>1. Blocks[ct[s].content] \in Nat
    BY ContentAssumption DEF Inv, Core, Typed, Shape, Ciphertext
  <2> QED
    BY <2>1 DEF Writes
<1>2. UploadRecord(s).ct = ct[s] /\ ct[s].iv <= ivs /\ Writing(s)
      /\ \A t \in Session \ {s} : Writing(t) => ct[t] # ct[s]
  BY DEF WholeInv, Fresh, Writing, UploadRecord
<1>3. \A t \in Session : /\ \A n : Writes(t, n)' <=> Writes(t, n)
                         /\ Writing(t)' => /\ t # s /\ Writing(t)
                                           /\ ct'[t] = ct[t] /\ pos'[t] = pos[t]
  BY <1>1 DEF Writes, Writing, Stays
<1>4. Fresh'
  <2>1. \A doc \in meta' : doc \in meta \/ doc.ct = ct[s]
    BY <1>2
  <2>2. \A doc \in meta' : doc.ct.iv <= ivs'
    BY <1>2, <2>1 DEF WholeInv, Fresh
  <2>3. \A t \in Session : Writing(t)' =>
           ct'[t].iv <= ivs' /\ \A doc \in meta' : doc.ct # ct'[t]
    BY <1>2, <1>3, <2>1 DEF WholeInv, Fresh
  <2>4. \A t, u \in Session : Writing(t)' /\ Writing(u)' /\ ct'[t] = ct'[u] => t = u
    BY <1>3 DEF WholeInv, Fresh
  <2> QED
    BY <2>2, <2>3, <2>4 DEF Fresh
<1>5. WriterAt'
  BY <1>3 DEF WholeInv, WriterAt, Writes, Writing
<1>6. Pieces'
  <2>1. ASSUME NEW c, NEW n, Unfinished(c, n) PROVE Unfinished(c, n)'
    <3>1. c # ct[s]
      BY <1>1, <1>2, <2>1 DEF Unfinished
    <3> QED
      BY <1>2, <1>3, <2>1, <3>1 DEF Unfinished
  <2> QED
    BY <2>1, PiecesKept DEF WholeInv, Pieces
<1> QED
  BY <1>4, <1>5, <1>6 DEF WholeInv

\* The steps that touch neither files nor records nor ivs.
LEMMA QuietSteps ==
    ASSUME Inv, NEW s \in Session, SessionStep(s),
           ~EncryptFile(s), ~OpenFile(s), ~WriteBlock(s), ~InsertRecord(s),
           ~UploadFails(s)
    PROVE  /\ UNCHANGED <<disk, meta, ivs, overlapped>>
           /\ pc'[s] \notin {"open", "write"} \/ (Stays(s) /\ pos'[s] = pos[s])
<1>1. SessionTypeOK
  BY DEF Inv, Core, Typed
<1>2. UNCHANGED <<disk, meta, ivs, overlapped>>
  BY DEF SessionStep, Connect, Disconnect, BeginUpload, ReceiveFile, RejectFile,
     FinishUpload, BeginDownload, FindRecord, StatFile, ReadBlock, DecryptAndSend,
     DownloadFails, FinishDownload, List, UnknownCommand, JournalStep, Receive
<1>3. ASSUME EndRequest(s) PROVE pc'[s] = "idle"
  BY <1>1, <1>3, EndRequestFrame
<1> USE <1>1 DEF SessionTypeOK, Stays, local
<1>4. CASE Connect(s) \/ Disconnect(s) \/ ReceiveFile(s) \/ JournalStep(s)
  BY <1>2, <1>4 DEF Connect, Disconnect, ReceiveFile, JournalStep
<1>5. CASE BeginUpload(s) \/ BeginDownload(s) \/ List(s) \/ UnknownCommand(s)
  BY <1>2, <1>5 DEF BeginUpload, BeginDownload, List, UnknownCommand, Receive, Refuse
<1>6. CASE RejectFile(s) \/ FinishUpload(s) \/ DownloadFails(s) \/ FinishDownload(s)
  BY <1>2, <1>3, <1>6 DEF RejectFile, FinishUpload, DownloadFails, FinishDownload
<1>7. CASE FindRecord(s) \/ StatFile(s)
  BY <1>2, <1>3, <1>7 DEF FindRecord, StatFile
<1>8. CASE ReadBlock(s)
  BY <1>2, <1>3, <1>8 DEF ReadBlock
<1>9. CASE DecryptAndSend(s)
  BY <1>2, <1>3, <1>9 DEF DecryptAndSend
<1> QED
  BY <1>4, <1>5, <1>6, <1>7, <1>8, <1>9 DEF SessionStep

\* A session step leaves the place of the other threads in their files alone.
LEMMA OthersAt ==
    ASSUME Inv, NEW s \in Session, SessionStep(s), NEW t \in Session \ {s}
    PROVE  Stays(t) /\ pos'[t] = pos[t]
<1>1. SessionTypeOK
  BY DEF Inv, Core, Typed
<1>2. ASSUME EndRequest(s) PROVE pos'[t] = pos[t]
  BY <1>1, <1>2, EndRequestFrame
<1>3. pos'[t] = pos[t]
  BY <1>1, <1>2 DEF SessionTypeOK, local, SessionStep, Connect, Disconnect, BeginUpload,
     ReceiveFile, RejectFile, EncryptFile, OpenFile, WriteBlock, InsertRecord,
     UploadFails, FinishUpload, BeginDownload, FindRecord, StatFile, ReadBlock,
     DecryptAndSend, DownloadFails, FinishDownload, List, UnknownCommand, JournalStep,
     Refuse
<1> QED
  BY <1>3, OthersStay

\* Every step of the server keeps files whole.
LEMMA WholeNext ==
    ASSUME Inv, WholeInv, [Next]_vars
    PROVE  WholeInv'
<1>1. ASSUME NEW s \in Session, EncryptFile(s) \/ OpenFile(s) \/ WriteBlock(s)
      PROVE  WholeInv'
  BY <1>1, EncryptWhole, OpenWhole, WriteWhole
<1>2. ASSUME NEW s \in Session, InsertRecord(s) PROVE WholeInv'
  <2>1. pc'[s] = "upload_event"
    BY <1>2 DEF InsertRecord, Inv, Core, Typed, SessionTypeOK
  <2>2. \A t \in Session \ {s} : Stays(t) /\ pos'[t] = pos[t]
    BY <1>2, OthersAt DEF SessionStep
  <2> QED
    BY <1>2, <2>1, <2>2, RecordWhole DEF InsertRecord
<1>3. ASSUME NEW s \in Session, UploadFails(s) PROVE WholeInv'
  <2>1. pc'[s] = "idle" /\ UNCHANGED <<disk, ivs, overlapped>>
    BY <1>3, EndRequestFrame DEF UploadFails, Inv, Core, Typed
  <2>2. \A t \in Session \ {s} : Stays(t) /\ pos'[t] = pos[t]
    BY <1>3, OthersAt DEF SessionStep
  <2>3. CASE UNCHANGED meta
    BY <2>1, <2>2, <2>3, WholeKept
  <2>4. CASE /\ pc[s] = "write" /\ pos[s] = Blocks[ct[s].content]
             /\ meta' = meta \cup {UploadRecord(s)}
    BY <2>1, <2>2, <2>4, RecordWhole
  <2> QED
    BY <1>3, <2>3, <2>4 DEF UploadFails
<1>4. ASSUME NEW s \in Session, SessionStep(s),
             ~EncryptFile(s), ~OpenFile(s), ~WriteBlock(s),
             ~InsertRecord(s), ~UploadFails(s)
      PROVE  WholeInv'
  <2>1. \A t \in Session \ {s} : Stays(t) /\ pos'[t] = pos[t]
    BY <1>4, OthersAt
  <2> QED
    BY <1>4, <2>1, QuietSteps, WholeKept
<1>5. CASE CloseDatabase \/ WipeKey \/ Exit \/ Restart \/ UNCHANGED vars
  <2>1. /\ UNCHANGED <<disk, meta, ivs, overlapped>>
        /\ \A t \in Session : pc'[t] = "closed" \/ (Stays(t) /\ pos'[t] = pos[t])
    BY <1>5 DEF CloseDatabase, WipeKey, Exit, Restart, vars, local, Stays
  <2> QED
    BY <2>1, WholeKept
<1> QED
  BY <1>1, <1>2, <1>3, <1>4, <1>5 DEF Next

\* For any number of handler threads, a file that begins like a recorded version is that
\* version to its last block, or without it where a flush has failed, whatever uploads
\* failed or crashed half-way before and after; unless it was opened while another
\* thread wrote it.
THEOREM RecordedFilesAreWhole == Spec => []RecordedFileIsWhole
<1>1. Inv /\ WholeInv => RecordedFileIsWhole
  <2> SUFFICES ASSUME Inv, WholeInv, NEW doc \in meta, doc.name \notin overlapped,
                      disk[doc.name] # <<>>, disk[doc.name][1].ct = doc.ct
               PROVE  \/ disk[doc.name] = WholeFile(doc.ct)
                      \/ Faults /\ disk[doc.name] =
                                      Piece(doc.ct, Blocks[doc.ct.content] - 1)
    BY DEF RecordedFileIsWhole
  <2>1. doc.name \in Filename
    BY DEF Inv, Core, Typed, StoreTypeOK, Record
  <2>2. PICK c \in Ciphertext : \E k \in 1..Blocks[c.content] : IsPiece(doc.name, c, k)
    BY <2>1 DEF WholeInv, Pieces
  <2>3. PICK k \in 1..Blocks[c.content] : IsPiece(doc.name, c, k)
    BY <2>2
  <2>4. Blocks[c.content] \in Nat
    BY ContentAssumption DEF Ciphertext
  <2>5. doc.ct = c
    <3>1. k \in Nat /\ k > 0
      BY <2>4
    <3>2. Piece(c, k)[1] = [ct |-> c, i |-> 1]
      BY <3>1, NextPiece
    <3> QED
      BY <2>3, <3>2 DEF IsPiece
  <2>6. k = Blocks[c.content] \/ TailLost(c, k)
    BY <2>3, <2>4, <2>5 DEF IsPiece, Unfinished
  <2> QED
    BY <2>3, <2>5, <2>6 DEF IsPiece, WholeFile, TailLost
<1> QED
  BY <1>1, WholeInit, WholeNext, ServerInvariant, PTL DEF Spec
===============================================================================
