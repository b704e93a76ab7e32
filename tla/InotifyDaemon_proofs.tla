------------------------ MODULE InotifyDaemon_proofs ------------------------
(* The proofs about InotifyDaemon: its types, that no event is logged twice,  *)
(* and that the last change of a file is logged, for any names, any length of *)
(* the queue, any starts, ends and crashes.                                   *)
EXTENDS InotifyDaemon, TLAPS, SequenceTheorems, FiniteSetTheorems

\* The journal's own invariant and its proofs.
JP == INSTANCE ProcJournal_proofs WITH
        Appender <- Daemon, Process <- {{d} : d \in Daemon}, FileId <- File,
        Kind <- Entry, Faults <- MongoFaults, MaxKeys <- MaxChanges

JournalInv == JP!IInv

\* Only the event of an overflow goes into a full queue.
Bounded(q) ==
    /\ q \in Seq(Queueable)
    /\ Len(q) <= QueueMax + 1
    /\ Len(q) = QueueMax + 1 => q[Len(q)] = Overflow

\* TypeOK without the journal.
DaemonTypeOK ==
    /\ tree \in [File -> {"nothing", "file", "directory"}]
    /\ changes \in 0..MaxChanges /\ starts \in 0..MaxStarts
    /\ happened \in [File -> [Kind -> Nat]]
    /\ last \in [Daemon -> [File -> Kind \cup {"none"}]]
    /\ queue \in [Daemon -> Seq(Queueable)] /\ \A d \in Daemon : Bounded(queue[d])
    /\ batch \in [Daemon -> Seq(Queueable)]
    /\ overflown \in [Daemon -> BOOLEAN] /\ stop \in [Daemon -> BOOLEAN]
    /\ pc \in [Daemon -> {"off", "check", "write_pid", "init", "loop", "hung"}]
    /\ pidfile \in Daemon \cup {NoPid}

\* No name changes more often than the directory.
HappenedBound == \A f \in File : \A k \in Kind : happened[f][k] <= changes

Typed == DaemonTypeOK /\ HappenedBound /\ JournalInv

\* The events daemon d has before it, those it has read first.
Pending(d) == batch[d] \o queue[d]

\* The events that are logged as a change of kind k of name f.
LoggedAs(f, k) == {e \in [name : {f}, mask : Mask] : KindOf[e.mask] = k}

\* How many members of E sequence s holds.
Count(s, E) == Cardinality({i \in DOMAIN s : s[i] \in E})

\* How many events of kind k the proc map m holds.
Entries(m, k) == Cardinality({i \in DOMAIN m : m[i].kind.type = k})

\* Is daemon d about to append an event of kind k of name f?
InHand(d, f, k) ==
    IF at[d] # "idle" /\ call[d].id = f /\ call[d].kind.type = k THEN 1 ELSE 0

\* Every event that is logged, being logged or still to be looked at stands for
\* a change of its own.
Accounted ==
    \A d \in Daemon : \A f \in File : \A k \in Kind :
        Entries(proc[f], k) + InHand(d, f, k) + Count(Pending(d), LoggedAs(f, k))
            <= happened[f][k]

\* A name that was last written or moved here is there.
LastStands ==
    \A d \in Daemon : \A f \in File :
        last[d][f] \in {"modified", "moved_to"} => tree[f] # "nothing"

\* The last event of name f in sequence s is of kind k.
EndsWith(s, f, k) ==
    \E i \in DOMAIN s :
        /\ s[i].name = f /\ KindOf[s[i].mask] = k
        /\ \A j \in DOMAIN s : s[j].name = f => j <= i

\* No event of sequence s is of name f.
Silent(s, f) == \A i \in DOMAIN s : s[i].name # f

\* The entry that stands for the last change daemon d has seen of name f.
LastEntry(d, f) == [type |-> last[d][f], nth |-> happened[f][last[d][f]]]

\* The last change of name f is yet to be looked at, is being appended by d, or is
\* in the journal where nothing overwrites it any more.
OnItsWay(d, f) ==
    \/ EndsWith(Pending(d), f, last[d][f])
    \/ /\ Silent(Pending(d), f)
       /\ \/ at[d] # "idle" /\ call[d] = [id |-> f, kind |-> LastEntry(d, f)]
          \/ /\ at[d] = "idle" \/ call[d].id # f
             /\ \E i \in DOMAIN proc[f] : proc[f][i].kind = LastEntry(d, f)

NothingLost ==
    \A d \in Daemon : \A f \in File :
        pc[d] = "loop" /\ ~overflown[d] /\ last[d][f] # "none" /\ tree[f] # "directory"
        => OnItsWay(d, f)

-----------------------------------------------------------------------------
(* The journal inside the daemon *)

\* There is something to tell.
LEMMA EntryExists == Entry # {}
<1>1. [type |-> "modified", nth |-> 0] \in Entry
  BY DaemonBoundsAssumption DEF Entry, Kind
<1> QED
  BY <1>1

\* The daemon's calls of append_proc_event, their steps and their end are those
\* of ProcJournal, so its invariant carries over.
LEMMA JournalBegin ==
    ASSUME JournalInv, NEW d \in Daemon, NEW f \in File, NEW k \in Entry, J!Begin(d, f, k)
    PROVE  JournalInv'
<1>1. JP!Begin(d, f, k)
  BY DEF J!Begin, JP!Begin
<1>2. Entry # {}
  BY EntryExists
<1> QED
  BY <1>1, <1>2, JP!BeginIInv, DaemonBoundsAssumption, WatchAssumption DEF JournalInv

\* A step of append_proc_event in the daemon.
LEMMA JournalStepInv ==
    ASSUME JournalInv, NEW d \in Daemon, J!Step(d)
    PROVE  JournalInv'
<1>1. ASSUME J!CreateBaseDocument(d) PROVE JP!CreateBaseDocument(d)
  BY <1>1 DEF J!CreateBaseDocument, JP!CreateBaseDocument, J!Outcomes, JP!Outcomes,
              J!Return, JP!Return, J!NoCall, JP!NoCall, J!Call, JP!Call
<1>2. ASSUME J!GetNextProcKey(d) PROVE JP!GetNextProcKey(d)
  BY <1>2 DEF J!GetNextProcKey, JP!GetNextProcKey, J!MaxKey, JP!MaxKey,
              J!KeysCounted, JP!KeysCounted, J!Return, JP!Return, J!NoCall, JP!NoCall,
              J!Call, JP!Call, J!Max, JP!Max
<1>3. ASSUME J!SetEvent(d) PROVE JP!SetEvent(d)
  BY <1>3 DEF J!SetEvent, JP!SetEvent, J!Outcomes, JP!Outcomes, J!Stored, JP!Stored,
              J!Return, JP!Return, J!NoCall, JP!NoCall, J!Call, JP!Call
<1>4. Entry # {}
  BY EntryExists
<1>5. ASSUME JP!CreateBaseDocument(d) PROVE JournalInv'
  BY <1>4, <1>5, JP!CreateBaseDocumentIInv, DaemonBoundsAssumption, WatchAssumption
     DEF JournalInv
<1>6. ASSUME JP!GetNextProcKey(d) PROVE JournalInv'
  BY <1>4, <1>6, JP!GetNextProcKeyIInv, DaemonBoundsAssumption, WatchAssumption
     DEF JournalInv
<1>7. ASSUME JP!SetEvent(d) PROVE JournalInv'
  BY <1>4, <1>7, JP!SetEventIInv, DaemonBoundsAssumption, WatchAssumption DEF JournalInv
<1> QED
  BY <1>1, <1>2, <1>3, <1>5, <1>6, <1>7 DEF J!Step

\* The daemon's end in the middle of append_proc_event.
LEMMA JournalStop ==
    ASSUME JournalInv, NEW d \in Daemon, J!Stop({d})
    PROVE  JournalInv'
<1>1. JP!Stop({d})
  BY DEF J!Stop, JP!Stop, J!NoCall, JP!NoCall, J!Call, JP!Call
<1>2. Entry # {}
  BY EntryExists
<1> QED
  BY <1>1, <1>2, JP!StopIInv, DaemonBoundsAssumption, WatchAssumption DEF JournalInv

\* A step that is none of the journal.
LEMMA JournalUnchanged ==
    ASSUME JournalInv, UNCHANGED journal
    PROVE  JournalInv'
  BY DEF JournalInv, journal, JP!IInv, JP!TypeOK, JP!IsSequence, JP!EventsHaveBase,
         JP!NextKeyInRange

\* The empty collection.
LEMMA JournalInit ==
    ASSUME J!Init
    PROVE  JournalInv
<1>1. JP!Init
  BY DEF J!Init, JP!Init, J!NoCall, JP!NoCall, J!Call, JP!Call
<1>2. Entry # {}
  BY EntryExists
<1> QED
  BY <1>1, <1>2, JP!InitIInv, DaemonBoundsAssumption, WatchAssumption DEF JournalInv

\* What the journal's invariant says of its variables here.
LEMMA JournalTyped ==
    ASSUME JournalInv
    PROVE  /\ J!TypeOK
           /\ \A f \in File : proc[f] \in Seq([by : Daemon, kind : Entry])
           /\ call \in [Daemon -> [id : File, kind : Entry]]
           /\ at \in [Daemon -> {"idle", "base", "key", "set"}]
           /\ DOMAIN proc = File
           /\ \A d \in Daemon : at[d] = "set" => call[d].id \in base
<1>1. J!TypeOK
  BY DEF JournalInv, JP!IInv, JP!TypeOK, J!TypeOK, JP!Call, J!Call, JP!Event, J!Event
<1>2. \A f \in File : proc[f] \in Seq([by : Daemon, kind : Entry])
  BY DEF JournalInv, JP!IInv, JP!IsSequence, JP!Event
<1>3. \A d \in Daemon : at[d] = "set" => call[d].id \in base
  BY DEF JournalInv, JP!IInv, JP!EventsHaveBase
<1> QED
  BY <1>1, <1>2, <1>3 DEF J!TypeOK, J!Call

-----------------------------------------------------------------------------
(* Queues *)

\* The events of the watch and the kinds they are logged as.
LEMMA Masks ==
    /\ Overflow \in Queueable
    /\ \A m \in Mask : KindOf[m] \in Kind
    /\ \A f \in File, m \in Mask : /\ [name |-> f, mask |-> m] \in Queueable
                                   /\ [name |-> f, mask |-> m] # Overflow
    /\ \A e \in Queueable : e # Overflow => e.name \in File /\ e.mask \in Mask
    /\ \A e \in Queueable : e.name \in File => e # Overflow
<1>1. Overflow \in Queueable
  BY DEF Queueable
<1>2. \A m \in Mask : KindOf[m] \in Kind
  BY DEF Mask, KindOf, Kind
<1>3. Overflow.name \notin File
  BY WatchAssumption DEF Overflow
<1>4. \A f \in File, m \in Mask : [name |-> f, mask |-> m] \in Queueable
  BY DEF Queueable
<1>5. \A f \in File, m \in Mask : [name |-> f, mask |-> m] # Overflow
  BY <1>3
<1>6. \A e \in Queueable : e # Overflow => e.name \in File /\ e.mask \in Mask
  BY DEF Queueable
<1>7. \A e \in Queueable : e.name \in File => e # Overflow
  BY <1>3
<1> QED
  BY <1>1, <1>2, <1>4, <1>5, <1>6, <1>7

\* A queue takes an event as its last one, merges it, or overflows.
LEMMA QueuedCases ==
    ASSUME NEW q, Bounded(q), NEW e \in Queueable
    PROVE  /\ Bounded(Queued(q, e))
           /\ \/ Queued(q, e) = Append(q, e)
              \/ Queued(q, e) = Append(q, Overflow) /\ Full(q)
              \/ Queued(q, e) = q /\ (Full(q) \/ (q # <<>> /\ q[Len(q)] = e))
<1>1. /\ QueueMax \in Nat \ {0} /\ Overflow \in Queueable
      /\ q \in Seq(Queueable) /\ Len(q) \in Nat /\ Len(q) <= QueueMax + 1
      /\ Len(q) = QueueMax + 1 => q[Len(q)] = Overflow
  BY QueueAssumption, Masks DEF Bounded
<1>2. CASE q # <<>> /\ q[Len(q)] = e
  <2>1. Queued(q, e) = q
    BY <1>2 DEF Queued
  <2> QED
    BY <1>2, <2>1, Zenon
<1>3. CASE q # <<>> /\ Full(q) /\ q[Len(q)] = Overflow
  <2>1. Queued(q, e) = q
    BY <1>3 DEF Queued, Queueing
  <2> QED
    BY <1>3, <2>1, Zenon
<1>4. CASE ~(q # <<>> /\ q[Len(q)] = e) /\ Full(q) /\ q[Len(q)] # Overflow
  <2>1. Queued(q, e) = Append(q, Overflow)
    BY <1>4 DEF Queued, Queueing
  <2>2. Len(q) <= QueueMax
    BY <1>1, <1>4
  <2>3. Bounded(Append(q, Overflow))
    BY <1>1, <2>2, AppendProperties DEF Bounded
  <2> QED
    BY <1>4, <2>1, <2>3
<1>5. CASE ~(q # <<>> /\ q[Len(q)] = e) /\ ~Full(q)
  <2>1. Queued(q, e) = Append(q, e)
    BY <1>5 DEF Queued, Queueing
  <2>2. Len(q) < QueueMax
    BY <1>1, <1>5 DEF Full
  <2>3. Bounded(Append(q, e))
    BY <1>1, <2>2, AppendProperties DEF Bounded
  <2> QED
    BY <2>1, <2>3
<1>6. Full(q) => q # <<>>
  BY <1>1 DEF Full
<1> QED
  BY <1>2, <1>3, <1>4, <1>5, <1>6

\* What is left of a queue when its first events are read is bounded.
LEMMA BoundedRest ==
    ASSUME NEW q, Bounded(q), NEW n \in 1..Len(q)
    PROVE  /\ SubSeq(q, 1, n) \in Seq(Queueable)
           /\ Bounded(SubSeq(q, n + 1, Len(q)))
<1>1. q \in Seq(Queueable) /\ Len(q) \in Nat /\ QueueMax \in Nat
  BY QueueAssumption DEF Bounded
<1>2. SubSeq(q, 1, n) \in Seq(Queueable)
  BY <1>1
<1> DEFINE r == SubSeq(q, n + 1, Len(q))
<1>3. r \in Seq(Queueable) /\ Len(r) = Len(q) - n
  BY <1>1
<1>4. Len(r) < QueueMax + 1
  BY <1>1, <1>3 DEF Bounded
<1> HIDE DEF r
<1>5. Bounded(r)
  BY <1>1, <1>3, <1>4 DEF Bounded
<1> QED
  BY <1>2, <1>5 DEF r

\* The queue of a new watch.
LEMMA BoundedEmpty == Bounded(<<>>)
<1>1. <<>> \in Seq(Queueable) /\ Len(<<>>) = 0
  OBVIOUS
<1>2. QueueMax \in Nat /\ 0 <= QueueMax + 1 /\ 0 # QueueMax + 1
  BY QueueAssumption
<1> QED
  BY <1>1, <1>2 DEF Bounded

-----------------------------------------------------------------------------
(* Types *)

\* No daemon, no event, no change.
LEMMA TypedInit == Init => Typed
<1> SUFFICES ASSUME Init PROVE Typed
  OBVIOUS
<1>1. JournalInv
  BY JournalInit DEF Init
<1>2. DaemonTypeOK
  BY BoundedEmpty, DaemonBoundsAssumption DEF Init, InitDaemon, DaemonTypeOK
<1>3. HappenedBound
  BY DEF Init, InitDaemon, HappenedBound
<1> QED
  BY <1>1, <1>2, <1>3 DEF Typed

\* A change of the directory, with its event in the queues of the watches.
LEMMA ChangeTyped ==
    ASSUME Typed, NEW f \in File, NEW m \in Mask,
           NEW k \in {"nothing", "file", "directory"}, Change(f, m, k)
    PROVE  Typed'
<1> DEFINE e == [name |-> f, mask |-> m]
<1>1. DaemonTypeOK /\ HappenedBound /\ JournalInv
  BY DEF Typed
<1>2. e \in Queueable /\ KindOf[m] \in Kind
  BY Masks
<1>3. changes' = changes + 1 /\ changes' \in 0..MaxChanges
  BY <1>1, DaemonBoundsAssumption DEF Change, DaemonTypeOK
<1>4. JournalInv'
  BY <1>1, JournalUnchanged DEF Change
<1>5. queue' \in [Daemon -> Seq(Queueable)] /\ \A d \in Daemon : Bounded(queue'[d])
  <2>1. \A d \in Daemon : Bounded(queue[d]) /\ Bounded(Queued(queue[d], e))
    BY <1>1, <1>2, QueuedCases DEF DaemonTypeOK
  <2>2. \A d \in Daemon : queue'[d] \in {queue[d], Queued(queue[d], e)}
    BY DEF Change
  <2>3. \A d \in Daemon : Bounded(queue'[d])
    BY <2>1, <2>2
  <2>4. \A d \in Daemon : queue'[d] \in Seq(Queueable)
    BY <2>3 DEF Bounded
  <2> QED
    BY <2>3, <2>4 DEF Change
<1>6. happened' \in [File -> [Kind -> Nat]] /\ HappenedBound'
  BY <1>1, <1>2, <1>3, DaemonBoundsAssumption DEF Change, DaemonTypeOK, HappenedBound
<1>7. overflown' \in [Daemon -> BOOLEAN]
  <2>1. \A d \in Daemon : (overflown[d] \/ (Watching(d) /\ Full(queue[d]))) \in BOOLEAN
    BY <1>1 DEF DaemonTypeOK, Watching, Full
  <2> QED
    BY <2>1 DEF Change
<1>8. tree' \in [File -> {"nothing", "file", "directory"}]
  BY <1>1 DEF Change, DaemonTypeOK
<1>9. last' \in [Daemon -> [File -> Kind \cup {"none"}]]
  <2>1. \A d \in Daemon :
           [last[d] EXCEPT ![f] = KindOf[m]] \in [File -> Kind \cup {"none"}]
    BY <1>1, <1>2 DEF DaemonTypeOK
  <2> QED
    BY <2>1 DEF Change
<1>10. DaemonTypeOK'
  BY <1>1, <1>3, <1>5, <1>6, <1>7, <1>8, <1>9 DEF Change, DaemonTypeOK
<1> QED
  BY <1>4, <1>6, <1>10 DEF Typed

\* The end of a process, whatever it leaves in the journal and in PID_FILE.
LEMMA GoneTyped ==
    ASSUME Typed, NEW d \in Daemon, Gone(d), UNCHANGED <<directory, overflown, starts>>,
           pidfile' \in {pidfile, NoPid}, JournalInv'
    PROVE  Typed'
<1>1. DaemonTypeOK /\ HappenedBound
  BY DEF Typed
<1>2. HappenedBound'
  BY <1>1 DEF HappenedBound, directory
<1>3. queue' \in [Daemon -> Seq(Queueable)] /\ \A c \in Daemon : Bounded(queue'[c])
  <2>1. \A c \in Daemon : Bounded(queue'[c])
    BY <1>1, BoundedEmpty DEF Gone, DaemonTypeOK
  <2>2. queue' \in [Daemon -> Seq(Queueable)]
    BY <1>1 DEF Gone, DaemonTypeOK
  <2> QED
    BY <2>1, <2>2
<1>4. batch' \in [Daemon -> Seq(Queueable)]
  BY <1>1 DEF Gone, DaemonTypeOK
<1>5. DaemonTypeOK'
  BY <1>1, <1>3, <1>4 DEF Gone, DaemonTypeOK, directory
<1> QED
  BY <1>2, <1>5 DEF Typed

\* The head of the batch and what is left of it.
LEMMA BatchTyped ==
    ASSUME Typed, NEW d \in Daemon, batch[d] # <<>>
    PROVE  /\ Head(batch[d]) \in Queueable
           /\ Tail(batch[d]) \in Seq(Queueable)
  BY HeadTailProperties DEF Typed, DaemonTypeOK

\* What the daemon appends for an event is an entry.
LEMMA EntryTyped ==
    ASSUME Typed, NEW e \in Queueable, e # Overflow
    PROVE  EntryOf(e) \in Entry
<1>1. e.name \in File /\ e.mask \in Mask /\ KindOf[e.mask] \in Kind
  BY Masks
<1>2. happened[e.name][KindOf[e.mask]] \in 0..MaxChanges
  BY <1>1, DaemonBoundsAssumption DEF Typed, DaemonTypeOK, HappenedBound
<1> QED
  BY <1>1, <1>2 DEF EntryOf, Entry

\* The types are inductive.
LEMMA TypedNext == Typed /\ [Next]_vars => Typed'
<1> SUFFICES ASSUME Typed, [Next]_vars PROVE Typed'
  OBVIOUS
<1>1. DaemonTypeOK /\ HappenedBound /\ JournalInv
  BY DEF Typed
<1>2. ASSUME UNCHANGED <<happened, changes>> PROVE HappenedBound'
  BY <1>1, <1>2 DEF HappenedBound
<1>3. CASE UNCHANGED vars
  BY <1>1, <1>2, <1>3, JournalUnchanged DEF vars, journal, Typed, DaemonTypeOK
<1>4. ASSUME NEW f \in File, Create(f) PROVE Typed'
  <2>1. changes' = changes + 1 /\ changes' \in 0..MaxChanges
    BY <1>1, <1>4, DaemonBoundsAssumption DEF Create, DaemonTypeOK
  <2>2. HappenedBound'
    BY <1>1, <1>4, <2>1 DEF Create, DaemonTypeOK, HappenedBound
  <2>3. JournalInv'
    BY <1>1, <1>4, JournalUnchanged DEF Create
  <2>4. DaemonTypeOK'
    BY <1>1, <1>4, <2>1 DEF Create, DaemonTypeOK, watch
  <2> QED
    BY <2>2, <2>3, <2>4 DEF Typed
<1>5. ASSUME NEW f \in File, CloseWrite(f) \/ MovedTo(f) \/ Delete(f) \/ MovedFrom(f)
      PROVE  Typed'
  BY <1>5, ChangeTyped DEF CloseWrite, MovedTo, Delete, MovedFrom, Mask
<1>6. ASSUME NEW d \in Daemon, CheckPidFile(d) PROVE Typed'
  BY <1>1, <1>2, <1>6, JournalUnchanged
     DEF CheckPidFile, Typed, DaemonTypeOK, directory, watch
<1>7. ASSUME NEW d \in Daemon, WritePidFile(d) PROVE Typed'
  BY <1>1, <1>2, <1>7, JournalUnchanged
     DEF WritePidFile, Typed, DaemonTypeOK, directory, watch
<1>8. ASSUME NEW d \in Daemon, Initialize(d) PROVE Typed'
  <2>1. [f \in File |-> "none"] \in [File -> Kind \cup {"none"}]
    OBVIOUS
  <2>2. last' \in [Daemon -> [File -> Kind \cup {"none"}]]
    BY <1>1, <1>8, <2>1 DEF Initialize, DaemonTypeOK
  <2> QED
    BY <1>1, <1>2, <1>8, <2>2, JournalUnchanged DEF Initialize, Typed, DaemonTypeOK
<1>9. ASSUME NEW d \in Daemon, ReadEvents(d) PROVE Typed'
  <2>1. PICK n \in 1..Len(queue[d]) :
           /\ batch' = [batch EXCEPT ![d] = SubSeq(queue[d], 1, n)]
           /\ queue' = [queue EXCEPT ![d] = SubSeq(@, n + 1, Len(@))]
    BY <1>9 DEF ReadEvents
  <2>2. Bounded(queue[d])
    BY <1>1 DEF DaemonTypeOK
  <2>3. SubSeq(queue[d], 1, n) \in Seq(Queueable)
        /\ Bounded(SubSeq(queue[d], n + 1, Len(queue[d])))
    BY <2>2, BoundedRest
  <2>4. queue' \in [Daemon -> Seq(Queueable)] /\ \A c \in Daemon : Bounded(queue'[c])
    BY <1>1, <2>1, <2>3 DEF DaemonTypeOK
  <2>5. batch' \in [Daemon -> Seq(Queueable)]
    BY <1>1, <2>1, <2>3 DEF DaemonTypeOK
  <2> QED
    BY <1>1, <1>2, <1>9, <2>4, <2>5, JournalUnchanged
       DEF ReadEvents, Typed, DaemonTypeOK, directory
<1>10. ASSUME NEW d \in Daemon, HandleEvent(d) PROVE Typed'
  <2>1. Head(batch[d]) \in Queueable /\ Tail(batch[d]) \in Seq(Queueable)
    BY <1>10, BatchTyped DEF HandleEvent
  <2>2. Head(batch[d]).name \in File /\ EntryOf(Head(batch[d])) \in Entry
    BY <1>10, <2>1, Masks, EntryTyped DEF HandleEvent, Logged
  <2>3. JournalInv'
    BY <1>1, <1>10, <2>2, JournalBegin DEF HandleEvent
  <2>4. batch' \in [Daemon -> Seq(Queueable)]
    BY <1>1, <1>10, <2>1 DEF HandleEvent, Advance, DaemonTypeOK
  <2> QED
    BY <1>1, <1>2, <1>10, <2>3, <2>4
       DEF HandleEvent, Typed, DaemonTypeOK, directory, watch
<1>11. ASSUME NEW d \in Daemon, SkipEvent(d) PROVE Typed'
  <2>1. Tail(batch[d]) \in Seq(Queueable)
    BY <1>11, BatchTyped DEF SkipEvent
  <2>2. batch' \in [Daemon -> Seq(Queueable)]
    BY <1>1, <1>11, <2>1 DEF SkipEvent, Advance, DaemonTypeOK
  <2> QED
    BY <1>1, <1>2, <1>11, <2>2, JournalUnchanged
       DEF SkipEvent, Typed, DaemonTypeOK, directory, watch
<1>12. ASSUME NEW d \in Daemon, AppendEvent(d) PROVE Typed'
  BY <1>1, <1>2, <1>12, JournalStepInv
     DEF AppendEvent, Typed, DaemonTypeOK, directory, watch
<1>13. ASSUME NEW d \in Daemon, Start(d) PROVE Typed'
  BY <1>1, <1>2, <1>13, JournalUnchanged, DaemonBoundsAssumption
     DEF Start, Typed, DaemonTypeOK, directory, watch
<1>14. ASSUME NEW d \in Daemon, Signal(d) PROVE Typed'
  BY <1>1, <1>2, <1>14, JournalUnchanged DEF Signal, Typed, DaemonTypeOK, directory, watch
<1>15. ASSUME NEW d \in Daemon, InitializeFails(d) \/ Shutdown(d) PROVE Typed'
  BY <1>1, <1>15, GoneTyped, JournalUnchanged DEF InitializeFails, Shutdown
<1>16. ASSUME NEW d \in Daemon, Crash(d) PROVE Typed'
  <2>1. JournalInv'
    BY <1>1, <1>16, JournalStop, JournalUnchanged DEF Crash
  <2> QED
    BY <1>16, <2>1, GoneTyped DEF Crash
<1> QED
  BY <1>3, <1>4, <1>5, <1>6, <1>7, <1>8, <1>9, <1>10, <1>11, <1>12, <1>13, <1>14,
     <1>15, <1>16 DEF Next, DaemonStep

\* What the types say of the run's invariant.
LEMMA TypedTypeOK == Typed => TypeOK
<1> SUFFICES ASSUME Typed PROVE TypeOK
  OBVIOUS
<1>1. DaemonTypeOK /\ HappenedBound /\ J!TypeOK
  BY JournalTyped DEF Typed
<1>2. happened \in [File -> [Kind -> 0..MaxChanges]]
  <2>1. \A f \in File : happened[f] \in [Kind -> 0..MaxChanges]
    <3>1. \A f \in File, k \in Kind : happened[f][k] \in 0..MaxChanges
      BY <1>1, DaemonBoundsAssumption DEF DaemonTypeOK, HappenedBound
    <3> QED
      BY <1>1, <3>1 DEF DaemonTypeOK
  <2> QED
    BY <1>1, <2>1 DEF DaemonTypeOK
<1>3. queue \in [Daemon -> Seq(Queueable)] /\ \A d \in Daemon : Len(queue[d]) <= QueueMax + 1
  BY <1>1 DEF DaemonTypeOK, Bounded
<1> QED
  BY <1>1, <1>2, <1>3 DEF DaemonTypeOK, TypeOK

-----------------------------------------------------------------------------
(* The events a daemon has before it *)

\* A read moves events from the queue to the batch, in their order.
LEMMA ReadMoves ==
    ASSUME NEW S, NEW q \in Seq(S), NEW n \in 1..Len(q)
    PROVE  SubSeq(q, 1, n) \o SubSeq(q, n + 1, Len(q)) = <<>> \o q
<1>1. SubSeq(q, 1, n) \o SubSeq(q, n + 1, Len(q)) = SubSeq(q, 1, Len(q))
  BY ConcatAdjacentSubSeq
<1> QED
  BY <1>1, ConcatEmptySeq, SubSeqFull

\* The first event to be handled is the head of the batch.
LEMMA HeadMoves ==
    ASSUME NEW S, NEW b \in Seq(S), NEW q \in Seq(S), b # <<>>
    PROVE  b \o q # <<>> /\ Head(b \o q) = Head(b) /\ Tail(b \o q) = Tail(b) \o q
<1>1. b \o q \in Seq(S) /\ Len(b) \in Nat /\ Len(q) \in Nat /\ Len(b) > 0
  OBVIOUS
<1>2. /\ Tail(b) \in Seq(S) /\ Len(Tail(b)) = Len(b) - 1
      /\ Tail(b \o q) \in Seq(S) /\ Len(Tail(b \o q)) = Len(b) + Len(q) - 1
      /\ Len(b \o q) = Len(b) + Len(q)
  BY <1>1
<1>3. Head(b \o q) = Head(b)
  BY <1>1
<1>4. Tail(b) \o q \in Seq(S) /\ Len(Tail(b) \o q) = Len(b) + Len(q) - 1
  BY <1>1, <1>2
<1>5. ASSUME NEW i \in 1..(Len(b) + Len(q) - 1)
      PROVE  Tail(b \o q)[i] = (Tail(b) \o q)[i]
  BY <1>1, <1>2
<1>6. Tail(b \o q) = Tail(b) \o q
  BY <1>2, <1>4, <1>5, SeqEqual
<1> QED
  BY <1>1, <1>2, <1>3, <1>6

\* A new event comes last.
LEMMA AppendMoves ==
    ASSUME NEW S, NEW b \in Seq(S), NEW q \in Seq(S), NEW x \in S
    PROVE  b \o Append(q, x) = Append(b \o q, x)
  BY AppendIsConcat, ConcatAssociative, ConcatProperties

\* The last event of the queue is the last one to be handled.
LEMMA LastMoves ==
    ASSUME NEW S, NEW b \in Seq(S), NEW q \in Seq(S), q # <<>>
    PROVE  b \o q # <<>> /\ (b \o q)[Len(b \o q)] = q[Len(q)]
<1>1. Len(b) \in Nat /\ Len(q) \in Nat /\ Len(q) > 0 /\ Len(b \o q) = Len(b) + Len(q)
  OBVIOUS
<1>2. (b \o q)[Len(b) + Len(q)] = q[Len(q)]
  BY <1>1
<1> QED
  BY <1>1, <1>2

\* The number of members of E in a sequence, when one comes or goes.
LEMMA CountMoves ==
    ASSUME NEW S, NEW s \in Seq(S), NEW E
    PROVE  /\ Count(s, E) \in Nat
           /\ \A e \in S : Count(Append(s, e), E) =
                             Count(s, E) + (IF e \in E THEN 1 ELSE 0)
           /\ s # <<>> => Count(s, E) = Count(Tail(s), E) +
                                        (IF Head(s) \in E THEN 1 ELSE 0)
<1> DEFINE At(q) == {i \in 1..Len(q) : q[i] \in E}
<1>1. \A q \in Seq(S) : /\ IsFiniteSet(At(q)) /\ Cardinality(At(q)) \in Nat
                         /\ Count(q, E) = Cardinality(At(q))
  <2> SUFFICES ASSUME NEW q \in Seq(S)
               PROVE  /\ IsFiniteSet(At(q)) /\ Cardinality(At(q)) \in Nat
                      /\ Count(q, E) = Cardinality(At(q))
    OBVIOUS
  <2>1. DOMAIN q = 1..Len(q) /\ Len(q) \in Nat
    OBVIOUS
  <2>2. IsFiniteSet(At(q))
    <3>1. IsFiniteSet(1..Len(q)) /\ At(q) \in SUBSET (1..Len(q))
      BY <2>1, FS_Interval
    <3> HIDE DEF At
    <3> QED
      BY <3>1, FS_Subset
  <2> QED
    BY <2>1, <2>2, FS_CardinalityType DEF Count
<1>2. ASSUME NEW e \in S
      PROVE  Count(Append(s, e), E) = Count(s, E) + (IF e \in E THEN 1 ELSE 0)
  <2> DEFINE n == Len(s) + 1
  <2>1. /\ Append(s, e) \in Seq(S) /\ Len(Append(s, e)) = n /\ n \in Nat
        /\ Append(s, e)[n] = e /\ \A i \in 1..Len(s) : Append(s, e)[i] = s[i]
        /\ Len(s) \in Nat
    BY AppendProperties
  <2>2. At(Append(s, e)) = IF e \in E THEN At(s) \cup {n} ELSE At(s)
    BY <2>1
  <2>3. n \notin At(s)
    BY <2>1
  <2> HIDE DEF At, n
  <2>4. Cardinality(At(s) \cup {n}) = Cardinality(At(s)) + 1
    BY <1>1, <2>3, FS_AddElement
  <2>5. /\ Count(s, E) = Cardinality(At(s))
        /\ Count(Append(s, e), E) = Cardinality(At(Append(s, e)))
    BY <1>1, <2>1
  <2> QED
    BY <2>2, <2>4, <2>5, <1>1
<1>3. ASSUME s # <<>>
      PROVE  Count(s, E) = Count(Tail(s), E) + (IF Head(s) \in E THEN 1 ELSE 0)
  <2> DEFINE t == Tail(s)
             f == [i \in At(t) |-> i + 1]
             Rest == {i \in 2..Len(s) : s[i] \in E}
  <2>1. /\ t \in Seq(S) /\ Len(t) = Len(s) - 1 /\ Len(s) \in Nat /\ Len(s) >= 1
        /\ \A i \in 1..Len(t) : t[i] = s[i + 1]
        /\ Head(s) = s[1]
    BY <1>3, HeadTailProperties
  <2>2. f \in Bijection(At(t), Rest)
    <3>1. \A i \in At(t) : i + 1 \in Rest
      BY <2>1
    <3>2. \A j \in Rest : j - 1 \in At(t) /\ f[j - 1] = j
      <4> SUFFICES ASSUME NEW j \in Rest PROVE j - 1 \in At(t) /\ (j - 1) + 1 = j
        OBVIOUS
      <4>1. j \in 2..Len(s) /\ s[j] \in E /\ j - 1 \in 1..Len(t) /\ (j - 1) + 1 = j
        BY <2>1
      <4>2. t[j - 1] = s[j]
        BY <2>1, <4>1
      <4> QED
        BY <4>1, <4>2
    <3>3. \A i, j \in At(t) : f[i] = f[j] => i = j
      <4> SUFFICES ASSUME NEW i \in At(t), NEW j \in At(t), i + 1 = j + 1 PROVE i = j
        OBVIOUS
      <4>1. i \in 1..Len(t) /\ j \in 1..Len(t)
        OBVIOUS
      <4> QED
        BY <4>1
    <3> HIDE DEF At, Rest
    <3>4. f \in [At(t) -> Rest]
      BY <3>1
    <3> HIDE DEF f
    <3> QED
      BY <3>2, <3>3, <3>4 DEF Bijection, Injection, Surjection, IsInjective
  <2>3. At(s) = IF Head(s) \in E THEN Rest \cup {1} ELSE Rest
    <3>1. 1..Len(s) = {1} \cup 2..Len(s)
      BY <2>1
    <3> QED
      BY <2>1, <3>1
  <2>4. 1 \notin Rest
    OBVIOUS
  <2> HIDE DEF At, Rest, f, t
  <2>5. IsFiniteSet(Rest) /\ Cardinality(Rest) = Cardinality(At(t))
    BY <1>1, <2>1, <2>2, FS_Bijection DEF ExistsBijection
  <2>6. Cardinality(Rest \cup {1}) = Cardinality(Rest) + 1
    BY <1>1, <2>1, <2>4, <2>5, FS_AddElement
  <2>7. Cardinality(At(s)) = Cardinality(At(t)) + (IF Head(s) \in E THEN 1 ELSE 0)
    BY <1>1, <2>1, <2>3, <2>5, <2>6
  <2> QED
    BY <1>1, <2>1, <2>7 DEF t
<1> QED
  BY <1>1, <1>2, <1>3

\* The number of events of kind k in a proc map, when one is stored.
LEMMA EntriesStored ==
    ASSUME NEW S, NEW m \in Seq(S), NEW n, NEW e, NEW k
    PROVE  /\ Entries(m, k) \in Nat /\ Entries(J!Stored(m, n, e), k) \in Nat
           /\ Entries(J!Stored(m, n, e), k) <=
                 Entries(m, k) + (IF e.kind.type = k THEN 1 ELSE 0)
<1> DEFINE r == J!Stored(m, n, e)
           Old == {i \in DOMAIN m : m[i].kind.type = k}
           New == {i \in DOMAIN r : r[i].kind.type = k}
<1>1. IsFiniteSet(DOMAIN m)
  BY FS_Interval
<1>2. IsFiniteSet(Old) /\ Cardinality(Old) \in Nat
  <2>1. Old \in SUBSET DOMAIN m
    OBVIOUS
  <2> HIDE DEF Old
  <2> QED
    BY <1>1, <2>1, FS_Subset, FS_CardinalityType
<1>3. New \in SUBSET (Old \cup {n}) /\ (e.kind.type # k => New \in SUBSET Old)
  BY DEF J!Stored
<1> HIDE DEF Old, New
<1>4. /\ IsFiniteSet(Old \cup {n}) /\ Cardinality(Old \cup {n}) \in Nat
      /\ Cardinality(Old \cup {n}) <= Cardinality(Old) + 1
  <2>1. /\ IsFiniteSet(Old \cup {n})
        /\ Cardinality(Old \cup {n}) \in {Cardinality(Old), Cardinality(Old) + 1}
    BY <1>2, FS_AddElement
  <2> QED
    BY <1>2, <2>1
<1>5. /\ Cardinality(New) \in Nat
      /\ Cardinality(New) <= Cardinality(Old) + (IF e.kind.type = k THEN 1 ELSE 0)
  <2>1. IsFiniteSet(New) /\ Cardinality(New) <= Cardinality(Old \cup {n})
    BY <1>3, <1>4, FS_Subset
  <2>2. Cardinality(New) \in Nat
    BY <2>1, FS_CardinalityType
  <2>3. e.kind.type # k => Cardinality(New) <= Cardinality(Old)
    BY <1>2, <1>3, FS_Subset
  <2> QED
    BY <1>2, <1>4, <2>1, <2>2, <2>3
<1> QED
  BY <1>2, <1>5 DEF Entries, Old, New

-----------------------------------------------------------------------------
(* Nothing is logged twice *)

\* An event in append_proc_event becomes an entry of the journal or is given up.
LEMMA StepAccounted ==
    ASSUME Typed, NEW d \in Daemon, NEW f \in File, NEW k \in Kind, J!Step(d)
    PROVE  /\ Entries(proc'[f], k) \in Nat
           /\ Entries(proc'[f], k) + InHand(d, f, k)'
                <= Entries(proc[f], k) + InHand(d, f, k)
<1>1. /\ proc[f] \in Seq([by : Daemon, kind : Entry]) /\ DOMAIN proc = File
      /\ call[d] \in [id : File, kind : Entry]
      /\ at \in [Daemon -> {"idle", "base", "key", "set"}] /\ DOMAIN call = Daemon
  BY JournalTyped DEF Typed
<1>2. Entries(proc[f], k) \in Nat
  BY <1>1, EntriesStored
<1>3. CASE J!CreateBaseDocument(d)
  <2>1. proc' = proc /\ (at'[d] = "idle" \/ (at[d] # "idle" /\ call' = call))
    BY <1>1, <1>3 DEF J!CreateBaseDocument, J!Return
  <2>2. InHand(d, f, k)' <= InHand(d, f, k)
    BY <2>1 DEF InHand
  <2> QED
    BY <1>2, <2>1, <2>2 DEF InHand
<1>4. CASE J!GetNextProcKey(d)
  <2>1. proc' = proc /\ (at'[d] = "idle" \/ (at[d] # "idle" /\ call' = call))
    BY <1>1, <1>4 DEF J!GetNextProcKey, J!Return
  <2>2. InHand(d, f, k)' <= InHand(d, f, k)
    BY <2>1 DEF InHand
  <2> QED
    BY <1>2, <2>1, <2>2 DEF InHand
<1>5. CASE J!SetEvent(d)
  <2> DEFINE e == [by |-> d, kind |-> call[d].kind]
  <2>1. /\ at[d] = "set" /\ at'[d] = "idle"
        /\ \/ proc' = proc
           \/ proc' = [proc EXCEPT ![call[d].id] = J!Stored(@, next[d], e)]
    BY <1>1, <1>5 DEF J!SetEvent, J!Return
  <2>2. InHand(d, f, k)' = 0
    BY <2>1 DEF InHand
  <2>3. CASE call[d].id = f /\ proc' # proc
    <3>1. proc'[f] = J!Stored(proc[f], next[d], e)
      BY <1>1, <2>1, <2>3
    <3>2. /\ Entries(proc'[f], k) \in Nat
          /\ Entries(proc'[f], k) <= Entries(proc[f], k) + (IF e.kind.type = k THEN 1 ELSE 0)
      BY <1>1, <3>1, EntriesStored
    <3>3. e.kind.type = k => InHand(d, f, k) = 1
      BY <1>1, <2>1, <2>3 DEF InHand
    <3> QED
      BY <1>2, <2>2, <3>2, <3>3 DEF InHand
  <2>4. CASE call[d].id # f \/ proc' = proc
    <3>1. proc'[f] = proc[f]
      BY <1>1, <2>1, <2>4
    <3> QED
      BY <1>2, <2>2, <3>1 DEF InHand
  <2> QED
    BY <2>3, <2>4
<1> QED
  BY <1>3, <1>4, <1>5 DEF J!Step

\* The events of two masks are logged as the same kind of change of a name only
\* when the masks are; that of an overflow is not logged.
LEMMA LoggedAsKind ==
    ASSUME NEW f \in File, NEW k \in Kind
    PROVE  /\ Overflow \notin LoggedAs(f, k)
           /\ \A e \in Queueable :
                 e \in LoggedAs(f, k) <=> e # Overflow /\ e.name = f /\ KindOf[e.mask] = k
<1>1. Overflow \notin LoggedAs(f, k)
  BY WatchAssumption DEF LoggedAs, Overflow
<1>2. ASSUME NEW e \in Queueable, e # Overflow
      PROVE  e \in LoggedAs(f, k) <=> e.name = f /\ KindOf[e.mask] = k
  BY <1>2 DEF LoggedAs, Queueable
<1> QED
  BY <1>1, <1>2

\* One daemon has one batch and one queue, both of events.
LEMMA PendingTyped ==
    ASSUME Typed, NEW d \in Daemon
    PROVE  /\ batch[d] \in Seq(Queueable) /\ queue[d] \in Seq(Queueable)
           /\ Bounded(queue[d]) /\ Pending(d) \in Seq(Queueable)
  BY ConcatProperties DEF Typed, DaemonTypeOK, Pending

\* What a change of the directory adds to what a daemon has before it.
LEMMA PendingChange ==
    ASSUME Typed, NEW d \in Daemon, NEW f \in File, NEW m \in Mask, NEW k, Change(f, m, k)
    PROVE  \/ Pending(d)' = Pending(d) /\ ~Watching(d)
           \/ Pending(d)' = Append(Pending(d), [name |-> f, mask |-> m])
           \/ /\ overflown'[d]
              /\ \/ Pending(d)' = Pending(d)
                 \/ Pending(d)' = Append(Pending(d), Overflow)
           \/ /\ Pending(d)' = Pending(d) /\ Pending(d) # <<>>
              /\ Pending(d)[Len(Pending(d))] = [name |-> f, mask |-> m]
<1> DEFINE e == [name |-> f, mask |-> m]
<1>1. /\ batch[d] \in Seq(Queueable) /\ queue[d] \in Seq(Queueable) /\ Bounded(queue[d])
      /\ e \in Queueable /\ Overflow \in Queueable
  BY PendingTyped, Masks
<1>2. batch' = batch /\ queue'[d] = IF Watching(d) THEN Queued(queue[d], e) ELSE queue[d]
  BY DEF Change
<1>3. ASSUME NEW x \in Queueable
      PROVE  batch[d] \o Append(queue[d], x) = Append(Pending(d), x)
  <2> DEFINE b == batch[d]
             q == queue[d]
  <2>0. b \in Seq(Queueable) /\ q \in Seq(Queueable)
    BY <1>1
  <2> HIDE DEF b, q
  <2>1. b \o Append(q, x) = Append(b \o q, x)
    BY <2>0, AppendMoves
  <2> QED
    BY <2>1 DEF Pending, b, q
<1>4. CASE ~Watching(d)
  BY <1>2, <1>4 DEF Pending
<1>5. CASE Watching(d) /\ Queued(queue[d], e) = Append(queue[d], e)
  <2>1. Pending(d)' = batch[d] \o Append(queue[d], e)
    BY <1>2, <1>5 DEF Pending
  <2> QED
    BY <1>1, <1>3, <2>1
<1>6. CASE /\ Watching(d) /\ Full(queue[d])
           /\ Queued(queue[d], e) \in {queue[d], Append(queue[d], Overflow)}
  <2>1. overflown'[d]
    BY <1>6 DEF Change
  <2>2. \/ Pending(d)' = Pending(d)
        \/ Pending(d)' = batch[d] \o Append(queue[d], Overflow)
    BY <1>2, <1>6 DEF Pending
  <2> QED
    BY <1>1, <1>3, <2>1, <2>2
<1>7. CASE /\ Watching(d) /\ Queued(queue[d], e) = queue[d]
           /\ queue[d] # <<>> /\ queue[d][Len(queue[d])] = e
  <2>1. Pending(d)' = Pending(d)
    BY <1>2, <1>7 DEF Pending
  <2>2. /\ Pending(d)[Len(Pending(d))] = queue[d][Len(queue[d])]
        /\ Pending(d) # <<>>
    BY <1>1, <1>7, LastMoves DEF Pending
  <2> QED
    BY <1>7, <2>1, <2>2
<1> QED
  BY <1>1, <1>4, <1>5, <1>6, <1>7, QueuedCases

\* The number of pending events of a kind when one is added, or the first is taken.
LEMMA PendingCount ==
    ASSUME NEW p \in Seq(Queueable), NEW E
    PROVE  /\ Count(p, E) \in Nat
           /\ \A e \in Queueable :
                 Count(Append(p, e), E) = Count(p, E) + (IF e \in E THEN 1 ELSE 0)
           /\ p # <<>> => Count(p, E) = Count(Tail(p), E) +
                                        (IF Head(p) \in E THEN 1 ELSE 0)
  BY CountMoves

\* When a daemon goes on to its next event, that event leaves what it has before it.
LEMMA PendingAdvance ==
    ASSUME Typed, NEW d \in Daemon, batch[d] # <<>>, Advance(d), queue' = queue
    PROVE  /\ Pending(d) # <<>> /\ Head(Pending(d)) = Head(batch[d])
           /\ Pending(d)' = Tail(Pending(d))
<1>1. batch[d] \in Seq(Queueable) /\ queue[d] \in Seq(Queueable)
  BY PendingTyped
<1>2. batch'[d] = Tail(batch[d]) /\ queue'[d] = queue[d]
  BY DEF Typed, DaemonTypeOK, Advance
<1> DEFINE b == batch[d]
           q == queue[d]
<1> HIDE DEF b, q
<1>3. b \o q # <<>> /\ Head(b \o q) = Head(b) /\ Tail(b \o q) = Tail(b) \o q
  BY <1>1, HeadMoves DEF b, q
<1> QED
  BY <1>2, <1>3 DEF Pending, b, q

\* Reading changes nothing in what a daemon has before it.
LEMMA PendingRead ==
    ASSUME Typed, NEW d \in Daemon, ReadEvents(d)
    PROVE  Pending(d)' = Pending(d)
<1>1. queue[d] \in Seq(Queueable)
  BY PendingTyped
<1>2. PICK n \in 1..Len(queue[d]) :
         /\ batch'[d] = SubSeq(queue[d], 1, n)
         /\ queue'[d] = SubSeq(queue[d], n + 1, Len(queue[d]))
  BY DEF ReadEvents, Typed, DaemonTypeOK
<1>3. batch[d] = <<>>
  BY DEF ReadEvents
<1> QED
  BY <1>1, <1>2, <1>3, ReadMoves DEF Pending

LEMMA AccountedInit == Init => Accounted
<1> SUFFICES ASSUME Init, NEW d \in Daemon, NEW f \in File, NEW k \in Kind
             PROVE  Entries(proc[f], k) + InHand(d, f, k) +
                       Count(Pending(d), LoggedAs(f, k)) <= happened[f][k]
  BY DEF Accounted
<1>1. Pending(d) = <<>>
  BY DEF Init, InitDaemon, Pending
<1>2. InHand(d, f, k) = 0 /\ happened[f][k] = 0 /\ proc[f] = <<>>
  BY DEF Init, InitDaemon, J!Init, InHand
<1>3. Count(<<>>, LoggedAs(f, k)) = 0 /\ Entries(<<>>, k) = 0
  BY FS_EmptySet DEF Count, Entries
<1> QED
  BY <1>1, <1>2, <1>3

\* One daemon logs no change twice.
LEMMA AccountedNext ==
    ASSUME NEW d, Daemon = {d}, Typed, Accounted, [Next]_vars
    PROVE  Accounted'
<1> SUFFICES ASSUME NEW f \in File, NEW k \in Kind
             PROVE  Entries(proc'[f], k) + InHand(d, f, k)' +
                       Count(Pending(d)', LoggedAs(f, k)) <= happened'[f][k]
  BY DEF Accounted
<1> DEFINE E == LoggedAs(f, k)
           P == Pending(d)
           e == Entries(proc[f], k)
           h == InHand(d, f, k)
           c == Count(P, E)
<1>0. PICK p : p = Pending(d)'
  OBVIOUS
<1> SUFFICES Entries(proc'[f], k) + h' + Count(p, E) <= happened'[f][k]
  BY <1>0
<1>1. d \in Daemon /\ e + h + c <= happened[f][k]
  BY DEF Accounted
<1>2. e \in Nat /\ h \in {0, 1} /\ c \in Nat /\ happened[f][k] \in Nat
  <2>1. e \in Nat
    BY JournalTyped, EntriesStored DEF Typed
  <2>2. c \in Nat
    BY <1>1, PendingTyped, PendingCount
  <2> QED
    BY <2>1, <2>2 DEF InHand, Typed, DaemonTypeOK
<1>4. ASSUME NEW g \in File, NEW m \in Mask, NEW b, Change(g, m, b)
      PROVE  Count(p, E) + happened[f][k] <= c + happened'[f][k] /\ happened'[f][k] \in Nat
  <2> DEFINE x == [name |-> g, mask |-> m]
             o == IF x \in E THEN 1 ELSE 0
  <2>1. happened'[f][k] = happened[f][k] + o
    BY <1>4, Masks DEF Change, LoggedAs, Typed, DaemonTypeOK
  <2>2. P \in Seq(Queueable) /\ x \in Queueable /\ Overflow \in Queueable
    BY <1>1, PendingTyped, Masks
  <2>3. p = P \/ p = Append(P, x) \/ p = Append(P, Overflow)
    BY <1>0, <1>1, <1>4, PendingChange
  <2>4. Count(Append(P, Overflow), E) = c /\ Count(Append(P, x), E) = c + o
    BY <2>2, PendingCount, LoggedAsKind
  <2>5. Count(p, E) <= c + o /\ Count(p, E) \in Nat
    <3>1. Count(p, E) \in {c, c + o}
      BY <2>3, <2>4
    <3> QED
      BY <1>2, <3>1
  <2> QED
    BY <1>2, <2>1, <2>5
<1>5. ASSUME NEW g \in File, NEW m \in Mask, NEW b, Change(g, m, b)
      PROVE  Entries(proc'[f], k) + h' + Count(p, E) <= happened'[f][k]
  <2>1. proc' = proc /\ h' = h
    BY <1>5 DEF Change, journal, InHand
  <2>2. p = P \/ p = Append(P, [name |-> g, mask |-> m]) \/ p = Append(P, Overflow)
    BY <1>0, <1>1, <1>5, PendingChange
  <2>3. p \in Seq(Queueable)
    <3>1. /\ P \in Seq(Queueable) /\ Overflow \in Queueable
          /\ [name |-> g, mask |-> m] \in Queueable
      BY <1>1, PendingTyped, Masks
    <3> HIDE DEF P
    <3> QED
      BY <2>2, <3>1
  <2>4. Count(p, E) \in Nat
    BY <2>3, PendingCount
  <2> QED
    BY <1>1, <1>2, <1>4, <1>5, <2>1, <2>4
<1>6. ASSUME Gone(d), happened' = happened, proc' = proc, h' <= h, h' \in {0, 1}
      PROVE  Entries(proc'[f], k) + h' + Count(p, E) <= happened'[f][k]
  <2>1. batch'[d] = <<>> /\ queue'[d] = <<>>
    BY <1>1, <1>6 DEF Gone, Typed, DaemonTypeOK
  <2>2. p = <<>>
    BY <1>0, <2>1 DEF Pending
  <2>3. Count(<<>>, E) = 0
    BY FS_EmptySet DEF Count
  <2> QED
    BY <1>1, <1>2, <1>6, <2>2, <2>3
<1>7. CASE InitializeFails(d) \/ Shutdown(d)
  BY <1>1, <1>2, <1>6, <1>7 DEF InitializeFails, Shutdown, directory, journal, InHand
<1>8. CASE Crash(d)
  <2>1. proc' = proc /\ ((at' = at /\ call' = call) \/ at'[d] = "idle")
    BY <1>1, <1>8, JournalTyped DEF Crash, J!Stop, journal, Typed
  <2>2. h' <= h /\ h' \in {0, 1}
    BY <2>1 DEF InHand
  <2> QED
    BY <1>6, <1>8, <2>1, <2>2 DEF Crash, directory
<1>9. CASE ReadEvents(d)
  <2>1. p = P
    BY <1>1, <1>0, <1>9, PendingRead
  <2> QED
    BY <1>1, <1>9, <2>1 DEF ReadEvents, directory, journal, InHand
<1>10. CASE HandleEvent(d)
  <2>1. P # <<>> /\ Head(P) = Head(batch[d]) /\ p = Tail(P)
    BY <1>1, <1>0, <1>10, PendingAdvance DEF HandleEvent, watch
  <2>2. Head(P) \in Queueable /\ Head(P) # Overflow
    BY <1>1, <1>10, <2>1, BatchTyped DEF HandleEvent, Logged
  <2>3. h = 0 /\ h' = IF Head(P) \in E THEN 1 ELSE 0
    BY <1>1, <1>10, <2>1, <2>2, LoggedAsKind, JournalTyped
       DEF HandleEvent, J!Begin, InHand, Typed, EntryOf
  <2>4. c = Count(p, E) + (IF Head(P) \in E THEN 1 ELSE 0) /\ Count(p, E) \in Nat
    <3>1. P \in Seq(Queueable) /\ p \in Seq(Queueable)
      BY <1>1, <2>1, PendingTyped, HeadTailProperties
    <3> HIDE DEF P, E
    <3>2. Count(P, E) = Count(Tail(P), E) + (IF Head(P) \in E THEN 1 ELSE 0)
      BY <2>1, <3>1, PendingCount
    <3> QED
      BY <2>1, <3>1, <3>2, PendingCount
  <2>5. proc' = proc /\ happened' = happened
    BY <1>10 DEF HandleEvent, J!Begin, directory
  <2> QED
    BY <1>1, <1>2, <2>3, <2>4, <2>5
<1>11. CASE SkipEvent(d)
  <2>1. P # <<>> /\ p = Tail(P)
    BY <1>1, <1>0, <1>11, PendingAdvance DEF SkipEvent, watch
  <2>2. Count(p, E) <= c /\ Count(p, E) \in Nat
    <3>1. P \in Seq(Queueable) /\ p \in Seq(Queueable)
      BY <1>1, <2>1, PendingTyped, HeadTailProperties
    <3> HIDE DEF P, E
    <3>2. Count(P, E) = Count(p, E) + (IF Head(P) \in E THEN 1 ELSE 0)
      BY <2>1, <3>1, PendingCount
    <3> QED
      BY <1>2, <3>1, <3>2, PendingCount
  <2>3. proc' = proc /\ happened' = happened /\ h' = h
    BY <1>11 DEF SkipEvent, directory, journal, InHand
  <2> QED
    BY <1>1, <1>2, <2>2, <2>3
<1>12. CASE AppendEvent(d)
  <2>1. p = P /\ happened' = happened
    BY <1>0, <1>12 DEF AppendEvent, watch, directory, Pending
  <2>2. Entries(proc'[f], k) \in Nat /\ Entries(proc'[f], k) + h' <= e + h /\ h' \in {0, 1}
    BY <1>1, <1>12, StepAccounted DEF AppendEvent, InHand
  <2> QED
    BY <1>1, <1>2, <2>1, <2>2
<1>13. ASSUME UNCHANGED vars \/ (\E g \in File : Create(g))
              \/ CheckPidFile(d) \/ WritePidFile(d) \/ Start(d) \/ Signal(d)
              \/ Initialize(d)
       PROVE  UNCHANGED <<happened, queue, batch, proc, at, call>>
  BY <1>13 DEF vars, Create, CheckPidFile, WritePidFile, Start, Signal, Initialize,
               directory, watch, journal
<1>14. ASSUME UNCHANGED <<happened, queue, batch, proc, at, call>>
       PROVE  Entries(proc'[f], k) + h' + Count(p, E) <= happened'[f][k]
  BY <1>0, <1>1, <1>14 DEF Pending, InHand
<1>15. \A g \in File : CloseWrite(g) \/ MovedTo(g) \/ Delete(g) \/ MovedFrom(g)
          => \E m \in Mask, b \in {"nothing", "file", "directory"} : Change(g, m, b)
  BY DEF CloseWrite, MovedTo, Delete, MovedFrom, Mask
<1> QED
  BY <1>0, <1>5, <1>7, <1>8, <1>9, <1>10, <1>11, <1>12, <1>13, <1>14, <1>15
     DEF Next, DaemonStep

-----------------------------------------------------------------------------
(* The last change is logged *)

\* The last event of a name, when an event comes.
LEMMA EndsAppend ==
    ASSUME NEW s \in Seq(Queueable), NEW x \in Queueable, NEW f
    PROVE  /\ x.name = f => EndsWith(Append(s, x), f, KindOf[x.mask])
           /\ x.name # f =>
                 /\ \A k : EndsWith(s, f, k) => EndsWith(Append(s, x), f, k)
                 /\ Silent(s, f) => Silent(Append(s, x), f)
           /\ s # <<>> /\ s[Len(s)] = x /\ x.name = f => EndsWith(s, f, KindOf[x.mask])
<1> DEFINE r == Append(s, x)
<1>1. /\ Len(s) \in Nat /\ DOMAIN s = 1..Len(s) /\ DOMAIN r = 1..(Len(s) + 1)
      /\ r[Len(s) + 1] = x /\ \A i \in 1..Len(s) : r[i] = s[i]
  BY AppendProperties
<1> HIDE DEF r
<1>2. ASSUME x.name = f PROVE EndsWith(r, f, KindOf[x.mask])
  BY <1>1, <1>2 DEF EndsWith
<1>3. ASSUME x.name # f, NEW k, EndsWith(s, f, k) PROVE EndsWith(r, f, k)
  <2>1. PICK i \in DOMAIN s : /\ s[i].name = f /\ KindOf[s[i].mask] = k
                              /\ \A j \in DOMAIN s : s[j].name = f => j <= i
    BY <1>3 DEF EndsWith
  <2>2. i \in DOMAIN r /\ r[i].name = f /\ KindOf[r[i].mask] = k
    BY <1>1, <2>1
  <2>3. \A j \in DOMAIN r : r[j].name = f => j <= i
    BY <1>1, <1>3, <2>1
  <2> QED
    BY <2>2, <2>3 DEF EndsWith
<1>4. ASSUME x.name # f, Silent(s, f) PROVE Silent(r, f)
  BY <1>1, <1>4 DEF Silent
<1>5. ASSUME s # <<>>, s[Len(s)] = x, x.name = f PROVE EndsWith(s, f, KindOf[x.mask])
  <2>1. Len(s) \in DOMAIN s /\ \A j \in DOMAIN s : j <= Len(s)
    BY <1>1, <1>5
  <2> QED
    BY <1>5, <2>1 DEF EndsWith
<1> QED
  BY <1>2, <1>3, <1>4, <1>5 DEF r

\* The last event of a name, when the first event goes.
LEMMA EndsTail ==
    ASSUME NEW s \in Seq(Queueable), s # <<>>, NEW f
    PROVE  /\ Silent(s, f) => Head(s).name # f /\ Silent(Tail(s), f)
           /\ \A k : EndsWith(s, f, k) =>
                 \/ EndsWith(Tail(s), f, k)
                 \/ Silent(Tail(s), f) /\ Head(s).name = f /\ KindOf[Head(s).mask] = k
<1> DEFINE t == Tail(s)
<1>1. /\ Len(s) \in Nat /\ Len(s) > 0 /\ DOMAIN s = 1..Len(s) /\ DOMAIN t = 1..(Len(s) - 1)
      /\ Head(s) = s[1] /\ \A i \in 1..(Len(s) - 1) : t[i] = s[i + 1]
  BY HeadTailProperties
<1> HIDE DEF t
<1>2. ASSUME Silent(s, f) PROVE Head(s).name # f /\ Silent(t, f)
  BY <1>1, <1>2 DEF Silent
<1>3. ASSUME NEW k, EndsWith(s, f, k)
      PROVE  \/ EndsWith(t, f, k)
             \/ Silent(t, f) /\ Head(s).name = f /\ KindOf[Head(s).mask] = k
  <2>1. PICK i \in 1..Len(s) : /\ s[i].name = f /\ KindOf[s[i].mask] = k
                               /\ \A j \in 1..Len(s) : s[j].name = f => j <= i
    BY <1>1, <1>3 DEF EndsWith
  <2>2. CASE i = 1
    <3>1. \A j \in 1..(Len(s) - 1) : t[j].name # f
      BY <1>1, <2>1, <2>2
    <3> QED
      BY <1>1, <2>1, <2>2, <3>1 DEF Silent
  <2>3. CASE i > 1
    <3>1. i - 1 \in 1..(Len(s) - 1) /\ t[i - 1] = s[i]
      BY <1>1, <2>1, <2>3
    <3>2. \A j \in 1..(Len(s) - 1) : t[j].name = f => j <= i - 1
      BY <1>1, <2>1
    <3> QED
      BY <1>1, <2>1, <3>1, <3>2 DEF EndsWith
  <2> QED
    BY <2>2, <2>3
<1> QED
  BY <1>2, <1>3 DEF t

\* A name that was written or moved here is there until it is removed.
LEMMA LastStandsNext ==
    ASSUME Typed, LastStands, [Next]_vars
    PROVE  LastStands'
<1> USE DEF Typed, DaemonTypeOK
<1>1. ASSUME NEW g \in File, Create(g) PROVE LastStands'
  BY <1>1 DEF Create, LastStands
<1>2. ASSUME NEW g \in File, CloseWrite(g) \/ MovedTo(g) PROVE LastStands'
  <2>1. \A f \in File : tree'[f] = tree[f] \/ tree'[f] \in {"file", "directory"}
    BY <1>2 DEF CloseWrite, MovedTo, Change
  <2>2. tree'[g] \in {"file", "directory"}
    BY <1>2 DEF CloseWrite, MovedTo, Change
  <2>3. \A d \in Daemon : \A f \in File \ {g} : last'[d][f] = last[d][f]
    BY <1>2 DEF CloseWrite, MovedTo, Change
  <2> QED
    BY <2>1, <2>2, <2>3 DEF LastStands
<1>3. ASSUME NEW g \in File, Delete(g) \/ MovedFrom(g) PROVE LastStands'
  <2>1. \A d \in Daemon : last'[d][g] = "deleted"
    BY <1>3 DEF Delete, MovedFrom, Change, KindOf
  <2>2. \A d \in Daemon : \A f \in File \ {g} :
           last'[d][f] = last[d][f] /\ tree'[f] = tree[f]
    BY <1>3 DEF Delete, MovedFrom, Change
  <2> QED
    BY <2>1, <2>2 DEF LastStands
<1>4. ASSUME NEW d \in Daemon, Initialize(d) PROVE LastStands'
  BY <1>4 DEF Initialize, LastStands
<1>5. ASSUME UNCHANGED <<last, tree>> PROVE LastStands'
  BY <1>5 DEF LastStands
<1>6. ASSUME UNCHANGED vars PROVE UNCHANGED <<last, tree>>
  BY <1>6 DEF vars
<1>7. ASSUME NEW d \in Daemon,
             CheckPidFile(d) \/ WritePidFile(d) \/ ReadEvents(d) \/ HandleEvent(d)
             \/ SkipEvent(d) \/ AppendEvent(d) \/ Start(d) \/ InitializeFails(d)
             \/ Signal(d) \/ Shutdown(d) \/ Crash(d)
      PROVE  UNCHANGED <<last, tree>>
  BY <1>7 DEF CheckPidFile, WritePidFile, ReadEvents, HandleEvent, SkipEvent,
              AppendEvent, Start, InitializeFails, Signal, Shutdown, Crash, directory
<1> QED
  BY <1>1, <1>2, <1>3, <1>4, <1>5, <1>6, <1>7 DEF Next, DaemonStep

\* Without failures of MongoDB an event that is being appended gets into the
\* journal, and an entry stays unless an event of the same name takes its key.
LEMMA StepLogs ==
    ASSUME MongoFaults = FALSE, Typed, NEW d \in Daemon, NEW f \in File, J!Step(d)
    PROVE  /\ at[d] # "idle"
           /\ call[d].id = f =>
                 \/ at'[d] # "idle" /\ call'[d] = call[d]
                 \/ /\ at'[d] = "idle"
                    /\ \E i \in DOMAIN proc'[f] : proc'[f][i].kind = call[d].kind
           /\ call[d].id # f =>
                 /\ proc'[f] = proc[f]
                 /\ at'[d] = "idle" \/ call'[d] = call[d]
<1>1. /\ proc[f] \in Seq([by : Daemon, kind : Entry]) /\ DOMAIN proc = File
      /\ call[d] \in [id : File, kind : Entry]
      /\ at \in [Daemon -> {"idle", "base", "key", "set"}] /\ DOMAIN call = Daemon
      /\ at[d] = "set" => call[d].id \in base
  BY JournalTyped DEF Typed
<1>2. CASE J!CreateBaseDocument(d) \/ J!GetNextProcKey(d)
  <2>1. at[d] # "idle" /\ at'[d] # "idle" /\ call' = call /\ proc' = proc
    BY <1>1, <1>2 DEF J!CreateBaseDocument, J!GetNextProcKey, J!Outcomes
  <2> QED
    BY <2>1
<1>3. CASE J!SetEvent(d)
  <2> DEFINE e == [by |-> d, kind |-> call[d].kind]
  <2>1. /\ at[d] = "set" /\ at'[d] = "idle"
        /\ proc' = [proc EXCEPT ![call[d].id] = J!Stored(@, next[d], e)]
    BY <1>1, <1>3 DEF J!SetEvent, J!Return, J!Outcomes
  <2>2. ASSUME call[d].id = f
        PROVE  \E i \in DOMAIN proc'[f] : proc'[f][i].kind = call[d].kind
    <3>1. proc'[f] = J!Stored(proc[f], next[d], e)
      BY <1>1, <2>1, <2>2
    <3>2. next[d] \in DOMAIN proc'[f] /\ proc'[f][next[d]] = e
      BY <3>1 DEF J!Stored
    <3> QED
      BY <3>1, <3>2
  <2>3. call[d].id # f => proc'[f] = proc[f]
    BY <1>1, <2>1
  <2> QED
    BY <2>1, <2>2, <2>3
<1> QED
  BY <1>2, <1>3 DEF J!Step

\* While one daemon watches and its queue does not overflow, no change is lost.
LEMMA NothingLostNext ==
    ASSUME NEW d, Daemon = {d}, MongoFaults = FALSE,
           Typed, LastStands, NothingLost, [Next]_vars
    PROVE  NothingLost'
<1> SUFFICES ASSUME NEW f \in File, pc'[d] = "loop", ~overflown'[d], last'[d][f] # "none",
                    tree'[f] # "directory"
             PROVE  OnItsWay(d, f)'
  BY DEF NothingLost
<1>1. /\ d \in Daemon /\ DOMAIN pc = Daemon /\ Pending(d) \in Seq(Queueable)
      /\ DOMAIN at = Daemon /\ DOMAIN call = Daemon
      /\ call[d] \in [id : File, kind : Entry]
      /\ pc[d] = "loop" /\ ~overflown[d] /\ last[d][f] # "none" /\ tree[f] # "directory"
         => OnItsWay(d, f)
  BY PendingTyped, JournalTyped DEF Typed, DaemonTypeOK, NothingLost
<1>2. ASSUME UNCHANGED <<last, happened, queue, batch, proc, at, call>>, OnItsWay(d, f)
      PROVE  OnItsWay(d, f)'
  BY <1>2 DEF OnItsWay, Pending, LastEntry
<1>3. CASE UNCHANGED vars
  BY <1>1, <1>2, <1>3 DEF vars
<1>4. ASSUME NEW g \in File, Create(g) PROVE OnItsWay(d, f)'
  <2>1. tree[f] # "directory"
    BY <1>4 DEF Create, Typed, DaemonTypeOK
  <2> QED
    BY <1>1, <1>2, <1>4, <2>1 DEF Create, watch, journal
<1>5. ASSUME NEW g \in File, NEW m \in Mask, NEW b, Change(g, m, b) PROVE OnItsWay(d, f)'
  <2> DEFINE x == [name |-> g, mask |-> m]
  <2>1. /\ pc[d] = "loop" /\ Watching(d) /\ UNCHANGED <<proc, at, call>> /\ x \in Queueable
        /\ ~overflown[d]
    BY <1>1, <1>5, Masks DEF Change, journal, Watching
  <2>2. PICK p : p = Pending(d)'
    OBVIOUS
  <2>3. \/ p = Append(Pending(d), x)
        \/ /\ p = Pending(d) /\ Pending(d) # <<>>
           /\ Pending(d)[Len(Pending(d))] = x
    BY <1>1, <1>5, <2>1, <2>2, PendingChange
  <2>4. CASE g = f
    <3>1. last'[d][f] = KindOf[m]
      BY <1>1, <1>5, <2>4 DEF Change, Typed, DaemonTypeOK
    <3>2. EndsWith(p, f, KindOf[m])
      BY <1>1, <2>1, <2>3, <2>4, EndsAppend
    <3> QED
      BY <2>2, <3>1, <3>2 DEF OnItsWay
  <2>5. CASE g # f
    <3>1. /\ last'[d][f] = last[d][f] /\ happened'[f] = happened[f]
          /\ tree'[f] = tree[f]
      BY <1>1, <1>5, <2>5 DEF Change, Typed, DaemonTypeOK
    <3>2. OnItsWay(d, f)
      BY <1>1, <2>1, <3>1
    <3>3. /\ EndsWith(Pending(d), f, last[d][f]) => EndsWith(p, f, last[d][f])
          /\ Silent(Pending(d), f) => Silent(p, f)
      <4> DEFINE P == Pending(d)
      <4>1. P \in Seq(Queueable) /\ x.name # f /\ (p = Append(P, x) \/ p = P)
        BY <1>1, <2>3, <2>5
      <4> HIDE DEF P, x
      <4>2. /\ EndsWith(P, f, last[d][f]) => EndsWith(Append(P, x), f, last[d][f])
            /\ Silent(P, f) => Silent(Append(P, x), f)
        BY <2>1, <4>1, EndsAppend
      <4> QED
        BY <4>1, <4>2 DEF P
    <3> QED
      BY <2>1, <2>2, <3>1, <3>2, <3>3 DEF OnItsWay, LastEntry
  <2> QED
    BY <2>4, <2>5
<1>6. CASE ReadEvents(d)
  <2>1. PICK p : p = Pending(d)'
    OBVIOUS
  <2>2. p = Pending(d)
    BY <1>1, <1>6, <2>1, PendingRead
  <2> QED
    BY <1>1, <1>6, <2>1, <2>2 DEF ReadEvents, directory, journal, OnItsWay, LastEntry
<1>7. ASSUME HandleEvent(d) \/ SkipEvent(d)
      PROVE  /\ OnItsWay(d, f) /\ UNCHANGED <<last, happened, tree, proc>>
             /\ at[d] = "idle" /\ Pending(d) # <<>> /\ Head(Pending(d)) = Head(batch[d])
             /\ Head(Pending(d)) \in Queueable
             /\ Pending(d)' = Tail(Pending(d))
  <2>1. /\ OnItsWay(d, f) /\ UNCHANGED <<last, happened, tree, proc>>
        /\ at[d] = "idle" /\ batch[d] # <<>> /\ Advance(d) /\ queue' = queue
    BY <1>1, <1>7 DEF HandleEvent, SkipEvent, J!Begin, directory, watch, journal
  <2>2. Head(batch[d]) \in Queueable
    BY <1>1, <2>1, BatchTyped
  <2> QED
    BY <1>1, <2>1, <2>2, PendingAdvance
<1>8. ASSUME HandleEvent(d) \/ SkipEvent(d), NEW p, p = Pending(d)'
      PROVE  \/ EndsWith(p, f, last[d][f])
             \/ /\ Silent(p, f)
                /\ \/ /\ Head(batch[d]).name = f /\ KindOf[Head(batch[d]).mask] = last[d][f]
                   \/ /\ Head(batch[d]).name # f
                      /\ \E i \in DOMAIN proc[f] : proc[f][i].kind = LastEntry(d, f)
  <2>1. /\ OnItsWay(d, f) /\ at[d] = "idle" /\ Pending(d) # <<>>
        /\ Head(Pending(d)) = Head(batch[d]) /\ p = Tail(Pending(d))
    BY <1>7, <1>8
  <2>2. CASE EndsWith(Pending(d), f, last[d][f])
    BY <1>1, <2>1, <2>2, EndsTail
  <2>3. CASE /\ Silent(Pending(d), f)
             /\ \E i \in DOMAIN proc[f] : proc[f][i].kind = LastEntry(d, f)
    BY <1>1, <2>1, <2>3, EndsTail
  <2> QED
    BY <2>1, <2>2, <2>3 DEF OnItsWay
<1>9. CASE HandleEvent(d)
  <2> DEFINE x == Head(batch[d])
  <2>1. PICK p : p = Pending(d)'
    OBVIOUS
  <2>2. at'[d] # "idle" /\ call'[d] = [id |-> x.name, kind |-> EntryOf(x)]
    BY <1>1, <1>9 DEF HandleEvent, J!Begin
  <2>3. UNCHANGED <<last, happened, proc>>
    BY <1>7, <1>9
  <2>4. x.name = f /\ KindOf[x.mask] = last[d][f] => EntryOf(x) = LastEntry(d, f)
    BY DEF EntryOf, LastEntry
  <2> QED
    BY <1>8, <1>9, <2>1, <2>2, <2>3, <2>4 DEF OnItsWay, LastEntry
<1>10. CASE SkipEvent(d)
  <2> DEFINE x == Head(batch[d])
  <2>1. PICK p : p = Pending(d)'
    OBVIOUS
  <2>2. /\ UNCHANGED <<at, call, last, happened, tree, proc>>
        /\ at[d] = "idle" /\ x \in Queueable
    BY <1>7, <1>10 DEF SkipEvent, journal
  <2>3. ~(x.name = f /\ KindOf[x.mask] = last[d][f])
    <3> SUFFICES ASSUME x.name = f, KindOf[x.mask] = last[d][f] PROVE FALSE
      OBVIOUS
    <3>1. x # Overflow /\ ~Logged(x)
      BY <1>10, <2>2, Masks DEF SkipEvent
    <3>2. x.mask \in {"IN_CLOSE_WRITE", "IN_MOVED_TO"} /\ tree[f] # "file"
      BY <3>1 DEF Logged
    <3>3. last[d][f] \in {"modified", "moved_to"}
      BY <3>2 DEF KindOf
    <3>4. tree[f] # "nothing" /\ tree[f] # "directory"
      BY <1>1, <2>2, <3>3 DEF LastStands
    <3> QED
      BY <3>2, <3>4 DEF Typed, DaemonTypeOK
  <2> QED
    BY <1>8, <1>10, <2>1, <2>2, <2>3 DEF OnItsWay, LastEntry
<1>11. CASE AppendEvent(d)
  <2>1. PICK p : p = Pending(d)'
    OBVIOUS
  <2>2. /\ p = Pending(d) /\ J!Step(d) /\ OnItsWay(d, f)
        /\ last' = last /\ happened' = happened /\ LastEntry(d, f)' = LastEntry(d, f)
    BY <1>1, <1>11, <2>1 DEF AppendEvent, directory, watch, Pending, LastEntry
  <2>3. CASE EndsWith(Pending(d), f, last[d][f])
    BY <2>1, <2>2, <2>3 DEF OnItsWay
  <2>4. CASE Silent(Pending(d), f) /\ call[d] = [id |-> f, kind |-> LastEntry(d, f)]
    <3>1. call[d].id = f /\ call[d].kind = LastEntry(d, f)
      BY <2>4
    <3>2. \/ at'[d] # "idle" /\ call'[d] = call[d]
          \/ /\ at'[d] = "idle"
             /\ \E i \in DOMAIN proc'[f] : proc'[f][i].kind = call[d].kind
      BY <1>1, <2>2, <3>1, StepLogs
    <3> QED
      BY <2>1, <2>2, <2>4, <3>1, <3>2 DEF OnItsWay
  <2>5. CASE /\ Silent(Pending(d), f) /\ call[d].id # f
             /\ \E i \in DOMAIN proc[f] : proc[f][i].kind = LastEntry(d, f)
    <3>1. proc'[f] = proc[f] /\ (at'[d] = "idle" \/ call'[d] = call[d])
      BY <1>1, <2>2, <2>5, StepLogs
    <3> QED
      BY <2>1, <2>2, <2>5, <3>1 DEF OnItsWay
  <2> QED
    BY <1>1, <2>2, <2>3, <2>4, <2>5, StepLogs DEF OnItsWay
<1>12. CASE Initialize(d)
  <2>1. last'[d][f] = "none"
    BY <1>1, <1>12 DEF Initialize, Typed, DaemonTypeOK
  <2> QED
    BY <2>1
<1>13. CASE CheckPidFile(d) \/ WritePidFile(d) \/ Start(d)
  BY <1>1, <1>13 DEF CheckPidFile, WritePidFile, Start
<1>14. CASE InitializeFails(d) \/ Shutdown(d) \/ Crash(d)
  BY <1>1, <1>14 DEF InitializeFails, Shutdown, Crash, Gone
<1>15. CASE Signal(d)
  BY <1>1, <1>2, <1>15 DEF Signal, directory, watch, journal
<1>16. \A g \in File : CloseWrite(g) \/ MovedTo(g) \/ Delete(g) \/ MovedFrom(g)
          => \E m \in Mask, b \in {"nothing", "file", "directory"} : Change(g, m, b)
  BY DEF CloseWrite, MovedTo, Delete, MovedFrom, Mask
<1> QED
  BY <1>3, <1>4, <1>5, <1>6, <1>9, <1>10, <1>11, <1>12, <1>13, <1>14, <1>15, <1>16
     DEF Next, DaemonStep

-----------------------------------------------------------------------------
(* The theorems *)

\* The daemons' state, their queues and the journal have their types, for any
\* number of daemons, names, starts and changes and any length of the queue.
THEOREM DaemonTypes == Spec => []TypeOK
<1>1. Spec => []Typed
  BY TypedInit, TypedNext, PTL DEF Spec
<1> QED
  BY <1>1, TypedTypeOK, PTL

\* One daemon (main: "check whether the daemon is running already") never has
\* more events of a kind in the journal of a name than the name had such changes,
\* whatever MongoDB does and however often the daemon is killed and started.
THEOREM NoEventTwice ==
    ASSUME NEW d, Daemon = {d}
    PROVE  Spec => []NothingLoggedTwice
<1>1. Spec => []Typed
  BY TypedInit, TypedNext, PTL DEF Spec
<1>2. Typed /\ Accounted /\ [Next]_vars => Accounted'
  BY AccountedNext
<1>3. Typed /\ Accounted => NothingLoggedTwice
  <2> SUFFICES ASSUME Typed, Accounted, NEW f \in File, NEW k \in Kind
               PROVE  Entries(proc[f], k) <= happened[f][k]
    BY DEF NothingLoggedTwice, Entries
  <2>1. /\ Entries(proc[f], k) \in Nat /\ Count(Pending(d), LoggedAs(f, k)) \in Nat
        /\ InHand(d, f, k) \in {0, 1} /\ happened[f][k] \in Nat
    <3>1. Entries(proc[f], k) \in Nat
      BY JournalTyped, EntriesStored DEF Typed
    <3>2. Count(Pending(d), LoggedAs(f, k)) \in Nat
      BY PendingTyped, PendingCount
    <3> QED
      BY <3>1, <3>2 DEF Typed, DaemonTypeOK, InHand
  <2>2. Entries(proc[f], k) + InHand(d, f, k) + Count(Pending(d), LoggedAs(f, k))
            <= happened[f][k]
    BY DEF Accounted
  <2> QED
    BY <2>1, <2>2
<1> QED
  BY <1>1, <1>2, <1>3, AccountedInit, PTL DEF Spec

\* One daemon that has caught up with its queue has the last change of every file
\* in the journal, in an entry begun after that change, unless the queue overflowed
\* or MongoDB failed it.
THEOREM LastIsLogged ==
    ASSUME NEW d, Daemon = {d}, MongoFaults = FALSE
    PROVE  Spec => []LastChangeLogged
<1> DEFINE I == Typed /\ LastStands /\ NothingLost
<1>1. Init => I
  <2>1. Init => LastStands /\ NothingLost
    BY DEF Init, InitDaemon, LastStands, NothingLost
  <2> QED
    BY <2>1, TypedInit
<1>2. I /\ [Next]_vars => I'
  BY TypedNext, LastStandsNext, NothingLostNext
<1>3. I => LastChangeLogged
  <2> SUFFICES ASSUME I, NEW f \in File, pc[d] = "loop", queue[d] = <<>>, batch[d] = <<>>,
                      at[d] = "idle", ~overflown[d], last[d][f] # "none",
                      tree[f] # "directory"
               PROVE  \E i \in DOMAIN proc[f] : proc[f][i].kind = LastEntry(d, f)
    BY DEF LastChangeLogged, LoggedSince, LastEntry
  <2>1. Pending(d) = <<>>
    BY DEF Pending
  <2>2. ~EndsWith(<<>>, f, last[d][f])
    BY DEF EndsWith
  <2> QED
    BY <2>1, <2>2 DEF NothingLost, OnItsWay
<1> HIDE DEF I
<1> QED
  BY <1>1, <1>2, <1>3, PTL DEF Spec

=============================================================================
