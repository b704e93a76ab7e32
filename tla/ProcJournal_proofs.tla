------------------------- MODULE ProcJournal_proofs -------------------------
(* The proofs about ProcJournal: its journals have no gaps for any set of    *)
(* appenders and files, any errno and any failures, and it implements ProcMap. *)
EXTENDS ProcJournal, TLAPS, SequenceTheorems

\* What get_next_proc_key returns is a key of the map or the next free one.
NextKeyInRange ==
    \A a \in Appender :
        at[a] = "set" => next[a] \in 1..(Len(proc[call[a].id]) + 1)

\* Every proc map is a sequence of events.
IsSequence == \A f \in FileId : proc[f] \in Seq(Event)

IInv == TypeOK /\ IsSequence /\ EventsHaveBase /\ NextKeyInRange

\* The maximum the loop of get_next_proc_key computes on contiguous keys.
LEMMA MaxKeyOfInterval ==
    ASSUME NEW n \in Nat
    PROVE  MaxKey(1..n) = n
<1>1. (1..n) \cup {0} = 0..n
  OBVIOUS
<1>2. n \in 0..n /\ \A y \in 0..n : n >= y
  OBVIOUS
<1>3. \A x \in 0..n : (\A y \in 0..n : x >= y) => x = n
  OBVIOUS
<1>4. Max(0..n) = n
  BY <1>2, <1>3 DEF Max
<1> QED
  BY <1>1, <1>4 DEF MaxKey

\* Storing an event at a key of a sequence or right after its end gives a
\* sequence that is not shorter and keeps every other event.
LEMMA StoredIsSequence ==
    ASSUME NEW E, NEW s \in Seq(E), NEW e \in E, NEW k \in 1..(Len(s) + 1)
    PROVE  /\ Stored(s, k, e) \in Seq(E)
           /\ Len(Stored(s, k, e)) = IF k > Len(s) THEN k ELSE Len(s)
           /\ Stored(s, k, e) = [i \in 1..(IF k > Len(s) THEN k ELSE Len(s)) |->
                                    IF i = k THEN e ELSE s[i]]
<1> DEFINE n == IF k > Len(s) THEN k ELSE Len(s)
<1>1. n \in Nat /\ DOMAIN s = 1..Len(s) /\ Len(s) \in Nat
  OBVIOUS
<1>2. DOMAIN s \cup {k} = 1..n
  BY <1>1
<1>3. Stored(s, k, e) = [i \in 1..n |-> IF i = k THEN e ELSE s[i]]
  BY <1>2 DEF Stored
<1>4. \A i \in 1..n : (IF i = k THEN e ELSE s[i]) \in E
  BY <1>1, <1>2
<1>5. Stored(s, k, e) \in [1..n -> E]
  BY <1>3, <1>4
<1> QED
  BY <1>1, <1>3, <1>5, SeqDef, LenProperties

-----------------------------------------------------------------------------

\* The value call holds outside append_proc_event has the type of a call.
LEMMA NoCallType == NoCall \in Call
<1>1. PICK f \in FileId, k \in Kind : TRUE
  BY NonEmptyAssumption
<1>2. [id |-> f, kind |-> k] \in Call
  BY <1>1 DEF Call
<1> QED
  BY <1>2 DEF NoCall

\* The initial states satisfy the inductive invariant.
LEMMA InitIInv == Init => IInv
<1> SUFFICES ASSUME Init PROVE IInv
  OBVIOUS
<1>1. /\ base = {} /\ proc = [f \in FileId |-> <<>>]
      /\ at = [a \in Appender |-> "idle"]
      /\ call = [a \in Appender |-> NoCall]
      /\ next = [a \in Appender |-> 0]
  BY DEF Init
<1>2. \A f \in FileId : proc[f] = <<>> /\ <<>> \in Seq(Event) /\ DOMAIN proc[f] = {}
  BY <1>1
<1>3. TypeOK
  BY <1>1, <1>2, NoCallType DEF TypeOK
<1>4. IsSequence
  BY <1>2 DEF IsSequence
<1>5. EventsHaveBase /\ NextKeyInRange
  BY <1>1, <1>2 DEF EventsHaveBase, NextKeyInRange
<1> QED
  BY <1>3, <1>4, <1>5 DEF IInv

\* An appender that returns is idle, and nobody else is disturbed.
LEMMA ReturnFrame ==
    ASSUME TypeOK, NEW a \in Appender, Return(a)
    PROVE  /\ at' \in [Appender -> {"idle", "base", "key", "set"}]
           /\ call' \in [Appender -> Call]
           /\ next' \in [Appender -> Nat]
           /\ at'[a] = "idle"
           /\ \A b \in Appender \ {a} :
                 at'[b] = at[b] /\ call'[b] = call[b] /\ next'[b] = next[b]
  BY NoCallType DEF TypeOK, Return

\* The steps that leave the journals alone.
LEMMA BeginIInv ==
    ASSUME IInv, NEW a \in Appender, NEW id \in FileId, NEW kind \in Kind,
           Begin(a, id, kind)
    PROVE  IInv'
<1>1. [id |-> id, kind |-> kind] \in Call
  BY DEF Call
<1>2. TypeOK'
  BY <1>1 DEF IInv, TypeOK, Begin
<1>3. IsSequence'
  BY DEF IInv, IsSequence, Begin
<1>4. EventsHaveBase' /\ NextKeyInRange'
  BY DEF IInv, TypeOK, EventsHaveBase, NextKeyInRange, Begin
<1> QED
  BY <1>2, <1>3, <1>4 DEF IInv

\* The end of a process leaves the maps alone and its threads idle.
LEMMA StopIInv ==
    ASSUME IInv, NEW threads \in Process, Stop(threads)
    PROVE  IInv'
<1>1. \A a \in Appender :
         \/ at'[a] = "idle"
         \/ at'[a] = at[a] /\ call'[a] = call[a] /\ next'[a] = next[a]
  BY DEF IInv, TypeOK, Stop
<1>2. TypeOK'
  BY NoCallType DEF IInv, TypeOK, Stop
<1>3. IsSequence'
  BY DEF IInv, IsSequence, Stop
<1>4. EventsHaveBase' /\ NextKeyInRange'
  BY <1>1 DEF IInv, TypeOK, EventsHaveBase, NextKeyInRange, Stop
<1> QED
  BY <1>2, <1>3, <1>4 DEF IInv

\* The base document is there when create_base_document reports success.
LEMMA CreateBaseDocumentIInv ==
    ASSUME IInv, NEW a \in Appender, CreateBaseDocument(a)
    PROVE  IInv'
<1>1. call[a].id \in FileId /\ UNCHANGED proc
  BY DEF IInv, TypeOK, Call, CreateBaseDocument
<1>2. IsSequence'
  BY <1>1 DEF IInv, IsSequence
<1>3. CASE /\ base' = base \cup {call[a].id}
           /\ at' = [at EXCEPT ![a] = "key"] /\ UNCHANGED <<call, next>>
  <2>1. TypeOK'
    BY <1>1, <1>3 DEF IInv, TypeOK
  <2>2. EventsHaveBase' /\ NextKeyInRange'
    BY <1>1, <1>3 DEF IInv, TypeOK, EventsHaveBase, NextKeyInRange
  <2> QED
    BY <1>2, <2>1, <2>2 DEF IInv
<1>4. CASE base' \in {base, base \cup {call[a].id}} /\ Return(a)
  <2>1. TypeOK'
    BY <1>1, <1>4, ReturnFrame DEF IInv, TypeOK
  <2>2. EventsHaveBase' /\ NextKeyInRange'
    BY <1>1, <1>4, ReturnFrame DEF IInv, EventsHaveBase, NextKeyInRange
  <2> QED
    BY <1>2, <2>1, <2>2 DEF IInv
<1> QED
  BY <1>3, <1>4 DEF CreateBaseDocument, Outcomes

\* Whatever keys the loop counts, the next key is one of the map or the first
\* free one.
LEMMA GetNextProcKeyIInv ==
    ASSUME IInv, NEW a \in Appender, GetNextProcKey(a)
    PROVE  IInv'
<1> DEFINE f == call[a].id
<1>1. /\ f \in FileId /\ proc[f] \in Seq(Event) /\ f \in base
      /\ at[a] = "key" /\ UNCHANGED <<base, proc>>
  BY DEF IInv, TypeOK, Call, IsSequence, EventsHaveBase, GetNextProcKey
<1>2. DOMAIN proc[f] = 1..Len(proc[f]) /\ Len(proc[f]) \in Nat
  BY <1>1
<1>3. CASE Return(a)
  <2>1. TypeOK' /\ IsSequence'
    BY <1>1, <1>3, ReturnFrame DEF IInv, TypeOK, IsSequence
  <2>2. EventsHaveBase' /\ NextKeyInRange'
    BY <1>1, <1>3, ReturnFrame DEF IInv, EventsHaveBase, NextKeyInRange
  <2> QED
    BY <2>1, <2>2 DEF IInv
<1>4. CASE \E errno \in Errno, cursorFails \in {FALSE, Faults} :
             /\ next' = [next EXCEPT ![a] =
                          MaxKey(KeysCounted(f, errno, cursorFails)) + 1]
             /\ at' = [at EXCEPT ![a] = "set"]
             /\ UNCHANGED call
  <2>1. PICK keys \in {{}, DOMAIN proc[f]} :
           /\ next' = [next EXCEPT ![a] = MaxKey(keys) + 1]
           /\ at' = [at EXCEPT ![a] = "set"]
           /\ UNCHANGED call
    BY <1>4 DEF KeysCounted
  <2>2. MaxKey({}) = 0
    BY MaxKeyOfInterval, 1..0 = {}
  <2>3. MaxKey(keys) + 1 \in 1..(Len(proc[f]) + 1)
    <3>1. MaxKey(DOMAIN proc[f]) = Len(proc[f])
      BY <1>2, MaxKeyOfInterval
    <3> HIDE DEF f
    <3>2. keys = {} \/ keys = DOMAIN proc[f]
      OBVIOUS
    <3>3. MaxKey(keys) = 0 \/ MaxKey(keys) = Len(proc[f])
      BY <2>2, <3>1, <3>2, Zenon
    <3> QED
      BY <1>2, <3>3
  <2>4. TypeOK'
    BY <1>1, <1>2, <2>1, <2>3 DEF IInv, TypeOK
  <2>5. IsSequence' /\ EventsHaveBase'
    BY <1>1, <2>1 DEF IInv, TypeOK, IsSequence, EventsHaveBase
  <2>6. NextKeyInRange'
    BY <1>1, <2>1, <2>3 DEF IInv, TypeOK, NextKeyInRange
  <2> QED
    BY <2>4, <2>5, <2>6 DEF IInv
<1> QED
  BY <1>3, <1>4 DEF GetNextProcKey

\* What a $set does to the journals: nothing, or a Put at the key in hand.
LEMMA SetEventPuts ==
    ASSUME IInv, NEW a \in Appender, SetEvent(a)
    PROVE  /\ UNCHANGED base
           /\ Return(a)
           /\ \/ UNCHANGED proc
              \/ \E e \in Event :
                    Journal!Put(call[a].id, next[a], e)
<1> DEFINE f == call[a].id
           e == [by |-> a, kind |-> call[a].kind]
<1>1. /\ f \in FileId /\ proc[f] \in Seq(Event) /\ f \in base /\ e \in Event
      /\ next[a] \in 1..(Len(proc[f]) + 1)
  BY DEF IInv, TypeOK, Call, Event, IsSequence, EventsHaveBase,
         NextKeyInRange, SetEvent
<1>2. UNCHANGED base /\ Return(a)
  BY DEF SetEvent
<1>3. CASE UNCHANGED proc
  BY <1>2, <1>3
<1>4. CASE proc' = [proc EXCEPT ![f] = Stored(@, next[a], e)]
  <2>1. proc' = [proc EXCEPT ![f] = Stored(proc[f], next[a], e)]
    BY <1>4
  <2>2. Stored(proc[f], next[a], e) =
          [i \in 1..(IF next[a] > Len(proc[f]) THEN next[a] ELSE Len(proc[f])) |->
              IF i = next[a] THEN e ELSE proc[f][i]]
    <3>1. PICK s, k, v : s = proc[f] /\ k = next[a] /\ v = e
      OBVIOUS
    <3>2. s \in Seq(Event) /\ v \in Event /\ k \in 1..(Len(s) + 1)
      BY <1>1, <3>1
    <3>3. Stored(s, k, v) = [i \in 1..(IF k > Len(s) THEN k ELSE Len(s)) |->
                               IF i = k THEN v ELSE s[i]]
      BY <3>2, StoredIsSequence
    <3> QED
      BY <3>1, <3>3, Zenon
  <2>3. Journal!Put(f, next[a], e)
    BY <1>1, <1>2, <2>1, <2>2 DEF Journal!Put
  <2> QED
    BY <1>1, <1>2, <2>3
<1> QED
  BY <1>3, <1>4 DEF SetEvent, Outcomes

\* The $set keeps the maps gapless, and the keys other threads hold in range:
\* maps only grow.
LEMMA SetEventIInv ==
    ASSUME IInv, NEW a \in Appender, SetEvent(a)
    PROVE  IInv'
<1> DEFINE f == call[a].id
<1>1. f \in FileId /\ proc[f] \in Seq(Event) /\ f \in base
  BY DEF IInv, TypeOK, Call, IsSequence, EventsHaveBase, SetEvent
<1>2. /\ UNCHANGED base
      /\ Return(a)
      /\ \A b \in Appender :
            at'[b] # "idle" => /\ b # a /\ at'[b] = at[b]
                               /\ call'[b] = call[b] /\ next'[b] = next[b]
  BY SetEventPuts, ReturnFrame DEF IInv
<1>3. CASE UNCHANGED proc
  <2>1. TypeOK' /\ IsSequence'
    BY <1>2, <1>3, ReturnFrame DEF IInv, TypeOK, IsSequence
  <2>2. EventsHaveBase' /\ NextKeyInRange'
    BY <1>2, <1>3 DEF IInv, EventsHaveBase, NextKeyInRange
  <2> QED
    BY <2>1, <2>2 DEF IInv
<1>4. CASE \E e \in Event : Journal!Put(f, next[a], e)
  <2>1. PICK e \in Event : Journal!Put(f, next[a], e)
    BY <1>4
  <2> DEFINE s == [i \in 1..(IF next[a] > Len(proc[f]) THEN next[a]
                                                     ELSE Len(proc[f])) |->
                      IF i = next[a] THEN e ELSE proc[f][i]]
  <2>2. next[a] \in 1..(Len(proc[f]) + 1) /\ proc' = [proc EXCEPT ![f] = s]
    BY <2>1 DEF Journal!Put
  <2>3. s \in Seq(Event) /\ Len(s) \in Nat /\ Len(s) >= Len(proc[f])
    <3>1. /\ Stored(proc[f], next[a], e) = s
          /\ Stored(proc[f], next[a], e) \in Seq(Event)
          /\ Len(Stored(proc[f], next[a], e)) =
               IF next[a] > Len(proc[f]) THEN next[a] ELSE Len(proc[f])
      <4>1. PICK m, k : m = proc[f] /\ k = next[a]
        OBVIOUS
      <4>2. m \in Seq(Event) /\ e \in Event /\ k \in 1..(Len(m) + 1)
        BY <1>1, <2>2, <4>1
      <4>3. /\ Stored(m, k, e) \in Seq(Event)
            /\ Len(Stored(m, k, e)) = IF k > Len(m) THEN k ELSE Len(m)
            /\ Stored(m, k, e) = [i \in 1..(IF k > Len(m) THEN k ELSE Len(m)) |->
                                     IF i = k THEN e ELSE m[i]]
        BY <4>2, StoredIsSequence
      <4>4. Stored(m, k, e) = s
        BY <4>1, <4>3, Zenon
      <4> HIDE DEF s
      <4> QED
        BY <4>1, <4>3, <4>4
    <3> HIDE DEF s
    <3>2. Len(proc[f]) \in Nat /\ next[a] \in Nat
      BY <1>1, <2>2
    <3> QED
      BY <3>1, <3>2
  <2> HIDE DEF s
  <2>4. /\ DOMAIN proc' = FileId
        /\ \A g \in FileId : proc'[g] = IF g = f THEN s ELSE proc[g]
    BY <1>1, <2>2 DEF IInv, TypeOK
  <2>5. IsSequence'
    BY <2>3, <2>4 DEF IInv, IsSequence
  <2>6. TypeOK'
    <3>1. \A g \in FileId : /\ DOMAIN proc'[g] = 1..Len(proc'[g])
                            /\ Len(proc'[g]) \in Nat
                            /\ \A k \in DOMAIN proc'[g] : proc'[g][k] \in Event
      BY <2>5 DEF IsSequence
    <3>2. (\A g \in FileId : /\ DOMAIN proc[g] \subseteq Nat \ {0}
                             /\ \A k \in DOMAIN proc[g] : proc[g][k] \in Event)'
      BY <3>1
    <3> QED
      BY <1>2, <2>4, <3>2, ReturnFrame DEF IInv, TypeOK
  <2>7. EventsHaveBase'
    BY <1>1, <1>2, <2>4 DEF IInv, EventsHaveBase
  <2>8. NextKeyInRange'
    <3> SUFFICES ASSUME NEW b \in Appender, at'[b] = "set"
                 PROVE  next'[b] \in 1..(Len(proc'[call'[b].id]) + 1)
      BY DEF NextKeyInRange
    <3>1. /\ at[b] = "set" /\ call[b].id \in FileId
          /\ next[b] \in 1..(Len(proc[call[b].id]) + 1)
          /\ call'[b] = call[b] /\ next'[b] = next[b]
      BY <1>2 DEF IInv, TypeOK, Call, NextKeyInRange
    <3>2. /\ Len(proc[call[b].id]) \in Nat /\ Len(proc'[call[b].id]) \in Nat
          /\ Len(proc'[call[b].id]) >= Len(proc[call[b].id])
      <4>1. proc[call[b].id] \in Seq(Event)
        BY <3>1 DEF IInv, IsSequence
      <4>2. Len(proc[call[b].id]) \in Nat
        BY <4>1
      <4>3. CASE call[b].id = f
        BY <2>3, <2>4, <3>1, <4>2, <4>3
      <4>4. CASE call[b].id # f
        BY <2>4, <3>1, <4>2, <4>4
      <4> QED
        BY <4>3, <4>4
    <3> QED
      BY <3>1, <3>2
  <2> QED
    BY <2>5, <2>6, <2>7, <2>8 DEF IInv
<1> QED
  BY <1>3, <1>4, SetEventPuts

\* The inductive invariant is preserved by every step.
LEMMA NextIInv == IInv /\ [Next]_vars => IInv'
<1> SUFFICES ASSUME IInv, [Next]_vars PROVE IInv'
  OBVIOUS
<1>1. ASSUME NEW a \in Appender, NEW id \in FileId, NEW kind \in Kind,
             Begin(a, id, kind)
      PROVE  IInv'
  BY <1>1, BeginIInv
<1>2. ASSUME NEW a \in Appender, Step(a) PROVE IInv'
  BY <1>2, CreateBaseDocumentIInv, GetNextProcKeyIInv, SetEventIInv DEF Step
<1>3. ASSUME NEW threads \in Process, Stop(threads) PROVE IInv'
  BY <1>3, StopIInv
<1>4. CASE UNCHANGED vars
  BY <1>4 DEF vars, IInv, TypeOK, IsSequence, EventsHaveBase, NextKeyInRange
<1> QED
  BY <1>1, <1>2, <1>3, <1>4 DEF Next

\* The inductive invariant holds in every reachable state.
THEOREM JournalInvariant == Spec => []IInv
  BY InitIInv, NextIInv, PTL DEF Spec

\* Type correctness of the journal for every set of appenders and files.
THEOREM TypeCorrect == Spec => []TypeOK
  BY JournalInvariant, PTL DEF IInv

\* get_next_proc_key and $set never leave a gap in the keys of a proc map.
THEOREM Contiguous == Spec => []KeysContiguous
<1>1. IInv => KeysContiguous
  <2> SUFFICES ASSUME IsSequence, NEW f \in FileId, NEW k \in DOMAIN proc[f]
               PROVE  1..k \subseteq DOMAIN proc[f]
    BY DEF IInv, KeysContiguous
  <2>1. DOMAIN proc[f] = 1..Len(proc[f]) /\ Len(proc[f]) \in Nat
    BY DEF IsSequence
  <2> QED
    BY <2>1
<1> QED
  BY <1>1, JournalInvariant, PTL

\* append_proc_event writes only to documents create_base_document made.
THEOREM BaseFirst == Spec => []EventsHaveBase
  BY JournalInvariant, PTL DEF IInv

-----------------------------------------------------------------------------

\* Every step of the journal is a step of ProcMap or leaves it alone.
LEMMA StepSimulation ==
    IInv /\ [Next]_vars => [Journal!Next]_(Journal!vars)
<1> SUFFICES ASSUME IInv, [Next]_vars PROVE [Journal!Next]_(Journal!vars)
  OBVIOUS
<1>1. ASSUME NEW a \in Appender, CreateBaseDocument(a)
      PROVE  [Journal!Next]_(Journal!vars)
  <2>1. call[a].id \in FileId
    BY DEF IInv, TypeOK, Call
  <2>2. base' \in {base, base \cup {call[a].id}} /\ UNCHANGED proc
    BY <1>1 DEF CreateBaseDocument, Outcomes
  <2>3. UNCHANGED <<base, proc>> \/ Journal!Create(call[a].id)
    BY <2>2 DEF Journal!Create
  <2> QED
    BY <2>1, <2>3 DEF Journal!Next, Journal!vars
<1>2. ASSUME NEW a \in Appender, SetEvent(a)
      PROVE  [Journal!Next]_(Journal!vars)
  <2>1. call[a].id \in FileId /\ next[a] \in 1..(Len(proc[call[a].id]) + 1)
    BY <1>2 DEF IInv, TypeOK, Call, NextKeyInRange, SetEvent
  <2>2. \/ UNCHANGED <<base, proc>>
        \/ \E e \in Event : Journal!Put(call[a].id, next[a], e)
    BY <1>2, SetEventPuts
  <2> QED
    BY <2>1, <2>2 DEF Journal!Next, Journal!vars
<1>3. ASSUME NEW a \in Appender, GetNextProcKey(a) PROVE UNCHANGED <<base, proc>>
  BY <1>3 DEF GetNextProcKey
<1>4. ASSUME NEW a \in Appender, NEW id \in FileId, NEW kind \in Kind,
             Begin(a, id, kind)
      PROVE  UNCHANGED <<base, proc>>
  BY <1>4 DEF Begin
<1>5. ASSUME NEW threads \in Process, Stop(threads) PROVE UNCHANGED <<base, proc>>
  BY <1>5 DEF Stop
<1>6. CASE UNCHANGED vars
  BY <1>6 DEF vars, Journal!vars
<1> QED
  BY <1>1, <1>2, <1>3, <1>4, <1>5, <1>6 DEF Next, Step, Journal!vars

\* append_proc_event, with its races and failures, implements ProcMap.
THEOREM Refinement == Spec => ImplementsProcMap
<1>1. Init => Journal!Init
  BY DEF Init, Journal!Init
<1> QED
  BY <1>1, JournalInvariant, StepSimulation, PTL
  DEF Spec, ImplementsProcMap, Journal!Spec


-----------------------------------------------------------------------------
(* No appender overwrites its own events, but for key 1 after a spoiled read *)

\* The key an appender holds is behind every event it wrote to that document.
OwnBehind ==
    \A a \in Appender : at[a] = "set" =>
        \A k \in DOMAIN proc[call[a].id] : proc[call[a].id][k].by = a =>
            k < next[a] \/ (next[a] = 1 /\ ~Clean)

\* What a step may do to the events that are there.
KeepsOwn ==
    \A f \in FileId : \A k \in DOMAIN proc[f] :
        k # 1 \/ Clean =>
            proc'[f][k] = proc[f][k] \/ proc'[f][k].by # proc[f][k].by

\* The one event a $set writes is not by a thread that holds a key.
LEMMA SetEventOwn ==
    ASSUME IInv, OwnBehind, NEW a \in Appender, SetEvent(a)
    PROVE  OwnBehind' /\ KeepsOwn
<1> DEFINE f == call[a].id
           n == next[a]
<1>1. PICK e \in Event : e = [by |-> a, kind |-> call[a].kind]
  BY DEF IInv, TypeOK, Call, Event
<1>2. /\ f \in FileId /\ at[a] = "set" /\ Return(a) /\ e.by = a
      /\ proc' = proc \/ proc' = [proc EXCEPT ![f] = Stored(proc[f], n, e)]
  BY <1>1 DEF IInv, TypeOK, Call, SetEvent
<1>3. \A b \in Appender : at'[b] = "set" => /\ b # a /\ at[b] = "set"
                                            /\ call'[b] = call[b] /\ next'[b] = next[b]
  BY <1>2, ReturnFrame DEF IInv
<1>4. CASE proc' = proc
  BY <1>3, <1>4 DEF OwnBehind, KeepsOwn
<1>5. CASE proc' = [proc EXCEPT ![f] = Stored(proc[f], n, e)]
  <2>1. \A k \in DOMAIN proc[f] : proc[f][k].by = a => k # n \/ (k = 1 /\ ~Clean)
    <3>1. n \in Nat /\ DOMAIN proc[f] \subseteq Nat
      BY <1>2 DEF IInv, TypeOK
    <3> QED
      BY <1>2, <3>1 DEF OwnBehind
  <2> HIDE DEF f, n
  <2>2. /\ \A g \in FileId \ {f} : proc'[g] = proc[g]
        /\ DOMAIN proc'[f] = DOMAIN proc[f] \cup {n}
        /\ proc'[f][n] = e
        /\ \A k \in DOMAIN proc[f] \ {n} : proc'[f][k] = proc[f][k]
    BY <1>2, <1>5 DEF IInv, TypeOK, Stored
  <2>3. KeepsOwn
    BY <1>2, <2>1, <2>2 DEF KeepsOwn
  <2>4. OwnBehind'
    <3> SUFFICES ASSUME NEW b \in Appender, at'[b] = "set",
                        NEW k \in DOMAIN proc'[call'[b].id],
                        proc'[call'[b].id][k].by = b
                 PROVE  k < next'[b] \/ (next'[b] = 1 /\ ~Clean)
      BY DEF OwnBehind
    <3>1. b # a /\ at[b] = "set" /\ call'[b] = call[b] /\ next'[b] = next[b]
      BY <1>3
    <3>2. call[b].id \in FileId
      BY DEF IInv, TypeOK, Call
    <3>3. k \in DOMAIN proc[call[b].id] /\ proc[call[b].id][k].by = b
      BY <1>2, <2>2, <3>1, <3>2
    <3> QED
      BY <3>1, <3>3 DEF OwnBehind
  <2> QED
    BY <2>3, <2>4
<1> QED
  BY <1>2, <1>4, <1>5

\* A step that leaves the maps alone and brings nobody before a $set.
LEMMA OwnKept ==
    ASSUME OwnBehind, UNCHANGED proc,
           \A a \in Appender :
              at'[a] = "set" => at[a] = "set" /\ call'[a] = call[a] /\ next'[a] = next[a]
    PROVE  OwnBehind' /\ KeepsOwn
  BY DEF OwnBehind, KeepsOwn

\* A read that neither a cursor nor errno spoils sees every event; any other
\* counts none and returns key 1.
LEMMA GetNextProcKeyOwn ==
    ASSUME IInv, OwnBehind, NEW a \in Appender, GetNextProcKey(a)
    PROVE  OwnBehind' /\ KeepsOwn
<1>1. PICK f : f = call[a].id
  OBVIOUS
<1>2. f \in FileId /\ f \in base /\ proc[f] \in Seq(Event) /\ UNCHANGED proc
  BY <1>1 DEF IInv, TypeOK, Call, IsSequence, EventsHaveBase, GetNextProcKey
<1>3. DOMAIN proc[f] = 1..Len(proc[f]) /\ Len(proc[f]) \in Nat
  BY <1>2
<1>4. CASE Faults /\ Return(a)
  BY <1>2, <1>4, OwnKept, ReturnFrame DEF IInv, TypeOK
<1>5. ASSUME NEW errno \in Errno, NEW cursorFails \in {FALSE, Faults},
             next' = [next EXCEPT ![a] = MaxKey(KeysCounted(f, errno, cursorFails)) + 1],
             at' = [at EXCEPT ![a] = "set"], UNCHANGED call
      PROVE  OwnBehind' /\ KeepsOwn
  <2>1. MaxKey({}) = 0 /\ MaxKey(DOMAIN proc[f]) = Len(proc[f])
    BY <1>3, MaxKeyOfInterval, 1..0 = {}
  <2>2. CASE errno = 0 /\ ~cursorFails
    <3>1. next'[a] = Len(proc[f]) + 1
      BY <1>2, <1>5, <2>1, <2>2 DEF KeysCounted, IInv, TypeOK
    <3>2. \A k \in DOMAIN proc[f] : k < next'[a]
      BY <1>3, <3>1
    <3> QED
      BY <1>1, <1>2, <1>5, <3>2 DEF OwnBehind, KeepsOwn, IInv, TypeOK
  <2>3. CASE ~(errno = 0 /\ ~cursorFails)
    <3>1. KeysCounted(f, errno, cursorFails) = {}
      BY <2>3 DEF KeysCounted
    <3>2. next'[a] = 1
      BY <1>5, <2>1, <3>1 DEF IInv, TypeOK
    <3>3. ~Clean
      <4>1. CASE errno # 0
        BY <4>1 DEF Clean
      <4>2. CASE cursorFails
        <5>1. cursorFails = FALSE \/ cursorFails = Faults
          OBVIOUS
        <5> QED
          BY <4>2, <5>1, Zenon DEF Clean
      <4> QED
        BY <2>3, <4>1, <4>2
    <3> QED
      BY <1>1, <1>2, <1>5, <3>2, <3>3 DEF OwnBehind, KeepsOwn, IInv, TypeOK
  <2> QED
    BY <2>2, <2>3
<1> QED
  BY <1>1, <1>4, <1>5 DEF GetNextProcKey

\* The other requests are such steps.
LEMMA StepOwn ==
    ASSUME IInv, OwnBehind, NEW a \in Appender, Step(a)
    PROVE  OwnBehind' /\ KeepsOwn
<1>1. CASE CreateBaseDocument(a)
  BY <1>1, OwnKept, ReturnFrame DEF IInv, TypeOK, CreateBaseDocument
<1> QED
  BY <1>1, GetNextProcKeyOwn, SetEventOwn DEF Step

\* So are a call and the end of a process.
LEMMA BeginOwn ==
    ASSUME IInv, OwnBehind, NEW a \in Appender, NEW id \in FileId, NEW kind \in Kind,
           Begin(a, id, kind)
    PROVE  OwnBehind' /\ KeepsOwn
  BY OwnKept DEF IInv, TypeOK, Begin

LEMMA StopOwn ==
    ASSUME IInv, OwnBehind, NEW threads \in Process, Stop(threads)
    PROVE  OwnBehind' /\ KeepsOwn
  BY OwnKept DEF IInv, TypeOK, Stop

\* get_next_proc_key and $set of different threads interleave; none of them ever
\* overwrites what it wrote itself, but for key 1 when errno is dirty or a cursor
\* fails, which is what every read that went wrong returns.
THEOREM OwnEventsStay == Spec => NeverOverwritesOwn
<1>1. Init => OwnBehind
  BY DEF Init, OwnBehind
<1>2. IInv /\ OwnBehind /\ [Next]_vars => OwnBehind' /\ (UNCHANGED vars \/ KeepsOwn)
  <2> SUFFICES ASSUME IInv, OwnBehind, [Next]_vars
               PROVE  OwnBehind' /\ (UNCHANGED vars \/ KeepsOwn)
    OBVIOUS
  <2>1. CASE UNCHANGED vars
    BY <2>1 DEF vars, OwnBehind
  <2> QED
    BY <2>1, StepOwn, BeginOwn, StopOwn DEF Next
<1>3. IInv /\ OwnBehind /\ [Next]_vars => OwnBehind'
  BY <1>2
<1>4. IInv /\ OwnBehind /\ [Next]_vars => [KeepsOwn]_vars
  BY <1>2
<1> QED
  BY <1>1, <1>3, <1>4, JournalInvariant, PTL DEF Spec, NeverOverwritesOwn, KeepsOwn
===============================================================================
