------------------------- MODULE SocketLoops_proofs -------------------------
(* The proofs about SocketLoops: that the one SSL_read of a header gets all of *)
(* it, and that the loops make a channel of a socket, for any messages, any    *)
(* size of records and buffers, and any failures.                              *)
EXTENDS SocketLoops, TLAPS, SequenceTheorems, WellFoundedInduction

\* The byte after the first p bytes of message m.
NextByte(m, p) ==
    IF m <= Len(Script) /\ p = Script[m].length THEN <<m + 1, 1>> ELSE <<m, p + 1>>

\* The message record w is a piece of, and the last place in it w reaches.
Of(w) == w[1][1]
Upto(w) == w[1][2] + Len(w) - 1

\* Has a sender with the first s bytes of message o behind it sent the first p
\* bytes of message m?
Handed(m, p, o, s) == m < o \/ (m = o /\ p <= s)

\* A record on transport t is a piece of one message; under TLS a header is one record.
IsPiece(w, t, o, s) ==
    /\ w \in Seq(Byte) /\ Len(w) \in 1..RecordMax
    /\ \A j \in 1..Len(w) : w[j] = <<Of(w), w[1][2] + j - 1>>
    /\ Upto(w) <= Script[Of(w)].length
    /\ Handed(Of(w), Upto(w), o, s)
    /\ t = "plain" => Len(w) = 1
    /\ t = "tls" /\ Script[Of(w)].kind = "header" => Len(w) = Script[Of(w)].length

\* The byte record i of ws begins with; behind the last one, the byte sent next.
Start(ws, o, s, i) == IF i <= Len(ws) THEN ws[i][1] ELSE NextByte(o, s)

\* The records carry on where the receiver stands, each where the one before it
\* ends, up to where the sender stands.
Chain ==
    /\ Start(wire, out, sent, 1) = NextByte(In, Len(buffer))
    /\ \A i \in 1..Len(wire) :
          NextByte(Of(wire[i]), Upto(wire[i])) = Start(wire, out, sent, i + 1)

\* Where the sender stands.
SenderOK ==
    /\ out \in 1..(Len(Script) + 1)
    /\ sent \in Nat
    /\ out > Len(Script) => sent = 0
    /\ out <= Len(Script) => sent <= Script[out].length
    /\ out <= Len(Script) /\ transport = "tls" /\ Script[out].kind = "header" =>
          sent \in {0, Script[out].length}

\* Where the receiver stands, and that all it has read is right.
ReceiverOK ==
    /\ received \in Seq(Seq(Byte)) /\ Len(received) <= Len(Script)
    /\ \A m \in 1..Len(received) : received[m] = Bytes(m)
    /\ buffer \in Seq(Byte)
    /\ \A j \in 1..Len(buffer) : buffer[j] = <<In, j>>
    /\ In > Len(Script) => buffer = <<>>
    /\ In <= Len(Script) => Len(buffer) <= Script[In].length
    /\ buffer # <<>> => Handed(In, Len(buffer), out, sent)
    /\ In <= Len(Script) /\ transport = "tls" /\ Script[In].kind = "header" =>
          Len(buffer) \in {0, Script[In].length}

StatesOK ==
    /\ transport \in Transport /\ fault \in {"none", "reset", "left"}
    /\ tx \in {"sending", "done", "failed"}
    /\ rx \in {"receiving", "done", "failed"}

WireOK ==
    /\ wire \in Seq(Seq(Byte)) /\ Len(wire) <= Capacity
    /\ \A i \in 1..Len(wire) : IsPiece(wire[i], transport, out, sent)

Inv == StatesOK /\ SenderOK /\ ReceiverOK /\ WireOK /\ Chain

-----------------------------------------------------------------------------
(* Messages and numbers *)

\* A set of numbers has a least one: what holds of the first byte, and of each
\* byte whose predecessor it holds of, holds of them all.
LEMMA LeastElement ==
    ASSUME NEW T \in SUBSET Nat, T # {}
    PROVE  \E n \in T : \A m \in T : n <= m
<1> DEFINE R == OpToRel(<, Nat)
<1>1. IsWellFoundedOn(R, Nat)
  BY NatLessThanWellFounded
<1>2. \A x, y \in Nat : <<x, y>> \in R <=> x < y
  BY DEF OpToRel
<1> HIDE DEF R
<1>3. PICK n \in T : \A m \in T : ~(<<m, n>> \in R)
  BY <1>1, WFMin
<1>4. n \in Nat /\ \A m \in T : m \in Nat
  OBVIOUS
<1>5. \A m \in T : ~(m < n)
  BY <1>2, <1>3, <1>4
<1>6. \A m \in T : n <= m
  BY <1>4, <1>5
<1> QED
  BY <1>6

\* Sums that the provers do not find among facts about sequences.
LEMMA Sums ==
    /\ \A a, b \in Nat : (a + 1) + b - 1 = a + b /\ (b <= a => a - b \in Nat)
    /\ \A a, b, i \in Nat : b <= a /\ i \in 1..(a - b + 1) =>
          i = a - b + 1 \/ (i \in 1..(a - b) /\ i + b <= a /\ i <= a - b)
    /\ \A a, b \in Nat : b <= a => (a - b + 1) + b = a + 1
OBVIOUS

\* One place further, in a list of b places and one after it, of which the last k
\* of a list of a places are left, behind the first k.
LEMMA PlaceBehind ==
    ASSUME NEW a \in Nat, NEW b \in Nat, NEW k \in Nat, k <= a, b = a - k
    PROVE  /\ 1 \in 1..(b + 1) /\ 1 + k = k + 1
           /\ \A i \in 1..b : /\ i \in 1..(a - k) /\ i + k \in 1..a
                              /\ i + 1 \in 1..(b + 1) /\ (i + 1) + k = (i + k) + 1
OBVIOUS

\* A place among n, not the last one, of those that follow the first s of l.
LEMMA NextInPiece ==
    ASSUME NEW a \in Nat, NEW s \in Nat, NEW l \in Nat, NEW n \in Nat, s + n <= l,
           NEW i \in 1..n, i < n
    PROVE  /\ i + 1 \in 1..n /\ a + (i + 1) = a + i + 1
           /\ s + (i + 1) = s + i + 1 /\ s + i # l
OBVIOUS

\* A place in a list of a places followed by b more: behind the first a, it is one of the b.
LEMMA PlaceInSecond ==
    ASSUME NEW a \in Nat, NEW b \in Nat, NEW j \in 1..(a + b), j > a
    PROVE  /\ j - a \in 1..b /\ a + (j - a) = j /\ ~(j <= a)
OBVIOUS

\* A function on 1..n is a sequence.
LEMMA FunctionIsSeq ==
    ASSUME NEW n \in Nat, NEW S, NEW f \in [1..n -> S]
    PROVE  f \in Seq(S) /\ Len(f) = n
<1>1. f \in Seq(S)
  BY SeqDef
<1> QED
  BY <1>1, LenProperties

\* The messages of the script.
LEMMA ScriptTyped ==
    /\ Len(Script) \in Nat /\ DOMAIN Script = 1..Len(Script)
    /\ \A m \in 1..Len(Script) : /\ Script[m].length \in Nat /\ Script[m].length > 0
                                 /\ Script[m].kind \in {"header", "body"}
                                 /\ Script[m].kind = "header" => Script[m].length <= RecordMax
<1>1. Len(Script) \in Nat /\ DOMAIN Script = 1..Len(Script)
  BY ScriptAssumption
<1>2. ASSUME NEW m \in 1..Len(Script)
      PROVE  /\ Script[m].length \in Nat /\ Script[m].length > 0
             /\ Script[m].kind \in {"header", "body"}
  <2>1. Script[m] \in [kind : {"header", "body"}, length : Nat \ {0}]
    BY ScriptAssumption, ElementOfSeq
  <2> QED
    BY <2>1
<1>3. ASSUME NEW m \in 1..Len(Script), Script[m].kind = "header"
      PROVE  Script[m].length <= RecordMax
  <2>1. Script[m].length \in 1..RecordMax
    BY <1>1, <1>3, HeaderAssumption
  <2> QED
    BY <2>1, HeaderAssumption
<1> QED
  BY <1>1, <1>2, <1>3

\* The bytes of a message.
LEMMA BytesTyped ==
    ASSUME NEW m \in 1..Len(Script)
    PROVE  /\ Bytes(m) \in Seq(Byte) /\ Len(Bytes(m)) = Script[m].length
           /\ \A i \in 1..Script[m].length : Bytes(m)[i] = <<m, i>>
<1>1. Script[m].length \in Nat
  BY ScriptTyped
<1>2. \A i \in 1..Script[m].length : <<m, i>> \in Byte
  BY <1>1, ScriptTyped DEF Byte
<1>3. Bytes(m) \in [1..Script[m].length -> Byte]
  BY <1>2 DEF Bytes
<1> QED
  BY <1>1, <1>3, FunctionIsSeq DEF Bytes

-----------------------------------------------------------------------------
(* The sending loop *)

\* What the loop sends at once is a piece of the message, from where it stands.
LEMMA PieceSent ==
    ASSUME SenderOK, Sending, NEW n \in 1..(Script[out].length - sent)
    PROVE  /\ Piece(n) \in Seq(Byte) /\ Len(Piece(n)) = n
           /\ \A j \in 1..n : Piece(n)[j] = <<out, sent + j>>
<1>1. /\ out \in 1..Len(Script) /\ Script[out].length \in Nat /\ sent \in Nat
      /\ \A i \in 1..Script[out].length : Bytes(out)[i] = <<out, i>>
  BY ScriptTyped, BytesTyped DEF SenderOK, Sending
<1>2. \A j \in 1..n : sent + j \in 1..Script[out].length
  BY <1>1
<1>3. \A j \in 1..n : Bytes(out)[sent + j] = <<out, sent + j>> /\ <<out, sent + j>> \in Byte
  BY <1>1, <1>2 DEF Byte
<1>4. Piece(n) \in [1..n -> Byte] /\ n \in Nat
  <2>1. \A j \in 1..n : Bytes(out)[sent + j] \in Byte
    BY <1>3
  <2>2. n \in Nat
    BY <1>1
  <2> QED
    BY <2>1, <2>2 DEF Piece
<1>5. Piece(n) \in Seq(Byte) /\ Len(Piece(n)) = n
  BY <1>4, FunctionIsSeq
<1> QED
  BY <1>3, <1>5 DEF Piece

\* What has been handed over stays so.
LEMMA HandedGrows ==
    ASSUME NEW o \in Nat, NEW s \in Nat, NEW o2 \in Nat, NEW s2 \in Nat,
           o2 > o \/ (o2 = o /\ s2 >= s)
    PROVE  /\ \A m, p \in Nat : Handed(m, p, o, s) => Handed(m, p, o2, s2)
           /\ \A w, t : IsPiece(w, t, o, s) => IsPiece(w, t, o2, s2)
<1>1. ASSUME NEW m \in Nat, NEW p \in Nat, Handed(m, p, o, s) PROVE Handed(m, p, o2, s2)
  BY <1>1 DEF Handed
<1>2. ASSUME NEW w, NEW t, IsPiece(w, t, o, s) PROVE IsPiece(w, t, o2, s2)
  <2>1. Of(w) \in Nat /\ Upto(w) \in Nat
    BY <1>2, ScriptTyped DEF IsPiece, Byte, Of, Upto
  <2>2. Handed(Of(w), Upto(w), o2, s2)
    BY <1>1, <1>2, <2>1 DEF IsPiece
  <2> QED
    BY <1>2, <2>2 DEF IsPiece
<1> QED
  BY <1>1, <1>2

\* The sender goes on; the receiver stands where it did.
LEMMA ReceiverStays ==
    ASSUME ReceiverOK, SenderOK, UNCHANGED <<transport, received, buffer>>,
           out' \in Nat, sent' \in Nat, out' > out \/ (out' = out /\ sent' >= sent)
    PROVE  ReceiverOK'
<1>1. Len(received) + 1 \in Nat /\ Len(buffer) \in Nat /\ out \in Nat /\ sent \in Nat
  BY ScriptTyped DEF ReceiverOK, SenderOK
<1>2. Handed(Len(received) + 1, Len(buffer), out, sent) =>
         Handed(Len(received) + 1, Len(buffer), out', sent')
  BY <1>1, HandedGrows
<1> QED
  BY <1>2 DEF ReceiverOK, In

\* A record that SSL_write sends.
LEMMA TlsSent ==
    ASSUME Inv, Sending, sent < Script[out].length, transport = "tls", Len(wire) < Capacity,
           UNCHANGED <<transport, fault, tx, out, rx, buffer, received>>,
           NEW n, n = Least(Script[out].length - sent, RecordMax),
           wire' = Append(wire, Piece(n)), sent' = sent + n
    PROVE  Inv'
<1>1. /\ StatesOK /\ SenderOK /\ ReceiverOK /\ WireOK /\ Chain
      /\ out \in 1..Len(Script) /\ Script[out].length \in Nat /\ sent \in Nat
      /\ RecordMax \in Nat \ {0} /\ Capacity \in Nat
  BY ScriptTyped, HeaderAssumption DEF Inv, SenderOK, Sending
<1>2. /\ n \in 1..(Script[out].length - sent) /\ n <= RecordMax /\ n \in 1..RecordMax
      /\ Script[out].kind = "header" => sent = 0 /\ n = Script[out].length
  <2>1. n \in 1..(Script[out].length - sent) /\ n \in 1..RecordMax
    BY <1>1 DEF Least
  <2>2. Script[out].kind = "header" => sent = 0 /\ Script[out].length <= RecordMax
    BY <1>1, ScriptTyped DEF SenderOK
  <2> QED
    BY <1>1, <2>1, <2>2 DEF Least
<1>0. PICK w : w = Piece(n)
  OBVIOUS
<1>3. /\ w \in Seq(Byte) /\ Len(w) = n /\ \A j \in 1..n : w[j] = <<out, sent + j>>
      /\ w[1] = <<out, sent + 1>>
  <2>1. Piece(n) \in Seq(Byte) /\ Len(Piece(n)) = n /\ \A j \in 1..n : Piece(n)[j] = <<out, sent + j>>
    BY <1>1, <1>2, PieceSent
  <2> QED
    BY <1>0, <1>2, <2>1
<1>4. Of(w) = out /\ Upto(w) = sent + n /\ w[1][2] = sent + 1
  <2>1. w[1][1] = out /\ w[1][2] = sent + 1
    BY <1>3
  <2>2. (sent + 1) + n - 1 = sent + n
    BY <1>1, <1>2
  <2> QED
    BY <1>3, <2>1, <2>2 DEF Of, Upto
<1>5. SenderOK'
  <2>1. sent' \in Nat /\ sent' <= Script[out].length
    BY <1>1, <1>2
  <2> QED
    BY <1>1, <1>2, <2>1 DEF SenderOK
<1>6. /\ \A v : IsPiece(v, transport, out, sent) => IsPiece(v, transport', out', sent')
      /\ ReceiverOK'
  <2>1. sent' \in Nat /\ sent' >= sent /\ out \in Nat
    BY <1>1, <1>2
  <2> QED
    BY <1>1, <2>1, HandedGrows, ReceiverStays
<1>7. IsPiece(w, transport', out', sent')
  <2>1. Handed(out, sent + n, out', sent')
    BY <1>1, <1>2 DEF Handed
  <2>2. \A j \in 1..n : w[j] = <<out, (sent + 1) + j - 1>>
    <3>1. \A j \in 1..n : (sent + 1) + j - 1 = sent + j
      BY <1>1, <1>2
    <3> QED
      BY <1>3, <3>1
  <2>3. sent + n <= Script[out].length
    BY <1>1, <1>2
  <2>4. \A j \in 1..Len(w) : w[j] = <<Of(w), w[1][2] + j - 1>>
    BY <1>3, <1>4, <2>2
  <2>5. transport' = "tls" /\ Script[Of(w)].kind = "header" => Len(w) = Script[Of(w)].length
    BY <1>2, <1>3, <1>4
  <2> QED
    BY <1>2, <1>3, <1>4, <2>1, <2>3, <2>4, <2>5 DEF IsPiece
<1>8. /\ wire \in Seq(Seq(Byte)) /\ Len(wire) \in Nat
      /\ wire' \in Seq(Seq(Byte)) /\ Len(wire') = Len(wire) + 1
      /\ wire'[Len(wire) + 1] = w /\ \A i \in 1..Len(wire) : wire'[i] = wire[i]
  BY <1>0, <1>1, <1>3, AppendProperties DEF WireOK
<1>9. WireOK'
  <2>1. \A i \in 1..Len(wire') : IsPiece(wire'[i], transport', out', sent')
    BY <1>1, <1>6, <1>7, <1>8 DEF WireOK
  <2>2. Len(wire') <= Capacity
    BY <1>1, <1>8
  <2> QED
    BY <1>8, <2>1, <2>2 DEF WireOK
<1>10. Chain'
  <2>1. NextByte(out, sent) = <<out, sent + 1>>
    BY <1>1, <1>2 DEF NextByte
  <2>2. \A i \in 1..(Len(wire) + 1) :
           Start(wire', out', sent', i) = Start(wire, out, sent, i)
    <3>1. \A i \in 1..Len(wire) : Start(wire', out', sent', i) = Start(wire, out, sent, i)
      BY <1>8 DEF Start
    <3>2. Start(wire', out', sent', Len(wire) + 1) = w[1]
      BY <1>8 DEF Start
    <3>3. Start(wire, out, sent, Len(wire) + 1) = w[1]
      BY <1>3, <1>8, <2>1 DEF Start
    <3> QED
      BY <1>8, <3>1, <3>2, <3>3
  <2>3. \A i \in 1..Len(wire) : NextByte(Of(wire'[i]), Upto(wire'[i])) =
                                    Start(wire', out', sent', i + 1)
    <3>1. \A i \in 1..Len(wire) : i + 1 \in 1..(Len(wire) + 1)
      BY <1>8
    <3> QED
      BY <1>1, <1>8, <2>2, <3>1 DEF Chain
  <2>4. NextByte(Of(w), Upto(w)) = Start(wire', out', sent', Len(wire) + 2)
    BY <1>1, <1>4, <1>8 DEF Start
  <2>5. Start(wire', out', sent', 1) = NextByte(In', Len(buffer'))
    BY <1>1, <1>8, <2>2 DEF Chain, In
  <2>6. \A i \in 1..Len(wire') : NextByte(Of(wire'[i]), Upto(wire'[i])) =
                                     Start(wire', out', sent', i + 1)
    <3>1. \A i \in 1..Len(wire') : i \in 1..Len(wire) \/ (i = Len(wire) + 1 /\ i + 1 = Len(wire) + 2)
      BY <1>8
    <3> QED
      BY <1>8, <2>3, <2>4, <3>1
  <2> QED
    BY <2>5, <2>6 DEF Chain
<1> QED
  BY <1>1, <1>5, <1>6, <1>9, <1>10 DEF Inv, StatesOK

\* Bytes that a plain socket takes.
LEMMA PlainSent ==
    ASSUME Inv, Sending, sent < Script[out].length, transport = "plain",
           UNCHANGED <<transport, fault, tx, out, rx, buffer, received>>,
           NEW n \in 1..(Script[out].length - sent), Len(wire) + n <= Capacity,
           wire' = wire \o [i \in 1..n |-> <<Piece(n)[i]>>], sent' = sent + n
    PROVE  Inv'
<1>1. /\ StatesOK /\ SenderOK /\ ReceiverOK /\ WireOK /\ Chain
      /\ out \in 1..Len(Script) /\ Script[out].length \in Nat /\ sent \in Nat /\ n \in Nat
      /\ RecordMax \in Nat \ {0} /\ Capacity \in Nat
  BY ScriptTyped, HeaderAssumption DEF Inv, SenderOK, Sending
<1>2. PICK v : v = [i \in 1..n |-> <<Piece(n)[i]>>]
  OBVIOUS
<1>3. /\ v \in Seq(Seq(Byte)) /\ Len(v) = n
      /\ \A i \in 1..n : v[i] = << <<out, sent + i>> >> /\ v[i] \in Seq(Byte)
  <2>1. \A j \in 1..n : Piece(n)[j] = <<out, sent + j>> /\ Piece(n)[j] \in Byte
    BY <1>1, PieceSent, ElementOfSeq
  <2>2. \A j \in 1..n : <<Piece(n)[j]>> \in Seq(Byte)
    BY <2>1
  <2>3. v \in [1..n -> Seq(Byte)]
    BY <1>2, <2>2
  <2> QED
    BY <1>1, <1>2, <2>1, <2>2, <2>3, FunctionIsSeq
<1>4. SenderOK'
  <2>1. sent' \in Nat /\ sent' <= Script[out].length
    BY <1>1
  <2> QED
    BY <1>1, <2>1 DEF SenderOK
<1>5. /\ \A w : IsPiece(w, transport, out, sent) => IsPiece(w, transport', out', sent')
      /\ ReceiverOK'
  <2>1. sent' \in Nat /\ sent' >= sent /\ out \in Nat
    BY <1>1
  <2> QED
    BY <1>1, <2>1, HandedGrows, ReceiverStays
<1>6. ASSUME NEW i \in 1..n
      PROVE  /\ IsPiece(v[i], transport', out', sent')
             /\ Of(v[i]) = out /\ Upto(v[i]) = sent + i
  <2>1. /\ v[i] \in Seq(Byte) /\ Len(v[i]) = 1 /\ v[i][1] = <<out, sent + i>>
        /\ sent + i \in Nat /\ sent + i <= Script[out].length
    <3>1. sent + i \in Nat /\ sent + i <= Script[out].length
      BY <1>1
    <3>2. v[i] = << <<out, sent + i>> >> /\ v[i] \in Seq(Byte)
      BY <1>3
    <3> QED
      BY <3>1, <3>2
  <2>2. Of(v[i]) = out /\ v[i][1][2] = sent + i
    BY <2>1 DEF Of
  <2>3. Upto(v[i]) = sent + i
    BY <2>1, <2>2 DEF Upto
  <2>4. \A j \in 1..Len(v[i]) : v[i][j] = <<Of(v[i]), v[i][1][2] + j - 1>>
    BY <2>1, <2>2
  <2>5. Handed(out, sent + i, out', sent')
    BY <1>1, <2>1 DEF Handed
  <2> QED
    BY <1>1, <2>1, <2>2, <2>3, <2>4, <2>5 DEF IsPiece
<1>7. /\ wire \in Seq(Seq(Byte)) /\ Len(wire) \in Nat
      /\ wire' \in Seq(Seq(Byte)) /\ Len(wire') = Len(wire) + n
      /\ \A i \in 1..Len(wire) : wire'[i] = wire[i]
      /\ \A i \in 1..n : wire'[Len(wire) + i] = v[i]
  BY <1>1, <1>2, <1>3 DEF WireOK
<1>8. \A i \in 1..Len(wire') : i \in 1..Len(wire) \/ (\E k \in 1..n : i = Len(wire) + k)
  <2> SUFFICES ASSUME NEW i \in 1..Len(wire'), i \notin 1..Len(wire)
               PROVE  \E k \in 1..n : i = Len(wire) + k
    OBVIOUS
  <2>1. i - Len(wire) \in 1..n /\ i = Len(wire) + (i - Len(wire))
    BY <1>1, <1>7
  <2> QED
    BY <2>1
<1>9. WireOK'
  <2>1. \A i \in 1..Len(wire') : IsPiece(wire'[i], transport', out', sent')
    BY <1>1, <1>5, <1>6, <1>7, <1>8 DEF WireOK
  <2>2. Len(wire') <= Capacity
    BY <1>1, <1>7
  <2> QED
    BY <1>7, <2>1, <2>2 DEF WireOK
<1>10. Chain'
  <2>1. \A i \in 1..Len(wire) : Start(wire', out', sent', i) = Start(wire, out, sent, i)
    BY <1>7 DEF Start
  <2>2. \A i \in 1..n : Start(wire', out', sent', Len(wire) + i) = <<out, sent + i>>
    <3>1. \A i \in 1..n : Len(wire) + i <= Len(wire')
      BY <1>7
    <3> QED
      BY <1>3, <1>7, <3>1 DEF Start
  <2>3. Start(wire, out, sent, Len(wire) + 1) = <<out, sent + 1>>
    <3>1. NextByte(out, sent) = <<out, sent + 1>>
      BY <1>1 DEF NextByte
    <3> QED
      BY <1>7, <3>1 DEF Start
  <2>4. Start(wire', out', sent', Len(wire) + n + 1) = NextByte(out, sent + n)
    BY <1>1, <1>7 DEF Start
  <2>5. \A i \in 1..n : NextByte(Of(v[i]), Upto(v[i])) =
                         Start(wire', out', sent', Len(wire) + i + 1)
    <3> SUFFICES ASSUME NEW i \in 1..n
                 PROVE  NextByte(out, sent + i) = Start(wire', out', sent', Len(wire) + i + 1)
      BY <1>6
    <3>1. CASE i = n
      BY <2>4, <3>1
    <3>2. CASE i < n
      <4> DEFINE l == Script[out].length
                 a == Len(wire)
      <4>3. a \in Nat /\ l \in Nat /\ sent \in Nat /\ n \in Nat /\ sent + n <= l
        BY <1>1, <1>7
      <4>4. i \in 1..n /\ i < n
        BY <3>2
      <4> HIDE DEF a, l
      <4>5. i + 1 \in 1..n /\ a + (i + 1) = a + i + 1
            /\ sent + (i + 1) = sent + i + 1 /\ sent + i # l
        BY <4>3, <4>4, NextInPiece
      <4>1. i + 1 \in 1..n /\ Len(wire) + (i + 1) = Len(wire) + i + 1
            /\ sent + (i + 1) = sent + i + 1 /\ sent + i # Script[out].length
        BY <4>5 DEF a, l
      <4>2. Start(wire', out', sent', Len(wire) + i + 1) = <<out, sent + i + 1>>
        BY <2>2, <4>1
      <4> QED
        BY <4>1, <4>2 DEF NextByte
    <3> QED
      BY <1>1, <3>1, <3>2
  <2>6. \A i \in 1..(Len(wire) + 1) : Start(wire', out', sent', i) = Start(wire, out, sent, i)
    <3>1. 1 \in 1..n
      BY <1>1
    <3>2. Start(wire', out', sent', Len(wire) + 1) = Start(wire, out, sent, Len(wire) + 1)
      BY <2>2, <2>3, <3>1
    <3>3. \A i \in 1..(Len(wire) + 1) : i \in 1..Len(wire) \/ i = Len(wire) + 1
      BY <1>7
    <3> QED
      BY <2>1, <3>2, <3>3
  <2>7. \A i \in 1..Len(wire) : NextByte(Of(wire'[i]), Upto(wire'[i])) =
                                    Start(wire', out', sent', i + 1)
    <3>1. \A i \in 1..Len(wire) : i + 1 \in 1..(Len(wire) + 1)
      BY <1>7
    <3> QED
      BY <1>1, <1>7, <2>6, <3>1 DEF Chain
  <2>8. Start(wire', out', sent', 1) = NextByte(In', Len(buffer'))
    BY <1>1, <1>7, <2>6 DEF Chain, In
  <2>9. \A i \in 1..Len(wire') : NextByte(Of(wire'[i]), Upto(wire'[i])) =
                                     Start(wire', out', sent', i + 1)
    BY <1>7, <1>8, <2>5, <2>7
  <2> QED
    BY <2>8, <2>9 DEF Chain
<1> QED
  BY <1>1, <1>4, <1>5, <1>9, <1>10 DEF Inv, StatesOK

\* The sending loop returns.
LEMMA ReturnSent ==
    ASSUME Inv, SendReturns
    PROVE  Inv'
<1>1. /\ StatesOK /\ SenderOK /\ ReceiverOK /\ WireOK /\ Chain
      /\ out \in 1..Len(Script) /\ sent = Script[out].length /\ sent \in Nat /\ sent > 0
      /\ out' = out + 1 /\ sent' = 0 /\ Len(Script) \in Nat
      /\ UNCHANGED <<transport, fault, wire, rx, buffer, received>>
      /\ tx' \in {"sending", "done"}
  BY ScriptTyped DEF Inv, SenderOK, Sending, SendReturns
<1>2. /\ \A w : IsPiece(w, transport, out, sent) => IsPiece(w, transport', out', sent')
      /\ ReceiverOK'
  BY <1>1, HandedGrows, ReceiverStays
<1>3. SenderOK'
  BY <1>1, ScriptTyped DEF SenderOK
<1>4. WireOK'
  BY <1>1, <1>2 DEF WireOK
<1>5. NextByte(out', sent') = NextByte(out, sent)
  BY <1>1, ScriptTyped DEF NextByte
<1>6. Chain'
  BY <1>1, <1>5 DEF Chain, Start, In
<1> QED
  BY <1>1, <1>2, <1>3, <1>4, <1>6 DEF Inv, StatesOK

-----------------------------------------------------------------------------
(* The receiving side *)

\* The receiver has taken the first k records and with them the bytes b, the next
\* ones of its message.
LEMMA Taken ==
    ASSUME Inv, NEW k \in 1..Len(wire), NEW b \in Seq(Byte), In <= Len(Script),
           Of(wire[k]) = In, Upto(wire[k]) = Len(buffer) + Len(b),
           \A j \in 1..Len(b) : b[j] = <<In, Len(buffer) + j>>,
           transport = "tls" /\ Script[In].kind = "header" =>
              Len(buffer) + Len(b) = Script[In].length,
           wire' = SubSeq(wire, k + 1, Len(wire)), buffer' = buffer \o b,
           UNCHANGED <<transport, fault, tx, out, sent, rx, received>>
    PROVE  Inv'
<1>1. /\ StatesOK /\ SenderOK /\ ReceiverOK /\ WireOK /\ Chain
      /\ wire \in Seq(Seq(Byte)) /\ Len(wire) \in Nat /\ k \in Nat /\ k >= 1 /\ k <= Len(wire)
      /\ buffer \in Seq(Byte) /\ Len(buffer) \in Nat /\ Len(b) \in Nat
      /\ IsPiece(wire[k], transport, out, sent)
  <2>1. StatesOK /\ SenderOK /\ ReceiverOK /\ WireOK /\ Chain
    BY DEF Inv
  <2>2. wire \in Seq(Seq(Byte)) /\ buffer \in Seq(Byte) /\ IsPiece(wire[k], transport, out, sent)
    BY <2>1 DEF WireOK, ReceiverOK
  <2>3. Len(wire) \in Nat /\ Len(buffer) \in Nat /\ Len(b) \in Nat
    BY <2>2, LenProperties
  <2>4. k \in Nat /\ k >= 1 /\ k <= Len(wire)
    BY <2>3
  <2> QED
    BY <2>1, <2>2, <2>3, <2>4
<1>2. /\ buffer' \in Seq(Byte) /\ Len(buffer') = Len(buffer) + Len(b)
      /\ \A j \in 1..Len(buffer') : buffer'[j] = <<In, j>>
  <2>1. /\ buffer' \in Seq(Byte) /\ Len(buffer') = Len(buffer) + Len(b)
        /\ \A j \in 1..Len(buffer') : buffer'[j] = IF j <= Len(buffer) THEN buffer[j]
                                                     ELSE b[j - Len(buffer)]
    BY <1>1, ConcatProperties
  <2>2. ASSUME NEW j \in 1..Len(buffer'), j > Len(buffer) PROVE buffer'[j] = <<In, j>>
    <3> DEFINE n == Len(buffer)
               l == Len(b)
    <3>4. n \in Nat /\ l \in Nat /\ j \in 1..(n + l) /\ j > n
      BY <1>1, <2>1, <2>2
    <3> HIDE DEF n, l
    <3>5. j - n \in 1..l /\ n + (j - n) = j /\ ~(j <= n)
      BY <3>4, PlaceInSecond
    <3>1. /\ j - Len(buffer) \in 1..Len(b) /\ Len(buffer) + (j - Len(buffer)) = j
          /\ ~(j <= Len(buffer))
      BY <3>5 DEF n, l
    <3>2. b[j - Len(buffer)] = <<In, Len(buffer) + (j - Len(buffer))>>
      BY <3>1
    <3>3. buffer'[j] = b[j - Len(buffer)]
      BY <2>1, <3>1
    <3> QED
      BY <3>1, <3>2, <3>3
  <2>3. \A j \in 1..Len(buffer) : buffer[j] = <<In, j>>
    BY <1>1 DEF ReceiverOK
  <2>4. ASSUME NEW j \in 1..Len(buffer'), j <= Len(buffer) PROVE buffer'[j] = <<In, j>>
    BY <1>1, <2>1, <2>3, <2>4
  <2>5. \A j \in 1..Len(buffer') : j > Len(buffer) \/ j <= Len(buffer)
    BY <1>1
  <2> QED
    BY <2>1, <2>2, <2>4, <2>5
<1>3. /\ Len(buffer') <= Script[In].length
      /\ Handed(In, Len(buffer'), out, sent)
  BY <1>1, <1>2 DEF IsPiece
<1>4. ReceiverOK'
  <2>1. In' = In
    BY DEF In
  <2>2. transport = "tls" /\ Script[In].kind = "header" =>
           Len(buffer') \in {0, Script[In].length}
    BY <1>2
  <2>3. /\ received \in Seq(Seq(Byte)) /\ Len(received) <= Len(Script)
        /\ \A m \in 1..Len(received) : received[m] = Bytes(m)
    BY <1>1 DEF ReceiverOK
  <2>4. ~(In > Len(Script))
    BY <2>3, ScriptTyped DEF In
  <2> QED
    BY <1>2, <1>3, <2>1, <2>2, <2>3, <2>4 DEF ReceiverOK
<1>5. /\ wire' \in Seq(Seq(Byte)) /\ Len(wire') = Len(wire) - k
      /\ \A i \in 1..(Len(wire) - k) : wire'[i] = wire[i + k]
  <2>1. wire' \in Seq(Seq(Byte)) /\ Len(wire') = Len(wire) - k
    BY <1>1
  <2>2. ASSUME NEW i \in 1..(Len(wire) - k) PROVE wire'[i] = wire[i + k]
    <3>1. wire'[i] = wire[(k + 1) + i - 1] /\ (k + 1) + i - 1 = i + k
      BY <1>1
    <3> QED
      BY <3>1
  <2> QED
    BY <2>1, <2>2
<1>6. \A i \in 1..Len(wire') : i + k \in 1..Len(wire)
  BY <1>1, <1>5
<1>7. WireOK'
  <2>1. \A i \in 1..Len(wire') : IsPiece(wire'[i], transport', out', sent')
    BY <1>1, <1>5, <1>6 DEF WireOK
  <2>2. Len(wire') <= Capacity
    BY <1>1, <1>5, HeaderAssumption DEF WireOK
  <2> QED
    BY <1>5, <2>1, <2>2 DEF WireOK
<1>8. ASSUME NEW i \in 1..(Len(wire') + 1)
      PROVE  Start(wire', out', sent', i) = Start(wire, out, sent, i + k)
  <2> DEFINE L == Len(wire)
  <2>1. L \in Nat /\ Len(wire') = L - k /\ k \in Nat /\ k <= L
    BY <1>1, <1>5
  <2>2. UNCHANGED <<out, sent>>
    OBVIOUS
  <2>3. \A j \in 1..(L - k) : wire'[j] = wire[j + k]
    BY <1>5
  <2>4. i \in 1..(L - k + 1)
    BY <2>1
  <2> HIDE DEF L
  <2>5. i \in Nat
    BY <2>1, <2>4
  <2>6. CASE i \in 1..(L - k) /\ i + k <= L /\ i <= L - k
    <3>1. i <= Len(wire') /\ i + k <= Len(wire)
      BY <2>1, <2>6 DEF L
    <3>2. wire'[i] = wire[i + k]
      BY <2>3, <2>6
    <3> QED
      BY <3>1, <3>2 DEF Start
  <2>7. CASE i = L - k + 1
    <3>1. ~(i <= L - k) /\ ~(i + k <= L)
      BY <2>1, <2>7
    <3>2. ~(i <= Len(wire')) /\ ~(i + k <= Len(wire))
      BY <2>1, <3>1 DEF L
    <3> QED
      BY <2>2, <3>2 DEF Start
  <2> QED
    BY <2>1, <2>4, <2>5, <2>6, <2>7, Sums
<1>9. Chain'
  <2> DEFINE L == Len(wire)
             R == Len(wire')
  <2>4. L \in Nat /\ R \in Nat /\ k \in Nat /\ k <= L /\ R = L - k
    BY <1>1, <1>5
  <2> HIDE DEF L, R
  <2>5. /\ 1 \in 1..(R + 1) /\ 1 + k = k + 1
        /\ \A i \in 1..R : /\ i \in 1..(L - k) /\ i + k \in 1..L
                           /\ i + 1 \in 1..(R + 1) /\ (i + 1) + k = (i + k) + 1
    BY <2>4, PlaceBehind
  <2> USE DEF L, R
  <2>1. NextByte(In, Len(buffer')) = Start(wire, out, sent, k + 1)
    BY <1>1, <1>2 DEF Chain
  <2>2. Start(wire', out', sent', 1) = NextByte(In', Len(buffer'))
    <3>1. 1 \in 1..(Len(wire') + 1) /\ 1 + k = k + 1
      BY <2>5
    <3> QED
      BY <1>8, <2>1, <3>1 DEF In
  <2>3. ASSUME NEW i \in 1..Len(wire')
        PROVE  NextByte(Of(wire'[i]), Upto(wire'[i])) = Start(wire', out', sent', i + 1)
    <3>1. i + k \in 1..Len(wire) /\ (i + 1) + k = (i + k) + 1 /\ i + 1 \in 1..(Len(wire') + 1)
          /\ i \in 1..(Len(wire) - k)
      BY <2>5
    <3>3. wire'[i] = wire[i + k]
      BY <1>5, <3>1
    <3>2. NextByte(Of(wire[i + k]), Upto(wire[i + k])) = Start(wire, out, sent, (i + k) + 1)
      BY <1>1, <3>1 DEF Chain
    <3> QED
      BY <1>8, <3>1, <3>2, <3>3
  <2> QED
    BY <2>2, <2>3 DEF Chain
<1> QED
  BY <1>1, <1>4, <1>7, <1>9 DEF Inv, StatesOK, SenderOK

\* Under TLS the record at hand begins where the receiver stands, and lies within
\* the message it reads.
LEMMA HeadRecord ==
    ASSUME Inv, In <= Len(Script), Missing > 0, wire # <<>>
    PROVE  /\ wire[1][1] = <<In, Len(buffer) + 1>>
           /\ Of(wire[1]) = In /\ Upto(wire[1]) = Len(buffer) + Len(wire[1])
           /\ Len(wire[1]) \in Nat /\ Len(wire[1]) >= 1 /\ Len(wire[1]) <= Missing
           /\ \A j \in 1..Len(wire[1]) : wire[1][j] = <<In, Len(buffer) + j>>
<1>1. /\ Len(wire) >= 1 /\ Len(wire) \in Nat /\ IsPiece(wire[1], transport, out, sent)
      /\ In \in 1..Len(Script) /\ Len(buffer) \in Nat
      /\ Script[In].length \in Nat /\ RecordMax \in Nat
  <2>1. wire \in Seq(Seq(Byte)) /\ \A i \in 1..Len(wire) : IsPiece(wire[i], transport, out, sent)
    BY DEF Inv, WireOK
  <2>2. Len(wire) >= 1 /\ Len(wire) \in Nat
    BY <2>1
  <2>3. In \in 1..Len(Script) /\ Len(buffer) \in Nat
    BY ScriptTyped DEF Inv, ReceiverOK, In
  <2> QED
    BY <2>1, <2>2, <2>3, ScriptTyped, HeaderAssumption
<1>2. wire[1][1] = <<In, Len(buffer) + 1>>
  BY <1>1 DEF Inv, Chain, Start, NextByte, Missing
<1>3. Of(wire[1]) = In /\ wire[1][1][2] = Len(buffer) + 1
  BY <1>2 DEF Of
<1>4. Len(wire[1]) \in 1..RecordMax
  BY <1>1 DEF IsPiece
<1>5. Upto(wire[1]) = Len(buffer) + Len(wire[1])
  <2>1. Len(wire[1]) \in Nat
    BY <1>1, <1>4
  <2>2. (Len(buffer) + 1) + Len(wire[1]) - 1 = Len(buffer) + Len(wire[1])
    BY <1>1, <2>1, Sums
  <2> QED
    BY <1>3, <2>2 DEF Upto
<1>6. Len(wire[1]) <= Missing
  BY <1>1, <1>3, <1>4, <1>5 DEF IsPiece, Missing
<1>7. \A j \in 1..Len(wire[1]) : wire[1][j] = <<In, Len(buffer) + j>>
  <2>1. \A j \in 1..Len(wire[1]) : (Len(buffer) + 1) + j - 1 = Len(buffer) + j
    BY <1>1, <1>4
  <2> QED
    BY <1>1, <1>3, <2>1 DEF IsPiece
<1> QED
  BY <1>1, <1>2, <1>3, <1>4, <1>5, <1>6, <1>7

\* On a plain socket the records at hand are the bytes missing, one by one.
LEMMA PlainRecords ==
    ASSUME Inv, In <= Len(Script), transport = "plain", NEW k \in 1..Len(wire), k <= Missing
    PROVE  \A i \in 1..k : /\ wire[i] \in Seq(Byte) /\ Len(wire[i]) = 1
                           /\ wire[i][1] = <<In, Len(buffer) + i>>
<1>1. /\ In \in 1..Len(Script) /\ Len(buffer) \in Nat /\ Script[In].length \in Nat
      /\ Len(wire) \in Nat /\ Chain
  <2>1. buffer \in Seq(Byte) /\ wire \in Seq(Seq(Byte)) /\ received \in Seq(Seq(Byte)) /\ Chain
    BY DEF Inv, ReceiverOK, WireOK
  <2>2. In \in 1..Len(Script)
    BY <2>1, ScriptTyped DEF In
  <2> QED
    BY <2>1, <2>2, ScriptTyped, LenProperties
<1>2. k \in Nat /\ k >= 1 /\ k <= Len(wire) /\ k <= Script[In].length - Len(buffer)
  BY <1>1 DEF Missing
<1>3. \A i \in 1..k : IsPiece(wire[i], "plain", out, sent)
  BY <1>1, <1>2 DEF Inv, WireOK
<1>4. \A i \in 1..k : wire[i] \in Seq(Byte) /\ Len(wire[i]) = 1
  BY <1>3 DEF IsPiece
<1> DEFINE p == Len(buffer)
           Bad == {i \in 1..k : wire[i][1] # <<In, p + i>>}
<1>5. ASSUME Bad # {} PROVE FALSE
  <2>1. PICK n \in Bad : \A m \in Bad : n <= m
    <3>1. Bad \in SUBSET Nat
      OBVIOUS
    <3> HIDE DEF Bad
    <3> QED
      BY <1>5, <3>1, LeastElement
  <2>2. n \in 1..k /\ wire[n][1] # <<In, p + n>>
    OBVIOUS
  <2>3. CASE n = 1
    <3>1. NextByte(In, p) = <<In, p + 1>>
      <4>1. p # Script[In].length
        BY <1>1, <1>2
      <4> QED
        BY <4>1 DEF NextByte
    <3>2. Start(wire, out, sent, 1) = wire[1][1]
      BY <1>2 DEF Start
    <3> QED
      BY <1>1, <2>2, <2>3, <3>1, <3>2 DEF Chain
  <2>4. CASE n # 1
    <3>1. PICK l : l = n - 1
      OBVIOUS
    <3>2. l \in 1..k /\ l < n /\ l + 1 = n /\ l \in 1..Len(wire) /\ n <= Len(wire)
      BY <1>1, <1>2, <2>2, <2>4, <3>1
    <3>3. l \notin Bad
      BY <2>1, <2>2, <3>2
    <3>4. wire[l][1] = <<In, p + l>>
      BY <3>2, <3>3
    <3>5. Of(wire[l]) = In /\ Upto(wire[l]) = p + l
      <4>1. Len(wire[l]) = 1 /\ wire[l][1][1] = In /\ wire[l][1][2] = p + l
        BY <1>4, <3>2, <3>4
      <4>2. (p + l) + 1 - 1 = p + l
        BY <1>1, <1>2, <3>2
      <4> QED
        BY <4>1, <4>2 DEF Of, Upto
    <3>6. NextByte(In, p + l) = <<In, p + n>>
      <4>1. p + l # Script[In].length /\ (p + l) + 1 = p + n
        BY <1>1, <1>2, <2>2, <3>2
      <4> QED
        BY <4>1 DEF NextByte
    <3>7. NextByte(Of(wire[l]), Upto(wire[l])) = Start(wire, out, sent, n)
      BY <1>1, <3>2 DEF Chain
    <3>8. Start(wire, out, sent, n) = wire[n][1]
      BY <3>2 DEF Start
    <3> QED
      BY <2>2, <3>5, <3>6, <3>7, <3>8
  <2> QED
    BY <2>3, <2>4
<1> QED
  BY <1>4, <1>5

\* SSL_read or recv takes what it can of what is missing.
LEMMA PieceTaken ==
    ASSUME Inv, SslReceivePiece \/ PlainReceivePiece
    PROVE  Inv'
<1>1. /\ In <= Len(Script) /\ Missing > 0 /\ wire # <<>>
      /\ Script[In].kind = "body" \/ transport = "plain"
      /\ UNCHANGED <<transport, fault, tx, out, sent, rx, received>>
  BY DEF SslReceivePiece, PlainReceivePiece, Receiving
<1>2. PICK r : /\ wire' = r.rest /\ buffer' = buffer \o r.bytes
               /\ transport = "tls" => r = RecordRead(Missing)
               /\ transport = "plain" => r \in SocketReads(Missing)
  BY DEF SslReceivePiece, PlainReceivePiece
<1>3. /\ wire \in Seq(Seq(Byte)) /\ Len(wire) \in Nat /\ Len(wire) >= 1
      /\ Missing \in Nat /\ In \in 1..Len(Script) /\ Len(buffer) \in Nat
  <2>1. buffer \in Seq(Byte) /\ wire \in Seq(Seq(Byte)) /\ received \in Seq(Seq(Byte))
    BY DEF Inv, ReceiverOK, WireOK
  <2>2. Len(wire) \in Nat /\ Len(wire) >= 1 /\ Len(buffer) \in Nat
    BY <1>1, <2>1
  <2>3. In \in 1..Len(Script)
    BY <1>1, <2>1, ScriptTyped DEF In
  <2>4. Script[In].length \in Nat
    BY <2>3, ScriptTyped
  <2> QED
    BY <1>1, <2>1, <2>2, <2>3, <2>4 DEF Missing
<1>4. CASE transport = "tls"
  <2>1. /\ Of(wire[1]) = In /\ Upto(wire[1]) = Len(buffer) + Len(wire[1])
        /\ Len(wire[1]) \in Nat /\ Len(wire[1]) >= 1 /\ Len(wire[1]) <= Missing
        /\ \A j \in 1..Len(wire[1]) : wire[1][j] = <<In, Len(buffer) + j>>
    BY <1>1, HeadRecord
  <2>2. Head(wire) = wire[1] /\ wire[1] \in Seq(Byte)
    BY <1>3
  <2>3. Least(Missing, Len(Head(wire))) = Len(wire[1])
    BY <1>3, <2>1, <2>2 DEF Least
  <2>4. r.bytes = SubSeq(wire[1], 1, Len(wire[1])) /\ r.rest = Tail(wire)
    BY <1>2, <1>4, <2>2, <2>3 DEF RecordRead
  <2>5. SubSeq(wire[1], 1, Len(wire[1])) = wire[1] /\ Tail(wire) = SubSeq(wire, 2, Len(wire))
    BY <1>1, <1>3, <2>2
  <2>6. PICK b \in Seq(Byte) : b = wire[1]
    BY <2>2
  <2>7. /\ wire' = SubSeq(wire, 1 + 1, Len(wire)) /\ buffer' = buffer \o b
        /\ Upto(wire[1]) = Len(buffer) + Len(b) /\ 1 \in 1..Len(wire)
        /\ \A j \in 1..Len(b) : b[j] = <<In, Len(buffer) + j>>
    <3>1. wire' = Tail(wire) /\ buffer' = buffer \o wire[1]
      BY <1>2, <2>4, <2>5
    <3>2. 1 + 1 = 2 /\ 1 \in 1..Len(wire)
      BY <1>3
    <3> QED
      BY <2>1, <2>5, <2>6, <3>1, <3>2
  <2>8. ~(transport = "tls" /\ Script[In].kind = "header")
    BY <1>1, <1>4
  <2> QED
    BY <1>1, <2>1, <2>7, <2>8, Taken
<1>5. CASE transport = "plain"
  <2>1. PICK k \in 1..Least(Missing, Len(wire)) :
           r = [bytes |-> [i \in 1..k |-> wire[i][1]], rest |-> SubSeq(wire, k + 1, Len(wire))]
    BY <1>2, <1>5 DEF SocketReads
  <2>2. k \in 1..Len(wire) /\ k <= Missing /\ k \in Nat
    BY <1>3 DEF Least
  <2>3. \A i \in 1..k : /\ wire[i] \in Seq(Byte) /\ Len(wire[i]) = 1
                        /\ wire[i][1] = <<In, Len(buffer) + i>>
    BY <1>1, <1>5, <2>2, PlainRecords
  <2>4. PICK b : b = [i \in 1..k |-> wire[i][1]]
    OBVIOUS
  <2>5. b \in Seq(Byte) /\ Len(b) = k /\ \A j \in 1..k : b[j] = <<In, Len(buffer) + j>>
    <3>1. \A i \in 1..k : wire[i][1] \in Byte
      BY <2>3
    <3>2. b \in [1..k -> Byte]
      BY <2>4, <3>1
    <3>3. \A j \in 1..k : b[j] = wire[j][1]
      BY <2>4
    <3> QED
      BY <2>2, <2>3, <3>2, <3>3, FunctionIsSeq
  <2>6. /\ wire' = SubSeq(wire, k + 1, Len(wire)) /\ buffer' = buffer \o b
    BY <1>2, <2>1, <2>4
  <2>7. Of(wire[k]) = In /\ Upto(wire[k]) = Len(buffer) + Len(b)
    <3>1. wire[k][1][1] = In /\ wire[k][1][2] = Len(buffer) + k /\ Len(wire[k]) = 1
      BY <2>2, <2>3
    <3>2. (Len(buffer) + k) + 1 - 1 = Len(buffer) + k
      BY <1>3, <2>2
    <3> QED
      BY <2>5, <3>1, <3>2 DEF Of, Upto
  <2>8. \A j \in 1..Len(b) : b[j] = <<In, Len(buffer) + j>>
    BY <2>5
  <2> QED
    BY <1>1, <1>5, <2>2, <2>5, <2>6, <2>7, <2>8, Taken
<1> QED
  BY <1>4, <1>5, ScriptAssumption DEF Inv, StatesOK

\* handle_client reads a header.
LEMMA HeaderTaken ==
    ASSUME Inv, ReadHeader
    PROVE  Inv'
<1>1. /\ In <= Len(Script) /\ Missing > 0 /\ wire # <<>>
      /\ transport = "tls" /\ Script[In].kind = "header" /\ rx = "receiving"
      /\ UNCHANGED <<transport, fault, tx, out, sent, received>>
  BY DEF ReadHeader, Receiving
<1>2. PICK r : /\ r = RecordRead(Script[In].length)
               /\ wire' = r.rest /\ buffer' = r.bytes
               /\ rx' = IF Len(r.bytes) = Script[In].length THEN rx ELSE "short"
  BY DEF ReadHeader
<1>3. /\ wire \in Seq(Seq(Byte)) /\ Len(wire) \in Nat /\ Len(wire) >= 1
      /\ In \in 1..Len(Script) /\ buffer \in Seq(Byte) /\ Script[In].length \in Nat
      /\ ReceiverOK /\ WireOK
  <2>1. /\ buffer \in Seq(Byte) /\ wire \in Seq(Seq(Byte)) /\ received \in Seq(Seq(Byte))
        /\ ReceiverOK /\ WireOK
    BY DEF Inv, ReceiverOK, WireOK
  <2>2. Len(wire) \in Nat /\ Len(wire) >= 1
    BY <1>1, <2>1
  <2>3. In \in 1..Len(Script)
    BY <1>1, <2>1, ScriptTyped DEF In
  <2> QED
    BY <2>1, <2>2, <2>3, ScriptTyped
<1>4. Len(buffer) = 0 /\ buffer = <<>>
  <2>1. Len(buffer) \in {0, Script[In].length}
    BY <1>1, <1>3 DEF ReceiverOK
  <2>2. Len(buffer) # Script[In].length
    BY <1>1, <1>3 DEF Missing
  <2> QED
    BY <1>3, <2>1, <2>2, EmptySeq
<1>5. /\ Of(wire[1]) = In /\ Upto(wire[1]) = Len(buffer) + Len(wire[1])
      /\ Len(wire[1]) \in Nat /\ \A j \in 1..Len(wire[1]) : wire[1][j] = <<In, Len(buffer) + j>>
  BY <1>1, HeadRecord
<1>6. Head(wire) = wire[1] /\ wire[1] \in Seq(Byte) /\ Len(wire[1]) = Script[In].length
  <2>1. IsPiece(wire[1], transport, out, sent)
    BY <1>3 DEF WireOK
  <2>2. Len(wire[1]) = Script[In].length
    BY <1>1, <1>5, <2>1 DEF IsPiece
  <2> QED
    BY <1>3, <2>2
<1>7. Least(Script[In].length, Len(Head(wire))) = Len(wire[1])
  BY <1>6 DEF Least
<1>8. r.bytes = SubSeq(wire[1], 1, Len(wire[1])) /\ r.rest = Tail(wire)
  BY <1>1, <1>2, <1>6, <1>7 DEF RecordRead
<1>9. SubSeq(wire[1], 1, Len(wire[1])) = wire[1] /\ Tail(wire) = SubSeq(wire, 2, Len(wire))
  BY <1>1, <1>3, <1>6
<1>10. PICK b \in Seq(Byte) : b = wire[1]
  BY <1>6
<1>11. rx' = rx
  BY <1>2, <1>6, <1>8, <1>9
<1>12. buffer' = buffer \o b
  BY <1>2, <1>4, <1>8, <1>9, <1>10
<1>13. /\ wire' = SubSeq(wire, 1 + 1, Len(wire))
       /\ Upto(wire[1]) = Len(buffer) + Len(b) /\ 1 \in 1..Len(wire)
       /\ \A j \in 1..Len(b) : b[j] = <<In, Len(buffer) + j>>
       /\ Len(buffer) + Len(b) = Script[In].length
  BY <1>2, <1>3, <1>4, <1>5, <1>6, <1>8, <1>9, <1>10
<1> QED
  BY <1>1, <1>5, <1>11, <1>12, <1>13, Taken

\* A message that has come whole is the message that was sent.
LEMMA WholeMessage ==
    ASSUME Inv, In <= Len(Script), Missing = 0
    PROVE  /\ In \in 1..Len(Script) /\ buffer = Bytes(In)
           /\ Len(buffer) = Script[In].length /\ Handed(In, Len(buffer), out, sent)
<1>1. /\ ReceiverOK /\ In \in 1..Len(Script) /\ buffer \in Seq(Byte) /\ Len(buffer) \in Nat
      /\ Script[In].length \in Nat /\ Script[In].length > 0
  <2>1. received \in Seq(Seq(Byte)) /\ buffer \in Seq(Byte) /\ ReceiverOK
    BY DEF Inv, ReceiverOK
  <2>2. In \in 1..Len(Script)
    BY <2>1, ScriptTyped DEF In
  <2> QED
    BY <2>1, <2>2, ScriptTyped, LenProperties
<1>2. Len(buffer) = Script[In].length
  BY <1>1 DEF Missing
<1>3. buffer # <<>>
  BY <1>1, <1>2, EmptySeq
<1>4. Handed(In, Len(buffer), out, sent)
  BY <1>1, <1>3 DEF ReceiverOK
<1>5. \A j \in 1..Len(buffer) : buffer[j] = <<In, j>>
  BY <1>1 DEF ReceiverOK
<1>6. /\ Bytes(In) \in Seq(Byte) /\ Len(Bytes(In)) = Script[In].length
      /\ \A i \in 1..Script[In].length : Bytes(In)[i] = <<In, i>>
  BY <1>1, BytesTyped
<1>7. \A j \in 1..Len(buffer) : buffer[j] = Bytes(In)[j]
  BY <1>2, <1>5, <1>6
<1>8. buffer = Bytes(In)
  BY <1>1, <1>2, <1>6, <1>7, SeqEqual
<1> QED
  BY <1>1, <1>2, <1>4, <1>8

\* The receiving loop returns.
LEMMA ReturnTaken ==
    ASSUME Inv, ReceiveReturns
    PROVE  Inv'
<1>1. /\ In <= Len(Script) /\ Missing = 0 /\ received' = Append(received, buffer)
      /\ buffer' = <<>> /\ rx' \in {"done", "receiving"}
      /\ UNCHANGED <<transport, fault, tx, out, sent, wire>>
  BY DEF ReceiveReturns, Receiving
<1>2. /\ In \in 1..Len(Script) /\ buffer = Bytes(In) /\ Len(buffer) = Script[In].length
  BY <1>1, WholeMessage
<1>3. /\ received \in Seq(Seq(Byte)) /\ Len(received) \in Nat /\ buffer \in Seq(Byte)
      /\ \A m \in 1..Len(received) : received[m] = Bytes(m)
      /\ Len(Script) \in Nat
  BY ScriptTyped, LenProperties DEF Inv, ReceiverOK
<1>4. /\ received' \in Seq(Seq(Byte)) /\ Len(received') = Len(received) + 1
      /\ \A m \in 1..Len(received) : received'[m] = received[m]
      /\ received'[Len(received) + 1] = buffer
  BY <1>1, <1>3, AppendProperties
<1>5. \A m \in 1..Len(received') : received'[m] = Bytes(m)
  <2>1. \A m \in 1..Len(received') : m \in 1..Len(received) \/ m = Len(received) + 1
    BY <1>3, <1>4
  <2> QED
    BY <1>2, <1>3, <1>4, <2>1 DEF In
<1>6. In' = In + 1 /\ Len(buffer') = 0 /\ Len(received') <= Len(Script) /\ In \in Nat
  <2>1. Len(buffer') = 0
    BY <1>1
  <2> QED
    BY <1>2, <1>3, <1>4, <2>1 DEF In
<1>7. ReceiverOK'
  <2>1. buffer' \in Seq(Byte) /\ \A j \in 1..Len(buffer') : FALSE
    BY <1>1, <1>6
  <2>2. In' <= Len(Script) => Len(buffer') <= Script[In'].length
    <3>1. In' \in Nat /\ In' >= 1
      BY <1>6
    <3>2. In' <= Len(Script) => Script[In'].length \in Nat
      BY <1>3, <3>1, ScriptTyped
    <3> QED
      BY <1>6, <3>2
  <2> QED
    BY <1>1, <1>4, <1>5, <1>6, <2>1, <2>2 DEF ReceiverOK
<1>8. NextByte(In, Len(buffer)) = NextByte(In', Len(buffer'))
  <2>1. NextByte(In, Len(buffer)) = <<In + 1, 1>>
    BY <1>1, <1>2 DEF NextByte
  <2>2. In + 1 <= Len(Script) => Script[In + 1].length > 0 /\ Script[In + 1].length \in Nat
    BY <1>3, <1>6, ScriptTyped
  <2>3. NextByte(In + 1, 0) = <<In + 1, 1>>
    BY <2>2 DEF NextByte
  <2> QED
    BY <1>6, <2>1, <2>3
<1>9. Chain'
  BY <1>1, <1>8 DEF Inv, Chain, Start
<1> QED
  BY <1>1, <1>7, <1>9 DEF Inv, StatesOK, SenderOK, WireOK

-----------------------------------------------------------------------------
(* The invariant *)

LEMMA InvInit == Init => Inv
<1> SUFFICES ASSUME Init PROVE Inv
  OBVIOUS
<1>1. /\ transport \in Transport /\ fault = "none" /\ tx = "sending" /\ out = 1 /\ sent = 0
      /\ wire = <<>> /\ rx = "receiving" /\ buffer = <<>> /\ received = <<>>
  BY DEF Init
<1>2. Len(Script) \in Nat /\ Len(wire) = 0 /\ Len(buffer) = 0 /\ Len(received) = 0 /\ In = 1
  <2>1. Len(wire) = 0 /\ Len(buffer) = 0 /\ Len(received) = 0
    BY <1>1
  <2> QED
    BY <2>1, ScriptTyped DEF In
<1>3. 1 <= Len(Script) => Script[1].length \in Nat /\ Script[1].length >= 0
  BY <1>2, ScriptTyped
<1>4. SenderOK
  BY <1>1, <1>2, <1>3 DEF SenderOK
<1>5. ReceiverOK
  BY <1>1, <1>2, <1>3 DEF ReceiverOK
<1>6. WireOK
  BY <1>1, <1>2, HeaderAssumption DEF WireOK
<1>7. Chain
  BY <1>1, <1>2 DEF Chain, Start
<1> QED
  BY <1>1, <1>4, <1>5, <1>6, <1>7 DEF Inv, StatesOK

LEMMA InvNext == Inv /\ [Next]_vars => Inv'
<1> SUFFICES ASSUME Inv, [Next]_vars PROVE Inv'
  OBVIOUS
<1>1. CASE SslSendPiece
  <2>1. PICK n : n = Least(Script[out].length - sent, RecordMax)
    OBVIOUS
  <2>2. /\ Sending /\ sent < Script[out].length
        /\ transport = "tls" /\ Len(wire) < Capacity
        /\ wire' = Append(wire, Piece(n)) /\ sent' = sent + n
        /\ UNCHANGED <<transport, fault, tx, out, rx, buffer, received>>
    BY <1>1, <2>1 DEF SslSendPiece
  <2> QED
    BY <2>1, <2>2, TlsSent
<1>12. CASE PlainSendPiece
  <2>1. PICK n \in 1..(Script[out].length - sent) :
           /\ transport = "plain" /\ Len(wire) + n <= Capacity
           /\ wire' = wire \o [i \in 1..n |-> <<Piece(n)[i]>>]
           /\ sent' = sent + n
    BY <1>12 DEF PlainSendPiece
  <2>2. /\ Sending /\ sent < Script[out].length
        /\ UNCHANGED <<transport, fault, tx, out, rx, buffer, received>>
    <3>1. Script[out].length \in Nat /\ sent \in Nat /\ Sending
      BY <1>12, ScriptTyped DEF PlainSendPiece, Sending, Inv, SenderOK
    <3> QED
      BY <1>12, <2>1, <3>1 DEF PlainSendPiece
  <2> QED
    BY <2>1, <2>2, PlainSent
<1>2. CASE SendReturns
  BY <1>2, ReturnSent
<1>3. CASE SslReceivePiece \/ PlainReceivePiece
  BY <1>3, PieceTaken
<1>4. CASE ReadHeader
  BY <1>4, HeaderTaken
<1>5. CASE ReceiveReturns
  BY <1>5, ReturnTaken
<1>6. ASSUME UNCHANGED <<transport, out, sent, wire, buffer, received>>,
             fault' \in {"none", "reset", "left"}, tx' \in {"sending", "done", "failed"},
             rx' \in {"receiving", "done", "failed"}
      PROVE  Inv'
  BY <1>6 DEF Inv, StatesOK, SenderOK, ReceiverOK, WireOK, Chain, In
<1>7. CASE SendFails
  BY <1>6, <1>7 DEF SendFails, Inv, StatesOK
<1>8. CASE ReceiveFails
  BY <1>6, <1>8 DEF ReceiveFails, Inv, StatesOK
<1>9. CASE Reset
  BY <1>6, <1>9 DEF Reset, Inv, StatesOK
<1>10. CASE Leave
  BY <1>6, <1>10 DEF Leave, Inv, StatesOK
<1>11. CASE UNCHANGED vars
  BY <1>6, <1>11 DEF vars, Inv, StatesOK
<1> QED
  BY <1>1, <1>2, <1>3, <1>4, <1>5, <1>7, <1>8, <1>9, <1>10, <1>11,
     <1>12 DEF Next, SendStep, ReceiveStep

LEMMA InvAlways == Spec => []Inv
<1> QED
  BY InvInit, InvNext, PTL DEF Spec

-----------------------------------------------------------------------------
(* The theorems *)

\* Every step keeps the types: in particular no record is longer than RecordMax and
\* no more of them are under way than the buffers hold.
THEOREM LoopTypes == Spec => []TypeOK
<1>1. Inv => TypeOK
  <2> SUFFICES ASSUME Inv PROVE TypeOK
    OBVIOUS
  <2>1. DOMAIN wire = 1..Len(wire) /\ \A i \in 1..Len(wire) : Len(wire[i]) \in 1..RecordMax
    BY DEF Inv, WireOK, IsPiece
  <2> QED
    BY <2>1 DEF Inv, StatesOK, SenderOK, ReceiverOK, WireOK, TypeOK
<1> QED
  BY <1>1, InvAlways, PTL

\* The one SSL_read of handle_client gets all of a request header, whatever the
\* messages before it, the size of the buffers and the pieces the other reads take,
\* as long as a header fits a TLS record.
THEOREM HeaderWhole == Spec => []HeaderInOneRead
<1>1. Inv => HeaderInOneRead
  BY DEF Inv, StatesOK, HeaderInOneRead
<1> QED
  BY <1>1, InvAlways, PTL

\* The messages the sender has begun.
Given(o, s) == [m \in 1..(IF s > 0 THEN o ELSE o - 1) |-> Bytes(m)]

\* The loops make a channel of the socket: what the receiver returns is, byte for
\* byte and in order, what the sender was given, however either side cuts it up and
\* wherever the connection breaks.
THEOREM LoopsMakeAChannel == Spec => ImplementsChannel
<1>1. Init => Stream!Init
  <2> SUFFICES ASSUME Init PROVE Stream!Init
    OBVIOUS
  <2>1. out = 1 /\ sent = 0 /\ received = <<>>
    BY DEF Init
  <2>2. Given(out, sent) = <<>>
    <3>1. (IF sent > 0 THEN out ELSE out - 1) = 0
      BY <2>1
    <3>2. \A f : f \in [1..0 -> {}] => f = <<>>
      BY FunctionIsSeq, EmptySeq
    <3>3. Given(out, sent) \in [1..0 -> {}]
      BY <3>1 DEF Given
    <3> QED
      BY <3>2, <3>3
  <2> QED
    BY <2>1, <2>2 DEF Stream!Init, Given
<1>2. Inv /\ [Next]_vars => [Stream!Next]_(Stream!vars)
  <2> SUFFICES ASSUME Inv, [Next]_vars PROVE [Stream!Next]_(Stream!vars)
    OBVIOUS
  <2>1. /\ out \in Nat /\ out >= 1 /\ sent \in Nat /\ Len(Script) \in Nat
        /\ DOMAIN Script = 1..Len(Script)
    BY ScriptTyped DEF Inv, SenderOK
  <2>2. ASSUME Given(out', sent') = Given(out, sent), received' = received
        PROVE  UNCHANGED Stream!vars
    BY <2>2 DEF Stream!vars, Given
  <2>3. CASE SslSendPiece \/ PlainSendPiece
    <3>1. /\ out' = out /\ received' = received /\ out \in 1..Len(Script)
          /\ sent' \in Nat /\ sent' > 0
      <4>1. out' = out /\ received' = received /\ out \in 1..Len(Script)
            /\ Script[out].length \in Nat
        BY <2>1, <2>3, ScriptTyped DEF SslSendPiece, PlainSendPiece, Sending
      <4>2. \E n \in Nat \ {0} : sent' = sent + n
        <5>1. SslSendPiece => Least(Script[out].length - sent, RecordMax) \in Nat \ {0}
          <6>1. SslSendPiece => sent < Script[out].length
            BY DEF SslSendPiece
          <6> QED
            BY <2>1, <4>1, <6>1, HeaderAssumption DEF Least
        <5>2. \A n \in 1..(Script[out].length - sent) : n \in Nat \ {0}
          BY <2>1, <4>1
        <5> QED
          BY <2>3, <5>1, <5>2 DEF SslSendPiece, PlainSendPiece
      <4> QED
        BY <2>1, <4>1, <4>2
    <3>2. CASE sent > 0
      <4>1. Given(out', sent') = Given(out, sent)
        BY <3>1, <3>2 DEF Given
      <4> QED
        BY <2>2, <3>1, <4>1
    <3>3. CASE sent = 0
      <4>1. Given(out', sent') = [m \in 1..out |-> Bytes(m)]
        BY <3>1 DEF Given
      <4>2. Given(out, sent) = [m \in 1..(out - 1) |-> Bytes(m)]
        BY <3>3 DEF Given
      <4>3. \A m \in 1..out : Bytes(m) \in Seq(Byte)
        BY <2>1, <3>1, BytesTyped
      <4>4. PICK f : f = [m \in 1..(out - 1) |-> Bytes(m)]
        OBVIOUS
      <4>5. PICK g : g = [m \in 1..out |-> Bytes(m)]
        OBVIOUS
      <4>6. f \in Seq(Seq(Byte)) /\ Len(f) = out - 1
        <5>1. out - 1 \in Nat /\ f \in [1..(out - 1) -> Seq(Byte)]
          BY <2>1, <4>3, <4>4
        <5> QED
          BY <5>1, FunctionIsSeq
      <4>7. g \in Seq(Seq(Byte)) /\ Len(g) = out
        <5>1. g \in [1..out -> Seq(Byte)]
          BY <4>3, <4>5
        <5> QED
          BY <2>1, <5>1, FunctionIsSeq
      <4>8. g = Append(f, Bytes(out))
        <5>1. /\ Append(f, Bytes(out)) \in Seq(Seq(Byte)) /\ Len(Append(f, Bytes(out))) = out
              /\ \A i \in 1..(out - 1) : Append(f, Bytes(out))[i] = f[i]
              /\ Append(f, Bytes(out))[out] = Bytes(out)
          <6>1. Bytes(out) \in Seq(Byte) /\ (out - 1) + 1 = out
            BY <2>1, <4>3
          <6> QED
            BY <4>6, <6>1, AppendProperties
        <5>2. \A i \in 1..out : g[i] = Append(f, Bytes(out))[i]
          <6>1. \A i \in 1..out : i = out \/ i \in 1..(out - 1)
            BY <2>1
          <6> QED
            BY <4>4, <4>5, <5>1, <6>1
        <5>3. PICK h : h = Append(f, Bytes(out))
          OBVIOUS
        <5> QED
          BY <4>7, <5>1, <5>2, <5>3, SeqEqual
      <4>9. Given(out', sent') = Append(Given(out, sent), Bytes(out))
        BY <4>1, <4>2, <4>4, <4>5, <4>8
      <4>10. Stream!Give(Bytes(out))
        BY <3>1, <4>9 DEF Stream!Give, Given
      <4> QED
        BY <2>1, <3>1, <4>10 DEF Stream!Next
    <3> QED
      BY <2>1, <3>2, <3>3
  <2>4. CASE SendReturns
    <3>1. out' = out + 1 /\ sent' = 0 /\ received' = received /\ sent > 0
      <4>1. out \in 1..Len(Script) /\ sent = Script[out].length
        <5>1. out <= Len(Script) /\ sent = Script[out].length
          BY <2>4 DEF SendReturns, Sending
        <5> QED
          BY <2>1, <5>1
      <4>2. sent > 0
        BY <4>1, ScriptTyped
      <4> QED
        BY <2>4, <4>2 DEF SendReturns
    <3>2. Given(out', sent') = Given(out, sent)
      <4>1. (IF sent' > 0 THEN out' ELSE out' - 1) = out
        BY <2>1, <3>1
      <4>2. (IF sent > 0 THEN out ELSE out - 1) = out
        BY <3>1
      <4> QED
        BY <4>1, <4>2 DEF Given
    <3> QED
      BY <2>2, <3>1, <3>2
  <2>5. CASE ReceiveReturns
    <3>1. /\ In <= Len(Script) /\ Missing = 0 /\ received' = Append(received, buffer)
          /\ out' = out /\ sent' = sent
      BY <2>5 DEF ReceiveReturns, Receiving
    <3>2. /\ In \in 1..Len(Script) /\ buffer = Bytes(In) /\ Len(buffer) \in Nat
          /\ Len(buffer) > 0 /\ Handed(In, Len(buffer), out, sent)
      BY <3>1, WholeMessage, ScriptTyped
    <3>3. PICK n : n = IF sent > 0 THEN out ELSE out - 1
      OBVIOUS
    <3>4. n \in Nat /\ In \in 1..n /\ Len(received) < n /\ In = Len(received) + 1
      <4>1. In = Len(received) + 1 /\ Len(received) \in Nat
        BY LenProperties DEF In, Inv, ReceiverOK
      <4>2. n \in Nat /\ In <= n
        BY <2>1, <3>2, <3>3, <4>1 DEF Handed
      <4> QED
        BY <4>1, <4>2
    <3>5. Given(out, sent) = [m \in 1..n |-> Bytes(m)]
      BY <3>3 DEF Given
    <3>6. Len(Given(out, sent)) = n /\ Given(out, sent)[In] = Bytes(In)
      <4>1. PICK f : f = [m \in 1..n |-> Bytes(m)]
        OBVIOUS
      <4>2. f \in [1..n -> {Bytes(m) : m \in 1..n}]
        BY <4>1
      <4>3. Len(f) = n
        BY <3>4, <4>2, FunctionIsSeq
      <4> QED
        BY <3>4, <3>5, <4>1, <4>3
    <3>7. Given(out', sent') = Given(out, sent)
      BY <3>1
    <3>8. Stream!Take
      BY <3>1, <3>2, <3>4, <3>6, <3>7 DEF Stream!Take, Given
    <3> QED
      BY <3>8 DEF Stream!Next
  <2>6. ASSUME UNCHANGED <<out, sent, received>> PROVE UNCHANGED Stream!vars
    BY <2>2, <2>6
  <2>7. CASE \/ SendFails \/ SslReceivePiece \/ PlainReceivePiece \/ ReadHeader
             \/ ReceiveFails \/ Reset \/ Leave
    BY <2>6, <2>7 DEF SendFails, SslReceivePiece, PlainReceivePiece, ReadHeader, ReceiveFails,
       Reset, Leave
  <2>8. CASE UNCHANGED vars
    BY <2>6, <2>8 DEF vars
  <2> QED
    BY <2>3, <2>4, <2>5, <2>7, <2>8 DEF Next, SendStep, ReceiveStep
<1> QED
  BY <1>1, <1>2, InvAlways, PTL DEF Spec, ImplementsChannel, Stream!Spec

===============================================================================
