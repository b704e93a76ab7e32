---------------------------- MODULE Transfer_proofs ----------------------------
(* The proofs about Transfer: what an upload and a download that the client    *)
(* calls completed, or refused, say of the file the server holds, for any      *)
(* contents, any number of runs and writes and any point at which the          *)
(* connection breaks.                                                          *)
EXTENDS Transfer, TLAPS, SequenceTheorems

Status == {"RESP_SUCCESS", "RESP_ERROR", "RESP_PERMISSION_DENIED", "RESP_INTEGRITY_ERROR",
           "RESP_FILE_NOT_FOUND", "RESP_INVALID_OFFSET", "RESP_UNKNOWN_COMMAND"}
Header == [kind : {"header"}, cmd : Command, size : Nat, hash : Seq(BlockOfFile),
           offset : Int]
Response == [kind : {"response"}, size : Nat, status : Status]
FileBlock == [kind : {"block"}, block : BlockOfFile]
AnyBlock == [kind : {"block"}, block : BlockOfFile \cup {Listing[1]}]

Early == {"none", "stat", "hash", "open", "request"}

\* The file behind the name, and the documents that are to describe it.
Kept ==
    /\ stored \in Seq(BlockOfFile) \cup {Missing}
    /\ written \in 0..MaxRuns /\ since \in 0..runs
    /\ records \subseteq [run : 1..MaxRuns, content : Seq(BlockOfFile)]
    /\ records # {} => stored \in Seq(BlockOfFile)

Typed ==
    /\ local \in Seq(BlockOfFile)
    /\ writes \in 0..MaxWrites /\ runs \in 0..MaxRuns
    /\ spc # "closed" => runs >= 1
    /\ size \in Nat /\ sent \in Nat /\ offset \in Nat /\ total \in Nat /\ asked \in Int
    /\ hash \in Seq(BlockOfFile)
    /\ link \in {"up", "server_closed", "broken"}
    /\ spc \in {"closed", "header", "body", "stray"}
    /\ sreq \in Header \cup {NoRequest}
    /\ got \in Seq(BlockOfFile)
    /\ Kept
    /\ faulted \in BOOLEAN

\* Which command is where; the handler of a connection that is up is there.
Where ==
    /\ cmd \in Command \cup {"none"}
    /\ \/ cpc \in {"none", "done", "failed"}
       \/ cpc \in {"request", "response"} /\ cmd \in Command
       \/ cpc \in {"stat", "hash", "send", "status"} /\ cmd = "upload"
       \/ cpc = "open" /\ cmd = "download"
       \/ cpc = "receive" /\ cmd \in {"download", "list"}
    /\ link = "up" => spc # "closed"
    /\ spc = "stray" => cpc \notin Early \cup {"response"}

\* The header is on its way, and nothing else is.
HeaderWaits ==
    /\ c2s = <<RequestHeader(cmd, size, hash, asked)>> /\ s2c = <<>>
    /\ cmd \in Command /\ spc = "header" /\ cpc \in {"response", "failed"}

\* Otherwise the first stream holds blocks of the local file, and only when the
\* client was told to send them.
ToServer ==
    HeaderWaits \/ (/\ c2s \in Seq(FileBlock)
                    /\ c2s # <<>> => cmd = "upload" /\ cpc \notin Early \cup {"response"})

\* The second stream: a response and then blocks to a download or a list.  To an
\* upload whose blocks are misread there may come anything.
ToClient ==
    /\ s2c \in Seq(Message)
    /\ cpc \in Early => s2c = <<>>
    /\ cmd # "upload" /\ cpc = "response" =>
          \A i \in 1..Len(s2c) :
             IF i = 1 THEN s2c[i] \in Response
             ELSE IF cmd = "download" THEN s2c[i] \in FileBlock ELSE s2c[i] \in AnyBlock
    /\ cpc = "receive" =>
          \A i \in 1..Len(s2c) :
             IF cmd = "download" THEN s2c[i] \in FileBlock ELSE s2c[i] \in AnyBlock

\* A body is received for the header that was sent.
Receiving ==
    spc = "body" => /\ cmd = "upload" /\ cpc \notin Early
                    /\ sreq = RequestHeader(cmd, size, hash, asked)
                    /\ Len(got) <= size

Shape == Typed /\ Where /\ ToServer /\ ToClient /\ Receiving

\* The upload is behind the remote name and in a document, and stays there.
Upload == [run |-> runs, content |-> hash]
Whole == stored = hash \/ (faulted /\ stored = Cut(hash))
Settled == /\ spc # "body" /\ ~HeaderWaits
           /\ size <= IntMax => Upload \in records /\ written = runs /\ Whole

\* The response after the first, which alone tells of the body: it is not there
\* before the body is, and when it says RESP_SUCCESS the upload is settled.
UploadRuns ==
    cmd = "upload" =>
       /\ cpc = "response" =>
             /\ spc = "body" => Len(s2c) <= 1 /\ (link = "up" => Len(s2c) = 1)
             /\ Len(s2c) >= 2 /\ s2c[2].status = "RESP_SUCCESS" => Settled
             /\ s2c # <<>> /\ s2c[1].status = "RESP_SUCCESS" /\ link = "up" /\ spc = "header" =>
                   Len(s2c) >= 2
       /\ cpc \in {"send", "status"} =>
             /\ spc = "body" => s2c = <<>>
             /\ s2c # <<>> /\ s2c[1].status = "RESP_SUCCESS" => Settled
             /\ link = "up" /\ spc \in {"header", "stray"} => s2c # <<>>
       /\ cpc = "done" => Settled

\* There is a document of the file as it is.
Described == stored \in Seq(BlockOfFile) /\ [run |-> written, content |-> stored] \in records

\* A download from the beginning: what is here and what is under way is the file.
DownloadRuns ==
    cmd = "download" /\ offset = 0 /\ asked = 0 =>
       /\ cpc = "response" /\ s2c # <<>> /\ s2c[1].status = "RESP_SUCCESS" =>
             /\ Described /\ s2c[1].size = Len(stored)
             /\ Len(s2c) <= Len(stored) + 1
             /\ \A i \in 2..Len(s2c) : s2c[i].block = stored[i - 1]
       /\ cpc = "receive" =>
             /\ Described /\ size = Len(stored)
             /\ Len(local) = total /\ total + Len(s2c) <= Len(stored)
             /\ \A i \in 1..total : local[i] = stored[i]
             /\ \A i \in 1..Len(s2c) : s2c[i].block = stored[total + i]
       /\ cpc = "done" => /\ Described
                          /\ local = stored \/ (faulted /\ local = Cut(stored))

Reason == \/ records = {} \/ stored = <<>> \/ asked \notin 0..Len(stored)
          \/ \E record \in records : ~Fits(record)

\* A connection on which nothing fails stays up while a download lasts.
RefusalRuns ==
    ~faulted =>
       /\ link # "broken"
       /\ cmd = "download" =>
             /\ cpc \notin Ended => link = "up"
             /\ cpc = "response" /\ s2c # <<>> =>
                   (s2c[1].status = "RESP_SUCCESS" /\ s2c[1].size > 0) \/ Reason
             /\ cpc = "failed" => Reason

-----------------------------------------------------------------------------
(* Messages and numbers *)

\* A function on 1..n is a sequence.
LEMMA FunctionIsSeq ==
    ASSUME NEW n \in Nat, NEW S, NEW f \in [1..n -> S]
    PROVE  f \in Seq(S) /\ Len(f) = n
<1>1. f \in Seq(S)
  BY SeqDef
<1> QED
  BY <1>1, LenProperties

LEMMA SeqOfMore ==
    ASSUME NEW A, NEW B, A \subseteq B, NEW s \in Seq(A)
    PROVE  s \in Seq(B)
<1>1. Len(s) \in Nat /\ s \in [1..Len(s) -> A]
  BY LenProperties, ElementOfSeq, SeqDef
<1>2. s \in [1..Len(s) -> B]
  BY <1>1
<1> QED
  BY <1>1, <1>2, SeqDef

\* What an int makes of a count: never more, and the count itself if it fits.
LEMMA IntCounts ==
    ASSUME NEW n \in Nat
    PROVE  ToInt(n) \in Int /\ ToInt(n) <= n /\ (n <= IntMax => ToInt(n) = n)
<1> DEFINE m == IntMax + 1
           a == n + IntMax + 1
<1>1. IntMax \in Nat
  BY SizesAssumption
<1>2. m \in Nat \ {0} /\ a \in Nat /\ 2 * m \in Nat \ {0} /\ a = n + m
  BY <1>1
<1>3. ToInt(n) = (a % (2 * m)) - m
  BY DEF ToInt
<1>4. \A x \in Nat, y \in Nat \ {0} : /\ x % y \in Nat /\ x % y <= x
                                      /\ x < y => x % y = x
  OBVIOUS
<1>5. n <= IntMax => a < 2 * m
  BY <1>1
<1> HIDE DEF m, a
<1>6. /\ a % (2 * m) \in Nat /\ a % (2 * m) <= a
      /\ n <= IntMax => a % (2 * m) = a
  BY <1>2, <1>4, <1>5
<1> QED
  BY <1>2, <1>3, <1>6

\* The contents of a file are made of its blocks.
LEMMA VersionTyped == \A v \in Versions : v \in Seq(BlockOfFile)
<1> SUFFICES ASSUME NEW v \in Versions PROVE v \in Seq(BlockOfFile)
  OBVIOUS
<1>1. v \in Seq({v[i] : i \in DOMAIN v})
  BY VersionsAssumption
<1>2. {v[i] : i \in DOMAIN v} \subseteq BlockOfFile
  BY DEF BlockOfFile
<1>3. \A i \in 1..Len(v) : v[i] \in BlockOfFile
  BY <1>1, <1>2, ElementOfSeq
<1>4. Len(v) \in Nat /\ v = [i \in 1..Len(v) |-> v[i]]
  BY <1>1, LenProperties
<1>5. v \in [1..Len(v) -> BlockOfFile]
  BY <1>3, <1>4
<1> QED
  BY <1>4, <1>5, SeqDef

\* A file without its last block.
LEMMA CutTyped ==
    ASSUME NEW S, NEW s \in Seq(S), s # <<>>
    PROVE  Cut(s) \in Seq(S)
<1>1. Len(s) \in Nat /\ Len(s) # 0
  BY LenProperties, EmptySeq
<1>2. PICK n : n = Len(s) - 1
  OBVIOUS
<1>3. n \in 0..Len(s)
  BY <1>1, <1>2
<1>4. SubSeq(s, 1, n) \in Seq(S)
  BY <1>3
<1> QED
  BY <1>2, <1>4 DEF Cut

\* The kinds of messages are messages, and a header is no block.
LEMMA Kinds ==
    /\ Header \subseteq Message /\ Response \subseteq Message
    /\ FileBlock \subseteq AnyBlock /\ AnyBlock \subseteq Message
    /\ \A x \in Header : x.kind = "header"
    /\ \A x \in FileBlock : x.kind = "block" /\ x.block \in BlockOfFile
<1>1. Response \subseteq Message
  BY DEF Response, Message, Status
<1>2. Header \subseteq Message
  BY DEF Header, Message
<1>3. FileBlock \subseteq AnyBlock /\ AnyBlock \subseteq Message
  BY DEF FileBlock, AnyBlock, Message
<1> QED
  BY <1>1, <1>2, <1>3 DEF Header, FileBlock

LEMMA ResponseTyped ==
    \A st \in Status, n \in Nat : /\ ResponseHeader(st, n) \in Response
                                  /\ ResponseHeader(st, n).status = st
                                  /\ ResponseHeader(st, n).size = n
BY DEF ResponseHeader, Response

LEMMA HeaderTyped ==
    Typed => \A c \in Command : /\ RequestHeader(c, size, hash, asked) \in Header
                                /\ RequestHeader(c, size, hash, asked).cmd = c
                                /\ RequestHeader(c, size, hash, asked).size = size
                                /\ RequestHeader(c, size, hash, asked).hash = hash
                                /\ RequestHeader(c, size, hash, asked).offset = asked
                                /\ RequestHeader(c, size, hash, asked).kind = "header"
BY DEF Typed, RequestHeader, Header

\* A body, block by block.
LEMMA BodyTyped ==
    ASSUME NEW S, NEW s \in Seq(S)
    PROVE  /\ Body(s) \in Seq([kind : {"block"}, block : S]) /\ Len(Body(s)) = Len(s)
           /\ \A i \in 1..Len(s) : /\ Body(s)[i] \in [kind : {"block"}, block : S]
                                   /\ Body(s)[i].block = s[i]
<1>1. DOMAIN s = 1..Len(s) /\ Len(s) \in Nat /\ \A i \in 1..Len(s) : s[i] \in S
  BY ElementOfSeq, LenProperties
<1>2. Body(s) = [i \in 1..Len(s) |-> [kind |-> "block", block |-> s[i]]]
  BY <1>1 DEF Body
<1>3. \A i \in 1..Len(s) : /\ Body(s)[i] \in [kind : {"block"}, block : S]
                           /\ Body(s)[i].block = s[i]
  BY <1>1, <1>2
<1>4. Body(s) \in [1..Len(s) -> [kind : {"block"}, block : S]]
  <2>1. \A i \in 1..Len(s) : [kind |-> "block", block |-> s[i]] \in [kind : {"block"}, block : S]
    BY <1>1
  <2> QED
    BY <1>2, <2>1
<1>5. Body(s) \in Seq([kind : {"block"}, block : S]) /\ Len(Body(s)) = Len(s)
  BY <1>1, <1>4, FunctionIsSeq
<1> QED
  BY <1>3, <1>5

-----------------------------------------------------------------------------
(* The shape of the two streams *)

\* Before the header is sent both streams are empty.
LEMMA EarlyEmpty ==
    ASSUME Shape, cpc \in Early
    PROVE  c2s = <<>> /\ s2c = <<>> /\ spc \notin {"body", "stray"} /\ ~HeaderWaits
BY DEF Shape, Where, ToServer, ToClient, Receiving, HeaderWaits, Early

\* The header that the handler reads is the one the client sent.
LEMMA HeaderRead ==
    ASSUME Shape, NEW c, NextHeader(c)
    PROVE  /\ HeaderWaits /\ c = cmd /\ c2s' = <<>> /\ ~HeaderWaits'
           /\ Head(c2s) = RequestHeader(cmd, size, hash, asked)
           /\ Head(c2s).offset = asked /\ Head(c2s) \in Header
           /\ UNCHANGED <<file, cmd, cpc, progress, link>>
<1>1. c2s # <<>> /\ Head(c2s).kind = "header" /\ Head(c2s).cmd = c /\ c2s' = Tail(c2s)
      /\ UNCHANGED <<file, cmd, cpc, progress, link>>
  BY DEF NextHeader
<1>2. ASSUME c2s \in Seq(FileBlock) PROVE FALSE
  <2>1. Head(c2s) \in FileBlock
    BY <1>1, <1>2
  <2>2. Head(c2s).kind = "block"
    BY <2>1, Kinds
  <2> QED
    BY <1>1, <2>2
<1>3. HeaderWaits
  BY <1>2 DEF Shape, ToServer
<1>4. c2s = <<RequestHeader(cmd, size, hash, asked)>> /\ cmd \in Command
  BY <1>3 DEF HeaderWaits
<1>5. Head(c2s) = RequestHeader(cmd, size, hash, asked) /\ Tail(c2s) = <<>>
  BY <1>4
<1>6. ~HeaderWaits'
  BY <1>1, <1>5 DEF HeaderWaits
<1> QED
  BY <1>1, <1>3, <1>4, <1>5, <1>6, HeaderTyped DEF Shape

\* The handler answers the header.
LEMMA Answered ==
    ASSUME Shape, HeaderWaits, NEW m \in Seq(Message), SendAll(m), UNCHANGED <<cmd, cpc>>,
           cmd # "upload" =>
              \A i \in 1..Len(m) :
                 IF i = 1 THEN m[i] \in Response
                 ELSE IF cmd = "download" THEN m[i] \in FileBlock ELSE m[i] \in AnyBlock
    PROVE  ToClient' /\ s2c' = IF link = "up" THEN m ELSE <<>>
<1>1. s2c = <<>> /\ cpc \in {"response", "failed"}
  BY DEF HeaderWaits
<1>2. s2c' = IF link = "up" THEN m ELSE <<>>
  BY <1>1 DEF SendAll
<1>3. s2c' \in Seq(Message) /\ Len(<<>>) = 0
  BY <1>2
<1>4. CASE link = "up"
  BY <1>1, <1>2, <1>3, <1>4 DEF ToClient, Early
<1>5. CASE link # "up"
  BY <1>1, <1>2, <1>3, <1>5 DEF ToClient, Early
<1> QED
  BY <1>2, <1>4, <1>5

\* What is lost behind some point leaves the second stream in shape.
LEMMA Prefix ==
    ASSUME ToClient, Delivered, UNCHANGED <<cmd, cpc>>
    PROVE  /\ ToClient' /\ Len(s2c') \in Nat /\ Len(s2c') <= Len(s2c) /\ Len(s2c) \in Nat
           /\ \A i \in 1..Len(s2c') : s2c'[i] = s2c[i]
           /\ s2c = <<>> => s2c' = <<>>
<1>1. PICK n \in 0..Len(s2c) : s2c' = SubSeq(s2c, 1, n)
  BY DEF Delivered
<1>2. s2c \in Seq(Message) /\ Len(s2c) \in Nat
  BY LenProperties DEF ToClient
<1>3. /\ s2c' \in Seq(Message) /\ Len(s2c') = n /\ n \in Nat /\ n <= Len(s2c)
      /\ \A i \in 1..n : s2c'[i] = s2c[i]
  BY <1>1, <1>2
<1>4. s2c = <<>> => s2c' = <<>>
  BY <1>2, <1>3, EmptySeq
<1>5. \A i \in 1..Len(s2c') : i \in 1..Len(s2c)
  BY <1>2, <1>3
<1>6. ToClient'
  BY <1>3, <1>4, <1>5 DEF ToClient
<1> QED
  BY <1>2, <1>3, <1>4, <1>6

\* What is left of a stream when its first message is taken.
LEMMA TailOf ==
    ASSUME NEW S, NEW s \in Seq(S), s # <<>>
    PROVE  /\ Tail(s) \in Seq(S) /\ Len(s) \in Nat /\ Len(s) >= 1
           /\ Len(Tail(s)) = Len(s) - 1 /\ Head(s) = s[1] /\ s[1] \in S
           /\ \A i \in 1..Len(Tail(s)) : i + 1 \in 1..Len(s) /\ Tail(s)[i] = s[i + 1]
OBVIOUS

\* The client takes a response or a block.
LEMMA Taken ==
    ASSUME Shape, NEW at, NEW then, at \in {"response", "status", "receive"}, Await(at, then)
    PROVE  /\ cpc = at /\ cpc' = then /\ ~HeaderWaits /\ ~HeaderWaits'
           /\ c2s \in Seq(FileBlock) /\ c2s' = c2s /\ UNCHANGED server
           /\ s2c' = Tail(s2c) /\ s2c' \in Seq(Message)
           /\ Len(s2c) \in Nat /\ Len(s2c) >= 1 /\ Len(s2c') = Len(s2c) - 1
           /\ Head(s2c) = s2c[1] /\ s2c[1] \in Message /\ 1 \in 1..Len(s2c)
           /\ \A i \in 1..Len(s2c') : i + 1 \in 1..Len(s2c) /\ s2c'[i] = s2c[i + 1]
<1>1. /\ cpc = at /\ s2c # <<>> /\ s2c' = Tail(s2c) /\ cpc' = then /\ c2s' = c2s
      /\ UNCHANGED server /\ s2c \in Seq(Message)
  BY DEF Await, Shape, ToClient
<1>2. ~HeaderWaits
  BY <1>1 DEF HeaderWaits
<1>3. c2s \in Seq(FileBlock)
  BY <1>2 DEF Shape, ToServer
<1>4. ~HeaderWaits'
  <2> SUFFICES ASSUME HeaderWaits' PROVE FALSE
    OBVIOUS
  <2>1. c2s = <<RequestHeader(cmd, size, hash, asked)'>>
    BY <1>1 DEF HeaderWaits
  <2>2. Head(c2s) = RequestHeader(cmd, size, hash, asked)' /\ c2s # <<>>
    BY <2>1
  <2>3. Head(c2s) \in FileBlock
    BY <1>3, <2>2
  <2>4. Head(c2s).kind = "block" /\ Head(c2s).kind = "header"
    BY <2>2, <2>3, Kinds DEF RequestHeader
  <2> QED
    BY <2>4
<1> QED
  BY <1>1, <1>2, <1>3, <1>4, TailOf

LEMMA ShapeInit == Init => Shape
<1> SUFFICES ASSUME Init PROVE Shape
  OBVIOUS
<1>1. Typed
  <2>1. writes \in 0..MaxWrites /\ runs \in 0..MaxRuns
    BY TransferBoundsAssumption DEF Init
  <2>2. local \in Seq(BlockOfFile) /\ hash \in Seq(BlockOfFile) /\ got \in Seq(BlockOfFile)
    BY VersionTyped DEF Init
  <2>3. faulted \in BOOLEAN
    BY DEF Init
  <2>4. size \in Nat /\ sent \in Nat /\ offset \in Nat /\ total \in Nat /\ asked \in Int
    BY DEF Init
  <2>5. /\ link \in {"up", "server_closed", "broken"} /\ spc \in {"closed", "header", "body"}
        /\ sreq \in Header \cup {NoRequest}
    BY DEF Init
  <2>6. Kept
    BY TransferBoundsAssumption DEF Init, Kept
  <2> QED
    BY <2>1, <2>2, <2>3, <2>4, <2>5, <2>6 DEF Typed, Init
<1>2. Where
  BY DEF Init, Where
<1>3. ToServer /\ ToClient /\ Receiving
  BY DEF Init, ToServer, ToClient, Receiving
<1> QED
  BY <1>1, <1>2, <1>3 DEF Shape

LEMMA ShapeRun ==
    ASSUME Shape, NEW c \in Command, Run(c)
    PROVE  Shape'
<1>1. Typed'
  <2>1. Typed /\ runs' \in 0..MaxRuns
    BY TransferBoundsAssumption DEF Shape, Typed, Run
  <2>2. /\ local' \in Seq(BlockOfFile) /\ hash' \in Seq(BlockOfFile) /\ got' \in Seq(BlockOfFile)
        /\ writes' \in 0..MaxWrites
    BY <2>1 DEF Typed, Run
  <2>3. faulted' \in BOOLEAN
    BY DEF Run
  <2>4. size' \in Nat /\ sent' \in Nat /\ offset' \in Nat /\ total' \in Nat /\ asked' \in Int
    BY DEF Run
  <2>5. /\ link' \in {"up", "server_closed", "broken"} /\ spc' \in {"closed", "header", "body"}
        /\ sreq' \in Header \cup {NoRequest}
    BY <2>1 DEF Typed, Run
  <2>6. Kept' /\ runs' >= 1
    BY <2>1 DEF Typed, Kept, Run, store
  <2> QED
    BY <2>1, <2>2, <2>3, <2>4, <2>5, <2>6 DEF Typed
<1>2. Where'
  BY CommandAssumption DEF Run, Where
<1>3. ToServer' /\ ToClient' /\ Receiving'
  BY CommandAssumption DEF Run, ToServer, ToClient, Receiving
<1> QED
  BY <1>1, <1>2, <1>3 DEF Shape

\* stat, the BLAKE3 pass and fopen.
LEMMA ShapePrepares ==
    ASSUME Shape, StatLocal \/ HashLocal \/ OpenLocal
    PROVE  Shape'
<1>1. cpc \in Early /\ cpc' \in Early /\ UNCHANGED <<cmd, link, c2s, s2c, server>>
  BY DEF StatLocal, HashLocal, OpenLocal, Early
<1>2. c2s = <<>> /\ s2c = <<>> /\ spc \notin {"body", "stray"}
  BY <1>1, EarlyEmpty
<1>3. Typed'
  <2>1. Typed /\ Len(local) \in Nat
    BY LenProperties DEF Shape, Typed
  <2>2. CASE StatLocal
    BY <2>1, <2>2 DEF Typed, Kept, StatLocal, file, server
  <2>3. CASE HashLocal
    BY <2>1, <2>3 DEF Typed, Kept, HashLocal, file, server
  <2>4. CASE OpenLocal
    BY <2>1, <2>4 DEF Typed, Kept, OpenLocal, file, server
  <2> QED
    BY <2>2, <2>3, <2>4
<1>4. Where'
  BY <1>2 DEF Shape, Where, StatLocal, HashLocal, OpenLocal, server, Early
<1>5. ToServer' /\ ToClient' /\ Receiving'
  BY <1>1, <1>2 DEF ToServer, ToClient, Receiving, server, Early
<1> QED
  BY <1>3, <1>4, <1>5 DEF Shape

LEMMA ShapeSendHeader ==
    ASSUME Shape, SendHeader
    PROVE  Shape' /\ HeaderWaits'
<1>1. /\ cpc = "request" /\ link = "up" /\ cpc' = "response"
      /\ asked' \in IF cmd = "download" THEN StackOffset ELSE {0}
      /\ c2s' = Append(c2s, RequestHeader(cmd, size, hash, asked'))
      /\ UNCHANGED <<file, cmd, size, hash, sent, offset, total, link, s2c, server, faulted>>
  BY DEF SendHeader
<1>2. c2s = <<>> /\ s2c = <<>> /\ spc = "header" /\ cmd \in Command
  BY <1>1, EarlyEmpty DEF Early, Shape, Where, Typed
<1>3. Typed'
  <2>1. asked' \in Int
    BY <1>1, SizesAssumption
  <2> QED
    BY <1>1, <2>1 DEF Shape, Typed, Kept, file, server
<1>4. Where'
  BY <1>1, <1>2 DEF Shape, Where, server
<1>5. c2s' = <<RequestHeader(cmd, size, hash, asked')>>
  BY <1>1, <1>2
<1>6. HeaderWaits'
  BY <1>1, <1>2, <1>5 DEF HeaderWaits, server
<1>7. ToServer' /\ ToClient' /\ Receiving'
  BY <1>1, <1>2, <1>6 DEF ToServer, ToClient, Receiving, server, Early
<1> QED
  BY <1>3, <1>4, <1>6, <1>7 DEF Shape

\* A response decides how the client goes on.
LEMMA ShapeAnswered ==
    ASSUME Shape, UploadAccepted \/ UploadAnswered \/ DownloadAnswered \/ ListAnswered
    PROVE  Shape'
<1>0. Typed /\ Where /\ ToServer /\ ToClient /\ Receiving
  BY DEF Shape
<1>1. /\ cpc \in {"response", "status"} /\ c2s \in Seq(FileBlock) /\ c2s' = c2s
      /\ UNCHANGED server /\ UNCHANGED <<writes, runs, cmd, hash, sent, offset, asked, link, faulted>>
      /\ s2c' \in Seq(Message) /\ s2c[1] \in Message
      /\ Head(s2c) = s2c[1] /\ 1 \in 1..Len(s2c) /\ Len(s2c) \in Nat
      /\ \A i \in 1..Len(s2c') : i + 1 \in 1..Len(s2c) /\ s2c'[i] = s2c[i + 1]
  BY Taken DEF UploadAccepted, UploadAnswered, DownloadAnswered, ListAnswered, Await
<1>2. cmd # "upload" => s2c[1] \in Response
  <2>1. cmd = "upload" \/ cpc = "response"
    BY <1>0, <1>1 DEF Where
  <2> QED
    BY <1>0, <1>1, <2>1 DEF ToClient
<1>3. cmd # "upload" => Head(s2c).size \in Nat
  BY <1>1, <1>2 DEF Response
<1>4. Typed'
  <2>1. CASE UploadAccepted \/ UploadAnswered
    <3>1. UNCHANGED <<local, size, total>>
      BY <2>1 DEF UploadAccepted, UploadAnswered
    <3> QED
      BY <1>0, <1>1, <3>1 DEF Typed, Kept, server, store
  <2>2. CASE DownloadAnswered
    <3>1. local' \in Seq(BlockOfFile) /\ size' \in Nat /\ total' \in Nat
      <4>1. CASE Downloadable
        BY <1>0, <1>3, <2>2, <4>1 DEF Typed, DownloadAnswered
      <4>2. CASE ~Downloadable
        BY <1>0, <2>2, <4>2 DEF Typed, DownloadAnswered
      <4> QED
        BY <4>1, <4>2
    <3> QED
      BY <1>0, <1>1, <3>1 DEF Typed, Kept, server, store
  <2>3. CASE ListAnswered
    BY <1>0, <1>1, <1>3, <2>3 DEF Typed, Kept, server, ListAnswered
  <2> QED
    BY <2>1, <2>2, <2>3
<1>5. /\ cpc = "response" => c2s = <<>>
      /\ cpc = "status" => cmd = "upload"
      /\ cpc' \in {"send", "receive", "done", "failed"}
      /\ cpc' = "send" => cmd = "upload"
      /\ cpc' = "receive" => cpc = "response" /\ cmd \in {"download", "list"}
  <2>1. cpc = "response" => c2s = <<>>
    BY <1>0, <1>1 DEF ToServer, HeaderWaits, Early
  <2>2. cpc = "status" => cmd = "upload"
    BY <1>0 DEF Where
  <2> QED
    BY <2>1, <2>2 DEF UploadAccepted, UploadAnswered, DownloadAnswered, ListAnswered, Await
<1>6. Where'
  BY <1>0, <1>1, <1>5 DEF Where, server, Early
<1>7. ToServer'
  BY <1>1, <1>5 DEF ToServer, Early
<1>8. Receiving'
  BY <1>0, <1>1, <1>5 DEF Receiving, Early, server, UploadAccepted, UploadAnswered,
     DownloadAnswered, ListAnswered
<1>9. ToClient'
  <2>2. cpc' = "receive" => \A i \in 1..Len(s2c') :
             IF cmd = "download" THEN s2c'[i] \in FileBlock ELSE s2c'[i] \in AnyBlock
    <3> SUFFICES ASSUME cpc' = "receive", NEW i \in 1..Len(s2c')
                 PROVE  IF cmd = "download" THEN s2c'[i] \in FileBlock ELSE s2c'[i] \in AnyBlock
      OBVIOUS
    <3>1. i + 1 \in 1..Len(s2c) /\ s2c'[i] = s2c[i + 1] /\ i + 1 # 1
          /\ cmd # "upload" /\ cpc = "response"
      BY <1>1, <1>5
    <3> QED
      BY <1>0, <3>1 DEF ToClient
  <2> QED
    BY <1>1, <1>5, <2>2 DEF ToClient, Early
<1> QED
  BY <1>4, <1>6, <1>7, <1>8, <1>9 DEF Shape

LEMMA ShapeReceiveBlock ==
    ASSUME Shape, ReceiveBlock
    PROVE  Shape'
<1>0. Typed /\ Where /\ ToServer /\ ToClient /\ Receiving
  BY DEF Shape
<1>1. /\ cpc = "receive" /\ cpc' = "receive" /\ c2s \in Seq(FileBlock) /\ c2s' = c2s
      /\ UNCHANGED server
      /\ UNCHANGED <<writes, runs, cmd, size, hash, sent, offset, asked, link, faulted>>
      /\ s2c' \in Seq(Message) /\ Head(s2c) = s2c[1] /\ 1 \in 1..Len(s2c)
      /\ \A i \in 1..Len(s2c') : i + 1 \in 1..Len(s2c) /\ s2c'[i] = s2c[i + 1]
  BY Taken DEF ReceiveBlock, Await
<1>2. cmd \in {"download", "list"} /\ total' = total + 1
      /\ local' = IF cmd = "download" THEN Append(local, Head(s2c).block) ELSE local
  BY <1>0, <1>1 DEF Where, ReceiveBlock
<1>3. cmd = "download" => Head(s2c).block \in BlockOfFile
  <2>1. cmd = "download" => s2c[1] \in FileBlock
    BY <1>0, <1>1 DEF ToClient
  <2> QED
    BY <1>1, <2>1, Kinds
<1>4. Typed'
  <2>1. local' \in Seq(BlockOfFile)
    BY <1>0, <1>2, <1>3 DEF Typed
  <2> QED
    BY <1>0, <1>1, <1>2, <2>1 DEF Typed, Kept, server
<1>5. Where' /\ ToServer' /\ Receiving'
  BY <1>0, <1>1 DEF Where, ToServer, HeaderWaits, Receiving, server, Early
<1>6. ToClient'
  BY <1>0, <1>1, <1>2 DEF ToClient, Early
<1> QED
  BY <1>4, <1>5, <1>6 DEF Shape

LEMMA ShapeSendBlock ==
    ASSUME Shape, SendBlock
    PROVE  Shape'
<1>0. Typed /\ Where /\ ToServer /\ ToClient /\ Receiving
  BY DEF Shape
<1>1. /\ cpc = "send" /\ cmd = "upload" /\ sent < Len(local) /\ sent' = sent + 1
      /\ c2s' = c2s \o Body(<<local[sent + 1]>>) \/ c2s' = c2s
      /\ UNCHANGED <<file, cmd, cpc, size, hash, offset, total, asked, link, s2c, server, faulted>>
  BY <1>0 DEF Where, SendBlock
<1>2. c2s \in Seq(FileBlock)
  BY <1>0, <1>1 DEF ToServer, HeaderWaits
<1>3. local[sent + 1] \in BlockOfFile
  <2>1. local \in Seq(BlockOfFile) /\ sent \in Nat /\ Len(local) \in Nat
    BY <1>0, LenProperties DEF Typed
  <2>2. sent + 1 \in 1..Len(local)
    BY <1>1, <2>1
  <2> QED
    BY <2>1, <2>2, ElementOfSeq
<1>4. c2s' \in Seq(FileBlock)
  <2>1. <<local[sent + 1]>> \in Seq(BlockOfFile)
    BY <1>3
  <2>2. Body(<<local[sent + 1]>>) \in Seq(FileBlock)
    BY <2>1, BodyTyped DEF FileBlock
  <2>3. PICK b \in Seq(FileBlock) : b = Body(<<local[sent + 1]>>)
    BY <2>2
  <2>4. c2s \o b \in Seq(FileBlock)
    BY <1>2
  <2> QED
    BY <1>1, <1>2, <2>3, <2>4
<1>5. Typed'
  BY <1>0, <1>1 DEF Typed, Kept, file, server
<1>6. Where' /\ ToClient' /\ Receiving'
  BY <1>0, <1>1 DEF Where, ToClient, Receiving, server
<1>7. ToServer'
  BY <1>1, <1>4 DEF ToServer, Early
<1> QED
  BY <1>5, <1>6, <1>7 DEF Shape

\* Steps of the client that leave the streams alone, and a write to the local file.
LEMMA ShapeGoesOn ==
    ASSUME Shape, EndOfLocal \/ ClientFails \/ WriteLocal
    PROVE  Shape'
<1>0. Typed /\ Where /\ ToServer /\ ToClient /\ Receiving
  BY DEF Shape
<1>1. UNCHANGED <<runs, cmd, progress, link, c2s, s2c, server, faulted>>
  BY DEF EndOfLocal, ClientFails, WriteLocal, file
<1>2. Typed'
  <2>1. local' \in Seq(BlockOfFile) /\ writes' \in 0..MaxWrites
    BY <1>0, VersionTyped, TransferBoundsAssumption
       DEF Typed, EndOfLocal, ClientFails, WriteLocal, file
  <2> QED
    BY <1>0, <1>1, <2>1 DEF Typed, Kept, file, progress, server
<1>3. \/ cpc' = cpc
      \/ cpc = "send" /\ cpc' = "status"
      \/ cpc = "request" /\ cpc' = "failed"
      \/ cpc \in {"send", "response", "status", "receive"} /\ cpc' = "failed"
  BY DEF EndOfLocal, ClientFails, WriteLocal
<1>4. Where'
  BY <1>0, <1>1, <1>3 DEF Where, server, Early
<1>5. cpc = "request" => c2s = <<>> /\ s2c = <<>> /\ spc # "body"
  BY EarlyEmpty DEF Early
<1>6. ToServer'
  <2>1. CASE HeaderWaits
    <3>1. HeaderWaits'
      BY <1>1, <1>3, <2>1 DEF HeaderWaits, progress, server
    <3> QED
      BY <3>1 DEF ToServer
  <2>2. CASE ~HeaderWaits
    BY <1>0, <1>1, <1>3, <1>5, <2>2 DEF ToServer, Early
  <2> QED
    BY <2>1, <2>2
<1>7. ToClient'
  BY <1>0, <1>1, <1>3, <1>5 DEF ToClient, Early
<1>8. Receiving'
  BY <1>0, <1>1, <1>3, <1>5 DEF Receiving, Early, progress, server
<1> QED
  BY <1>2, <1>4, <1>6, <1>7, <1>8 DEF Shape

\* A local file cannot be opened, read or written, or does not take its last block.
LEMMA ShapeLocalFails ==
    ASSUME Shape, LocalFails \/ EndOfAnswer
    PROVE  Shape'
<1>0. Typed /\ Where /\ ToServer /\ ToClient /\ Receiving
  BY DEF Shape
<1>1. /\ UNCHANGED <<writes, runs, cmd, progress, link, c2s, server>>
      /\ cpc' \in {"done", "failed"} /\ faulted' \in BOOLEAN
  BY <1>0 DEF LocalFails, EndOfAnswer, Typed
<1>2. local' = local \/ (local # <<>> /\ local' = Cut(local))
  BY DEF LocalFails, EndOfAnswer
<1>3. Typed'
  <2>1. local' \in Seq(BlockOfFile)
    BY <1>0, <1>2, CutTyped DEF Typed
  <2> QED
    BY <1>0, <1>1, <2>1 DEF Typed, Kept, progress, server
<1>4. s2c' \in Seq(Message)
  <2>1. s2c' = s2c \/ (s2c # <<>> /\ s2c' = Tail(s2c))
    BY DEF LocalFails, EndOfAnswer
  <2> QED
    BY <1>0, <2>1 DEF ToClient
<1>5. ~HeaderWaits /\ (cpc \in Early => spc \notin {"body", "stray"} /\ c2s = <<>>)
  <2>1. cpc \in {"response", "failed"} => s2c # <<>>
    BY DEF LocalFails, EndOfAnswer
  <2> QED
    BY <2>1, EarlyEmpty DEF HeaderWaits
<1>6. Where' /\ ToServer' /\ ToClient' /\ Receiving'
  BY <1>0, <1>1, <1>4, <1>5 DEF Where, ToServer, ToClient, Receiving, Early, progress, server
<1> QED
  BY <1>3, <1>6 DEF Shape

\* Answers of one response, and of a response and a body.
LEMMA OneResponse ==
    ASSUME NEW st \in Status, NEW n \in Nat
    PROVE  /\ <<ResponseHeader(st, n)>> \in Seq(Message) /\ Len(<<ResponseHeader(st, n)>>) = 1
           /\ <<ResponseHeader(st, n)>>[1] = ResponseHeader(st, n)
           /\ ResponseHeader(st, n) \in Response
<1>1. ResponseHeader(st, n) \in Response /\ ResponseHeader(st, n) \in Message
  BY ResponseTyped, Kinds
<1> QED
  BY <1>1

LEMMA ResponseAndBody ==
    ASSUME NEW S, NEW s \in Seq(S), [kind : {"block"}, block : S] \subseteq Message,
           NEW r \in Response
    PROVE  /\ <<r>> \o Body(s) \in Seq(Message) /\ Len(<<r>> \o Body(s)) = Len(s) + 1
           /\ (<<r>> \o Body(s))[1] = r
           /\ \A i \in 2..(Len(s) + 1) :
                 /\ (<<r>> \o Body(s))[i] \in [kind : {"block"}, block : S]
                 /\ (<<r>> \o Body(s))[i].block = s[i - 1]
<1> DEFINE T == [kind : {"block"}, block : S]
<1>1. PICK b : b = Body(s)
  OBVIOUS
<1>2. /\ b \in Seq(T) /\ Len(b) = Len(s) /\ Len(s) \in Nat
      /\ \A i \in 1..Len(s) : b[i] \in T /\ b[i].block = s[i]
  <2>1. /\ Body(s) \in Seq(T) /\ Len(Body(s)) = Len(s)
        /\ \A i \in 1..Len(s) : Body(s)[i] \in T /\ Body(s)[i].block = s[i]
    BY BodyTyped
  <2>2. Len(s) \in Nat
    BY LenProperties
  <2> HIDE DEF T
  <2> QED
    BY <1>1, <2>1, <2>2
<1>3. b \in Seq(Message) /\ <<r>> \in Seq(Message) /\ Len(<<r>>) = 1 /\ <<r>>[1] = r
  <2>1. T \subseteq Message
    OBVIOUS
  <2> HIDE DEF T
  <2>2. b \in Seq(Message)
    BY <1>2, <2>1, SeqOfMore
  <2> QED
    BY <2>2, Kinds
<1> HIDE DEF T
<1>4. PICK m : m = <<r>> \o b
  OBVIOUS
<1>5. /\ m \in Seq(Message) /\ Len(m) = 1 + Len(b)
      /\ \A i \in 1..Len(m) : m[i] = IF i <= 1 THEN <<r>>[i] ELSE b[i - 1]
  BY <1>3, <1>4, ConcatProperties
<1>6. m[1] = r /\ Len(m) = Len(s) + 1
  BY <1>2, <1>3, <1>5
<1>7. ASSUME NEW i \in 2..(Len(s) + 1) PROVE m[i] \in T /\ m[i].block = s[i - 1]
  <2>1. i \in 1..Len(m) /\ ~(i <= 1) /\ i - 1 \in 1..Len(s)
    BY <1>2, <1>6
  <2> QED
    BY <1>2, <1>5, <2>1
<1> QED
  BY <1>1, <1>4, <1>5, <1>6, <1>7 DEF T

LEMMA FileAnswer ==
    ASSUME NEW s \in Seq(BlockOfFile), NEW r \in Response, NEW m, m = <<r>> \o Body(s)
    PROVE  /\ m \in Seq(Message) /\ Len(m) = Len(s) + 1 /\ m[1] = r
           /\ \A i \in 2..(Len(s) + 1) : m[i] \in FileBlock /\ m[i].block = s[i - 1]
BY ResponseAndBody, Kinds DEF FileBlock

\* The same, for one block.
LEMMA BlockInAnswer ==
    ASSUME NEW s \in Seq(BlockOfFile), NEW r \in Response, NEW i \in 2..(Len(s) + 1)
    PROVE  (<<r>> \o Body(s))[i].block = s[i - 1]
<1>1. PICK m : m = <<r>> \o Body(s)
  OBVIOUS
<1>2. \A j \in 2..(Len(s) + 1) : m[j] \in FileBlock /\ m[j].block = s[j - 1]
  BY <1>1, FileAnswer, SMTT(20)
<1> QED
  BY <1>1, <1>2

\* What every answer to a header leaves as it was.
LEMMA ShapeServed ==
    ASSUME Shape, NEW c, NextHeader(c), ToClient', faulted' \in BOOLEAN, UNCHANGED store,
           \/ spc' = "header" /\ UNCHANGED <<sreq, got>>
           \/ c = "upload" /\ spc' = "body" /\ sreq' = Head(c2s) /\ got' = <<>>
    PROVE  Shape'
<1>1. /\ HeaderWaits /\ c = cmd /\ c2s' = <<>> /\ Head(c2s) = RequestHeader(cmd, size, hash, asked)
      /\ Head(c2s) \in Header /\ UNCHANGED <<file, cmd, cpc, progress, link>>
  BY HeaderRead
<1>2. cpc \in {"response", "failed"} /\ Typed /\ Where
  BY <1>1 DEF HeaderWaits, Shape
<1>3. Typed'
  <2>1. sreq' \in Header \cup {NoRequest} /\ got' \in Seq(BlockOfFile) /\ spc' \in {"header", "body"}
    <3>1. CASE spc' = "header" /\ UNCHANGED <<sreq, got>>
      BY <1>2, <3>1 DEF Typed
    <3>2. CASE spc' = "body" /\ sreq' = Head(c2s) /\ got' = <<>>
      BY <1>1, <3>2
    <3> QED
      BY <3>1, <3>2
  <2> QED
    BY <1>1, <1>2, <2>1 DEF Typed, Kept, HeaderWaits, file, progress, store
<1>4. Where'
  BY <1>1, <1>2 DEF Where
<1>5. ToServer'
  BY <1>1 DEF ToServer
<1>6. Receiving'
  <2>1. size \in Nat /\ Len(<<>>) = 0
    BY <1>2 DEF Typed
  <2> QED
    BY <1>1, <1>2, <2>1 DEF Receiving, Early, progress
<1> QED
  BY <1>3, <1>4, <1>5, <1>6 DEF Shape

LEMMA ShapeServeUpload ==
    ASSUME Shape, ServeUpload
    PROVE  Shape'
<1>1. NextHeader("upload")
  BY DEF ServeUpload
<1>2. HeaderWaits /\ cmd = "upload" /\ UNCHANGED <<cmd, cpc>>
  BY <1>1, HeaderRead
<1>3. ASSUME NEW st \in Status, Respond(st) PROVE ToClient'
  <2>1. PICK m : m = <<ResponseHeader(st, 0)>>
    OBVIOUS
  <2>2. m \in Seq(Message) /\ Len(m) = 1 /\ m[1] \in Response /\ SendAll(m)
    BY <1>3, <2>1, OneResponse DEF Respond
  <2> QED
    BY <1>2, <2>2, Answered
<1>4. CASE /\ Respond("RESP_SUCCESS") /\ spc' = "body" /\ sreq' = Head(c2s) /\ got' = <<>>
           /\ UNCHANGED <<store, faulted>>
  <2>1. ToClient'
    BY <1>3, <1>4 DEF Status
  <2> QED
    BY <1>1, <1>4, <2>1, ShapeServed DEF Shape, Typed
<1>5. CASE /\ faulted' = TRUE
           /\ Answer("RESP_PERMISSION_DENIED") \/ Answer("RESP_ERROR")
  <2>1. PICK st \in Status : Answer(st)
    BY <1>5 DEF Status
  <2>2. ToClient'
    BY <1>3, <2>1 DEF Answer
  <2>3. faulted' \in BOOLEAN
    BY <1>5
  <2> QED
    BY <1>1, <2>1, <2>2, <2>3, ShapeServed DEF Answer
<1>6. CASE /\ faulted' = TRUE
           /\ SendAll(<<ResponseHeader("RESP_SUCCESS", 0), ResponseHeader("RESP_ERROR", 0)>>)
           /\ spc' = "header" /\ UNCHANGED <<sreq, got, store>>
  <2>1. PICK m : m = <<ResponseHeader("RESP_SUCCESS", 0), ResponseHeader("RESP_ERROR", 0)>>
    OBVIOUS
  <2>2. /\ ResponseHeader("RESP_SUCCESS", 0) \in Response
        /\ ResponseHeader("RESP_ERROR", 0) \in Response
    BY ResponseTyped DEF Status
  <2>3. m \in Seq(Message)
    BY <2>1, <2>2, Kinds
  <2>4. ToClient'
    BY <1>2, <1>6, <2>1, <2>3, Answered
  <2>5. faulted' \in BOOLEAN
    BY <1>6
  <2> QED
    BY <1>1, <1>6, <2>4, <2>5, ShapeServed
<1> QED
  BY <1>4, <1>5, <1>6 DEF ServeUpload

LEMMA ShapeServeDownload ==
    ASSUME Shape, ServeDownload
    PROVE  Shape'
<1>1. NextHeader("download")
  BY DEF ServeDownload
<1>2. HeaderWaits /\ cmd = "download" /\ UNCHANGED <<cmd, cpc>> /\ Head(c2s).offset = asked
  BY <1>1, HeaderRead
<1>3. faulted' \in BOOLEAN
  BY DEF ServeDownload, Shape, Typed
<1>4. ASSUME NEW st \in Status, Answer(st) PROVE Shape'
  <2>1. PICK m : m = <<ResponseHeader(st, 0)>>
    OBVIOUS
  <2>2. m \in Seq(Message) /\ Len(m) = 1 /\ m[1] \in Response /\ SendAll(m)
    BY <1>4, <2>1, OneResponse DEF Answer, Respond
  <2>3. \A i \in 1..Len(m) : i = 1
    BY <2>2
  <2>4. ToClient'
    BY <1>2, <2>2, <2>3, Answered
  <2> QED
    BY <1>1, <1>3, <1>4, <2>4, ShapeServed DEF Answer
<1>5. CASE /\ records # {} /\ asked \in 0..Len(stored)
           /\ SendAll(<<ResponseHeader("RESP_SUCCESS", SizeSent)>>
                        \o Body(SubSeq(stored, asked + 1, Len(stored))))
           /\ spc' = "header" /\ UNCHANGED <<sreq, got, store, faulted>>
  <2>1. stored \in Seq(BlockOfFile) /\ Len(stored) \in Nat /\ asked \in Int
    BY <1>5, LenProperties DEF Shape, Typed, Kept
  <2>2. PICK s : s = SubSeq(stored, asked + 1, Len(stored))
    OBVIOUS
  <2>3. s \in Seq(BlockOfFile)
    <3>1. PICK n : n = asked + 1
      OBVIOUS
    <3>2. n \in Nat /\ n >= 1
      BY <1>5, <2>1, <3>1
    <3>3. SubSeq(stored, n, Len(stored)) \in Seq(BlockOfFile)
      BY <2>1, <3>2
    <3> QED
      BY <2>2, <3>1, <3>3
  <2>4. PICK r \in Response : r = ResponseHeader("RESP_SUCCESS", SizeSent)
    BY <2>1, ResponseTyped DEF SizeSent, Status
  <2>5. PICK m : m = <<r>> \o Body(s)
    OBVIOUS
  <2>6. /\ m \in Seq(Message) /\ Len(m) = Len(s) + 1 /\ m[1] = r
        /\ \A i \in 2..(Len(s) + 1) : m[i] \in FileBlock
    BY <2>3, <2>5, FileAnswer
  <2>7. \A i \in 1..Len(m) : IF i = 1 THEN m[i] \in Response ELSE m[i] \in FileBlock
    <3>1. Len(s) \in Nat
      BY <2>3, LenProperties
    <3>2. \A i \in 1..Len(m) : i = 1 \/ i \in 2..(Len(s) + 1)
      BY <2>6, <3>1
    <3> QED
      BY <2>6, <3>2
  <2>8. SendAll(m)
    BY <1>5, <2>2, <2>4, <2>5
  <2>9. ToClient'
    BY <1>2, <2>6, <2>7, <2>8, Answered
  <2> QED
    BY <1>1, <1>3, <1>5, <2>9, ShapeServed
<1> QED
  BY <1>2, <1>4, <1>5 DEF ServeDownload, Status

LEMMA ShapeServeList ==
    ASSUME Shape, ServeList
    PROVE  Shape'
<1>1. NextHeader("list") /\ spc' = "header" /\ UNCHANGED <<sreq, got, store, faulted>>
  BY DEF ServeList
<1>2. HeaderWaits /\ cmd = "list" /\ UNCHANGED <<cmd, cpc>>
  BY <1>1, HeaderRead
<1>3. Listing \in Seq({Listing[1]}) /\ Len(Listing) = 1
  BY DEF Listing
<1>4. PICK r \in Response : r = ResponseHeader("RESP_SUCCESS", Len(Listing))
  BY <1>3, ResponseTyped DEF Status
<1>5. PICK m : m = <<r>> \o Body(Listing)
  OBVIOUS
<1>6. [kind : {"block"}, block : {Listing[1]}] \subseteq AnyBlock
  BY DEF AnyBlock
<1>7. /\ m \in Seq(Message) /\ Len(m) = 2 /\ m[1] = r /\ m[2] \in AnyBlock
  BY <1>3, <1>5, <1>6, ResponseAndBody, Kinds
<1>8. \A i \in 1..Len(m) : IF i = 1 THEN m[i] \in Response ELSE m[i] \in AnyBlock
  BY <1>7
<1>9. SendAll(m)
  BY <1>4, <1>5 DEF ServeList
<1>10. ToClient'
  BY <1>2, <1>7, <1>8, <1>9, Answered
<1> QED
  BY <1>1, <1>10, ShapeServed DEF Shape, Typed

\* While the body is received the first stream holds blocks.
LEMMA ShapeReceiveBody ==
    ASSUME Shape, ReceiveBody
    PROVE  Shape'
<1>0. Typed /\ Where /\ ToServer /\ ToClient /\ Receiving
  BY DEF Shape
<1>1. /\ spc = "body" /\ Len(got) < sreq.size /\ c2s # <<>>
      /\ got' = Append(got, Head(c2s).block) /\ c2s' = Tail(c2s)
      /\ UNCHANGED <<file, cmd, cpc, progress, link, s2c, spc, sreq, store, faulted>>
  BY DEF ReceiveBody
<1>2. c2s \in Seq(FileBlock) /\ cmd = "upload" /\ cpc \notin Early \cup {"response"}
      /\ sreq = RequestHeader(cmd, size, hash, asked)
  BY <1>0, <1>1 DEF ToServer, HeaderWaits, Receiving
<1>3. c2s' \in Seq(FileBlock) /\ Head(c2s).block \in BlockOfFile
  BY <1>1, <1>2, Kinds
<1>4. got' \in Seq(BlockOfFile) /\ Len(got') = Len(got) + 1 /\ Len(got) \in Nat
  <2>1. got \in Seq(BlockOfFile)
    BY <1>0 DEF Typed
  <2> QED
    BY <1>1, <1>3, <2>1, AppendProperties, LenProperties
<1>5. sreq.size = size /\ size \in Nat
  BY <1>0, <1>2 DEF Typed, RequestHeader
<1>6. Typed'
  BY <1>0, <1>1, <1>4 DEF Typed, Kept, file, progress, store
<1>7. Where' /\ ToClient'
  BY <1>0, <1>1 DEF Where, ToClient
<1>8. ToServer'
  BY <1>1, <1>2, <1>3 DEF ToServer
<1>9. Receiving'
  BY <1>0, <1>1, <1>2, <1>4, <1>5 DEF Receiving, progress
<1> QED
  BY <1>6, <1>7, <1>8, <1>9 DEF Shape

\* More messages for an upload go behind those that are under way.
LEMMA Behind ==
    ASSUME Shape, cmd = "upload", cpc \notin Early, UNCHANGED <<cmd, cpc>>,
           NEW m \in Seq(Message), SendAll(m)
    PROVE  /\ ToClient' /\ Len(s2c) \in Nat /\ Len(s2c') \in Nat
           /\ link = "up" => Len(s2c') = Len(s2c) + Len(m)
           /\ link = "up" => \A i \in 1..Len(m) : s2c'[Len(s2c) + i] = m[i]
           /\ link # "up" => s2c' = s2c
           /\ \A i \in 1..Len(s2c) : s2c'[i] = s2c[i]
<1>1. s2c' = IF link = "up" THEN s2c \o m ELSE s2c
  BY DEF SendAll
<1>2. ToClient /\ s2c \in Seq(Message) /\ Len(s2c) \in Nat /\ Len(m) \in Nat /\ cpc # "receive"
  BY LenProperties DEF Shape, ToClient, Where
<1>3. CASE link = "up"
  <2>1. PICK q : q = s2c \o m
    OBVIOUS
  <2>2. s2c' = q
    BY <1>1, <1>3, <2>1
  <2>3. /\ q \in Seq(Message) /\ Len(q) = Len(s2c) + Len(m)
        /\ \A i \in 1..Len(q) : q[i] = IF i <= Len(s2c) THEN s2c[i] ELSE m[i - Len(s2c)]
    BY <1>2, <2>1, ConcatProperties
  <2>4. \A i \in 1..Len(s2c) : q[i] = s2c[i]
    BY <1>2, <2>3
  <2>5. ASSUME NEW i \in 1..Len(m) PROVE q[Len(s2c) + i] = m[i]
    <3>1. Len(s2c) + i \in 1..Len(q) /\ ~(Len(s2c) + i <= Len(s2c)) /\ (Len(s2c) + i) - Len(s2c) = i
      BY <1>2, <2>3
    <3> QED
      BY <2>3, <3>1
  <2>6. ToClient'
    BY <1>2, <2>2, <2>3 DEF ToClient
  <2>7. Len(q) \in Nat
    BY <1>2, <2>3
  <2> QED
    BY <1>2, <1>3, <2>2, <2>3, <2>4, <2>5, <2>6, <2>7
<1>4. CASE link # "up"
  BY <1>1, <1>2, <1>4 DEF ToClient
<1> QED
  BY <1>3, <1>4

\* A response is added to those of an upload.
LEMMA Responded ==
    ASSUME Shape, cmd = "upload", cpc \notin Early, UNCHANGED <<cmd, cpc>>,
           NEW st \in Status, Respond(st)
    PROVE  /\ ToClient' /\ Len(s2c) \in Nat /\ Len(s2c') \in Nat
           /\ link = "up" => /\ Len(s2c') = Len(s2c) + 1
                             /\ s2c'[Len(s2c) + 1].status = st
           /\ link # "up" => s2c' = s2c
           /\ \A i \in 1..Len(s2c) : s2c'[i] = s2c[i]
<1>1. PICK r \in Response : r = ResponseHeader(st, 0) /\ r.status = st
  BY ResponseTyped
<1>2. PICK m : m = <<r>>
  OBVIOUS
<1>3. m \in Seq(Message) /\ Len(m) = 1 /\ m[1] = r /\ 1 \in 1..Len(m)
  BY <1>2, Kinds
<1>4. SendAll(m)
  BY <1>1, <1>2 DEF Respond
<1> QED
  BY <1>1, <1>3, <1>4, Behind

\* What Saves leaves behind, and what it answers.
LEMMA Saved ==
    ASSUME Typed, runs >= 1, NEW content \in Seq(BlockOfFile), Saves(content)
    PROVE  /\ stored' \in Seq(BlockOfFile) /\ written' = runs /\ faulted' \in BOOLEAN
           /\ records' \subseteq [run : 1..MaxRuns, content : Seq(BlockOfFile)]
           /\ \E st \in Status :
                 /\ Respond(st)
                 /\ st = "RESP_SUCCESS" =>
                       /\ [run |-> runs, content |-> content] \in records'
                       /\ stored' = content \/ (faulted' /\ stored' = Cut(content))
<1>1. Len(content) \in Nat /\ (content # <<>> => Len(content) - 1 \in 0..Len(content))
  <2>1. Len(content) \in Nat /\ (content # <<>> => Len(content) # 0)
    BY LenProperties, EmptySeq
  <2> QED
    BY <2>1
<1>2. \A n \in 0..Len(content) : SubSeq(content, 1, n) \in Seq(BlockOfFile)
  BY <1>1
<1>3. SubSeq(content, 1, Len(content)) = content
  BY <1>1
<1>4. /\ records \cup {[run |-> runs, content |-> content]}
            \subseteq [run : 1..MaxRuns, content : Seq(BlockOfFile)]
      /\ records \subseteq [run : 1..MaxRuns, content : Seq(BlockOfFile)]
  BY DEF Typed, Kept
<1>5. "RESP_SUCCESS" \in Status /\ "RESP_ERROR" \in Status
  BY DEF Status
<1>6. CASE /\ Writes(content, Len(content)) /\ Records(content)
           /\ Respond("RESP_SUCCESS") /\ UNCHANGED faulted
  <2>1. faulted' \in BOOLEAN
    BY <1>6 DEF Typed
  <2>2. stored' = content /\ written' = runs
        /\ records' = records \cup {[run |-> runs, content |-> content]}
    BY <1>3, <1>6 DEF Writes, Records
  <2> QED
    BY <1>4, <1>5, <1>6, <2>1, <2>2
<1>7. CASE /\ content # <<>> /\ faulted' = TRUE
           /\ Writes(content, Len(content) - 1) /\ Records(content)
           /\ Respond("RESP_SUCCESS")
  <2>1. stored' = Cut(content) /\ written' = runs /\ faulted'
        /\ records' = records \cup {[run |-> runs, content |-> content]}
    BY <1>7 DEF Writes, Records, Cut
  <2>2. stored' \in Seq(BlockOfFile)
    BY <1>7, <2>1, CutTyped
  <2>3. faulted' \in BOOLEAN
    BY <1>7
  <2> QED
    BY <1>4, <1>5, <1>7, <2>1, <2>2, <2>3
<1>8. CASE /\ faulted' = TRUE
           /\ \E n \in 0..Len(content) :
                 /\ Writes(content, n)
                 /\ UNCHANGED records \/ (n >= Len(content) - 1 /\ Records(content))
           /\ Respond("RESP_ERROR")
  <2>1. stored' \in Seq(BlockOfFile) /\ written' = runs
        /\ (records' = records \/ records' = records \cup {[run |-> runs, content |-> content]})
    BY <1>2, <1>8 DEF Writes, Records
  <2>2. faulted' \in BOOLEAN
    BY <1>8
  <2> QED
    BY <1>4, <1>5, <1>8, <2>1, <2>2
<1> QED
  BY <1>6, <1>7, <1>8 DEF Saves

\* As much of a body as the int of its size says.
LEMMA BodyAsInt ==
    ASSUME NEW b \in Seq(BlockOfFile), NEW n \in Nat, n <= Len(b), ToInt(n) >= 0
    PROVE  SubSeq(b, 1, ToInt(n)) \in Seq(BlockOfFile)
<1>1. PICK k : k = ToInt(n)
  OBVIOUS
<1>2. k \in Nat /\ k <= Len(b) /\ Len(b) \in Nat
  <2>1. ToInt(n) \in Int /\ ToInt(n) <= n /\ Len(b) \in Nat
    BY IntCounts, LenProperties
  <2> QED
    BY <1>1, <2>1
<1>3. SubSeq(b, 1, k) \in Seq(BlockOfFile)
  BY <1>2
<1> QED
  BY <1>1, <1>3

LEMMA ShapeStoreBody ==
    ASSUME Shape, StoreBody
    PROVE  Shape'
<1>0. Typed /\ Where /\ ToServer /\ ToClient /\ Receiving
  BY DEF Shape
<1>1. /\ spc = "body" /\ BodyComplete /\ spc' = "header" /\ sreq' = NoRequest /\ got' = <<>>
      /\ UNCHANGED <<file, cmd, cpc, progress, link, c2s, since>>
  BY DEF StoreBody
<1>2. /\ cmd = "upload" /\ cpc \notin Early /\ sreq = RequestHeader(cmd, size, hash, asked)
      /\ size \in Nat /\ sreq.size = size /\ got \in Seq(BlockOfFile) /\ Len(got) \in Nat
      /\ size <= Len(got) /\ runs >= 1
  BY <1>0, <1>1, LenProperties DEF Receiving, Typed, RequestHeader, BodyComplete
<1>3. /\ Kept' /\ faulted' \in BOOLEAN
      /\ \E st \in Status : Respond(st)
  <2>1. CASE ToInt(sreq.size) >= 0 /\ Saves(SubSeq(got, 1, ToInt(sreq.size)))
    <3>1. PICK content \in Seq(BlockOfFile) : Saves(content)
      BY <1>2, <2>1, BodyAsInt
    <3>2. /\ stored' \in Seq(BlockOfFile) /\ written' = runs /\ faulted' \in BOOLEAN
          /\ records' \subseteq [run : 1..MaxRuns, content : Seq(BlockOfFile)]
          /\ \E st \in Status : Respond(st)
      BY <1>0, <1>2, <3>1, Saved
    <3> QED
      BY <1>0, <1>1, <3>2 DEF Typed, Kept, file
  <2>2. CASE /\ UNCHANGED <<stored, written, records>>
             /\ faulted' = faulted \/ faulted' = TRUE
             /\ \E st \in Status : Respond(st)
    <3>1. faulted' \in BOOLEAN
      BY <1>0, <2>2 DEF Typed
    <3> QED
      BY <1>0, <1>1, <2>2, <3>1 DEF Typed, Kept, file
  <2> QED
    BY <2>1, <2>2 DEF StoreBody, Status
<1>4. ToClient'
  BY <1>1, <1>2, <1>3, Responded
<1>6. Typed'
  <2>1. got' \in Seq(BlockOfFile)
    BY <1>1
  <2> QED
    BY <1>0, <1>1, <1>2, <1>3, <2>1 DEF Typed, file, progress
<1>7. Where' /\ Receiving'
  BY <1>0, <1>1 DEF Where, Receiving
<1>8. ToServer'
  BY <1>0, <1>1 DEF ToServer, HeaderWaits
<1> QED
  BY <1>4, <1>6, <1>7, <1>8 DEF Shape

\* A block where a header is expected: an upload is under way, and what the handler
\* makes of the block is answered behind the messages that are under way.
LEMMA Misread ==
    ASSUME Shape, MisreadBlock
    PROVE  /\ cmd = "upload" /\ cpc \notin Early \cup {"response"} /\ c2s \in Seq(FileBlock)
           /\ c2s' \in Seq(FileBlock) /\ spc \in {"header", "stray"}
           /\ UNCHANGED <<file, cmd, cpc, progress, sreq, got, store, faulted>>
           /\ \/ /\ \E m \in Seq(Message) : SendAll(m)
                 /\ spc' \in {"header", "stray"} /\ UNCHANGED link
              \/ Delivered /\ spc' = "closed" /\ link' = "server_closed"
           /\ ToClient'
<1>1. /\ spc \in {"header", "stray"} /\ c2s # <<>> /\ Head(c2s).kind = "block"
      /\ c2s' = Tail(c2s) /\ UNCHANGED <<file, cmd, cpc, progress, sreq, got, store, faulted>>
  BY DEF MisreadBlock
<1>2. ~HeaderWaits
  <2> SUFFICES ASSUME HeaderWaits PROVE FALSE
    OBVIOUS
  <2>1. Head(c2s) = RequestHeader(cmd, size, hash, asked)
    BY DEF HeaderWaits
  <2>2. Head(c2s).kind = "header"
    BY <2>1 DEF RequestHeader
  <2> QED
    BY <1>1, <2>2
<1>3. c2s \in Seq(FileBlock) /\ cmd = "upload" /\ cpc \notin Early \cup {"response"}
  BY <1>1, <1>2 DEF Shape, ToServer
<1>4. c2s' \in Seq(FileBlock)
  BY <1>1, <1>3
<1>5. ASSUME NEW n \in 0..MaxAnswers, NEW m \in [1..n -> StrayAnswer]
      PROVE  m \in Seq(Message)
  <2>1. StrayAnswer \subseteq Message
    <3>1. /\ ResponseHeader("RESP_SUCCESS", 0) \in Message
          /\ ResponseHeader("RESP_INTEGRITY_ERROR", 0) \in Message
      BY ResponseTyped, Kinds DEF Status
    <3>2. Body(Listing)[1] \in Message
      <4>1. Listing \in Seq({Listing[1]}) /\ 1 \in 1..Len(Listing)
        BY DEF Listing
      <4>2. Body(Listing)[1] \in [kind : {"block"}, block : {Listing[1]}]
        BY <4>1, BodyTyped
      <4> QED
        BY <4>2, Kinds DEF AnyBlock
    <3> QED
      BY <3>1, <3>2 DEF StrayAnswer
  <2>2. n \in Nat
    BY TransferBoundsAssumption
  <2>3. m \in Seq(StrayAnswer)
    BY <2>2, FunctionIsSeq
  <2> QED
    BY <2>1, <2>3, SeqOfMore
<1>6. \/ /\ \E m \in Seq(Message) : SendAll(m)
         /\ spc' \in {"header", "stray"} /\ UNCHANGED link
      \/ Delivered /\ spc' = "closed" /\ link' = "server_closed"
  BY <1>5 DEF MisreadBlock
<1>7. ToClient'
  <2>1. CASE Delivered
    BY <1>1, <2>1, Prefix DEF Shape
  <2>2. CASE \E m \in Seq(Message) : SendAll(m)
    BY <1>1, <1>3, <2>2, Behind
  <2> QED
    BY <1>6, <2>1, <2>2
<1> QED
  BY <1>1, <1>3, <1>4, <1>6, <1>7

LEMMA ShapeMisread ==
    ASSUME Shape, MisreadBlock
    PROVE  Shape'
<1>0. Typed /\ Where /\ Receiving
  BY DEF Shape
<1>1. /\ cmd = "upload" /\ cpc \notin Early \cup {"response"} /\ c2s' \in Seq(FileBlock)
      /\ UNCHANGED <<file, cmd, cpc, progress, sreq, got, store, faulted>>
      /\ \/ spc' \in {"header", "stray"} /\ UNCHANGED link
         \/ spc' = "closed" /\ link' = "server_closed"
      /\ ToClient' /\ spc \in {"header", "stray"}
  BY Misread
<1>2. Typed'
  BY <1>0, <1>1 DEF Typed, Kept, file, progress, store
<1>3. Where' /\ Receiving'
  BY <1>0, <1>1 DEF Where, Receiving
<1>4. ToServer'
  BY <1>1 DEF ToServer
<1> QED
  BY <1>1, <1>2, <1>3, <1>4 DEF Shape

LEMMA ShapeServerCloses ==
    ASSUME Shape, ServerCloses
    PROVE  Shape'
<1>0. Typed /\ Where /\ ToServer /\ ToClient
  BY DEF Shape
<1>1. /\ c2s = <<>> /\ spc' = "closed" /\ sreq' = NoRequest /\ got' = <<>>
      /\ link' = IF link = "up" THEN "server_closed" ELSE link
      /\ UNCHANGED <<file, cmd, cpc, progress, c2s, s2c, store, faulted>>
  BY DEF ServerCloses
<1>2. Typed'
  BY <1>0, <1>1 DEF Typed, Kept, file, progress, store
<1>3. Where' /\ Receiving' /\ ToClient'
  BY <1>0, <1>1 DEF Where, Receiving, ToClient
<1>4. ToServer'
  BY <1>1 DEF ToServer
<1> QED
  BY <1>2, <1>3, <1>4 DEF Shape

LEMMA ShapeBreak ==
    ASSUME Shape, Break
    PROVE  Shape'
<1>0. Typed /\ Where /\ ToServer /\ ToClient /\ Receiving
  BY DEF Shape
<1>1. /\ link' = "broken" /\ faulted' = TRUE /\ Delivered
      /\ UNCHANGED <<file, cmd, cpc, progress, server>>
  BY DEF Break
<1>2. Typed'
  <2>1. faulted' \in BOOLEAN
    BY <1>1
  <2> QED
    BY <1>0, <1>1, <2>1 DEF Typed, Kept, file, progress, server
<1>3. ToClient' /\ (s2c = <<>> => s2c' = <<>>)
  BY <1>0, <1>1, Prefix
<1>4. PICK n \in 0..Len(c2s) : c2s' = SubSeq(c2s, 1, n)
  BY DEF Break
<1>5. ToServer'
  <2>1. CASE HeaderWaits
    <3>1. PICK h : h = RequestHeader(cmd, size, hash, asked)
      OBVIOUS
    <3>2. c2s = <<h>> /\ RequestHeader(cmd', size', hash', asked') = h
      BY <1>1, <2>1, <3>1 DEF HeaderWaits, progress, RequestHeader
    <3>3. n \in {0, 1}
      BY <3>2
    <3>4. CASE n = 0
      <4>1. c2s' = <<>>
        BY <1>4, <3>2, <3>4
      <4> QED
        BY <4>1 DEF ToServer
    <3>5. CASE n = 1
      <4>1. c2s' = <<h>>
        <5>1. PICK q : q = SubSeq(<<h>>, 1, 1)
          OBVIOUS
        <5>2. c2s' = q
          BY <1>4, <3>2, <3>5, <5>1
        <5>3. <<h>> \in Seq({h}) /\ Len(<<h>>) = 1
          OBVIOUS
        <5>4. q \in Seq({h}) /\ Len(q) = 1
          BY <5>1, <5>3, SubSeqProperties
        <5>5. q[1] = <<h>>[1]
          BY <5>4, ElementOfSeq
        <5> QED
          BY <5>2, <5>3, <5>4, <5>5, SeqEqual
      <4>2. HeaderWaits'
        BY <1>1, <1>3, <2>1, <3>2, <4>1 DEF HeaderWaits, progress, server
      <4> QED
        BY <4>2 DEF ToServer
    <3> QED
      BY <3>3, <3>4, <3>5
  <2>2. CASE ~HeaderWaits
    <3>1. /\ c2s \in Seq(FileBlock) /\ Len(c2s) \in Nat
          /\ c2s # <<>> => cmd = "upload" /\ cpc \notin Early \cup {"response"}
      BY <1>0, <2>2, LenProperties DEF ToServer
    <3>2. c2s' \in Seq(FileBlock) /\ (c2s = <<>> => c2s' = <<>>)
      <4>1. c2s' \in Seq(FileBlock) /\ Len(c2s') = n
        BY <1>4, <3>1
      <4>2. c2s = <<>> => n = 0
        BY <3>1
      <4> QED
        BY <4>1, <4>2, EmptySeq
    <3> QED
      BY <1>1, <3>1, <3>2 DEF ToServer
  <2> QED
    BY <2>1, <2>2
<1>6. Where' /\ Receiving'
  BY <1>0, <1>1 DEF Where, Receiving, progress, server
<1> QED
  BY <1>2, <1>3, <1>5, <1>6 DEF Shape

LEMMA ShapeRestart ==
    ASSUME Shape, RestartServer
    PROVE  Shape'
<1>1. /\ since' = runs /\ spc = "closed"
      /\ UNCHANGED <<file, cmd, cpc, progress, link, c2s, s2c, spc, sreq, got, stored, written,
                     records, faulted>>
  BY DEF RestartServer
<1>2. Typed'
  <2>1. runs \in Nat
    BY DEF Shape, Typed
  <2> QED
    BY <1>1, <2>1 DEF Shape, Typed, Kept, file, progress
<1>3. Where' /\ ToServer' /\ ToClient' /\ Receiving'
  BY <1>1 DEF Shape, Where, ToServer, HeaderWaits, ToClient, Receiving, progress
<1> QED
  BY <1>2, <1>3 DEF Shape

LEMMA ShapeNext == Shape /\ [Next]_vars => Shape'
<1> SUFFICES ASSUME Shape, [Next]_vars PROVE Shape'
  OBVIOUS
<1>1. CASE \E c \in Command : Run(c)
  BY <1>1, ShapeRun
<1>2. CASE ClientStep
  BY <1>2, ShapePrepares, ShapeSendHeader, ShapeAnswered, ShapeSendBlock, ShapeGoesOn,
     ShapeReceiveBlock, ShapeLocalFails DEF ClientStep
<1>3. CASE ServerStep
  BY <1>3, ShapeServeUpload, ShapeReceiveBody, ShapeStoreBody, ShapeServeDownload,
     ShapeServeList, ShapeMisread, ShapeServerCloses DEF ServerStep
<1>4. CASE WriteLocal
  BY <1>4, ShapeGoesOn
<1>5. CASE Break
  BY <1>5, ShapeBreak
<1>6. CASE RestartServer
  BY <1>6, ShapeRestart
<1>7. CASE UNCHANGED vars
  BY <1>7 DEF vars, Shape, Typed, Kept, Where, ToServer, HeaderWaits, ToClient, Receiving
<1> QED
  BY <1>1, <1>2, <1>3, <1>4, <1>5, <1>6, <1>7 DEF Next

LEMMA ShapeAlways == Spec => []Shape
<1> QED
  BY ShapeInit, ShapeNext, PTL DEF Spec

-----------------------------------------------------------------------------
(* Uploads *)

\* Where blocks are, the header is not.
LEMMA NoHeader ==
    ASSUME c2s' \in Seq(FileBlock)
    PROVE  ~HeaderWaits'
<1> SUFFICES ASSUME HeaderWaits' PROVE FALSE
  OBVIOUS
<1>1. PICK h : h = RequestHeader(cmd', size', hash', asked')
  OBVIOUS
<1>2. c2s' = <<h>> /\ h.kind = "header"
  BY <1>1 DEF HeaderWaits, RequestHeader
<1>3. h \in FileBlock
  <2>1. <<h>> \in Seq(FileBlock) /\ 1 \in 1..Len(<<h>>) /\ <<h>>[1] = h
    BY <1>2
  <2> QED
    BY <2>1, ElementOfSeq
<1> QED
  BY <1>2, <1>3, Kinds

LEMMA SettledStays ==
    ASSUME Settled, spc' # "body", ~HeaderWaits', faulted => faulted',
           UNCHANGED <<runs, size, hash, stored, written, records>>
    PROVE  Settled'
BY DEF Settled, Upload, Whole

\* What the upload does while the client waits for its answers.
LEMMA UploadServed ==
    ASSUME Shape, UploadRuns, ServeUpload
    PROVE  UploadRuns'
<1>1. /\ HeaderWaits /\ UNCHANGED <<file, cmd, cpc, progress, link>>
      /\ cpc \in {"response", "failed"} /\ s2c = <<>>
  BY HeaderRead DEF ServeUpload, HeaderWaits
<1>2. ASSUME NEW st \in Status, Respond(st)
      PROVE  \/ link = "up" /\ Len(s2c') = 1 /\ s2c'[1].status = st
             \/ link # "up" /\ s2c' = <<>>
  <2>1. PICK r : r = ResponseHeader(st, 0) /\ r.status = st
    BY ResponseTyped
  <2>2. s2c' = IF link = "up" THEN <<r>> ELSE <<>>
    BY <1>1, <1>2, <2>1 DEF Respond, SendAll
  <2> QED
    BY <2>1, <2>2
<1>3. CASE Respond("RESP_SUCCESS") /\ spc' = "body"
  <2>1. \/ link = "up" /\ Len(s2c') = 1
        \/ link # "up" /\ s2c' = <<>>
    BY <1>2, <1>3 DEF Status
  <2> QED
    BY <1>1, <1>3, <2>1 DEF UploadRuns
<1>4. CASE /\ Answer("RESP_PERMISSION_DENIED") \/ Answer("RESP_ERROR")
  <2>1. PICK st \in Status : Answer(st) /\ st # "RESP_SUCCESS"
    BY <1>4 DEF Status
  <2>2. spc' = "header" /\ (\/ link = "up" /\ Len(s2c') = 1 /\ s2c'[1].status = st
                            \/ link # "up" /\ s2c' = <<>>)
    BY <1>2, <2>1 DEF Answer
  <2> QED
    BY <1>1, <2>1, <2>2 DEF UploadRuns
<1>5. CASE /\ SendAll(<<ResponseHeader("RESP_SUCCESS", 0), ResponseHeader("RESP_ERROR", 0)>>)
           /\ spc' = "header"
  <2>1. PICK r : r = ResponseHeader("RESP_ERROR", 0) /\ r.status = "RESP_ERROR"
    BY ResponseTyped DEF Status
  <2>2. PICK q : q = ResponseHeader("RESP_SUCCESS", 0)
    OBVIOUS
  <2>3. s2c' = IF link = "up" THEN <<q, r>> ELSE <<>>
    BY <1>1, <1>5, <2>1, <2>2 DEF SendAll
  <2>4. \/ Len(s2c') = 2 /\ s2c'[2].status = "RESP_ERROR"
        \/ link # "up" /\ s2c' = <<>>
    BY <2>1, <2>3
  <2> QED
    BY <1>1, <1>5, <2>4 DEF UploadRuns
<1> QED
  BY <1>3, <1>4, <1>5 DEF ServeUpload

\* The body is there: what is stored is what was hashed, and the answer says so.
LEMMA UploadStored ==
    ASSUME Shape, UploadRuns, StoreBody
    PROVE  UploadRuns'
<1>0. Typed /\ Where /\ ToServer /\ ToClient /\ Receiving
  BY DEF Shape
<1>1. /\ spc = "body" /\ BodyComplete /\ spc' = "header"
      /\ UNCHANGED <<file, cmd, cpc, progress, link, c2s>>
  BY DEF StoreBody
<1>2. /\ cmd = "upload" /\ cpc \notin Early /\ sreq = RequestHeader(cmd, size, hash, asked)
      /\ Len(got) <= size /\ size \in Nat /\ got \in Seq(BlockOfFile) /\ Len(got) \in Nat
      /\ c2s \in Seq(FileBlock) /\ runs >= 1
  BY <1>0, <1>1, LenProperties DEF Receiving, Typed, ToServer, HeaderWaits
<1>3. sreq.size = size /\ sreq.hash = hash
  BY <1>2 DEF RequestHeader
<1>4. ~HeaderWaits'
  BY <1>1, <1>2, NoHeader
<1>5. PICK st \in Status :
         /\ Respond(st)
         /\ st = "RESP_SUCCESS" =>
               /\ Intact(got, sreq) /\ written' = runs
               /\ LET content == SubSeq(got, 1, ToInt(sreq.size)) IN
                     /\ [run |-> runs, content |-> content] \in records'
                     /\ stored' = content \/ (faulted' /\ stored' = Cut(content))
  <2>1. CASE /\ Intact(got, sreq) /\ ToInt(sreq.size) >= 0
             /\ Saves(SubSeq(got, 1, ToInt(sreq.size)))
    <3>1. PICK content \in Seq(BlockOfFile) : content = SubSeq(got, 1, ToInt(sreq.size))
      BY <1>1, <1>2, <1>3, <2>1, BodyAsInt DEF BodyComplete
    <3>2. Saves(content)
      BY <2>1, <3>1
    <3>3. /\ written' = runs
          /\ \E st \in Status :
                 /\ Respond(st)
                 /\ st = "RESP_SUCCESS" =>
                       /\ [run |-> runs, content |-> content] \in records'
                       /\ stored' = content \/ (faulted' /\ stored' = Cut(content))
      BY <1>0, <1>2, <3>2, Saved
    <3> QED
      BY <2>1, <3>1, <3>3
  <2>2. CASE \E st \in Status : Respond(st) /\ st # "RESP_SUCCESS"
    BY <2>2
  <2> QED
    BY <2>1, <2>2 DEF StoreBody, Status
<1>6. st = "RESP_SUCCESS" => Settled'
  <2> SUFFICES ASSUME st = "RESP_SUCCESS", size <= IntMax
               PROVE  /\ [run |-> runs, content |-> hash] \in records' /\ written' = runs
                      /\ stored' = hash \/ (faulted' /\ stored' = Cut(hash))
    BY <1>1, <1>4 DEF Settled, Upload, Whole, progress, file
  <2>1. got = hash /\ Len(got) = size
    BY <1>1, <1>2, <1>3, <1>5 DEF Intact, BodyComplete
  <2>2. ToInt(size) = size
    BY <1>2, IntCounts
  <2>3. SubSeq(got, 1, Len(got)) = got
    BY <1>2
  <2>4. SubSeq(got, 1, ToInt(sreq.size)) = hash
    BY <1>3, <2>1, <2>2, <2>3
  <2> QED
    BY <1>5, <2>4
<1>7. /\ Len(s2c) \in Nat /\ Len(s2c') \in Nat
      /\ link = "up" => Len(s2c') = Len(s2c) + 1 /\ s2c'[Len(s2c) + 1].status = st
      /\ link # "up" => s2c' = s2c
      /\ \A i \in 1..Len(s2c) : s2c'[i] = s2c[i]
  BY <1>1, <1>2, <1>5, Responded
<1>8. CASE cpc = "response"
  <2>1. Len(s2c) <= 1 /\ (link = "up" => Len(s2c) = 1)
    BY <1>1, <1>2, <1>8 DEF UploadRuns
  <2>2. CASE link = "up"
    <3>1. Len(s2c') = 2 /\ s2c'[2].status = st
      <4>1. PICK n : n = Len(s2c)
        OBVIOUS
      <4>2. n = 1 /\ Len(s2c') = n + 1 /\ s2c'[n + 1].status = st
        BY <1>7, <2>1, <2>2, <4>1
      <4>3. n + 1 = 2
        BY <4>2
      <4> QED
        BY <4>2, <4>3
    <3> QED
      BY <1>1, <1>6, <1>8, <3>1 DEF UploadRuns
  <2>3. CASE link # "up"
    <3>1. Len(s2c') <= 1 /\ ~(Len(s2c') >= 2)
      BY <1>7, <2>1, <2>3
    <3> QED
      BY <1>1, <1>8, <2>3, <3>1 DEF UploadRuns
  <2> QED
    BY <2>2, <2>3
<1>9. CASE cpc \in {"send", "status"}
  <2>1. s2c = <<>> /\ Len(s2c) = 0
    BY <1>1, <1>2, <1>9 DEF UploadRuns
  <2>2. CASE link = "up"
    <3>1. Len(s2c') = 1 /\ s2c'[1].status = st /\ s2c' # <<>>
      BY <1>7, <2>1, <2>2
    <3> QED
      BY <1>1, <1>6, <1>9, <3>1 DEF UploadRuns
  <2>3. CASE link # "up"
    BY <1>1, <1>7, <1>9, <2>1, <2>3 DEF UploadRuns
  <2> QED
    BY <2>2, <2>3
<1>10. cpc # "done"
  BY <1>1, <1>2 DEF UploadRuns, Settled
<1> QED
  BY <1>1, <1>8, <1>9, <1>10 DEF UploadRuns

\* The connection closes or breaks, and what is lost is lost from some point on.
LEMMA UploadCut ==
    ASSUME Shape, UploadRuns, link' # "up", faulted => faulted',
           UNCHANGED <<cmd, cpc, runs, size, hash, stored, written, records>>,
           spc' = spc \/ (spc' # "body"), c2s \in Seq(FileBlock) => c2s' \in Seq(FileBlock),
           Len(s2c') \in Nat, Len(s2c') <= Len(s2c), Len(s2c) \in Nat,
           \A i \in 1..Len(s2c') : s2c'[i] = s2c[i], s2c = <<>> => s2c' = <<>>,
           s2c' \in Seq(Message)
    PROVE  UploadRuns'
<1>1. ASSUME Settled PROVE Settled'
  <2>1. c2s \in Seq(FileBlock)
    BY <1>1 DEF Settled, Shape, ToServer
  <2>2. ~HeaderWaits'
    BY <2>1, NoHeader
  <2> QED
    BY <1>1, <2>2, SettledStays DEF Settled
<1>2. s2c' # <<>> => 1 \in 1..Len(s2c') /\ s2c # <<>>
  BY EmptySeq
<1>3. Len(s2c') >= 2 => 2 \in 1..Len(s2c') /\ Len(s2c) >= 2
  OBVIOUS
<1>4. s2c' # <<>> => s2c'[1] = s2c[1]
  BY <1>2
<1>5. Len(s2c') >= 2 => s2c'[2] = s2c[2]
  BY <1>3
<1>6. Len(s2c) <= 1 => Len(s2c') <= 1
  OBVIOUS
<1> QED
  BY <1>1, <1>2, <1>3, <1>4, <1>5, <1>6 DEF UploadRuns

LEMMA UploadMisread ==
    ASSUME Shape, UploadRuns, MisreadBlock
    PROVE  UploadRuns'
<1>1. /\ cmd = "upload" /\ cpc \notin Early \cup {"response"} /\ c2s' \in Seq(FileBlock)
      /\ spc \in {"header", "stray"}
      /\ UNCHANGED <<file, cmd, cpc, progress, sreq, got, store, faulted>>
      /\ \/ /\ \E m \in Seq(Message) : SendAll(m)
            /\ spc' \in {"header", "stray"} /\ UNCHANGED link
         \/ Delivered /\ spc' = "closed" /\ link' = "server_closed"
      /\ ToClient'
  BY Misread
<1>2. CASE /\ \E m \in Seq(Message) : SendAll(m)
           /\ spc' \in {"header", "stray"} /\ UNCHANGED link
  <2>1. PICK m \in Seq(Message) : SendAll(m)
    BY <1>2
  <2>2. /\ Len(s2c) \in Nat /\ Len(s2c') \in Nat
        /\ link # "up" => s2c' = s2c
        /\ \A i \in 1..Len(s2c) : s2c'[i] = s2c[i]
        /\ link = "up" => Len(s2c') = Len(s2c) + Len(m)
        /\ Len(m) \in Nat
    BY <1>1, <2>1, Behind, LenProperties
  <2>3. Settled => Settled'
    <3>1. UNCHANGED <<runs, size, hash, stored, written, records>>
      BY <1>1 DEF file, progress, store
    <3> QED
      BY <1>1, <1>2, <3>1, NoHeader, SettledStays
  <2>4. CASE cpc \in {"send", "status"}
    <3>1. CASE link = "up"
      <4>1. s2c # <<>>
        BY <1>1, <2>4, <3>1 DEF UploadRuns
      <4>2. 1 \in 1..Len(s2c) /\ Len(s2c') >= 1
        BY <2>2, <3>1, <4>1, EmptySeq DEF Shape, ToClient
      <4>3. s2c'[1] = s2c[1] /\ s2c' # <<>>
        BY <2>2, <4>2
      <4> QED
        BY <1>1, <1>2, <2>3, <2>4, <4>1, <4>3 DEF UploadRuns
    <3>2. CASE link # "up"
      BY <1>1, <1>2, <2>2, <2>3, <2>4, <3>2 DEF UploadRuns
    <3> QED
      BY <3>1, <3>2
  <2>5. CASE cpc \notin {"send", "status"}
    BY <1>1, <1>2, <2>3, <2>5 DEF UploadRuns
  <2> QED
    BY <2>4, <2>5
<1>3. CASE Delivered /\ spc' = "closed" /\ link' = "server_closed"
  <2>1. /\ Len(s2c') \in Nat /\ Len(s2c') <= Len(s2c) /\ Len(s2c) \in Nat
        /\ \A i \in 1..Len(s2c') : s2c'[i] = s2c[i]
        /\ s2c = <<>> => s2c' = <<>>
    BY <1>1, <1>3, Prefix DEF Shape
  <2>2. UNCHANGED <<cmd, cpc, runs, size, hash, stored, written, records, faulted>>
        /\ s2c' \in Seq(Message)
    BY <1>1 DEF file, progress, store, ToClient
  <2> QED
    BY <1>1, <1>3, <2>1, <2>2, UploadCut
<1> QED
  BY <1>1, <1>2, <1>3

\* The client takes an answer.
LEMMA UploadAnswerTaken ==
    ASSUME Shape, UploadRuns, UploadAccepted \/ UploadAnswered
    PROVE  UploadRuns'
<1>0. cmd = "upload"
  BY DEF UploadAccepted, UploadAnswered, Await, Shape, Where
<1>1. /\ ~HeaderWaits' /\ UNCHANGED server /\ UNCHANGED <<cmd, runs, hash, link, size, faulted>>
      /\ s2c' \in Seq(Message) /\ Head(s2c) = s2c[1] /\ s2c # <<>>
      /\ Len(s2c) \in Nat /\ Len(s2c) >= 1 /\ Len(s2c') = Len(s2c) - 1
      /\ \A i \in 1..Len(s2c') : i + 1 \in 1..Len(s2c) /\ s2c'[i] = s2c[i + 1]
  BY Taken DEF UploadAccepted, UploadAnswered, Await
<1>2. Settled => Settled'
  BY <1>1, SettledStays DEF Settled, server
<1>3. CASE UploadAccepted
  <2>1. cpc = "response" /\ cpc' = IF Accepted THEN "send" ELSE "failed"
    BY <1>3 DEF UploadAccepted, Await
  <2>2. CASE Accepted
    <3>1. cpc' = "send" /\ s2c[1].status = "RESP_SUCCESS"
      BY <1>1, <2>1, <2>2 DEF Accepted
    <3>2. spc = "body" => Len(s2c') = 0
      BY <1>0, <1>1, <2>1 DEF UploadRuns
    <3>3. s2c' # <<>> => 1 \in 1..Len(s2c') /\ Len(s2c) >= 2
      BY <1>1, EmptySeq
    <3>4. s2c' # <<>> => s2c'[1] = s2c[2] /\ Len(s2c) >= 2
      BY <1>1, <3>3
    <3>5. s2c' # <<>> /\ s2c'[1].status = "RESP_SUCCESS" => Settled'
      BY <1>0, <1>2, <2>1, <3>4 DEF UploadRuns
    <3>6. link = "up" /\ spc \in {"header", "stray"} => Len(s2c') >= 1 /\ s2c' # <<>>
      <4>1. link = "up" /\ spc \in {"header", "stray"} => Len(s2c) >= 2
        BY <1>0, <1>1, <2>1, <3>1 DEF UploadRuns, Shape, Where
      <4> QED
        BY <1>1, <4>1
    <3>7. spc = "body" => s2c' = <<>>
      BY <1>1, <3>2, EmptySeq
    <3> QED
      BY <1>1, <3>1, <3>5, <3>6, <3>7 DEF UploadRuns, server
  <2>3. CASE ~Accepted
    BY <2>1, <2>3 DEF UploadRuns
  <2> QED
    BY <2>2, <2>3
<1>4. CASE UploadAnswered
  <2>1. cpc = "status" /\ cpc' = IF Accepted THEN "done" ELSE "failed"
    BY <1>4 DEF UploadAnswered, Await
  <2>2. Accepted => Settled
    BY <1>0, <1>1, <2>1 DEF UploadRuns, Accepted
  <2> QED
    BY <1>2, <2>1, <2>2 DEF UploadRuns
<1> QED
  BY <1>3, <1>4

LEMMA UploadNext == Shape /\ UploadRuns /\ [Next]_vars => UploadRuns'
<1> SUFFICES ASSUME Shape, UploadRuns, [Next]_vars PROVE UploadRuns'
  OBVIOUS
<1>0. Typed /\ Where /\ ToServer /\ ToClient /\ Receiving
  BY DEF Shape
<1>1. CASE \E c \in Command : Run(c)
  BY <1>1, CommandAssumption DEF Run, UploadRuns
<1>2. CASE StatLocal \/ HashLocal \/ OpenLocal
  BY <1>2 DEF StatLocal, HashLocal, OpenLocal, UploadRuns
<1>3. CASE SendHeader
  <2>1. cpc' = "response" /\ s2c' = <<>> /\ spc' # "body"
    BY <1>3, EarlyEmpty DEF SendHeader, Early, server
  <2>2. Len(s2c') = 0
    BY <2>1
  <2> QED
    BY <2>1, <2>2 DEF UploadRuns
<1>4. CASE UploadAccepted \/ UploadAnswered
  BY <1>4, UploadAnswerTaken
<1>5. CASE SendBlock \/ EndOfLocal
  <2>1. /\ cpc \in {"send"} /\ cpc' \in {"send", "status"} /\ UNCHANGED <<cmd, link, s2c, server>>
        /\ UNCHANGED <<runs, size, hash, faulted>>
    BY <1>5 DEF SendBlock, EndOfLocal, progress, file
  <2>2. ~HeaderWaits'
    BY <2>1 DEF HeaderWaits
  <2>3. Settled => Settled'
    BY <2>1, <2>2, SettledStays DEF Settled, server
  <2> QED
    BY <2>1, <2>3 DEF UploadRuns, server
<1>6. CASE DownloadAnswered \/ ListAnswered \/ ReceiveBlock \/ EndOfAnswer
  <2>1. cmd # "upload" /\ cmd' = cmd
    BY <1>0, <1>6 DEF DownloadAnswered, ListAnswered, ReceiveBlock, EndOfAnswer, Await, Where
  <2> QED
    BY <2>1 DEF UploadRuns
<1>7. CASE ClientFails
  BY <1>7 DEF ClientFails, UploadRuns
<1>17. CASE LocalFails
  BY <1>17 DEF LocalFails, UploadRuns
<1>18. CASE RestartServer
  <2>1. /\ UNCHANGED <<cmd, cpc, runs, progress, c2s, s2c, spc, stored, written, records, faulted>>
        /\ cpc \in Ended
    BY <1>18 DEF RestartServer, file
  <2>2. Settled => Settled'
    BY <2>1 DEF Settled, Upload, Whole, HeaderWaits, progress, RequestHeader
  <2> QED
    BY <2>1, <2>2 DEF UploadRuns, Ended
<1>8. CASE WriteLocal
  <2>1. /\ UNCHANGED <<cmd, cpc, runs, progress, link, c2s, s2c, server, faulted>>
        /\ cpc # "done"
    BY <1>8 DEF WriteLocal, Ended
  <2>2. Settled => Settled'
    BY <2>1 DEF Settled, Upload, Whole, HeaderWaits, progress, server, RequestHeader
  <2> QED
    BY <2>1, <2>2 DEF UploadRuns, server
<1>9. CASE ServeUpload
  BY <1>9, UploadServed
<1>10. CASE ReceiveBody
  <2>1. /\ spc = "body" /\ UNCHANGED <<cmd, cpc, progress, link, s2c, spc, store>>
    BY <1>10 DEF ReceiveBody
  <2>2. Len(s2c) \in Nat /\ Len(<<>>) = 0
    BY <1>0, LenProperties DEF ToClient
  <2> QED
    BY <2>1, <2>2 DEF UploadRuns, Settled
<1>11. CASE StoreBody
  BY <1>11, UploadStored
<1>12. CASE ServeDownload \/ ServeList
  <2>1. cmd # "upload" /\ cmd' = cmd
    <3>1. NextHeader("download") \/ NextHeader("list")
      BY <1>12 DEF ServeDownload, ServeList
    <3> QED
      BY <3>1, HeaderRead
  <2> QED
    BY <2>1 DEF UploadRuns
<1>13. CASE MisreadBlock
  BY <1>13, UploadMisread
<1>14. CASE ServerCloses
  <2>1. /\ link' # "up" /\ spc' = "closed"
        /\ UNCHANGED <<cmd, cpc, runs, size, hash, stored, written, records, faulted, c2s, s2c>>
    BY <1>14 DEF ServerCloses, file, progress, store
  <2>2. s2c' \in Seq(Message) /\ Len(s2c) \in Nat
    BY <1>0, <2>1, LenProperties DEF ToClient
  <2> QED
    BY <2>1, <2>2, UploadCut
<1>15. CASE Break
  <2>1. /\ link' = "broken" /\ Delivered /\ faulted'
        /\ UNCHANGED <<cmd, cpc, runs, size, hash, stored, written, records, spc>>
    BY <1>15 DEF Break, file, progress, server
  <2>2. /\ Len(s2c') \in Nat /\ Len(s2c') <= Len(s2c) /\ Len(s2c) \in Nat
        /\ \A i \in 1..Len(s2c') : s2c'[i] = s2c[i]
        /\ s2c = <<>> => s2c' = <<>>
        /\ s2c' \in Seq(Message)
    BY <1>0, <2>1, Prefix DEF ToClient
  <2>3. c2s \in Seq(FileBlock) => c2s' \in Seq(FileBlock)
    BY <1>15 DEF Break
  <2> QED
    BY <2>1, <2>2, <2>3, UploadCut
<1>16. CASE UNCHANGED vars
  <2>1. UNCHANGED <<cmd, cpc, runs, size, hash, asked, link, c2s, s2c, spc, stored, written,
                    records, faulted>>
    BY <1>16 DEF vars
  <2>2. Settled => Settled'
    BY <2>1 DEF Settled, Upload, Whole, HeaderWaits, RequestHeader
  <2> QED
    BY <2>1, <2>2 DEF UploadRuns
<1> QED
  BY <1>1, <1>2, <1>3, <1>4, <1>5, <1>6, <1>7, <1>8, <1>9, <1>10, <1>11, <1>12, <1>13,
     <1>14, <1>15, <1>16, <1>17, <1>18 DEF Next, ClientStep, ServerStep

-----------------------------------------------------------------------------
(* Downloads *)

\* What is lost from some point on leaves a download from the beginning as it is.
LEMMA DownloadCut ==
    ASSUME Shape, DownloadRuns, Delivered, cpc # "done",
           UNCHANGED <<cmd, cpc, local, size, offset, total, asked, stored, written, records>>
    PROVE  DownloadRuns'
<1>1. /\ Len(s2c') \in Nat /\ Len(s2c') <= Len(s2c) /\ Len(s2c) \in Nat
      /\ \A i \in 1..Len(s2c') : s2c'[i] = s2c[i] /\ i \in 1..Len(s2c)
      /\ s2c = <<>> => s2c' = <<>> /\ s2c' \in Seq(Message)
  <2>1. /\ ToClient' /\ Len(s2c') \in Nat /\ Len(s2c') <= Len(s2c) /\ Len(s2c) \in Nat
        /\ \A i \in 1..Len(s2c') : s2c'[i] = s2c[i]
        /\ s2c = <<>> => s2c' = <<>>
    BY Prefix DEF Shape
  <2> QED
    BY <2>1 DEF ToClient
<1>2. s2c' # <<>> => s2c # <<>> /\ s2c'[1] = s2c[1]
  <2>1. s2c' \in Seq(Message)
    BY Prefix DEF Shape, ToClient
  <2>2. s2c' # <<>> => 1 \in 1..Len(s2c')
    BY <1>1, <2>1, EmptySeq
  <2> QED
    BY <1>1, <2>2
<1>3. \A i \in 2..Len(s2c') : s2c'[i] = s2c[i] /\ i \in 2..Len(s2c)
  BY <1>1
<1>4. CASE cpc = "response"
  <2>1. \A n \in Nat : Len(s2c) <= n => Len(s2c') <= n
    BY <1>1
  <2>2. Described => Len(stored) + 1 \in Nat
    BY LenProperties DEF Described
  <2>3. Described => Described'
    BY DEF Described
  <2> QED
    BY <1>2, <1>3, <1>4, <2>1, <2>2, <2>3 DEF DownloadRuns
<1>5. CASE cpc = "receive"
  <2>1. Described => Len(stored) \in Nat /\ Described'
    BY LenProperties DEF Described
  <2>2. total \in Nat
    BY DEF Shape, Typed
  <2>3. \A n \in Nat : total + Len(s2c) <= n => total + Len(s2c') <= n
    BY <1>1, <2>2
  <2> QED
    BY <1>1, <1>5, <2>1, <2>3 DEF DownloadRuns
<1>6. CASE cpc \notin {"response", "receive"}
  BY <1>6 DEF DownloadRuns
<1> QED
  BY <1>4, <1>5, <1>6

LEMMA DownloadServed ==
    ASSUME Shape, ServeDownload
    PROVE  DownloadRuns'
<1>1. /\ HeaderWaits /\ cmd = "download" /\ UNCHANGED <<file, cmd, cpc, progress, link>>
      /\ Head(c2s).offset = asked /\ cpc \in {"response", "failed"} /\ s2c = <<>>
  BY HeaderRead DEF ServeDownload, HeaderWaits
<1>2. ASSUME NEW st \in Status, Answer(st), st # "RESP_SUCCESS" PROVE DownloadRuns'
  <2>1. PICK r : r = ResponseHeader(st, 0) /\ r.status = st
    BY ResponseTyped
  <2>2. s2c' = IF link = "up" THEN <<r>> ELSE <<>>
    BY <1>1, <1>2, <2>1 DEF Answer, Respond, SendAll
  <2>3. s2c' = <<>> \/ s2c'[1].status = st
    BY <2>1, <2>2
  <2> QED
    BY <1>1, <1>2, <2>3 DEF DownloadRuns
<1>3. CASE /\ \E record \in records : Fits(record)
           /\ asked \in 0..Len(stored)
           /\ SendAll(<<ResponseHeader("RESP_SUCCESS", SizeSent)>>
                        \o Body(SubSeq(stored, asked + 1, Len(stored))))
           /\ UNCHANGED store
  <2>0. SUFFICES ASSUME asked = 0, cpc = "response", s2c' # <<>>
                 PROVE  /\ Described /\ s2c'[1].size = Len(stored)
                        /\ Len(s2c') <= Len(stored) + 1
                        /\ \A i \in 2..Len(s2c') : s2c'[i].block = stored[i - 1]
    BY <1>1, <1>3 DEF DownloadRuns, Described, progress, store
  <2>1. stored \in Seq(BlockOfFile) /\ Len(stored) \in Nat
    BY <1>3, LenProperties DEF Shape, Typed, Kept
  <2>9. [run |-> written, content |-> stored] \in records
    BY <1>3 DEF Fits, Shape, Typed, Kept
  <2>2. SubSeq(stored, asked + 1, Len(stored)) = stored
    BY <2>0, <2>1
  <2>3. PICK r \in Response : r = ResponseHeader("RESP_SUCCESS", SizeSent) /\ r.size = Len(stored)
    BY <2>1, ResponseTyped DEF SizeSent, Status
  <2>4. PICK m : m = <<r>> \o Body(stored)
    OBVIOUS
  <2>10. m \in Seq(Message) /\ Len(m) = Len(stored) + 1 /\ m[1] = r
    BY <2>1, <2>4, FileAnswer
  <2>5. ASSUME NEW i \in 2..(Len(stored) + 1) PROVE m[i].block = stored[i - 1]
    <3>1. (<<r>> \o Body(stored))[i].block = stored[i - 1]
      BY <2>1, BlockInAnswer
    <3> QED
      BY <2>4, <3>1
  <2>6. SendAll(m)
    BY <1>3, <2>2, <2>3, <2>4
  <2>7. m \in Seq(Message)
    BY <2>10
  <2>8. s2c' = m
    BY <1>1, <2>0, <2>6, <2>7 DEF SendAll
  <2> QED
    BY <2>1, <2>3, <2>5, <2>8, <2>9, <2>10 DEF Described
<1> QED
  BY <1>1, <1>2, <1>3 DEF ServeDownload, Status

\* The client takes the response: the blocks behind it are those of the file.
LEMMA DownloadBegins ==
    ASSUME Shape, DownloadRuns, DownloadAnswered
    PROVE  DownloadRuns'
<1>1. /\ UNCHANGED server /\ UNCHANGED <<cmd, offset, asked>>
      /\ Head(s2c) = s2c[1] /\ s2c # <<>>
      /\ Len(s2c) \in Nat /\ Len(s2c) >= 1 /\ Len(s2c') = Len(s2c) - 1
      /\ \A i \in 1..Len(s2c') : i + 1 \in 1..Len(s2c) /\ s2c'[i] = s2c[i + 1]
  BY Taken DEF DownloadAnswered, Await
<1>2. cmd = "download" /\ cpc = "response" /\ cpc' = IF Downloadable THEN "receive" ELSE "failed"
  BY DEF DownloadAnswered, Await
<1>3. CASE Downloadable
  <2> SUFFICES ASSUME offset = 0, asked = 0
               PROVE  /\ Described /\ size' = Len(stored)
                      /\ Len(local') = total' /\ total' + Len(s2c') <= Len(stored)
                      /\ \A i \in 1..total' : local'[i] = stored[i]
                      /\ \A i \in 1..Len(s2c') : s2c'[i].block = stored[total' + i]
    BY <1>1, <1>2, <1>3 DEF DownloadRuns, Described, server
  <2>1. /\ s2c[1].status = "RESP_SUCCESS" /\ local' = <<>> /\ size' = s2c[1].size /\ total' = 0
    BY <1>1, <1>3 DEF DownloadAnswered, Downloadable, Accepted
  <2>2. /\ Described /\ s2c[1].size = Len(stored)
        /\ Len(s2c) <= Len(stored) + 1
        /\ \A i \in 2..Len(s2c) : s2c[i].block = stored[i - 1]
    BY <1>1, <1>2, <2>1 DEF DownloadRuns
  <2>3. Len(stored) \in Nat
    BY <2>2, LenProperties DEF Described
  <2>4. total' + Len(s2c') <= Len(stored)
    BY <1>1, <2>1, <2>2, <2>3
  <2>5. ASSUME NEW i \in 1..Len(s2c') PROVE s2c'[i].block = stored[total' + i]
    <3>1. i + 1 \in 2..Len(s2c) /\ (i + 1) - 1 = i /\ 0 + i = i
      BY <1>1
    <3> QED
      BY <1>1, <2>1, <2>2, <3>1
  <2>6. Len(local') = 0
    BY <2>1
  <2> QED
    BY <2>1, <2>2, <2>4, <2>5, <2>6
<1>4. CASE ~Downloadable
  BY <1>2, <1>4 DEF DownloadRuns
<1> QED
  BY <1>3, <1>4

LEMMA DownloadGoesOn ==
    ASSUME Shape, DownloadRuns, ReceiveBlock
    PROVE  DownloadRuns'
<1>1. /\ cpc = "receive" /\ cpc' = "receive" /\ UNCHANGED server
      /\ UNCHANGED <<cmd, offset, asked, size>>
      /\ Head(s2c) = s2c[1] /\ 1 \in 1..Len(s2c)
      /\ Len(s2c) \in Nat /\ Len(s2c) >= 1 /\ Len(s2c') = Len(s2c) - 1
      /\ \A i \in 1..Len(s2c') : i + 1 \in 1..Len(s2c) /\ s2c'[i] = s2c[i + 1]
  BY Taken DEF ReceiveBlock, Await
<1> SUFFICES ASSUME cmd = "download", offset = 0, asked = 0
             PROVE  /\ Described /\ size = Len(stored)
                    /\ Len(local') = total' /\ total' + Len(s2c') <= Len(stored)
                    /\ \A i \in 1..total' : local'[i] = stored[i]
                    /\ \A i \in 1..Len(s2c') : s2c'[i].block = stored[total' + i]
  BY <1>1 DEF DownloadRuns, Described, server
<1>2. /\ Described /\ size = Len(stored)
      /\ Len(local) = total /\ total + Len(s2c) <= Len(stored)
      /\ \A i \in 1..total : local[i] = stored[i]
      /\ \A i \in 1..Len(s2c) : s2c[i].block = stored[total + i]
      /\ Len(stored) \in Nat
  BY <1>1, LenProperties DEF DownloadRuns, Described
<1>3. PICK b : b = s2c[1].block
  OBVIOUS
<1>4. total' = total + 1 /\ local' = Append(local, b) /\ total \in Nat
      /\ local \in Seq(BlockOfFile) /\ b \in BlockOfFile
  <2>1. s2c[1] \in FileBlock
    BY <1>1 DEF Shape, ToClient
  <2> QED
    BY <1>1, <1>3, <2>1, Kinds DEF ReceiveBlock, Shape, Typed
<1>5. /\ Len(local') = total + 1 /\ local'[total + 1] = b
      /\ \A i \in 1..total : local'[i] = local[i]
  BY <1>2, <1>4, AppendProperties
<1>6. b = stored[total + 1]
  BY <1>1, <1>2, <1>3
<1>7. \A i \in 1..total' : local'[i] = stored[i]
  <2>1. \A i \in 1..total' : i \in 1..total \/ i = total + 1
    BY <1>4
  <2> QED
    BY <1>2, <1>5, <1>6, <2>1
<1>8. ASSUME NEW i \in 1..Len(s2c') PROVE s2c'[i].block = stored[total' + i]
  <2>1. i + 1 \in 1..Len(s2c) /\ total + (i + 1) = (total + 1) + i
    BY <1>1, <1>4
  <2> QED
    BY <1>1, <1>2, <1>4, <2>1
<1>9. total' + Len(s2c') <= Len(stored)
  BY <1>1, <1>2, <1>4
<1> QED
  BY <1>2, <1>4, <1>5, <1>7, <1>8, <1>9

LEMMA DownloadEnds ==
    ASSUME Shape, DownloadRuns, EndOfAnswer
    PROVE  DownloadRuns'
<1>1. /\ cpc = "receive" /\ total >= size /\ cpc' = "done"
      /\ UNCHANGED <<cmd, progress, server>>
      /\ local' = local \/ (local' = Cut(local) /\ faulted')
  BY DEF EndOfAnswer
<1>2. ASSUME cmd = "download", offset = 0, asked = 0 PROVE Described /\ local = stored
  <2>1. /\ Described /\ stored \in Seq(BlockOfFile) /\ size = Len(stored)
        /\ Len(local) = total /\ total + Len(s2c) <= Len(stored)
        /\ \A i \in 1..total : local[i] = stored[i]
        /\ Len(stored) \in Nat /\ Len(s2c) \in Nat /\ total \in Nat
        /\ local \in Seq(BlockOfFile)
    BY <1>1, <1>2, LenProperties DEF DownloadRuns, Described, Shape, Typed, ToClient
  <2>2. Len(local) = Len(stored)
    BY <1>1, <2>1
  <2> QED
    BY <2>1, <2>2, SeqEqual
<1> QED
  BY <1>1, <1>2 DEF DownloadRuns, Described, progress, server

LEMMA DownloadNext == Shape /\ DownloadRuns /\ [Next]_vars => DownloadRuns'
<1> SUFFICES ASSUME Shape, DownloadRuns, [Next]_vars PROVE DownloadRuns'
  OBVIOUS
<1>0. Typed /\ Where /\ ToServer /\ ToClient /\ Receiving
  BY DEF Shape
<1>1. CASE \E c \in Command : Run(c)
  BY <1>1, CommandAssumption DEF Run, DownloadRuns
<1>2. CASE StatLocal \/ HashLocal \/ OpenLocal
  BY <1>2 DEF StatLocal, HashLocal, OpenLocal, DownloadRuns
<1>3. CASE SendHeader
  <2>1. cpc' = "response" /\ s2c' = <<>>
    BY <1>3, EarlyEmpty DEF SendHeader, Early
  <2> QED
    BY <2>1 DEF DownloadRuns
<1>4. CASE UploadAccepted \/ UploadAnswered \/ ListAnswered \/ SendBlock \/ EndOfLocal \/ WriteLocal
  <2>1. cmd # "download" /\ cmd' = cmd
    BY <1>0, <1>4 DEF UploadAccepted, UploadAnswered, ListAnswered, SendBlock, EndOfLocal,
       WriteLocal, Await, Where
  <2> QED
    BY <2>1 DEF DownloadRuns
<1>5. CASE DownloadAnswered
  BY <1>5, DownloadBegins
<1>6. CASE ReceiveBlock
  BY <1>6, DownloadGoesOn
<1>7. CASE EndOfAnswer
  BY <1>7, DownloadEnds
<1>8. CASE ClientFails
  BY <1>8 DEF ClientFails, DownloadRuns
<1>15. CASE LocalFails
  BY <1>15 DEF LocalFails, DownloadRuns
<1>16. CASE RestartServer
  BY <1>16 DEF RestartServer, DownloadRuns, Described, file, progress, Ended
<1>9. CASE ServeUpload \/ ServeList
  <2>1. cmd # "download" /\ cmd' = cmd
    <3>1. NextHeader("upload") \/ NextHeader("list")
      BY <1>9 DEF ServeUpload, ServeList
    <3> QED
      BY <3>1, HeaderRead
  <2> QED
    BY <2>1 DEF DownloadRuns
<1>10. CASE ReceiveBody \/ StoreBody \/ MisreadBlock
  <2>1. cmd # "download" /\ cmd' = cmd
    BY <1>0, <1>10, Misread DEF ReceiveBody, StoreBody, Receiving
  <2> QED
    BY <2>1 DEF DownloadRuns
<1>11. CASE ServeDownload
  BY <1>11, DownloadServed
<1>12. CASE ServerCloses
  BY <1>12 DEF ServerCloses, DownloadRuns, Described, file, progress, store
<1>13. CASE Break
  BY <1>13, DownloadCut DEF Break, Ended, file, progress, server
<1>14. CASE UNCHANGED vars
  BY <1>14 DEF vars, DownloadRuns, Described
<1> QED
  BY <1>1, <1>2, <1>3, <1>4, <1>5, <1>6, <1>7, <1>8, <1>9, <1>10, <1>11, <1>12, <1>13,
     <1>14, <1>15, <1>16 DEF Next, ClientStep, ServerStep

-----------------------------------------------------------------------------
(* Refusals *)

LEMMA ReasonStays ==
    ASSUME Reason, UNCHANGED <<asked, stored, written, records>>, since' >= since,
           since \in Int, since' \in Int, \A record \in records : record.run \in Int
    PROVE  Reason'
BY DEF Reason, Fits

LEMMA RefusalServed ==
    ASSUME Shape, RefusalRuns, ServeDownload
    PROVE  RefusalRuns'
<1>1. /\ HeaderWaits /\ cmd = "download" /\ UNCHANGED <<file, cmd, cpc, progress, link>>
      /\ Head(c2s).offset = asked /\ cpc \in {"response", "failed"} /\ s2c = <<>>
  BY HeaderRead DEF ServeDownload, HeaderWaits
<1>2. UNCHANGED store /\ asked' = asked
  BY <1>1 DEF ServeDownload, Answer, progress
<1>3. Reason => Reason'
  BY <1>2 DEF Reason, Fits, store
<1>4. faulted' = TRUE \/ faulted' = faulted
  BY DEF ServeDownload
<1>5. ASSUME ~faulted', s2c' # <<>>
      PROVE  (s2c'[1].status = "RESP_SUCCESS" /\ s2c'[1].size > 0) \/ Reason
  <2>1. CASE records = {} \/ asked \notin 0..Len(stored) \/ (\E record \in records : ~Fits(record))
    BY <2>1 DEF Reason
  <2>3. CASE /\ SendAll(<<ResponseHeader("RESP_SUCCESS", SizeSent)>>
                           \o Body(SubSeq(stored, asked + 1, Len(stored))))
             /\ records # {} /\ asked \in 0..Len(stored)
    <3>1. stored \in Seq(BlockOfFile) /\ Len(stored) \in Nat /\ asked \in Nat
      BY <2>3, LenProperties DEF Shape, Typed, Kept
    <3>2. PICK s \in Seq(BlockOfFile) : s = SubSeq(stored, asked + 1, Len(stored))
      <4>1. PICK n : n = asked + 1
        OBVIOUS
      <4>2. n \in Nat /\ n >= 1
        BY <3>1, <4>1
      <4>3. SubSeq(stored, n, Len(stored)) \in Seq(BlockOfFile)
        BY <3>1, <4>2
      <4> QED
        BY <4>1, <4>3
    <3>3. PICK r \in Response : /\ r = ResponseHeader("RESP_SUCCESS", SizeSent)
                                /\ r.size = Len(stored) /\ r.status = "RESP_SUCCESS"
      BY <3>1, ResponseTyped DEF SizeSent, Status
    <3>4. PICK m : m = <<r>> \o Body(s)
      OBVIOUS
    <3>5. m[1] = r /\ m \in Seq(Message)
      BY <3>4, FileAnswer
    <3>6. SendAll(m)
      BY <2>3, <3>2, <3>3, <3>4
    <3>7. s2c' = m
      BY <1>1, <1>5, <3>5, <3>6 DEF SendAll
    <3>8. stored # <<>> => Len(stored) > 0
      BY <3>1, EmptySeq
    <3> QED
      BY <3>3, <3>5, <3>7, <3>8 DEF Reason
  <2> QED
    BY <1>1, <1>5, <2>1, <2>3 DEF ServeDownload
<1> QED
  BY <1>1, <1>3, <1>4, <1>5 DEF RefusalRuns

LEMMA RefusalNext == Shape /\ RefusalRuns /\ [Next]_vars => RefusalRuns'
<1> SUFFICES ASSUME Shape, RefusalRuns, [Next]_vars PROVE RefusalRuns'
  OBVIOUS
<1>0. Typed /\ Where /\ ToServer /\ ToClient /\ Receiving
  BY DEF Shape
<1>1. CASE \E c \in Command : Run(c)
  BY <1>1, CommandAssumption DEF Run, RefusalRuns, Ended
<1>2. CASE StatLocal \/ HashLocal \/ OpenLocal
  <2>1. /\ UNCHANGED <<faulted, link, cmd>> /\ cpc' \notin {"response", "failed"} /\ cpc \notin Ended
    BY <1>2 DEF StatLocal, HashLocal, OpenLocal, Ended
  <2> QED
    BY <2>1 DEF RefusalRuns
<1>3. CASE SendHeader
  <2>1. /\ cpc' = "response" /\ s2c' = <<>> /\ UNCHANGED <<faulted, link, cmd>> /\ cpc \notin Ended
    BY <1>3, EarlyEmpty DEF SendHeader, Early, Ended
  <2> QED
    BY <2>1 DEF RefusalRuns
<1>4. CASE UploadAccepted \/ UploadAnswered \/ ListAnswered \/ SendBlock \/ EndOfLocal \/ WriteLocal
  <2>1. cmd # "download" /\ cmd' = cmd /\ UNCHANGED <<faulted, link>>
    BY <1>0, <1>4 DEF UploadAccepted, UploadAnswered, ListAnswered, SendBlock, EndOfLocal,
       WriteLocal, Await, Where
  <2> QED
    BY <2>1 DEF RefusalRuns
<1>5. CASE DownloadAnswered
  <2>1. /\ cpc = "response" /\ cpc' = (IF Downloadable THEN "receive" ELSE "failed")
        /\ cmd = "download" /\ s2c # <<>> /\ UNCHANGED <<faulted, link, cmd, asked, store>>
    BY <1>5 DEF DownloadAnswered, Await, server, store
  <2>2. Head(s2c) = s2c[1]
    BY <1>0, <2>1 DEF ToClient
  <2>3. Reason => Reason'
    BY <2>1 DEF Reason, Fits, store
  <2> QED
    BY <2>1, <2>2, <2>3 DEF RefusalRuns, Downloadable, Accepted, Ended
<1>6. CASE ReceiveBlock \/ EndOfAnswer
  <2>1. /\ cpc' \in {"receive", "done"} /\ cpc \notin Ended /\ UNCHANGED <<link, cmd>>
        /\ faulted' = faulted \/ faulted' = TRUE
    BY <1>6 DEF ReceiveBlock, EndOfAnswer, Await, Ended
  <2> QED
    BY <2>1 DEF RefusalRuns, Ended
<1>7. CASE ClientFails
  <2>1. /\ link # "up" /\ cpc \notin Ended /\ UNCHANGED <<faulted, link, cmd>>
    BY <1>7 DEF ClientFails, Ended
  <2> QED
    BY <2>1 DEF RefusalRuns
<1>15. CASE LocalFails
  BY <1>15 DEF LocalFails, RefusalRuns
<1>16. CASE RestartServer
  <2>1. /\ cpc \in Ended /\ since' = runs
        /\ UNCHANGED <<cmd, cpc, link, s2c, asked, stored, written, records, faulted>>
    BY <1>16 DEF RestartServer, progress
  <2>2. since \in Int /\ since' \in Int /\ since' >= since
        /\ \A record \in records : record.run \in Int
    BY <1>0, <2>1 DEF Typed, Kept
  <2>3. Reason => Reason'
    BY <2>1, <2>2, ReasonStays
  <2> QED
    BY <2>1, <2>3 DEF RefusalRuns, Ended
<1>8. CASE ServeUpload \/ ServeList
  <2>1. cmd # "download" /\ cmd' = cmd /\ link' = link
    <3>1. NextHeader("upload") \/ NextHeader("list")
      BY <1>8 DEF ServeUpload, ServeList
    <3> QED
      BY <3>1, HeaderRead
  <2>2. faulted' = TRUE \/ faulted' = faulted
    BY <1>8 DEF ServeUpload, ServeList
  <2> QED
    BY <2>1, <2>2 DEF RefusalRuns
<1>9. CASE ReceiveBody \/ StoreBody
  <2>1. cmd # "download" /\ cmd' = cmd /\ link' = link /\ (faulted' = TRUE \/ faulted' = faulted)
    BY <1>0, <1>9 DEF ReceiveBody, StoreBody, Saves, Receiving
  <2> QED
    BY <2>1 DEF RefusalRuns
<1>10. CASE MisreadBlock
  <2>1. cmd # "download" /\ cmd' = cmd /\ faulted' = faulted /\ (link' = link \/ link' = "server_closed")
    BY <1>10, Misread
  <2> QED
    BY <2>1 DEF RefusalRuns
<1>11. CASE ServeDownload
  BY <1>11, RefusalServed
<1>12. CASE ServerCloses
  <2>1. /\ link = "broken" \/ cpc \in Ended
        /\ link' = IF link = "up" THEN "server_closed" ELSE link
        /\ UNCHANGED <<cmd, cpc, s2c, asked, store, faulted>>
    BY <1>12 DEF ServerCloses, progress
  <2>2. Reason => Reason'
    BY <2>1 DEF Reason, Fits, store
  <2> QED
    BY <2>1, <2>2 DEF RefusalRuns, Ended
<1>13. CASE Break
  BY <1>13 DEF Break, RefusalRuns
<1>14. CASE UNCHANGED vars
  <2>1. UNCHANGED <<cmd, cpc, link, s2c, asked, store, faulted>>
    BY <1>14 DEF vars, store
  <2>2. Reason => Reason'
    BY <2>1 DEF Reason, Fits, store
  <2> QED
    BY <2>1, <2>2 DEF RefusalRuns
<1> QED
  BY <1>1, <1>2, <1>3, <1>4, <1>5, <1>6, <1>7, <1>8, <1>9, <1>10, <1>11, <1>12, <1>13,
     <1>14, <1>15, <1>16 DEF Next, ClientStep, ServerStep

-----------------------------------------------------------------------------
(* The theorems *)

\* Every step keeps the types; in particular a download never takes a block for its
\* response or a response for a block, and the server no header for a block of a body.
THEOREM TransferTypes == Spec => []TypeOK
<1>1. Shape => TypeOK
  <2> SUFFICES ASSUME Shape PROVE TypeOK
    OBVIOUS
  <2>1. c2s \in Seq(Message)
    <3>1. CASE HeaderWaits
      <4>1. PICK h \in Header : h = RequestHeader(cmd, size, hash, asked)
        BY <3>1, HeaderTyped DEF HeaderWaits, Shape
      <4>2. c2s = <<h>> /\ h \in Message
        BY <3>1, <4>1, Kinds DEF HeaderWaits
      <4> QED
        BY <4>2
    <3>2. CASE c2s \in Seq(FileBlock)
      <4>1. FileBlock \subseteq Message
        BY Kinds
      <4> QED
        BY <3>2, <4>1, SeqOfMore
    <3> QED
      BY <3>1, <3>2 DEF Shape, ToServer
  <2>2. s2c \in Seq(Message) /\ sreq \in Message \cup {NoRequest}
    BY Kinds DEF Shape, ToClient, Typed
  <2>3. cpc \in Ended \cup {"stat", "hash", "open", "request", "response", "send",
                            "status", "receive"}
    BY DEF Shape, Where, Ended
  <2>4. /\ stored \in Seq(BlockOfFile) \cup {Missing}
        /\ written \in 0..MaxRuns /\ since \in 0..MaxRuns
        /\ records \subseteq [run : 1..MaxRuns, content : Seq(BlockOfFile)]
    BY TransferBoundsAssumption DEF Shape, Typed, Kept
  <2> QED
    BY <2>1, <2>2, <2>3, <2>4 DEF Shape, Typed, Where, TypeOK
<1> QED
  BY <1>1, ShapeAlways, PTL

\* An upload that the client calls completed is recorded, block for block what was
\* hashed, and the file behind the remote name is that content, or that without its
\* last block after a failing fclose: whatever is written to the local file meanwhile,
\* however the rest of its body is misread, and wherever connections break.  For
\* sizes that an int can count.
THEOREM UploadWhole == Spec => []UploadedIsWhole
<1>1. Init => UploadRuns
  BY DEF Init, UploadRuns
<1>2. UploadRuns => UploadedIsWhole
  BY DEF UploadRuns, Settled, Upload, Whole, UploadedIsWhole
<1> QED
  BY <1>1, <1>2, UploadNext, ShapeAlways, PTL DEF Spec

\* A download that starts from nothing, and with an offset that happens to be 0, ends
\* with the file of the server, which is the content of one of its documents, or with
\* that without its last block after a failing fclose of the client.
THEOREM DownloadWhole == Spec => []FreshDownloadIsWhole
<1>1. Init => DownloadRuns
  BY DEF Init, DownloadRuns
<1>2. DownloadRuns => FreshDownloadIsWhole
  BY DEF DownloadRuns, Described, FreshDownloadIsWhole
<1> QED
  BY <1>1, <1>2, DownloadNext, ShapeAlways, PTL DEF Spec

\* When nothing fails a download is refused for a file that is not there or is empty,
\* an offset outside of it, or a document that does not fit the file and the key (of
\* an earlier upload, of a cut file, of an earlier server), and for nothing else.
THEOREM RefusalJustified == Spec => []RefusedForAReason
<1>1. Init => RefusalRuns
  BY DEF Init, RefusalRuns
<1>2. RefusalRuns => RefusedForAReason
  BY DEF RefusalRuns, Reason, RefusedForAReason
<1> QED
  BY <1>1, <1>2, RefusalNext, ShapeAlways, PTL DEF Spec

===============================================================================
