---------------------------- MODULE SocketLoops ----------------------------
(***************************************************************************)
(* ssl_send_all and ssl_recv_all of client.c and server.c: loops that move *)
(* a message through TLS in pieces, and the one call of SSL_read with      *)
(* which handle_client takes a request header and which is not in a loop.  *)
(* Beside them send_all and recv_all of utils.c, the same loops over a     *)
(* plain socket, which protocol.h offers and no program of today calls.    *)
(* One direction of a connection; the other is the same.                   *)
(*                                                                         *)
(* A byte is the pair of the message it belongs to and its place there.    *)
(* TLS keeps the boundaries of records: SSL_read returns bytes of one      *)
(* record only.  A plain socket keeps none.                                *)
(***************************************************************************)
EXTENDS Naturals, Sequences

CONSTANTS
    Script,      \* the messages to send: their kind and their length
    Transport,   \* "tls", "plain" or both
    RecordMax,   \* bytes in a TLS record
    Capacity     \* records, or plain bytes, the buffers of the connection hold

\* A message of no bytes is no turn of any loop and is left out.
ASSUME ScriptAssumption ==
    /\ Script \in Seq([kind : {"header", "body"}, length : Nat \ {0}])
    /\ Transport \subseteq {"tls", "plain"}
ASSUME HeaderAssumption ==  \* sizeof(RequestHeader) is below 2^14
    /\ RecordMax \in Nat \ {0} /\ Capacity \in Nat \ {0}
    /\ \A m \in DOMAIN Script : Script[m].kind = "header" =>
          Script[m].length \in 1..RecordMax

\* Message m, byte by byte.
Bytes(m) == [i \in 1..Script[m].length |-> <<m, i>>]

VARIABLES
    transport,  \* what the connection runs over
    fault,      \* what has become of it: "none", "reset", "left" (one end is gone)
    tx,         \* the sending loop: "sending", "done", "failed"
    out,        \* the message it sends
    sent,       \* total_sent
    wire,       \* the records under way
    rx,         \* the receiving loop: "receiving", "done", "failed", "short"
    buffer,     \* what it has read of a message
    received    \* the messages it has returned

vars == <<transport, fault, tx, out, sent, wire, rx, buffer, received>>

Least(a, b) == IF a < b THEN a ELSE b

-----------------------------------------------------------------------------
(* The sending loop *)

Sending == tx = "sending" /\ out <= Len(Script)

\* Bytes sent+1 to sent+n of the message.
Piece(n) == [i \in 1..n |-> Bytes(out)[sent + i]]

\* Mutant of SslSendPiece: a header goes out field by field, each with a call of its own.
SendHeaderInFields ==
    /\ Sending /\ sent < Script[out].length
    /\ transport = "tls" /\ Len(wire) < Capacity
    /\ LET n == IF Script[out].kind = "header" THEN 1
                ELSE Least(Script[out].length - sent, RecordMax) IN
       wire' = Append(wire, Piece(n)) /\ sent' = sent + n
    /\ UNCHANGED <<transport, fault, tx, out, rx, buffer, received>>

\* Mutant of SslSendPiece: the room in the buffers is not looked at.
SendPieceBlindly ==
    /\ Sending /\ sent < Script[out].length
    /\ transport = "tls"
    /\ LET n == Least(Script[out].length - sent, RecordMax) IN
       wire' = Append(wire, Piece(n)) /\ sent' = sent + n
    /\ UNCHANGED <<transport, fault, tx, out, rx, buffer, received>>

\* ssl_send_all: SSL_write cuts what is left into records, the calls inside it one
\* by one here.  The loop knows no EINTR: on a blocking socket SSL_write waits on.
SslSendPiece ==
    /\ Sending /\ sent < Script[out].length
    /\ transport = "tls" /\ Len(wire) < Capacity
    /\ LET n == Least(Script[out].length - sent, RecordMax) IN
       wire' = Append(wire, Piece(n)) /\ sent' = sent + n
    /\ UNCHANGED <<transport, fault, tx, out, rx, buffer, received>>

\* send_all: send takes what there is room for.  An interrupted send (EINTR) is
\* repeated and changes nothing.
PlainSendPiece ==
    /\ Sending
    /\ \E n \in 1..(Script[out].length - sent) :
          /\ transport = "plain" /\ Len(wire) + n <= Capacity
          /\ wire' = wire \o [i \in 1..n |-> <<Piece(n)[i]>>]
          /\ sent' = sent + n
    /\ UNCHANGED <<transport, fault, tx, out, rx, buffer, received>>

\* Mutant of SendReturns: one call is taken for all of the message.
SendReturnsEarly ==
    /\ Sending /\ sent > 0
    /\ out' = out + 1 /\ sent' = 0
    /\ tx' = IF out = Len(Script) THEN "done" ELSE "sending"
    /\ UNCHANGED <<transport, fault, wire, rx, buffer, received>>

\* The loop returns 0, and the program sends its next message, if any.
SendReturns ==
    /\ Sending /\ sent = Script[out].length
    /\ out' = out + 1 /\ sent' = 0
    /\ tx' = IF out = Len(Script) THEN "done" ELSE "sending"
    /\ UNCHANGED <<transport, fault, wire, rx, buffer, received>>

\* It returns -1: the connection is broken, or the other end has closed it.
SendFails ==
    /\ Sending /\ sent < Script[out].length
    /\ fault = "reset" \/ rx \in {"failed", "short"}
    /\ tx' = "failed"
    /\ UNCHANGED <<transport, fault, out, sent, wire, rx, buffer, received>>

-----------------------------------------------------------------------------
(* The receiving side *)

\* The message it reads next, and how much of it is missing.
In == Len(received) + 1
Receiving == rx = "receiving" /\ In <= Len(Script)
Missing == Script[In].length - Len(buffer)

\* What SSL_read of at most n bytes returns, with the rest of the records.
RecordRead(n) ==
    LET k == Least(n, Len(Head(wire))) IN
    [bytes |-> SubSeq(Head(wire), 1, k),
     rest |-> IF k = Len(Head(wire)) THEN Tail(wire)
              ELSE <<SubSeq(Head(wire), k + 1, Len(Head(wire)))>> \o Tail(wire)]

\* What recv of at most n bytes may return; MSG_WAITALL may still return less.
SocketReads(n) ==
    {[bytes |-> [i \in 1..k |-> wire[i][1]],
      rest |-> SubSeq(wire, k + 1, Len(wire))] : k \in 1..Least(n, Len(wire))}

\* ssl_recv_all reads what is missing of a body or of the response to a header.
SslReceivePiece ==
    /\ Receiving /\ Missing > 0 /\ wire # <<>>
    /\ transport = "tls" /\ Script[In].kind = "body"
    /\ LET r == RecordRead(Missing) IN wire' = r.rest /\ buffer' = buffer \o r.bytes
    /\ UNCHANGED <<transport, fault, tx, out, sent, rx, received>>

\* recv_all does so from a plain socket, a header too.
PlainReceivePiece ==
    /\ Receiving /\ Missing > 0 /\ wire # <<>>
    /\ transport = "plain"
    /\ \E r \in SocketReads(Missing) : wire' = r.rest /\ buffer' = buffer \o r.bytes
    /\ UNCHANGED <<transport, fault, tx, out, sent, rx, received>>

\* The loop has all and returns; the program reads its next message, if any.
ReceiveReturns ==
    /\ Receiving /\ Missing = 0
    /\ received' = Append(received, buffer)
    /\ buffer' = <<>>
    /\ rx' = IF In = Len(Script) THEN "done" ELSE "receiving"
    /\ UNCHANGED <<transport, fault, tx, out, sent, wire>>

\* handle_client: a header is read by one SSL_read; anything but all of it ends
\* the connection.
ReadHeader ==
    /\ Receiving /\ transport = "tls" /\ Script[In].kind = "header" /\ wire # <<>>
    /\ Missing > 0
    /\ LET r == RecordRead(Script[In].length) IN
          /\ wire' = r.rest /\ buffer' = r.bytes
          /\ rx' = IF Len(r.bytes) = Script[In].length THEN rx ELSE "short"
    /\ UNCHANGED <<transport, fault, tx, out, sent, received>>

\* Mutant of ReceiveFails: the end of the stream is no error for the loop.
ReceiveWaits ==
    /\ Receiving /\ Missing > 0
    /\ fault = "reset"
    /\ rx' = "failed"
    /\ UNCHANGED <<transport, fault, tx, out, sent, wire, buffer, received>>

\* It returns -1: the connection is broken, or nothing more will come.
ReceiveFails ==
    /\ Receiving /\ Missing > 0
    /\ fault = "reset" \/ (wire = <<>> /\ tx # "sending")
    /\ rx' = "failed"
    /\ UNCHANGED <<transport, fault, tx, out, sent, wire, buffer, received>>

-----------------------------------------------------------------------------

\* External: the connection is reset, and every call on it fails.
Reset ==
    /\ fault = "none" /\ fault' = "reset"
    /\ UNCHANGED <<transport, tx, out, sent, wire, rx, buffer, received>>

\* External: the process of one end is killed, and the kernel closes its socket.
Leave ==
    /\ fault = "none" /\ fault' = "left"
    /\ \/ tx = "sending" /\ tx' = "failed" /\ UNCHANGED rx
       \/ rx = "receiving" /\ rx' = "failed" /\ UNCHANGED tx
    /\ UNCHANGED <<transport, out, sent, wire, buffer, received>>

Init ==
    /\ transport \in Transport /\ fault = "none"
    /\ tx = "sending" /\ out = 1 /\ sent = 0
    /\ wire = <<>>
    /\ rx = "receiving" /\ buffer = <<>> /\ received = <<>>

SendStep == SslSendPiece \/ PlainSendPiece \/ SendReturns \/ SendFails
ReceiveStep ==
    \/ SslReceivePiece \/ PlainReceivePiece \/ ReadHeader
    \/ ReceiveReturns \/ ReceiveFails

Next == SendStep \/ ReceiveStep \/ Reset \/ Leave

Spec == Init /\ [][Next]_vars

\* Both programs are scheduled; blocked calls on a reset connection return.
FairSpec == Spec /\ WF_vars(SendStep) /\ WF_vars(ReceiveStep)

-----------------------------------------------------------------------------
(* Properties *)

Byte == (1..Len(Script)) \X (Nat \ {0})

TypeOK ==
    /\ transport \in Transport /\ fault \in {"none", "reset", "left"}
    /\ tx \in {"sending", "done", "failed"}
    /\ out \in 1..(Len(Script) + 1) /\ sent \in Nat
    /\ wire \in Seq(Seq(Byte))
    /\ \A i \in DOMAIN wire : Len(wire[i]) \in 1..RecordMax
    /\ Len(wire) <= Capacity
    /\ rx \in {"receiving", "done", "failed", "short"}
    /\ buffer \in Seq(Byte) /\ received \in Seq(Seq(Byte))

\* The one SSL_read of a request header is enough: a header is sent by one
\* ssl_send_all and fits a record, and the loops before it read their messages to
\* the last byte and no byte further, so that it begins a record.
HeaderInOneRead == rx # "short"

\* Both loops come to an end, full buffers or not: the sender fails once the other
\* side has, and a receiver that waits for more than will come fails.  Unless the
\* connection is reset or an end is killed, everything has arrived by then: no loop
\* gives up by itself, and none keeps a piece back when it returns.
LoopsEnd ==
    <>[](/\ tx # "sending" /\ rx # "receiving"
         /\ fault = "none" => received = [m \in 1..Len(Script) |-> Bytes(m)])

\* The loops make a socket what Transfer takes for granted: however a message was cut,
\* it arrives byte for byte, in order, and only once its sending has begun; no piece
\* is lost, repeated or taken from a neighbour.
Stream == INSTANCE Channel WITH
    Message <- {Bytes(m) : m \in DOMAIN Script},
    given <- [m \in 1..(IF sent > 0 THEN out ELSE out - 1) |-> Bytes(m)],
    taken <- received
ImplementsChannel == Stream!Spec
=============================================================================
