--------------------------- MODULE MCSocketLoops ---------------------------
EXTENDS SocketLoops

\* A request and its body of three bytes, then a second request and its body:
\* a body ends inside a record and the next header must begin a new one.
MCScript == <<[kind |-> "header", length |-> 2], [kind |-> "body", length |-> 3],
              [kind |-> "header", length |-> 2], [kind |-> "body", length |-> 1],
              [kind |-> "body", length |-> 4]>>
=============================================================================
