------------------------------- MODULE Servlet -------------------------------
(***************************************************************************)
(* HTTPSServer::servlet (src/src/http/serv/HTTPSServer.h): one connection, *)
(* from the handshake to its close.  The client's requests are pipelined   *)
(* or not, and SSL_read returns them cut anywhere; the servlet feeds the   *)
(* parser, hands every complete request to the core and writes the         *)
(* response.                                                               *)
(***************************************************************************)
EXTENDS RequestParser

CONSTANTS
    Streams,      \* sequences of requests a client may send on the connection
    BufferSize    \* most lexemes one SSL_read returns

ASSUME BufferSizeAssumption == BufferSize \in Nat \ {0}

\* A request, or text that is none (version "bad").  A body comes with a method
\* that has one, a chunk has data, and HTTP/0.9 has no headers.
Requests == [version : {"0.9", "1.0", "1.1", "bad"}, method : STRING,
             connection : {"absent", "keep-alive", "close"},
             body : {"none", "length", "chunks"}, n : Nat, trailer : BOOLEAN]

WellFormed(r) == /\ r.body # "none" => r.method \in BodyMethods
                 /\ r.body = "chunks" => r.n > 0
                 /\ r.version = "0.9" => r.connection = "absent" /\ r.body = "none"

\* an HTTP/0.9 request is the first of its connection
ASSUME StreamsAssumption ==
    \A rs \in Streams : /\ rs \in Seq(Requests)
                        /\ \A k \in DOMAIN rs : /\ WellFormed(rs[k])
                                                /\ rs[k].version = "0.9" => k = 1

VARIABLES
    requests,    \* the requests the client sends
    stream,      \* the same as lexemes
    pc,          \* where the servlet is
    read,        \* lexemes of the stream read from the connection so far
    parsed,      \* lexemes consumed by the parser so far
    parser,      \* the RequestParser
    handled,     \* the requests passed to the core, in order
    replies,     \* the replies the client received, in order
    broken       \* the connection failed or the client stopped half way

vars == <<requests, stream, pc, read, parsed, parser, handled, replies, broken>>

-----------------------------------------------------------------------------
(* The client.  A request is a record of its method, version, Connection     *)
(* header and body; a body is a Content-Length, or a sequence of chunks.     *)

Repeat(x, n) == [i \in 1 .. n |-> x]

\* one chunk: its size, its data and the line ends after each
EncodeChunk(id, n) == <<Size(n), LF>> \o Repeat(Byte(id), n) \o <<CRLF>>

EncodeBody(id, r) ==
    CASE r.body = "none"   -> <<CR, LF>>
      [] r.body = "length" -> <<Length(r.n), CR, LF>> \o Repeat(Byte(id), r.n)
      [] r.body = "chunks" -> <<Encoding, CR, LF>> \o EncodeChunk(id, r.n)
                                \o <<Size(0), LF>>
                                \o (IF r.trailer THEN <<Trailer, LF>> ELSE <<>>) \o <<CR, LF>>

Encode(id, r) ==
    CASE r.version = "0.9" -> <<Line(id, "0.9", r.method), LF>>
      [] r.version = "bad" -> <<Bad>>
      [] OTHER -> <<Line(id, r.version, r.method)>>
                    \o (IF r.connection = "absent" THEN <<>> ELSE <<Conn(r.connection)>>)
                    \o EncodeBody(id, r)

EncodeAll(rs) ==
    LET upTo[k \in 0 .. Len(rs)] == IF k = 0 THEN <<>> ELSE upTo[k - 1] \o Encode(k, rs[k])
    IN  upTo[Len(rs)]

\* what the core must be given for the request, and whether the connection
\* stays open after the reply
Content(id, r) == IF r.body = "none" THEN <<>> ELSE Repeat(id, r.n)

WantsKeepAlive(r) == \/ r.connection = "keep-alive"
                     \/ r.connection = "absent" /\ r.version = "1.1"

\* the requests a reply is due for: well-formed ones, up to the first that is
\* not or that ends the connection
Due(k) == /\ \A j \in 1 .. k : requests[j].version # "bad"
          /\ \A j \in 1 .. k - 1 : WantsKeepAlive(requests[j])

-----------------------------------------------------------------------------
Init == /\ requests \in Streams
        /\ stream = EncodeAll(requests)
        /\ pc = "handshake"
        /\ read = 0
        /\ parsed = 0
        /\ parser = NewParser
        /\ handled = <<>>
        /\ replies = <<>>
        /\ broken = FALSE

TypeOK == /\ pc \in {"handshake", "read", "parse", "closed"}
          /\ parsed \in 0 .. read
          /\ read \in 0 .. Len(stream)
          /\ parser.state \in States
          /\ parser.result \in Results
          /\ parser.contentSize \in Nat /\ parser.chunkSize \in Nat
          /\ broken \in BOOLEAN

Close == pc' = "closed"

\* SSL_accept
Handshake == /\ pc = "handshake"
             /\ pc' = "read"
             /\ UNCHANGED <<requests, stream, read, parsed, parser, handled, replies, broken>>

HandshakeFails == /\ pc = "handshake"
                  /\ broken' = TRUE
                  /\ Close
                  /\ UNCHANGED <<requests, stream, read, parsed, parser, handled, replies>>

\* SSL_read returns data
Read == /\ pc = "read"
        /\ ~broken
        /\ \E n \in 1 .. BufferSize : /\ read + n <= Len(stream)
                                      /\ read' = read + n
        /\ pc' = "parse"
        /\ UNCHANGED <<requests, stream, parsed, parser, handled, replies, broken>>

\* bug: the loop goes on when SSL_read returns 0
ReadEndsIgnored == /\ pc = "read"
                   /\ read < Len(stream)
                   /\ broken' = TRUE
                   /\ Close
                   /\ UNCHANGED <<requests, stream, read, parsed, parser, handled, replies>>

\* SSL_read returns 0 or less: the client has closed the connection, or nothing
\* arrived for rcv_timeout seconds, or the connection is broken
ReadEnds == /\ pc = "read"
            /\ broken' = (broken \/ read < Len(stream))
            /\ Close
            /\ UNCHANGED <<requests, stream, read, parsed, parser, handled, replies>>

\* parser.parse() reaches the end of the buffer
ParseIncomplete == /\ pc = "parse"
                   /\ parsed = read
                   /\ pc' = "read"
                   /\ UNCHANGED <<requests, stream, read, parsed, parser, handled, replies, broken>>

\* the request the parser holds, as the core sees it
Request(p) == [id |-> p.id, content |-> p.content]

\* bug: what is left in the buffer is dropped after a request
ContinueDropsRest(p, at) ==
    IF p.keepAlive
    THEN parser' = reset(p) /\ parsed' = read /\ pc' = "read"
    ELSE parser' = p /\ parsed' = at /\ Close

\* after a reply: keep the connection and parse what is left in the buffer, or close
Continue(p, at) ==
    IF p.keepAlive
    THEN parser' = reset(p) /\ parsed' = at /\ pc' = IF at # read THEN "parse" ELSE "read"
    ELSE parser' = p /\ parsed' = at /\ Close

\* The core's reply is written.  SSL_write's -1 is compared with an unsigned
\* length, so a failed write is taken for a success and the loop goes on.
Reply(p, at) ==
    /\ handled' = Append(handled, Request(p))
    /\ \/ ~broken /\ replies' = Append(replies, p.id) /\ UNCHANGED broken
       \/ broken' = TRUE /\ UNCHANGED replies
    /\ Continue(p, at)

\* SSL_write returns 0: the peer has shut the connection down
ReplyShutdown(p, at) ==
    /\ handled' = Append(handled, Request(p))
    /\ broken' = TRUE
    /\ parser' = p /\ parsed' = at
    /\ Close
    /\ UNCHANGED replies

\* a reply of 400 Bad Request, written whatever SSL_write returns
BadRequest(p, at) ==
    /\ \/ ~broken /\ replies' = Append(replies, 0) /\ UNCHANGED broken
       \/ broken' = TRUE /\ UNCHANGED replies
    /\ parser' = p /\ parsed' = at
    /\ Close
    /\ UNCHANGED handled

\* one lexeme of parser.parse() and what the servlet does with the result
Parse == /\ pc = "parse"
         /\ parsed < read
         /\ LET p  == consume(parser, stream[parsed + 1])
                at == parsed + 1
            IN  \/ /\ p.result = "incomplete"
                   /\ parser' = p /\ parsed' = at
                   /\ UNCHANGED <<pc, handled, replies, broken>>
                \/ p.result = "completed" /\ (Reply(p, at) \/ ReplyShutdown(p, at))
                \/ p.result = "failed" /\ BadRequest(p, at)
         /\ UNCHANGED <<requests, stream, read>>

Step == Handshake \/ HandshakeFails \/ Read \/ ReadEnds \/ ParseIncomplete \/ Parse

Closed == pc = "closed" /\ UNCHANGED vars

Next == Step \/ Closed

Spec == Init /\ [][Next]_vars

\* the servlet's thread is scheduled, and SSL_read returns within rcv_timeout
FairSpec == Spec /\ WF_vars(Step)

-----------------------------------------------------------------------------
(* The core is given the client's requests in order, each with exactly its own
   body, however the stream is cut into reads and whatever the earlier requests
   on the connection left in the parser (RequestParser::reset, servlet's goto
   keep_alive). *)
RequestsFramed ==
    \A k \in DOMAIN handled : /\ k <= Len(requests)
                              /\ handled[k] = [id |-> k, content |-> Content(k, requests[k])]

(* Replies arrive in the order of the requests and none is skipped, also when a
   write fails and the servlet does not notice (HTTPSServer.h:435). *)
RepliesInOrder ==
    \A k \in DOMAIN replies : replies[k] = k \/ (replies[k] = 0 /\ k = Len(replies))

(* 400 Bad Request answers only malformed input: it is never sent to a client
   whose requests so far were well formed (HTTPSServer.h:450-466). *)
BadRequestDeserved ==
    \A k \in DOMAIN replies : replies[k] = 0 =>
        k <= Len(requests) /\ requests[k].version = "bad"

(* When the servlet closes a connection that did not fail, every request the
   client sent up to the one that ends the connection has its reply. *)
AllAnswered ==
    pc = "closed" /\ ~broken =>
        \A k \in DOMAIN requests : Due(k) => k \in DOMAIN replies /\ replies[k] = k

(* The servlet's thread comes back: every connection is closed. *)
ConnectionCloses == <>(pc = "closed")

(* A connection outlives a reply only when that request asked for it: by its
   Connection header or, without one, because "keep alive for HTTP/1.1 is the
   default" (RequestParser.cpp:341), and reset() clears what the request before
   it left behind (RequestParser.h:107, RequestBuffer.h:36). *)
KeepAliveIsOwn ==
    \A k \in DOMAIN handled : k < Len(handled) \/ pc \in {"read", "parse"} =>
        WantsKeepAlive(requests[k])
=============================================================================
