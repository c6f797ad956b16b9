---------------------------- MODULE RequestParser ----------------------------
(***************************************************************************)
(* RequestParser and RequestBuffer (src/src/http/serv/RequestParser.cpp,   *)
(* RequestParser.h, RequestBuffer.h) as operators on a parser value.       *)
(*                                                                         *)
(* The input is a sequence of lexemes instead of characters.  A lexeme is  *)
(* the text the parser reads between two states named below, so a request  *)
(* line, a header line and a chunk size with its extensions are one lexeme *)
(* each, and a "bad" lexeme is text that no state but a body accepts.  A   *)
(* body byte carries the number of the request it belongs to.              *)
(***************************************************************************)
EXTENDS Naturals, Sequences

\* lexemes
Line(id, v, m) == [kind |-> "line", id |-> id, version |-> v, method |-> m]
Conn(v)        == [kind |-> "conn", value |-> v]
Length(n)      == [kind |-> "length", n |-> n]
Encoding       == [kind |-> "encoding"]
Size(n)        == [kind |-> "size", n |-> n]
Trailer        == [kind |-> "trailer"]
Byte(id)       == [kind |-> "byte", id |-> id]
CR             == [kind |-> "cr"]
LF             == [kind |-> "lf"]
CRLF           == [kind |-> "crlf"]
Bad            == [kind |-> "bad"]

States == {"RequestMethodStart", "HeaderLineStart", "ExpectingNewline_3",
           "Post", "ChunkSize", "ChunkSizeNewLine", "ChunkSizeNewLine_2",
           "ChunkSizeNewLine_3", "ChunkData", "ChunkDataNewLine_1"}

Results == {"completed", "incomplete", "failed"}

\* the methods for which Content-Length and Transfer-Encoding are read
BodyMethods == {"POST", "PUT", "PATCH", "DELETE"}

\* a RequestParser as constructed; connection is the value of the first
\* Connection header among the collected headers
NewParser == [state |-> "RequestMethodStart", result |-> "incomplete",
              id |-> 0, method |-> "", version |-> "", connection |-> "absent",
              content |-> <<>>, keepAlive |-> FALSE,
              contentSize |-> 0, chunked |-> FALSE, chunkSize |-> 0]

\* bug: reset() keeps chunked
resetKeepsChunked(p) == [NewParser EXCEPT !.keepAlive = p.keepAlive,
                                          !.version = p.version,
                                          !.chunked = p.chunked]

\* bug: RequestBuffer::clear() keeps the content
resetKeepsContent(p) == [NewParser EXCEPT !.keepAlive = p.keepAlive,
                                          !.version = p.version,
                                          !.content = p.content]

\* RequestParser::reset() with RequestBuffer::clear(), which leaves the version
\* and keepAlive of the previous request in place
reset(p) == [NewParser EXCEPT !.keepAlive = p.keepAlive, !.version = p.version]

-----------------------------------------------------------------------------
Fail(p)     == [p EXCEPT !.result = "failed"]
Complete(p) == [p EXCEPT !.result = "completed"]
To(p, s)    == [p EXCEPT !.state = s]

\* a state that accepts the lexemes of one kind and goes on to state s
Expect(p, c, kind, s) == IF c.kind = kind THEN To(p, s) ELSE Fail(p)

\* RequestMethodStart to RequestHttpVersion_newLine; an HTTP/0.9 request line
\* ends the request at its '\r'
RequestLine(p, c) ==
    IF c.kind # "line" THEN Fail(p)
    ELSE LET q == [p EXCEPT !.id = c.id, !.method = c.method, !.version = c.version]
         IN  IF c.version = "0.9" THEN Complete(q) ELSE To(q, "HeaderLineStart")

\* HeaderLineStart to ExpectingNewline_2
HeaderLine(p, c) ==
    CASE c.kind = "cr" -> To(p, "ExpectingNewline_3")
      [] c.kind = "conn" ->
            [p EXCEPT !.connection = IF @ = "absent" THEN c.value ELSE @]
      [] c.kind = "length" ->
            [p EXCEPT !.contentSize = IF p.method \in BodyMethods THEN c.n ELSE @]
      [] c.kind = "encoding" ->
            [p EXCEPT !.chunked = @ \/ p.method \in BodyMethods]
      [] OTHER -> Fail(p)

\* the Connection header decides; without one HTTP/1.1 keeps the connection
KeepAlive(p) ==
    CASE p.connection = "keep-alive" -> TRUE
      [] p.connection = "close" -> FALSE
      [] OTHER -> p.keepAlive \/ p.version = "1.1"

EndOfHeaders(p, c) ==
    LET q == [p EXCEPT !.keepAlive = KeepAlive(p)]
    IN  CASE p.chunked -> To(q, "ChunkSize")
          [] ~p.chunked /\ p.contentSize > 0 -> To(q, "Post")
          [] OTHER -> IF c.kind = "lf" THEN Complete(q) ELSE Fail(q)

\* Post and ChunkData take any character
Body(p, c) == IF c.kind = "byte" THEN Append(p.content, c.id) ELSE Append(p.content, 0)

Post(p, c) ==
    LET q == [p EXCEPT !.contentSize = @ - 1, !.content = Body(p, c)]
    IN  IF q.contentSize = 0 THEN Complete(q) ELSE q

\* ChunkSize, ChunkExtensionName, ChunkExtensionValue: the digits up to '\r'
ChunkSize(p, c) == IF c.kind = "size" THEN [To(p, "ChunkSizeNewLine") EXCEPT !.chunkSize = c.n]
                   ELSE Fail(p)

ChunkSizeNewLine(p, c) ==
    Expect(p, c, "lf", IF p.chunkSize = 0 THEN "ChunkSizeNewLine_2" ELSE "ChunkData")

\* ChunkSizeNewLine_2, ChunkTrailerName, ChunkTrailerValue: after a trailer line
\* the parser expects its '\n' in ChunkSizeNewLine, where the size is still 0
ChunkSizeNewLine_2(p, c) ==
    CASE c.kind = "cr" -> To(p, "ChunkSizeNewLine_3")
      [] c.kind = "trailer" -> To(p, "ChunkSizeNewLine")
      [] OTHER -> Fail(p)

ChunkSizeNewLine_3(p, c) == IF c.kind = "lf" THEN Complete(p) ELSE Fail(p)

\* bug: the size is tested before it is decremented
ChunkDataPostDecrement(p, c) ==
    LET q == [p EXCEPT !.chunkSize = @ - 1, !.content = Body(p, c)]
    IN  IF p.chunkSize = 0 THEN To(q, "ChunkDataNewLine_1") ELSE q

ChunkData(p, c) ==
    LET q == [p EXCEPT !.chunkSize = @ - 1, !.content = Body(p, c)]
    IN  IF q.chunkSize = 0 THEN To(q, "ChunkDataNewLine_1") ELSE q

\* ChunkDataNewLine_1 and _2
ChunkDataNewLine(p, c) == Expect(p, c, "crlf", "ChunkSize")

consume(p, c) ==
    CASE p.state = "RequestMethodStart" -> RequestLine(p, c)
      [] p.state = "HeaderLineStart"    -> HeaderLine(p, c)
      [] p.state = "ExpectingNewline_3" -> EndOfHeaders(p, c)
      [] p.state = "Post"               -> Post(p, c)
      [] p.state = "ChunkSize"          -> ChunkSize(p, c)
      [] p.state = "ChunkSizeNewLine"   -> ChunkSizeNewLine(p, c)
      [] p.state = "ChunkSizeNewLine_2" -> ChunkSizeNewLine_2(p, c)
      [] p.state = "ChunkSizeNewLine_3" -> ChunkSizeNewLine_3(p, c)
      [] p.state = "ChunkData"          -> ChunkData(p, c)
      [] p.state = "ChunkDataNewLine_1" -> ChunkDataNewLine(p, c)
=============================================================================
