----------------------------- MODULE MCServlet -----------------------------
(***************************************************************************)
(* The requests a client may send: both versions, with and without a       *)
(* Connection header, without a body, with a Content-Length and chunked.   *)
(* Streams of two have every combination; streams of three end in plain    *)
(* requests.  A stream may end in text that is no request, or be one       *)
(* HTTP/0.9 request line.                                                  *)
(***************************************************************************)
EXTENDS Servlet

Headers == {"absent", "keep-alive", "close"}

Plain(v, h) == [version |-> v, method |-> "GET", connection |-> h, body |-> "none", n |-> 0,
                trailer |-> FALSE]

Plains == {Plain(v, h) : v \in {"1.0", "1.1"}, h \in Headers}

Posts == {[version |-> v, method |-> "POST", connection |-> h, body |-> "length", n |-> n,
           trailer |-> FALSE] : v \in {"1.0", "1.1"}, h \in Headers, n \in 0 .. 2}

Puts == {[version |-> "1.1", method |-> "PUT", connection |-> h, body |-> "chunks", n |-> 2,
          trailer |-> t] : h \in Headers, t \in BOOLEAN}

Malformed == Plain("bad", "close")
Simple    == Plain("0.9", "absent")

All == Plains \cup Posts \cup Puts

MCStreams ==
    LET two   == {<<a, b>> : a \in All, b \in All}
        three == {<<a, b, c>> : a \in {r \in All : r.n = 2 /\ r.connection = "absent"},
                                b \in Plains \cup Puts, c \in Plains \cup {Malformed}}
    IN  two \cup three \cup {<<Simple>>, <<Malformed>>}
=============================================================================
