--------------------------- MODULE Servlet_proofs ---------------------------
(***************************************************************************)
(* Proofs about HTTPSServer::servlet and the RequestParser it feeds, for   *)
(* every stream of requests a client may send, every size of their bodies  *)
(* and every way the stream is cut into reads.                             *)
(***************************************************************************)
EXTENDS Servlet, WellFoundedInduction, TLAPS

(***************************************************************************)
(* The stream.  What the recursive function of EncodeAll computes is shown *)
(* by induction on the number of requests, put as the absence of a least   *)
(* counterexample.                                                         *)
(***************************************************************************)

\* A non-empty set of naturals has a least element.
LEMMA LeastNatural ==
    ASSUME NEW S \in SUBSET Nat, S # {}
    PROVE  \E m \in S : \A n \in S : m <= n
<1>1. PICK m \in S : \A n \in S : ~(<<n, m>> \in OpToRel(<, Nat))
  BY WFMin, NatLessThanWellFounded, Zenon
<1>2. \A n \in S : ~(n < m)
  BY <1>1, Zenon DEF OpToRel
<1>3. \A n \in S : m <= n
  BY <1>2
<1> QED
  BY <1>3, Zenon

\* f[k] is the encoding of the first k requests of rs, as far as n.
Concatenates(f, rs, n) ==
    f = [k \in 0 .. n |-> IF k = 0 THEN <<>> ELSE f[k - 1] \o Encode(k, rs[k])]

LEMMA ConcatenationExists ==
    ASSUME NEW rs, NEW N \in Nat
    PROVE  \E f : Concatenates(f, rs, N)
<1> DEFINE S == {n \in Nat : ~ \E f : Concatenates(f, rs, n)}
<1> SUFFICES ASSUME S # {} PROVE FALSE
  BY Zenon
<1>1. PICK m \in S : \A n \in S : m <= n
  BY LeastNatural, Zenon
<1>2. m \in Nat /\ ~ \E f : Concatenates(f, rs, m)
  OBVIOUS
<1>3. m # 0
  <2>1. Concatenates([k \in 0 .. 0 |-> <<>>], rs, 0)
    BY DEF Concatenates
  <2> QED
    BY <2>1, <1>2
<1>4. m - 1 \in Nat /\ m - 1 \notin S
  BY <1>1, <1>2, <1>3
<1>5. PICK g : Concatenates(g, rs, m - 1)
  BY <1>4
<1> DEFINE h == [k \in 0 .. m |-> IF k < m THEN g[k] ELSE g[k - 1] \o Encode(k, rs[k])]
<1>6. ASSUME NEW k \in 0 .. m
      PROVE  h[k] = IF k = 0 THEN <<>> ELSE h[k - 1] \o Encode(k, rs[k])
  <2>1. CASE k < m
    <3>1. k \in 0 .. m - 1 /\ h[k] = g[k]
      BY <2>1, <1>2
    <3>2. k # 0 => h[k - 1] = g[k - 1]
      BY <2>1, <1>2
    <3> QED
      BY <3>1, <3>2, <1>5 DEF Concatenates
  <2>2. CASE k = m
    <3>1. k - 1 \in 0 .. m /\ k - 1 < m
      BY <2>2, <1>2, <1>3
    <3>2. ~(k < m) /\ k # 0
      BY <2>2, <1>2, <1>3
    <3>3. h[k] = g[k - 1] \o Encode(k, rs[k]) /\ h[k - 1] = g[k - 1]
      BY <3>1, <3>2, Zenon
    <3> QED
      BY <3>2, <3>3, Zenon
  <2> QED
    BY <2>1, <2>2, <1>2
<1>7. Concatenates(h, rs, m)
  BY <1>6, Zenon DEF Concatenates
<1> QED
  BY <1>7, <1>2

\* EncodeAll returns the last of the concatenations.
LEMMA EncodeAllConcatenates ==
    ASSUME NEW rs, Len(rs) \in Nat
    PROVE  \E f : Concatenates(f, rs, Len(rs)) /\ EncodeAll(rs) = f[Len(rs)]
<1> DEFINE g == CHOOSE f : f = [k \in 0 .. Len(rs) |->
                                  IF k = 0 THEN <<>> ELSE f[k - 1] \o Encode(k, rs[k])]
<1>1. \E f : f = [k \in 0 .. Len(rs) |-> IF k = 0 THEN <<>> ELSE f[k - 1] \o Encode(k, rs[k])]
  BY ConcatenationExists, Zenon DEF Concatenates
<1>2. g = [k \in 0 .. Len(rs) |-> IF k = 0 THEN <<>> ELSE g[k - 1] \o Encode(k, rs[k])]
  BY <1>1, Zenon
<1>3. EncodeAll(rs) = g[Len(rs)]
  BY Zenon DEF EncodeAll
<1> QED
  BY <1>2, <1>3, Zenon DEF Concatenates

\* Every concatenation begins with the earlier ones.
Grows(f, N, L) == \A m \in 0 .. N :
    /\ f[m] \in Seq(L)
    /\ \A k \in 0 .. m : /\ Len(f[k]) <= Len(f[m])
                         /\ \A i \in 1 .. Len(f[k]) : f[m][i] = f[k][i]

LEMMA ConcatenationGrows ==
    ASSUME NEW L, NEW rs, NEW N \in Nat, \A k \in 1 .. N : Encode(k, rs[k]) \in Seq(L),
           NEW f, Concatenates(f, rs, N)
    PROVE  Grows(f, N, L)
<1> DEFINE Good(m) == /\ f[m] \in Seq(L)
                      /\ \A k \in 0 .. m : /\ Len(f[k]) <= Len(f[m])
                                           /\ \A i \in 1 .. Len(f[k]) : f[m][i] = f[k][i]
<1> DEFINE S == {m \in 0 .. N : ~Good(m)}
<1> SUFFICES ASSUME S # {} PROVE FALSE
  BY Zenon DEF Grows
<1>1. PICK m \in S : \A n \in S : m <= n
  <2>1. S \in SUBSET Nat
    OBVIOUS
  <2> QED
    BY <2>1, LeastNatural, Zenon
<1>2. m \in 0 .. N /\ ~Good(m)
  BY Zenon
<1>3. f[m] = IF m = 0 THEN <<>> ELSE f[m - 1] \o Encode(m, rs[m])
  BY <1>2, Zenon DEF Concatenates
<1>4. m # 0
  <2> SUFFICES ASSUME m = 0 PROVE Good(m)
    BY <1>2
  <2>1. f[0] = <<>> /\ f[0] \in Seq(L)
    BY <1>3
  <2> QED
    BY <2>1
<1>5. m - 1 \in 0 .. N /\ m - 1 \notin S /\ m \in 1 .. N
  BY <1>1, <1>2, <1>4
<1>6. Good(m - 1)
  BY <1>5, Zenon
<1>7. /\ f[m] \in Seq(L) /\ Len(f[m - 1]) <= Len(f[m])
      /\ \A i \in 1 .. Len(f[m - 1]) : f[m][i] = f[m - 1][i]
  <2>1. /\ f[m - 1] \in Seq(L) /\ Encode(m, rs[m]) \in Seq(L)
        /\ f[m] = f[m - 1] \o Encode(m, rs[m])
    BY <1>3, <1>4, <1>5, <1>6, Zenon
  <2> HIDE DEF S, Good
  <2>2. \A a, b \in Seq(L) : /\ a \o b \in Seq(L) /\ Len(a) <= Len(a \o b)
                             /\ \A i \in 1 .. Len(a) : (a \o b)[i] = a[i]
    OBVIOUS
  <2>3. /\ f[m - 1] \o Encode(m, rs[m]) \in Seq(L)
        /\ Len(f[m - 1]) <= Len(f[m - 1] \o Encode(m, rs[m]))
        /\ \A i \in 1 .. Len(f[m - 1]) : (f[m - 1] \o Encode(m, rs[m]))[i] = f[m - 1][i]
    BY <2>1, <2>2, Zenon
  <2> QED
    BY <2>1, <2>3, Zenon
<1>8. ASSUME NEW k \in 0 .. m
      PROVE  Len(f[k]) <= Len(f[m]) /\ \A i \in 1 .. Len(f[k]) : f[m][i] = f[k][i]
  <2>1. CASE k = m
    BY <2>1, <1>7
  <2>2. CASE k # m
    <3>1. k \in 0 .. m - 1 /\ k \in 0 .. N /\ k \notin S
      BY <2>2, <1>1, <1>2
    <3>2. /\ Len(f[k]) <= Len(f[m - 1]) /\ \A i \in 1 .. Len(f[k]) : f[m - 1][i] = f[k][i]
          /\ f[m - 1] \in Seq(L) /\ f[k] \in Seq(L)
      BY <3>1, <1>6, Zenon
    <3> HIDE DEF S, Good
    <3> QED
      BY <3>2, <1>7
  <2> QED
    BY <2>1, <2>2
<1> QED
  BY <1>2, <1>7, <1>8, Zenon

-----------------------------------------------------------------------------
(* The lexemes of one request, and where they are. *)

\* w is s followed by t
Joined(w, s, t, L) ==
    /\ w \in Seq(L)
    /\ Len(w) = Len(s) + Len(t)
    /\ \A i \in 1 .. Len(s) : w[i] = s[i]
    /\ \A i \in Len(s) + 1 .. Len(s) + Len(t) : w[i] = t[i - Len(s)]

LEMMA Join ==
    ASSUME NEW L, NEW s \in Seq(L), NEW t \in Seq(L)
    PROVE  \E w : w = s \o t /\ Joined(w, s, t, L)
<1>1. Joined(s \o t, s, t, L)
  BY DEF Joined
<1> QED
  BY <1>1, Zenon

LEMMA RepeatIsSeq ==
    ASSUME NEW x, NEW n \in Nat, NEW L, x \in L
    PROVE  /\ Repeat(x, n) \in Seq(L) /\ Len(Repeat(x, n)) = n
           /\ \A i \in 1 .. n : Repeat(x, n)[i] = x
BY DEF Repeat

LEMMA RepeatAppend ==
    ASSUME NEW x, NEW n \in Nat
    PROVE  Append(Repeat(x, n), x) = Repeat(x, n + 1)
BY DEF Repeat

LEMMA RepeatNone == ASSUME NEW x PROVE Repeat(x, 0) = <<>>
BY DEF Repeat

Lexemes(id, r) == {Line(id, r.version, r.method), Conn(r.connection), Length(r.n), Encoding,
                   Size(r.n), Size(0), Trailer, Byte(id), CR, LF, CRLF, Bad}

\* the number of Connection headers, of headers that announce a body, and of
\* lexemes of a trailer
H(r) == IF r.connection = "absent" THEN 0 ELSE 1
B(r) == IF r.body = "none" THEN 0 ELSE 1
T(r) == IF r.trailer THEN 2 ELSE 0

\* a request line and the Connection header, if there is one
Opening(id, r) == <<Line(id, r.version, r.method)>>
                    \o (IF r.connection = "absent" THEN <<>> ELSE <<Conn(r.connection)>>)

LEMMA OpeningAt ==
    ASSUME NEW id, NEW r
    PROVE  /\ Opening(id, r) \in Seq(Lexemes(id, r))
           /\ Len(Opening(id, r)) = 1 + H(r)
           /\ Opening(id, r)[1] = Line(id, r.version, r.method)
           /\ r.connection # "absent" => Opening(id, r)[2] = Conn(r.connection)
<1>1. Line(id, r.version, r.method) \in Lexemes(id, r) /\ Conn(r.connection) \in Lexemes(id, r)
  BY Zenon DEF Lexemes
<1> QED
  BY <1>1 DEF Opening, H

LEMMA EncodeIsOpening ==
    ASSUME NEW id, NEW r \in Requests, r.version \in {"1.0", "1.1"}
    PROVE  Encode(id, r) = Opening(id, r) \o EncodeBody(id, r)
BY DEF Encode, Opening

LEMMA LengthAt ==
    ASSUME NEW id, NEW n \in Nat, NEW L, Length(n) \in L, CR \in L, LF \in L, Byte(id) \in L
    PROVE  \E w : /\ w = <<Length(n), CR, LF>> \o Repeat(Byte(id), n)
                  /\ w \in Seq(L) /\ Len(w) = 3 + n
                  /\ w[1] = Length(n) /\ w[2] = CR /\ w[3] = LF
                  /\ \A i \in 1 .. n : w[3 + i] = Byte(id)
<1>1. PICK s : s = <<Length(n), CR, LF>>
  BY Zenon
<1>2. PICK t : t = Repeat(Byte(id), n)
  OBVIOUS
<1>3. s \in Seq(L) /\ Len(s) = 3 /\ s[1] = Length(n) /\ s[2] = CR /\ s[3] = LF
  BY <1>1
<1>4. t \in Seq(L) /\ Len(t) = n /\ \A i \in 1 .. n : t[i] = Byte(id)
  BY <1>2, RepeatIsSeq
<1>5. PICK w : w = s \o t /\ Joined(w, s, t, L)
  BY <1>3, <1>4, Join, Zenon
<1>6. /\ w \in Seq(L) /\ Len(w) = 3 + n /\ w[1] = Length(n) /\ w[2] = CR /\ w[3] = LF
      /\ \A i \in 1 .. n : w[3 + i] = Byte(id)
  <2>1. Joined(w, s, t, L)
    BY <1>5
  <2> QED
    BY <1>3, <1>4, <2>1 DEF Joined
<1> QED
  BY <1>1, <1>2, <1>5, <1>6, Zenon

LEMMA ChunkAt ==
    ASSUME NEW id, NEW n \in Nat, NEW L, Size(n) \in L, LF \in L, Byte(id) \in L, CRLF \in L
    PROVE  /\ EncodeChunk(id, n) \in Seq(L)
           /\ Len(EncodeChunk(id, n)) = 3 + n
           /\ EncodeChunk(id, n)[1] = Size(n)
           /\ EncodeChunk(id, n)[2] = LF
           /\ \A i \in 1 .. n : EncodeChunk(id, n)[2 + i] = Byte(id)
           /\ EncodeChunk(id, n)[3 + n] = CRLF
<1>1. PICK s : s = <<Size(n), LF>>
  BY Zenon
<1>2. PICK t : t = Repeat(Byte(id), n)
  OBVIOUS
<1>3. PICK u : u = <<CRLF>>
  BY Zenon
<1>4. s \in Seq(L) /\ Len(s) = 2 /\ s[1] = Size(n) /\ s[2] = LF
  BY <1>1
<1>5. t \in Seq(L) /\ Len(t) = n /\ \A i \in 1 .. n : t[i] = Byte(id)
  BY <1>2, RepeatIsSeq
<1>6. u \in Seq(L) /\ Len(u) = 1 /\ u[1] = CRLF
  BY <1>3
<1>7. PICK v : v = s \o t /\ Joined(v, s, t, L)
  BY <1>4, <1>5, Join, Zenon
<1>8. /\ v \in Seq(L) /\ Len(v) = 2 + n /\ v[1] = Size(n) /\ v[2] = LF
      /\ \A i \in 1 .. n : v[2 + i] = Byte(id)
  <2>1. Joined(v, s, t, L)
    BY <1>7
  <2> QED
    BY <1>4, <1>5, <2>1 DEF Joined
<1>9. PICK w : w = v \o u /\ Joined(w, v, u, L)
  BY <1>6, <1>8, Join, Zenon
<1>10. /\ w \in Seq(L) /\ Len(w) = 3 + n /\ w[1] = Size(n) /\ w[2] = LF /\ w[3 + n] = CRLF
       /\ \A i \in 1 .. n : w[2 + i] = Byte(id)
  <2>1. Joined(w, v, u, L)
    BY <1>9
  <2> QED
    BY <1>6, <1>8, <2>1 DEF Joined
<1>11. EncodeChunk(id, n) = w
  BY <1>1, <1>2, <1>3, <1>7, <1>9, Zenon DEF EncodeChunk
<1> QED
  BY <1>10, <1>11, Zenon

\* everything after a chunk: the last chunk, the trailer and the empty line
LEMMA LastChunkAt ==
    ASSUME NEW r, NEW L, Size(0) \in L, LF \in L, Trailer \in L, CR \in L
    PROVE  \E w : /\ w = (IF r.trailer THEN <<Trailer, LF>> ELSE <<>>)
                  /\ w \in Seq(L) /\ Len(w) = T(r)
                  /\ r.trailer => w[1] = Trailer /\ w[2] = LF
<1>1. CASE r.trailer
  <2>1. PICK w : w = <<Trailer, LF>>
    BY Zenon
  <2>2. w \in Seq(L) /\ Len(w) = 2 /\ w[1] = Trailer /\ w[2] = LF
    BY <2>1
  <2>3. T(r) = 2
    BY <1>1 DEF T
  <2> QED
    BY <1>1, <2>1, <2>2, <2>3, Zenon
<1>2. CASE ~r.trailer
  <2>1. PICK w : w = <<>>
    OBVIOUS
  <2>2. w \in Seq(L) /\ Len(w) = 0
    BY <2>1
  <2>3. T(r) = 0
    BY <1>2 DEF T
  <2> QED
    BY <1>2, <2>1, <2>2, <2>3, Zenon
<1> QED
  BY <1>1, <1>2

ChunksBody(w, id, r, n, L) ==
    /\ w \in Seq(L) /\ Len(w) = 10 + n + T(r)
    /\ w[1] = Encoding /\ w[2] = CR /\ w[3] = LF
    /\ w[4] = Size(n) /\ w[5] = LF
    /\ \A i \in 1 .. n : w[5 + i] = Byte(id)
    /\ w[6 + n] = CRLF /\ w[7 + n] = Size(0) /\ w[8 + n] = LF
    /\ r.trailer => w[9 + n] = Trailer /\ w[10 + n] = LF
    /\ w[9 + n + T(r)] = CR /\ w[10 + n + T(r)] = LF

LEMMA ChunksAt ==
    ASSUME NEW id, NEW r, NEW n \in Nat, NEW L, Encoding \in L, CR \in L, LF \in L, Size(n) \in L,
           Byte(id) \in L, CRLF \in L, Size(0) \in L, Trailer \in L
    PROVE  \E w : /\ w = <<Encoding, CR, LF>> \o EncodeChunk(id, n) \o <<Size(0), LF>>
                            \o (IF r.trailer THEN <<Trailer, LF>> ELSE <<>>) \o <<CR, LF>>
                  /\ ChunksBody(w, id, r, n, L)
<1>1. PICK a : a = <<Encoding, CR, LF>>
  BY Zenon
<1>2. PICK b : b = EncodeChunk(id, n)
  OBVIOUS
<1>3. PICK c : c = <<Size(0), LF>>
  BY Zenon
<1>4. PICK d : /\ d = (IF r.trailer THEN <<Trailer, LF>> ELSE <<>>)
               /\ d \in Seq(L) /\ Len(d) = T(r)
               /\ r.trailer => d[1] = Trailer /\ d[2] = LF
  BY LastChunkAt, Zenon
<1>5. PICK e : e = <<CR, LF>>
  BY Zenon
<1>6. a \in Seq(L) /\ Len(a) = 3 /\ a[1] = Encoding /\ a[2] = CR /\ a[3] = LF
  BY <1>1
<1>7. /\ b \in Seq(L) /\ Len(b) = 3 + n /\ b[1] = Size(n) /\ b[2] = LF /\ b[3 + n] = CRLF
      /\ \A i \in 1 .. n : b[2 + i] = Byte(id)
  BY <1>2, ChunkAt, Zenon
<1>8. c \in Seq(L) /\ Len(c) = 2 /\ c[1] = Size(0) /\ c[2] = LF
  BY <1>3
<1>9. e \in Seq(L) /\ Len(e) = 2 /\ e[1] = CR /\ e[2] = LF
  BY <1>5
<1>10. PICK u : u = a \o b /\ Joined(u, a, b, L)
  BY <1>6, <1>7, Join, Zenon
<1>11. /\ u \in Seq(L) /\ Len(u) = 6 + n
       /\ u[1] = Encoding /\ u[2] = CR /\ u[3] = LF /\ u[4] = Size(n) /\ u[5] = LF
       /\ \A i \in 1 .. n : u[5 + i] = Byte(id)
       /\ u[6 + n] = CRLF
  <2>1. Joined(u, a, b, L)
    BY <1>10
  <2>2. /\ u \in Seq(L) /\ Len(u) = 6 + n
        /\ \A i \in 1 .. 3 : u[i] = a[i]
        /\ \A i \in 4 .. 6 + n : u[i] = b[i - 3]
    BY <1>6, <1>7, <2>1 DEF Joined
  <2>3. u[1] = a[1] /\ u[2] = a[2] /\ u[3] = a[3] /\ u[4] = b[1] /\ u[5] = b[2]
    BY <2>2
  <2>4. u[6 + n] = b[3 + n]
    BY <2>2
  <2>5. \A i \in 1 .. n : u[5 + i] = b[2 + i]
    BY <2>2
  <2> QED
    BY <1>6, <1>7, <2>2, <2>3, <2>4, <2>5, Zenon
<1>12. PICK v : v = u \o c /\ Joined(v, u, c, L)
  BY <1>8, <1>11, Join, Zenon
<1>13. /\ v \in Seq(L) /\ Len(v) = 8 + n
       /\ \A i \in 1 .. 6 + n : v[i] = u[i]
       /\ v[7 + n] = Size(0) /\ v[8 + n] = LF
  <2>1. Joined(v, u, c, L)
    BY <1>12
  <2>2. Len(u) = 6 + n /\ Len(c) = 2
    BY <1>8, <1>11
  <2>3. /\ v \in Seq(L) /\ Len(v) = 8 + n
        /\ \A i \in 1 .. 6 + n : v[i] = u[i]
        /\ \A i \in 7 + n .. 8 + n : v[i] = c[i - (6 + n)]
    BY <2>1, <2>2 DEF Joined
  <2>4. v[7 + n] = c[1] /\ v[8 + n] = c[2]
    BY <2>3
  <2> QED
    BY <1>8, <2>3, <2>4, Zenon
<1>14. PICK w : w = v \o d /\ Joined(w, v, d, L)
  BY <1>4, <1>13, Join, Zenon
<1>15. PICK k \in Nat : k = T(r)
  BY DEF T
<1>16. /\ w \in Seq(L) /\ Len(w) = 8 + n + k
       /\ \A i \in 1 .. 8 + n : w[i] = v[i]
       /\ r.trailer => w[9 + n] = Trailer /\ w[10 + n] = LF /\ k = 2
  <2>1. Joined(w, v, d, L)
    BY <1>14
  <2>2. Len(d) = k /\ Len(v) = 8 + n
    BY <1>4, <1>13, <1>15
  <2>3. /\ w \in Seq(L) /\ Len(w) = 8 + n + k
        /\ \A i \in 1 .. 8 + n : w[i] = v[i]
        /\ \A i \in 9 + n .. 8 + n + k : w[i] = d[i - (8 + n)]
    BY <2>1, <2>2 DEF Joined
  <2>4. r.trailer => k = 2
    BY <1>15 DEF T
  <2>5. k = 2 => w[9 + n] = d[1] /\ w[10 + n] = d[2]
    BY <2>3
  <2> QED
    BY <1>4, <2>3, <2>4, <2>5, Zenon
<1>17. PICK x : x = w \o e /\ Joined(x, w, e, L)
  BY <1>9, <1>16, Join, Zenon
<1>18. /\ x \in Seq(L) /\ Len(x) = 10 + n + k
       /\ \A i \in 1 .. 8 + n + k : x[i] = w[i]
       /\ x[9 + n + k] = CR /\ x[10 + n + k] = LF
  <2>1. Joined(x, w, e, L)
    BY <1>17
  <2>2. PICK j \in Nat : j = 8 + n + k
    OBVIOUS
  <2>3. Len(w) = j /\ Len(e) = 2
    BY <1>9, <1>16, <2>2
  <2>4. /\ x \in Seq(L) /\ Len(x) = j + 2
        /\ \A i \in 1 .. j : x[i] = w[i]
        /\ \A i \in j + 1 .. j + 2 : x[i] = e[i - j]
    BY <2>1, <2>3 DEF Joined
  <2>5. x[j + 1] = e[1] /\ x[j + 2] = e[2]
    BY <2>4
  <2>6. j + 1 = 9 + n + k /\ j + 2 = 10 + n + k
    BY <2>2
  <2> QED
    BY <1>9, <2>2, <2>4, <2>5, <2>6, Zenon
<1>19. /\ \A i \in 1 .. 6 + n : x[i] = u[i]
       /\ x[7 + n] = Size(0) /\ x[8 + n] = LF
       /\ r.trailer => x[9 + n] = Trailer /\ x[10 + n] = LF
  <2>1. \A i \in 1 .. 6 + n : x[i] = u[i]
    BY <1>13, <1>16, <1>18
  <2>2. x[7 + n] = v[7 + n] /\ x[8 + n] = v[8 + n]
    BY <1>16, <1>18
  <2>3. k = 2 => x[9 + n] = w[9 + n] /\ x[10 + n] = w[10 + n]
    BY <1>18
  <2> QED
    BY <1>13, <1>16, <2>1, <2>2, <2>3, Zenon
<1>20. /\ x[1] = Encoding /\ x[2] = CR /\ x[3] = LF /\ x[4] = Size(n) /\ x[5] = LF
       /\ \A i \in 1 .. n : x[5 + i] = Byte(id)
       /\ x[6 + n] = CRLF
  BY <1>11, <1>19
<1>21. x = a \o b \o c \o d \o e
  BY <1>10, <1>12, <1>14, <1>17, Zenon
<1> QED
  BY <1>1, <1>2, <1>3, <1>4, <1>5, <1>15, <1>18, <1>19, <1>20, <1>21, Zenon DEF ChunksBody

\* Where the lexemes of a request are, with h = H(r), n = r.n and t = T(r).
OpeningShape(e, id, r) == /\ e[1] = Line(id, r.version, r.method)
                          /\ r.connection # "absent" => e[2] = Conn(r.connection)

PlainShape(e, h) == Len(e) = 3 + h /\ e[2 + h] = CR /\ e[3 + h] = LF

LengthShape(e, id, h, n) ==
    /\ Len(e) = 4 + h + n
    /\ e[2 + h] = Length(n) /\ e[3 + h] = CR /\ e[4 + h] = LF
    /\ \A i \in 1 .. n : e[4 + h + i] = Byte(id)

ChunksShape(e, id, h, n, t, trailer) ==
    /\ Len(e) = 11 + h + n + t
    /\ e[2 + h] = Encoding /\ e[3 + h] = CR /\ e[4 + h] = LF
    /\ e[5 + h] = Size(n) /\ e[6 + h] = LF
    /\ \A i \in 1 .. n : e[6 + h + i] = Byte(id)
    /\ e[7 + h + n] = CRLF /\ e[8 + h + n] = Size(0) /\ e[9 + h + n] = LF
    /\ trailer => e[10 + h + n] = Trailer /\ e[11 + h + n] = LF
    /\ e[10 + h + n + t] = CR /\ e[11 + h + n + t] = LF

LEMMA PlainEncoded ==
    ASSUME NEW L, NEW s, NEW w, NEW e, NEW h \in Nat, Joined(e, s, w, L), Len(s) = 1 + h,
           w = <<CR, LF>>
    PROVE  PlainShape(e, h)
<1>1. Len(w) = 2 /\ w[1] = CR /\ w[2] = LF
  OBVIOUS
<1>2. Len(e) = 3 + h /\ \A i \in 1 .. 2 : e[i + (1 + h)] = w[i]
  BY <1>1 DEF Joined
<1>3. e[1 + (1 + h)] = w[1] /\ e[2 + (1 + h)] = w[2]
  BY <1>2
<1> QED
  BY <1>1, <1>2, <1>3 DEF PlainShape

LEMMA LengthEncoded ==
    ASSUME NEW id, NEW L, NEW s, NEW w, NEW e, NEW h \in Nat, NEW n \in Nat,
           Joined(e, s, w, L), Len(s) = 1 + h,
           Len(w) = 3 + n, w[1] = Length(n), w[2] = CR, w[3] = LF,
           \A i \in 1 .. n : w[3 + i] = Byte(id)
    PROVE  LengthShape(e, id, h, n)
<1>1. Len(e) = 4 + h + n /\ \A i \in 1 .. 3 + n : e[i + (1 + h)] = w[i]
  BY DEF Joined
<1>2. e[1 + (1 + h)] = w[1] /\ e[2 + (1 + h)] = w[2] /\ e[3 + (1 + h)] = w[3]
  BY <1>1
<1>3. ASSUME NEW i \in 1 .. n PROVE e[4 + h + i] = Byte(id)
  <2>1. 3 + i \in 1 .. 3 + n /\ (3 + i) + (1 + h) = 4 + h + i
    OBVIOUS
  <2> QED
    BY <1>1, <2>1, Zenon
<1>4. 1 + (1 + h) = 2 + h /\ 2 + (1 + h) = 3 + h /\ 3 + (1 + h) = 4 + h
  OBVIOUS
<1> QED
  BY <1>1, <1>2, <1>3, <1>4, Zenon DEF LengthShape

LEMMA ChunksEncoded ==
    ASSUME NEW id, NEW L, NEW s, NEW w, NEW e, NEW h \in Nat, NEW n \in Nat, NEW t \in Nat,
           NEW trailer, trailer => t = 2,
           Joined(e, s, w, L), Len(s) = 1 + h, Len(w) = 10 + n + t,
           w[1] = Encoding, w[2] = CR, w[3] = LF, w[4] = Size(n), w[5] = LF,
           \A i \in 1 .. n : w[5 + i] = Byte(id),
           w[6 + n] = CRLF, w[7 + n] = Size(0), w[8 + n] = LF,
           trailer => w[9 + n] = Trailer /\ w[10 + n] = LF,
           w[9 + n + t] = CR, w[10 + n + t] = LF
    PROVE  ChunksShape(e, id, h, n, t, trailer)
<1>1. PICK m \in Nat : m = 10 + n + t
  OBVIOUS
<1>2. Len(e) = 1 + h + m /\ \A i \in 1 .. m : e[i + (1 + h)] = w[i]
  <2>1. Len(w) = m
    BY <1>1
  <2> QED
    BY <2>1 DEF Joined
<1>3. /\ e[1 + (1 + h)] = w[1] /\ e[2 + (1 + h)] = w[2] /\ e[3 + (1 + h)] = w[3]
      /\ e[4 + (1 + h)] = w[4] /\ e[5 + (1 + h)] = w[5]
  BY <1>1, <1>2
<1>4. ASSUME NEW i \in 1 .. n PROVE e[6 + h + i] = Byte(id)
  <2>1. 5 + i \in 1 .. m /\ (5 + i) + (1 + h) = 6 + h + i
    BY <1>1
  <2> QED
    BY <1>2, <2>1, Zenon
<1>5. /\ e[(6 + n) + (1 + h)] = w[6 + n] /\ e[(7 + n) + (1 + h)] = w[7 + n]
      /\ e[(8 + n) + (1 + h)] = w[8 + n]
  <2>1. 6 + n \in 1 .. m /\ 7 + n \in 1 .. m /\ 8 + n \in 1 .. m
    BY <1>1
  <2> QED
    BY <1>2, <2>1, Zenon
<1>6. trailer => /\ e[(9 + n) + (1 + h)] = w[9 + n]
                 /\ e[(10 + n) + (1 + h)] = w[10 + n]
  <2>1. t = 2 => 9 + n \in 1 .. m /\ 10 + n \in 1 .. m
    BY <1>1
  <2> QED
    BY <1>2, <2>1, Zenon
<1>7. e[(9 + n + t) + (1 + h)] = w[9 + n + t] /\ e[(10 + n + t) + (1 + h)] = w[10 + n + t]
  <2>1. 9 + n + t \in 1 .. m /\ 10 + n + t \in 1 .. m
    BY <1>1
  <2> QED
    BY <1>2, <2>1, Zenon
<1>8. /\ 1 + h + m = 11 + h + n + t
      /\ 1 + (1 + h) = 2 + h /\ 2 + (1 + h) = 3 + h /\ 3 + (1 + h) = 4 + h /\ 4 + (1 + h) = 5 + h
      /\ 5 + (1 + h) = 6 + h /\ (6 + n) + (1 + h) = 7 + h + n /\ (7 + n) + (1 + h) = 8 + h + n
      /\ (8 + n) + (1 + h) = 9 + h + n /\ (9 + n) + (1 + h) = 10 + h + n
      /\ (10 + n) + (1 + h) = 11 + h + n /\ (9 + n + t) + (1 + h) = 10 + h + n + t
      /\ (10 + n + t) + (1 + h) = 11 + h + n + t
  BY <1>1
<1> QED
  BY <1>2, <1>3, <1>4, <1>5, <1>6, <1>7, <1>8, Zenon DEF ChunksShape

\* The lexemes of an HTTP/1 request.
LEMMA EncodeShape ==
    ASSUME NEW id, NEW r \in Requests, r.version \in {"1.0", "1.1"}
    PROVE  /\ Encode(id, r) \in Seq(Lexemes(id, r))
           /\ OpeningShape(Encode(id, r), id, r)
           /\ r.body = "none" => PlainShape(Encode(id, r), H(r))
           /\ r.body = "length" => LengthShape(Encode(id, r), id, H(r), r.n)
           /\ r.body = "chunks" => ChunksShape(Encode(id, r), id, H(r), r.n, T(r), r.trailer)
<1>1. PICK L : L = Lexemes(id, r)
  OBVIOUS
<1>2. /\ Length(r.n) \in L /\ Encoding \in L /\ Size(r.n) \in L /\ Size(0) \in L
      /\ Trailer \in L /\ Byte(id) \in L /\ CR \in L /\ LF \in L /\ CRLF \in L
  BY <1>1, Zenon DEF Lexemes
<1>3. /\ r.n \in Nat /\ r.body \in {"none", "length", "chunks"} /\ H(r) \in Nat /\ T(r) \in Nat
      /\ r.trailer => T(r) = 2
  BY DEF Requests, H, T
<1>4. PICK s : s = Opening(id, r)
  OBVIOUS
<1>5. /\ s \in Seq(L) /\ Len(s) = 1 + H(r) /\ s[1] = Line(id, r.version, r.method)
      /\ r.connection # "absent" => s[2] = Conn(r.connection)
  BY <1>1, <1>4, OpeningAt, Zenon
<1>6. PICK w : w = EncodeBody(id, r)
  OBVIOUS
<1>7. ASSUME w \in Seq(L), NEW e, e = s \o w, Joined(e, s, w, L)
      PROVE  Encode(id, r) \in Seq(Lexemes(id, r)) /\ OpeningShape(Encode(id, r), id, r)
             /\ Encode(id, r) = e
  <2>1. Encode(id, r) = e
    BY <1>4, <1>6, <1>7, EncodeIsOpening, Zenon
  <2>2. e \in Seq(L) /\ e[1] = s[1] /\ (r.connection # "absent" => e[2] = s[2])
    BY <1>5, <1>7 DEF Joined, H
  <2> QED
    BY <1>1, <1>5, <2>1, <2>2, Zenon DEF OpeningShape
<1>8. CASE r.body = "none"
  <2>1. w = <<CR, LF>> /\ w \in Seq(L)
    BY <1>2, <1>6, <1>8 DEF EncodeBody
  <2>2. PICK e : e = s \o w /\ Joined(e, s, w, L)
    BY <1>5, <2>1, Join, Zenon
  <2>3. PlainShape(e, H(r))
    BY <1>3, <1>5, <2>1, <2>2, PlainEncoded, Zenon
  <2> QED
    BY <1>7, <1>8, <2>1, <2>2, <2>3, Zenon
<1>9. CASE r.body = "length"
  <2>1. w = <<Length(r.n), CR, LF>> \o Repeat(Byte(id), r.n)
    BY <1>6, <1>9 DEF EncodeBody
  <2>2. /\ w \in Seq(L) /\ Len(w) = 3 + r.n /\ w[1] = Length(r.n) /\ w[2] = CR /\ w[3] = LF
        /\ \A i \in 1 .. r.n : w[3 + i] = Byte(id)
    <3>1. PICK n \in Nat : n = r.n
      BY <1>3
    <3>2. /\ Length(n) \in L /\ CR \in L /\ LF \in L /\ Byte(id) \in L
          /\ w = <<Length(n), CR, LF>> \o Repeat(Byte(id), n)
      BY <1>2, <2>1, <3>1, Zenon
    <3>3. PICK v : /\ v = <<Length(n), CR, LF>> \o Repeat(Byte(id), n)
                   /\ v \in Seq(L) /\ Len(v) = 3 + n
                   /\ v[1] = Length(n) /\ v[2] = CR /\ v[3] = LF
                   /\ \A i \in 1 .. n : v[3 + i] = Byte(id)
      BY <3>2, LengthAt, Zenon
    <3>4. v = w
      BY <3>2, <3>3, Zenon
    <3> QED
      BY <3>1, <3>3, <3>4, Zenon
  <2>3. PICK e : e = s \o w /\ Joined(e, s, w, L)
    BY <1>5, <2>2, Join, Zenon
  <2>4. LengthShape(e, id, H(r), r.n)
    BY <1>3, <1>5, <2>2, <2>3, LengthEncoded, Zenon
  <2> QED
    BY <1>7, <1>9, <2>2, <2>3, <2>4, Zenon
<1>10. CASE r.body = "chunks"
  <2>1. w = <<Encoding, CR, LF>> \o EncodeChunk(id, r.n) \o <<Size(0), LF>>
              \o (IF r.trailer THEN <<Trailer, LF>> ELSE <<>>) \o <<CR, LF>>
    BY <1>6, <1>10 DEF EncodeBody
  <2>2. /\ w \in Seq(L) /\ Len(w) = 10 + r.n + T(r)
        /\ w[1] = Encoding /\ w[2] = CR /\ w[3] = LF /\ w[4] = Size(r.n) /\ w[5] = LF
        /\ \A i \in 1 .. r.n : w[5 + i] = Byte(id)
        /\ w[6 + r.n] = CRLF /\ w[7 + r.n] = Size(0) /\ w[8 + r.n] = LF
        /\ r.trailer => w[9 + r.n] = Trailer /\ w[10 + r.n] = LF
        /\ w[9 + r.n + T(r)] = CR /\ w[10 + r.n + T(r)] = LF
    <3>1. PICK n \in Nat : n = r.n
      BY <1>3
    <3>2. /\ Encoding \in L /\ CR \in L /\ LF \in L /\ Size(n) \in L
          /\ Byte(id) \in L /\ CRLF \in L /\ Size(0) \in L /\ Trailer \in L
          /\ w = <<Encoding, CR, LF>> \o EncodeChunk(id, n) \o <<Size(0), LF>>
                   \o (IF r.trailer THEN <<Trailer, LF>> ELSE <<>>) \o <<CR, LF>>
      BY <1>2, <2>1, <3>1, Zenon
    <3>3. PICK v : /\ v = <<Encoding, CR, LF>> \o EncodeChunk(id, n) \o <<Size(0), LF>>
                              \o (IF r.trailer THEN <<Trailer, LF>> ELSE <<>>) \o <<CR, LF>>
                   /\ ChunksBody(v, id, r, n, L)
      BY <3>2, ChunksAt, Zenon
    <3>4. v = w
      BY <3>2, <3>3, Zenon
    <3> QED
      BY <3>1, <3>3, <3>4, Zenon DEF ChunksBody
  <2>3. PICK e : e = s \o w /\ Joined(e, s, w, L)
    BY <1>5, <2>2, Join, Zenon
  <2>4. ChunksShape(e, id, H(r), r.n, T(r), r.trailer)
    BY <1>3, <1>5, <2>2, <2>3, ChunksEncoded, Zenon
  <2> QED
    BY <1>7, <1>10, <2>2, <2>3, <2>4, Zenon
<1> QED
  BY <1>3, <1>8, <1>9, <1>10, Zenon

LEMMA EncodeIsSeq ==
    ASSUME NEW id, NEW r \in Requests
    PROVE  Encode(id, r) \in Seq(Lexemes(id, r))
<1>1. CASE r.version = "0.9"
  <2>1. Line(id, "0.9", r.method) \in Lexemes(id, r) /\ LF \in Lexemes(id, r)
    BY <1>1, Zenon DEF Lexemes
  <2>2. Encode(id, r) = <<Line(id, "0.9", r.method), LF>>
    BY <1>1 DEF Encode
  <2> QED
    BY <2>1, <2>2
<1>2. CASE r.version = "bad"
  <2>1. Bad \in Lexemes(id, r)
    BY Zenon DEF Lexemes
  <2>2. Encode(id, r) = <<Bad>>
    BY <1>2 DEF Encode
  <2> QED
    BY <2>1, <2>2
<1>3. CASE r.version \in {"1.0", "1.1"}
  BY <1>3, EncodeShape, Zenon
<1> QED
  BY <1>1, <1>2, <1>3 DEF Requests

-----------------------------------------------------------------------------
\* Where each request starts in the stream.
Frames(off, rs, s) ==
    /\ off \in [0 .. Len(rs) -> Nat]
    /\ off[0] = 0
    /\ off[Len(rs)] = Len(s)
    /\ \A k \in 1 .. Len(rs) :
          /\ off[k] = off[k - 1] + Len(Encode(k, rs[k]))
          /\ off[k] <= Len(s)
          /\ \A i \in 1 .. Len(Encode(k, rs[k])) : s[off[k - 1] + i] = Encode(k, rs[k])[i]

LEMMA EncodeAllFrames ==
    ASSUME NEW rs \in Seq(Requests)
    PROVE  Len(EncodeAll(rs)) \in Nat /\ \E off : Frames(off, rs, EncodeAll(rs))
<1> DEFINE L == UNION {Lexemes(k, rs[k]) : k \in 1 .. Len(rs)}
<1>1. Len(rs) \in Nat /\ \A k \in 1 .. Len(rs) : rs[k] \in Requests
  OBVIOUS
<1>2. ASSUME NEW k \in 1 .. Len(rs) PROVE Encode(k, rs[k]) \in Seq(L)
  <2>1. Encode(k, rs[k]) \in Seq(Lexemes(k, rs[k])) /\ Lexemes(k, rs[k]) \subseteq L
    BY <1>1, EncodeIsSeq, Zenon
  <2> HIDE DEF L
  <2> QED
    BY <2>1
<1> HIDE DEF L
<1>3. PICK f : Concatenates(f, rs, Len(rs)) /\ EncodeAll(rs) = f[Len(rs)]
  BY <1>1, EncodeAllConcatenates
<1>4. \A m \in 0 .. Len(rs) :
        /\ f[m] \in Seq(L)
        /\ \A k \in 0 .. m : /\ Len(f[k]) <= Len(f[m])
                             /\ \A i \in 1 .. Len(f[k]) : f[m][i] = f[k][i]
  <2>1. PICK N \in Nat : N = Len(rs)
    BY <1>1
  <2>2. Concatenates(f, rs, N) /\ \A k \in 1 .. N : Encode(k, rs[k]) \in Seq(L)
    BY <1>2, <1>3, <2>1, Zenon
  <2>3. Grows(f, N, L)
    BY <2>2, ConcatenationGrows, Zenon
  <2> QED
    BY <2>1, <2>3, Zenon DEF Grows
<1>5. f[0] = <<>> /\ \A k \in 1 .. Len(rs) : f[k] = f[k - 1] \o Encode(k, rs[k])
  BY <1>1, <1>3 DEF Concatenates
<1> DEFINE off == [k \in 0 .. Len(rs) |-> Len(f[k])]
<1>6. off \in [0 .. Len(rs) -> Nat]
  BY <1>4
<1>7. off[0] = 0 /\ off[Len(rs)] = Len(EncodeAll(rs))
  BY <1>1, <1>3, <1>5
<1>8. ASSUME NEW k \in 1 .. Len(rs)
      PROVE  /\ off[k] = off[k - 1] + Len(Encode(k, rs[k]))
             /\ off[k] <= Len(EncodeAll(rs))
             /\ \A i \in 1 .. Len(Encode(k, rs[k])) :
                   EncodeAll(rs)[off[k - 1] + i] = Encode(k, rs[k])[i]
  <2>1. k \in 0 .. Len(rs) /\ k - 1 \in 0 .. Len(rs) /\ Len(rs) \in 0 .. Len(rs)
    BY <1>1
  <2>2. /\ f[k] \in Seq(L) /\ f[k - 1] \in Seq(L)
        /\ off[k] = Len(f[k]) /\ off[k - 1] = Len(f[k - 1])
    BY <1>4, <2>1, Zenon
  <2> HIDE DEF off
  <2>3. PICK a : a = f[k - 1]
    OBVIOUS
  <2>4. PICK b : b = Encode(k, rs[k])
    OBVIOUS
  <2>5. a \in Seq(L) /\ b \in Seq(L)
    BY <1>2, <2>2, <2>3, <2>4
  <2>6. PICK c : c = a \o b /\ Joined(c, a, b, L)
    BY <2>5, Join, Zenon
  <2>7. f[k] = c
    BY <1>5, <2>3, <2>4, <2>6, Zenon
  <2>8. PICK z : z = EncodeAll(rs)
    OBVIOUS
  <2>9. Len(c) <= Len(z) /\ \A i \in 1 .. Len(c) : z[i] = c[i]
    BY <1>3, <1>4, <2>1, <2>7, <2>8, Zenon
  <2>10. Len(a) \in Nat /\ Len(b) \in Nat /\ Len(c) = Len(a) + Len(b)
    BY <2>5, <2>6 DEF Joined
  <2>11. \A i \in 1 .. Len(b) : c[Len(a) + i] = b[i]
    <3>1. Joined(c, a, b, L)
      BY <2>6
    <3>2. ASSUME NEW la \in Nat, NEW lb \in Nat, la = Len(a), lb = Len(b), NEW i \in 1 .. lb
          PROVE  c[la + i] = b[i]
      BY <3>1, <3>2 DEF Joined
    <3> QED
      BY <2>10, <3>2, Zenon
  <2>12. \A i \in 1 .. Len(b) : z[Len(a) + i] = b[i]
    BY <2>9, <2>10, <2>11
  <2>13. off[k] = Len(c) /\ off[k - 1] = Len(a)
    BY <2>2, <2>3, <2>7
  <2> QED
    BY <2>4, <2>8, <2>9, <2>10, <2>12, <2>13, Zenon
<1>9. Len(EncodeAll(rs)) \in Nat
  <2>1. Len(rs) \in 0 .. Len(rs)
    BY <1>1
  <2>2. EncodeAll(rs) \in Seq(L)
    BY <1>3, <1>4, <2>1, Zenon
  <2> QED
    BY <2>2
<1> HIDE DEF off
<1> QED
  BY <1>6, <1>7, <1>8, <1>9, Zenon DEF Frames

-----------------------------------------------------------------------------
(* The parser between two lexemes of a request. *)

Parsers == [state : States, result : Results, id : Nat, method : STRING \cup {""},
            version : {"", "0.9", "1.0", "1.1", "bad"},
            connection : {"absent", "keep-alive", "close"}, content : Seq(Nat),
            keepAlive : BOOLEAN, contentSize : Nat, chunked : BOOLEAN, chunkSize : Nat]

\* nothing of the next request is read, nothing of the one before is left
Fresh(p) == /\ p.state = "RequestMethodStart" /\ p.connection = "absent" /\ p.content = <<>>
            /\ p.contentSize = 0 /\ p.chunked = FALSE

\* the request line is read
Held(p, id, r) == /\ r.version \in {"1.0", "1.1"}
                  /\ p.id = id /\ p.method = r.method /\ p.version = r.version

\* the header that announces the body is read, if there is one
Announced(p, r) == /\ p.contentSize = IF r.body = "length" THEN r.n ELSE 0
                   /\ p.chunked = (r.body = "chunks")

KeepsAlive(p, r) == WantsKeepAlive(r) => p.keepAlive

AtStart(p, r, j) == /\ j = 0
                    /\ Fresh(p)
                    /\ r.version = "0.9" => p.keepAlive = FALSE

InHeaders(p, r, j) ==
    /\ p.state = "HeaderLineStart" /\ p.content = <<>>
    /\ \/ /\ j = 1 /\ r.connection # "absent"
          /\ p.connection = "absent" /\ p.contentSize = 0 /\ p.chunked = FALSE
       \/ /\ j = 1 + H(r) /\ p.connection = r.connection
          /\ p.contentSize = 0 /\ p.chunked = FALSE
       \/ /\ j = 2 + H(r) /\ r.body # "none"
          /\ p.connection = r.connection /\ Announced(p, r)

AfterHeaders(p, r, j) ==
    /\ p.state = "ExpectingNewline_3" /\ p.content = <<>>
    /\ j = 2 + H(r) + B(r) /\ p.connection = r.connection /\ Announced(p, r)

InPost(p, id, r, j) ==
    /\ p.state = "Post" /\ r.body = "length" /\ KeepsAlive(p, r)
    /\ p.contentSize \in 1 .. r.n /\ p.content = Repeat(id, r.n - p.contentSize)
    /\ j = 4 + H(r) + r.n - p.contentSize

\* the only chunk with data is not complete
InChunk(p, id, r, j) ==
    /\ r.body = "chunks" /\ KeepsAlive(p, r)
    /\ \/ p.state = "ChunkSize" /\ p.content = <<>> /\ j = 4 + H(r)
       \/ p.state = "ChunkSizeNewLine" /\ p.content = <<>> /\ p.chunkSize = r.n /\ j = 5 + H(r)
       \/ /\ p.state = "ChunkData" /\ p.chunkSize \in 1 .. r.n
          /\ p.content = Repeat(id, r.n - p.chunkSize)
          /\ j = 6 + H(r) + r.n - p.chunkSize

AfterChunk(p, id, r, j) ==
    /\ r.body = "chunks" /\ KeepsAlive(p, r) /\ p.content = Repeat(id, r.n)
    /\ \/ p.state = "ChunkDataNewLine_1" /\ j = 6 + H(r) + r.n
       \/ p.state = "ChunkSize" /\ j = 7 + H(r) + r.n
       \/ /\ p.state = "ChunkSizeNewLine" /\ p.chunkSize = 0
          /\ j = 8 + H(r) + r.n \/ (r.trailer /\ j = 10 + H(r) + r.n)
       \/ /\ p.state = "ChunkSizeNewLine_2" /\ p.chunkSize = 0
          /\ j = 9 + H(r) + r.n \/ (r.trailer /\ j = 11 + H(r) + r.n)
       \/ p.state = "ChunkSizeNewLine_3" /\ j = 10 + H(r) + r.n + T(r)

\* the parser has consumed the first j lexemes of request id
ParserAt(p, id, r, j) ==
    /\ p \in Parsers /\ p.result = "incomplete"
    /\ \/ AtStart(p, r, j)
       \/ /\ Held(p, id, r)
          /\ \/ InHeaders(p, r, j)
             \/ AfterHeaders(p, r, j)
             \/ InPost(p, id, r, j)
             \/ InChunk(p, id, r, j)
             \/ AfterChunk(p, id, r, j)

\* what the next lexeme makes of it
Parsed(q, id, r, j, size) ==
    \/ j < size /\ ParserAt(q, id, r, j)
    \/ /\ q \in Parsers /\ q.result = "completed" /\ r.version # "bad"
       /\ q.id = id /\ q.content = Content(id, r) /\ KeepsAlive(q, r)
       /\ IF r.version = "0.9" THEN q.keepAlive = FALSE ELSE j = size
    \/ q \in Parsers /\ q.result = "failed" /\ r.version = "bad"

-----------------------------------------------------------------------------
(* One lexeme consumed, state by state. *)

LEMMA StartConsumed ==
    ASSUME NEW id \in Nat, NEW r \in Requests, WellFormed(r), NEW p \in Parsers,
           p.result = "incomplete", NEW e, NEW j, NEW size \in Nat, AtStart(p, r, j),
           r.version = "bad" => e = Bad,
           r.version # "bad" => e = Line(id, r.version, r.method) /\ size > 1
    PROVE  Parsed(consume(p, e), id, r, j + 1, size)
<1>1. consume(p, e) = RequestLine(p, e)
  BY DEF consume, AtStart, Fresh
<1>2. CASE r.version = "bad"
  <2>1. consume(p, e) = Fail(p)
    BY <1>1, <1>2 DEF RequestLine, Bad
  <2>2. Fail(p) \in Parsers /\ Fail(p).result = "failed"
    BY Zenon DEF Fail, Parsers, Results
  <2> QED
    BY <1>2, <2>1, <2>2, Zenon DEF Parsed
<1>3. CASE r.version # "bad"
  <2> DEFINE q == [p EXCEPT !.id = e.id, !.method = e.method, !.version = e.version]
  <2>0. e.kind = "line" /\ e.id = id /\ e.method = r.method /\ e.version = r.version
    BY <1>3 DEF Line
  <2>1. /\ q \in Parsers /\ q.id = id /\ q.method = r.method /\ q.version = r.version
        /\ q.connection = p.connection /\ q.content = p.content /\ q.keepAlive = p.keepAlive
        /\ q.contentSize = p.contentSize /\ q.chunked = p.chunked /\ q.result = "incomplete"
    BY <2>0, Zenon DEF Parsers, Requests
  <2>2. consume(p, e) = IF r.version = "0.9" THEN Complete(q) ELSE To(q, "HeaderLineStart")
    BY <1>1, <2>0, Zenon DEF RequestLine
  <2> HIDE DEF q
  <2>3. CASE r.version = "0.9"
    <3>1. /\ Complete(q) \in Parsers /\ Complete(q).result = "completed" /\ Complete(q).id = q.id
          /\ Complete(q).content = q.content /\ Complete(q).keepAlive = q.keepAlive
      BY <2>1, Zenon DEF Complete, Parsers, Results
    <3>2. Content(id, r) = <<>> /\ ~WantsKeepAlive(r)
      BY <2>3 DEF Content, WantsKeepAlive, WellFormed
    <3>3. p.keepAlive = FALSE /\ p.content = <<>>
      BY <2>3 DEF AtStart, Fresh
    <3> QED
      BY <2>1, <2>2, <2>3, <3>1, <3>2, <3>3 DEF Parsed, KeepsAlive
  <2>4. CASE r.version # "0.9"
    <3> DEFINE o == To(q, "HeaderLineStart")
    <3>1. /\ o \in Parsers /\ o.result = "incomplete" /\ o.state = "HeaderLineStart"
          /\ o.id = q.id /\ o.method = q.method /\ o.version = q.version
          /\ o.connection = q.connection /\ o.content = q.content
          /\ o.contentSize = q.contentSize /\ o.chunked = q.chunked
      BY <2>1, Zenon DEF To, Parsers, States
    <3> HIDE DEF o
    <3>2. Held(o, id, r)
      BY <1>3, <2>1, <2>4, <3>1 DEF Held, Requests
    <3>3. InHeaders(o, r, j + 1)
      BY <2>1, <3>1 DEF InHeaders, AtStart, Fresh, H, Requests
    <3>4. ParserAt(o, id, r, j + 1)
      BY <3>1, <3>2, <3>3, Zenon DEF ParserAt
    <3>5. j + 1 < size
      BY <1>3 DEF AtStart
    <3> QED
      BY <2>2, <2>4, <3>4, <3>5 DEF Parsed, o
  <2> QED
    BY <2>3, <2>4
<1> QED
  BY <1>2, <1>3

\* a whole HTTP/1 request
Shaped(e, id, r) ==
    /\ Len(e) \in Nat
    /\ OpeningShape(e, id, r)
    /\ r.body = "none" => PlainShape(e, H(r))
    /\ r.body = "length" => LengthShape(e, id, H(r), r.n)
    /\ r.body = "chunks" => ChunksShape(e, id, H(r), r.n, T(r), r.trailer)

LEMMA Sizes ==
    ASSUME NEW r \in Requests
    PROVE  /\ H(r) \in Nat /\ T(r) \in Nat /\ B(r) \in Nat /\ r.n \in Nat
           /\ H(r) = 0 <=> r.connection = "absent"
           /\ r.connection # "absent" => H(r) = 1
           /\ r.trailer => T(r) = 2
           /\ ~r.trailer => T(r) = 0
           /\ r.body = "none" => B(r) = 0
           /\ r.body # "none" => B(r) = 1
           /\ r.body \in {"none", "length", "chunks"} /\ r.trailer \in BOOLEAN
           /\ r.connection \in {"absent", "keep-alive", "close"}
  BY DEF H, T, B, Requests

LEMMA BytesAt ==
    ASSUME NEW e, NEW id, NEW r, Shaped(e, id, r)
    PROVE  /\ r.body = "length" => \A i \in 1 .. r.n : e[4 + H(r) + i] = Byte(id)
           /\ r.body = "chunks" => \A i \in 1 .. r.n : e[6 + H(r) + i] = Byte(id)
  BY Zenon DEF Shaped, LengthShape, ChunksShape

LEMMA Moved ==
    ASSUME NEW p \in Parsers, NEW s \in States, p.result = "incomplete"
    PROVE  /\ To(p, s) \in Parsers /\ To(p, s).result = "incomplete" /\ To(p, s).state = s
           /\ To(p, s).id = p.id /\ To(p, s).method = p.method /\ To(p, s).version = p.version
           /\ To(p, s).connection = p.connection /\ To(p, s).content = p.content
           /\ To(p, s).contentSize = p.contentSize /\ To(p, s).chunked = p.chunked
           /\ To(p, s).chunkSize = p.chunkSize /\ To(p, s).keepAlive = p.keepAlive
  BY Zenon DEF To, Parsers

LEMMA Completed ==
    ASSUME NEW p \in Parsers
    PROVE  /\ Complete(p) \in Parsers /\ Complete(p).result = "completed"
           /\ Complete(p).id = p.id /\ Complete(p).content = p.content
           /\ Complete(p).keepAlive = p.keepAlive
  BY Zenon DEF Complete, Parsers, Results

LEMMA HeadersConsumed ==
    ASSUME NEW id \in Nat, NEW r \in Requests, WellFormed(r), NEW p \in Parsers,
           p.result = "incomplete", Held(p, id, r), NEW e, Shaped(e, id, r), NEW j,
           InHeaders(p, r, j)
    PROVE  Parsed(consume(p, e[j + 1]), id, r, j + 1, Len(e))
<1>1. PICK c : c = e[j + 1]
  OBVIOUS
<1>2. consume(p, c) = HeaderLine(p, c) /\ p.content = <<>>
  BY DEF consume, InHeaders
<1>3. PICK h \in Nat, b \in Nat, n \in Nat, t \in Nat : h = H(r) /\ b = B(r) /\ n = r.n /\ t = T(r)
  BY Sizes, Zenon
<1>4. /\ h = 0 <=> r.connection = "absent"
      /\ r.connection # "absent" => h = 1
      /\ r.body = "none" => b = 0
      /\ r.body # "none" => b = 1
      /\ r.body \in {"none", "length", "chunks"}
      /\ r.connection \in {"absent", "keep-alive", "close"}
  BY <1>3, Sizes, Zenon
<1>9. /\ Len(e) \in Nat
      /\ r.body = "none" => Len(e) = 3 + h /\ e[2 + h] = CR
      /\ r.body = "length" => Len(e) = 4 + h + n /\ e[2 + h] = Length(n) /\ e[3 + h] = CR
      /\ r.body = "chunks" => Len(e) = 11 + h + n + t /\ e[2 + h] = Encoding /\ e[3 + h] = CR
  <2>1. /\ Len(e) \in Nat
        /\ r.body = "none" => Len(e) = 3 + H(r) /\ e[2 + H(r)] = CR
        /\ r.body = "length" => /\ Len(e) = 4 + H(r) + r.n
                                /\ e[2 + H(r)] = Length(r.n) /\ e[3 + H(r)] = CR
        /\ r.body = "chunks" => /\ Len(e) = 11 + H(r) + r.n + T(r)
                                /\ e[2 + H(r)] = Encoding /\ e[3 + H(r)] = CR
    BY Zenon DEF Shaped, PlainShape, LengthShape, ChunksShape
  <2> QED
    BY <1>3, <2>1
<1>5. CASE /\ j = 1 /\ r.connection # "absent"
           /\ p.connection = "absent" /\ p.contentSize = 0 /\ p.chunked = FALSE
  <2> DEFINE o == [p EXCEPT !.connection = IF @ = "absent" THEN c.value ELSE @]
  <2>1. c = Conn(r.connection)
    BY <1>1, <1>5 DEF Shaped, OpeningShape
  <2>2. c.kind = "conn" /\ c.value = r.connection
    BY <2>1 DEF Conn
  <2>3. consume(p, c) = o
    BY <1>2, <2>2 DEF HeaderLine
  <2>4. /\ o \in Parsers /\ o.result = "incomplete" /\ o.state = p.state
        /\ o.id = p.id /\ o.method = p.method /\ o.version = p.version
        /\ o.connection = r.connection /\ o.content = p.content
        /\ o.contentSize = p.contentSize /\ o.chunked = p.chunked
    BY <1>4, <1>5, <2>2, Zenon DEF Parsers
  <2> HIDE DEF o
  <2>5. Held(o, id, r)
    BY <2>4, Zenon DEF Held
  <2>6. InHeaders(o, r, j + 1)
    BY <1>3, <1>4, <1>5, <2>4 DEF InHeaders
  <2>7. j + 1 < Len(e)
    BY <1>3, <1>4, <1>5, <1>9
  <2> QED
    BY <1>1, <2>3, <2>4, <2>5, <2>6, <2>7, Zenon DEF Parsed, ParserAt
<1>6. ASSUME c = CR, j = 1 + h + b, p.connection = r.connection, Announced(p, r)
      PROVE  Parsed(consume(p, c), id, r, j + 1, Len(e))
  <2> DEFINE o == To(p, "ExpectingNewline_3")
  <2>1. consume(p, c) = o
    BY <1>2, <1>6 DEF HeaderLine, CR
  <2>2. /\ o \in Parsers /\ o.result = "incomplete" /\ o.state = "ExpectingNewline_3"
        /\ o.id = p.id /\ o.method = p.method /\ o.version = p.version
        /\ o.connection = p.connection /\ o.content = p.content
        /\ o.contentSize = p.contentSize /\ o.chunked = p.chunked
    <3>1. "ExpectingNewline_3" \in States
      BY DEF States
    <3> QED
      BY <3>1, Moved, Zenon
  <2> HIDE DEF o
  <2>3. Held(o, id, r) /\ Announced(o, r)
    BY <1>6, <2>2, Zenon DEF Held, Announced
  <2>4. j + 1 = 2 + H(r) + B(r)
    BY <1>3, <1>6
  <2>6. j + 1 < Len(e)
    BY <1>4, <1>6, <1>9
  <2>5. AfterHeaders(o, r, j + 1)
    BY <1>2, <1>6, <2>2, <2>3, <2>4, Zenon DEF AfterHeaders
  <2> QED
    BY <2>1, <2>2, <2>3, <2>5, <2>6, Zenon DEF Parsed, ParserAt
<1>7. CASE /\ j = 1 + h /\ p.connection = r.connection
           /\ p.contentSize = 0 /\ p.chunked = FALSE
  <2>0. c = e[2 + h] /\ j + 1 = 2 + h
    BY <1>1, <1>7
  <2>1. CASE r.body = "none"
    <3>1. c = CR /\ p.contentSize = 0 /\ p.chunked = FALSE
      BY <1>7, <1>9, <2>0, <2>1, Zenon
    <3>2. j = 1 + h + b
      BY <1>4, <1>7, <2>1
    <3>3. Announced(p, r)
      BY <2>1, <3>1, Zenon DEF Announced
    <3> QED
      BY <1>1, <1>6, <1>7, <3>1, <3>2, <3>3, Zenon
  <2>2. ASSUME NEW o \in Parsers, consume(p, c) = o, o.result = "incomplete", o.state = p.state,
               o.id = p.id, o.method = p.method, o.version = p.version,
               o.connection = p.connection, o.content = p.content, Announced(o, r),
               r.body # "none"
        PROVE  Parsed(consume(p, c), id, r, j + 1, Len(e))
    <3>1. Held(o, id, r)
      BY <2>2, Zenon DEF Held
    <3>2. InHeaders(o, r, j + 1)
      BY <1>3, <1>7, <2>2 DEF InHeaders
    <3>3. j + 1 < Len(e)
      <4>1. r.body = "length" \/ r.body = "chunks"
        BY <1>4, <2>2, Zenon
      <4>2. Len(e) = 4 + h + n \/ Len(e) = 11 + h + n + t
        BY <1>9, <4>1, Zenon
      <4> QED
        BY <2>0, <4>2
    <3> QED
      BY <2>2, <3>1, <3>2, <3>3, Zenon DEF Parsed, ParserAt
  <2>3. p.method \in BodyMethods \/ r.body = "none"
    BY DEF Held, WellFormed
  <2>4. CASE r.body = "length"
    <3> DEFINE o == [p EXCEPT !.contentSize = IF p.method \in BodyMethods THEN c.n ELSE @]
    <3>1. c = Length(n)
      BY <1>9, <2>0, <2>4, Zenon
    <3>2. c.kind = "length" /\ c.n = n
      BY <3>1 DEF Length
    <3>3. consume(p, c) = o
      BY <1>2, <3>2 DEF HeaderLine
    <3>4. /\ o \in Parsers /\ o.result = "incomplete" /\ o.state = p.state
          /\ o.id = p.id /\ o.method = p.method /\ o.version = p.version
          /\ o.connection = p.connection /\ o.content = p.content
          /\ o.contentSize = n /\ o.chunked = p.chunked
      BY <1>4, <2>3, <2>4, <3>2, Zenon DEF Parsers
    <3> HIDE DEF o
    <3>5. Announced(o, r)
      BY <1>3, <1>7, <2>4, <3>4, Zenon DEF Announced
    <3> QED
      BY <1>1, <2>2, <2>4, <3>3, <3>4, <3>5
  <2>5. CASE r.body = "chunks"
    <3> DEFINE o == [p EXCEPT !.chunked = @ \/ p.method \in BodyMethods]
    <3>1. c = Encoding
      BY <1>9, <2>0, <2>5, Zenon
    <3>2. c.kind = "encoding"
      BY <3>1 DEF Encoding
    <3>3. consume(p, c) = o
      BY <1>2, <3>2 DEF HeaderLine
    <3>4. /\ o \in Parsers /\ o.result = "incomplete" /\ o.state = p.state
          /\ o.id = p.id /\ o.method = p.method /\ o.version = p.version
          /\ o.connection = p.connection /\ o.content = p.content
          /\ o.contentSize = p.contentSize /\ o.chunked = TRUE
      BY <1>7, <2>3, <2>5, Zenon DEF Parsers
    <3> HIDE DEF o
    <3>5. Announced(o, r)
      BY <1>7, <2>5, <3>4, Zenon DEF Announced
    <3> QED
      BY <1>1, <2>2, <2>5, <3>3, <3>4, <3>5
  <2> QED
    BY <1>1, <1>4, <2>1, <2>4, <2>5, Zenon
<1>8. CASE /\ j = 2 + h /\ r.body # "none"
           /\ p.connection = r.connection /\ Announced(p, r)
  <2>1. c = CR
    BY <1>1, <1>3, <1>4, <1>8, <1>9
  <2>2. j = 1 + h + b
    BY <1>4, <1>8
  <2> QED
    BY <1>1, <1>6, <1>8, <2>1, <2>2, Zenon
<1> QED
  BY <1>3, <1>5, <1>7, <1>8, Zenon DEF InHeaders

LEMMA EndOfHeadersConsumed ==
    ASSUME NEW id \in Nat, NEW r \in Requests, WellFormed(r), NEW p \in Parsers,
           p.result = "incomplete", Held(p, id, r), NEW e, Shaped(e, id, r), NEW j,
           AfterHeaders(p, r, j)
    PROVE  Parsed(consume(p, e[j + 1]), id, r, j + 1, Len(e))
<1>1. PICK c : c = e[j + 1]
  OBVIOUS
<1> DEFINE q == [p EXCEPT !.keepAlive = KeepAlive(p)]
<1>2. consume(p, c) = CASE p.chunked -> To(q, "ChunkSize")
                        [] ~p.chunked /\ p.contentSize > 0 -> To(q, "Post")
                        [] OTHER -> IF c.kind = "lf" THEN Complete(q) ELSE Fail(q)
  <2>1. consume(p, c) = EndOfHeaders(p, c)
    BY DEF consume, AfterHeaders
  <2> QED
    BY <2>1, Zenon DEF EndOfHeaders
<1>3. PICK h \in Nat, b \in Nat, n \in Nat, t \in Nat : h = H(r) /\ b = B(r) /\ n = r.n /\ t = T(r)
  BY Sizes, Zenon
<1>4. /\ r.body = "none" => b = 0
      /\ r.body # "none" => b = 1
      /\ r.body \in {"none", "length", "chunks"}
  BY <1>3, Sizes, Zenon
<1>5. /\ p.content = <<>> /\ j = 2 + h + b /\ p.connection = r.connection
      /\ p.contentSize = (IF r.body = "length" THEN n ELSE 0)
      /\ p.chunked = (r.body = "chunks")
  BY <1>3, Zenon DEF AfterHeaders, Announced
<1>6. /\ r.body = "none" => Len(e) = 3 + h /\ e[3 + h] = LF
      /\ r.body = "length" => Len(e) = 4 + h + n /\ e[4 + h] = LF
      /\ r.body = "chunks" => Len(e) = 11 + h + n + t
  <2>1. /\ r.body = "none" => Len(e) = 3 + H(r) /\ e[3 + H(r)] = LF
        /\ r.body = "length" => Len(e) = 4 + H(r) + r.n /\ e[4 + H(r)] = LF
        /\ r.body = "chunks" => Len(e) = 11 + H(r) + r.n + T(r)
    BY Zenon DEF Shaped, PlainShape, LengthShape, ChunksShape
  <2> QED
    BY <1>3, <2>1
<1>7. KeepAlive(p) \in BOOLEAN /\ (WantsKeepAlive(r) => KeepAlive(p))
  BY <1>5, Zenon DEF KeepAlive, WantsKeepAlive, Held, Parsers
<1>8. /\ q \in Parsers /\ q.result = "incomplete"
      /\ q.id = p.id /\ q.method = p.method /\ q.version = p.version
      /\ q.connection = p.connection /\ q.content = p.content
      /\ q.contentSize = p.contentSize /\ q.chunked = p.chunked
      /\ q.keepAlive = KeepAlive(p)
  BY <1>7, Zenon DEF Parsers
<1> HIDE DEF q
<1>9. Repeat(id, 0) = <<>>
  BY RepeatNone, Zenon
<1>10. CASE r.body = "chunks"
  <2> DEFINE o == To(q, "ChunkSize")
  <2>1. consume(p, c) = o
    BY <1>2, <1>5, <1>10, Zenon
  <2>2. "ChunkSize" \in States
    BY DEF States
  <2>3. /\ o \in Parsers /\ o.result = "incomplete" /\ o.state = "ChunkSize"
        /\ o.id = p.id /\ o.method = p.method /\ o.version = p.version
        /\ o.content = p.content /\ o.keepAlive = KeepAlive(p)
    BY <1>8, <2>2, Moved
  <2> HIDE DEF o
  <2>4. Held(o, id, r) /\ KeepsAlive(o, r)
    BY <1>7, <2>3, Zenon DEF Held, KeepsAlive
  <2>5. j + 1 = 4 + H(r) /\ j + 1 < Len(e)
    BY <1>3, <1>4, <1>5, <1>6, <1>10, SMTT(30)
  <2>6. InChunk(o, id, r, j + 1)
    BY <1>5, <1>10, <2>3, <2>4, <2>5, Zenon DEF InChunk
  <2> QED
    BY <1>1, <2>1, <2>3, <2>4, <2>5, <2>6, Zenon DEF Parsed, ParserAt
<1>11. CASE r.body = "length" /\ n > 0
  <2> DEFINE o == To(q, "Post")
  <2>1. p.chunked = FALSE /\ p.contentSize = n
    BY <1>5, <1>11, Zenon
  <2>2. consume(p, c) = o
    BY <1>2, <1>11, <2>1
  <2>3. "Post" \in States
    BY DEF States
  <2>4. /\ o \in Parsers /\ o.result = "incomplete" /\ o.state = "Post"
        /\ o.id = p.id /\ o.method = p.method /\ o.version = p.version
        /\ o.content = p.content /\ o.keepAlive = KeepAlive(p) /\ o.contentSize = p.contentSize
    BY <1>8, <2>3, Moved
  <2> HIDE DEF o
  <2>5. Held(o, id, r) /\ KeepsAlive(o, r)
    BY <1>7, <2>4, Zenon DEF Held, KeepsAlive
  <2>6. j + 1 = 4 + h /\ j + 1 < Len(e) /\ n - n = 0
    BY <1>4, <1>5, <1>6, <1>11
  <2>7. o.contentSize = r.n /\ o.content = Repeat(id, r.n - o.contentSize)
    BY <1>3, <1>5, <1>9, <2>1, <2>4, <2>6
  <2>8. r.n \in 1 .. r.n /\ j + 1 = 4 + H(r) + r.n - r.n
    BY <1>3, <1>11, <2>6, SMTT(30)
  <2>9. InPost(o, id, r, j + 1)
    BY <1>11, <2>4, <2>5, <2>7, <2>8, Zenon DEF InPost
  <2> QED
    BY <1>1, <2>2, <2>4, <2>5, <2>6, <2>9, Zenon DEF Parsed, ParserAt
<1>12. CASE r.body = "none" \/ (r.body = "length" /\ n = 0)
  <2>1. p.chunked = FALSE /\ p.contentSize = 0
    BY <1>5, <1>12, Zenon
  <2>2. c = LF /\ j + 1 = Len(e)
    <3>1. CASE r.body = "none"
      BY <1>1, <1>4, <1>5, <1>6, <3>1
    <3>2. CASE r.body = "length" /\ n = 0
      BY <1>1, <1>4, <1>5, <1>6, <3>2
    <3> QED
      BY <1>12, <3>1, <3>2
  <2>3. consume(p, c) = Complete(q)
    <3>1. c.kind = "lf"
      BY <2>2 DEF LF
    <3> QED
      BY <1>2, <2>1, <3>1
  <2>4. Content(id, r) = <<>>
    BY <1>3, <1>9, <1>12 DEF Content
  <2>5. /\ Complete(q) \in Parsers /\ Complete(q).result = "completed"
        /\ Complete(q).id = id /\ Complete(q).content = <<>>
        /\ Complete(q).keepAlive = KeepAlive(p)
    BY <1>5, <1>8, Completed, Zenon DEF Held
  <2>6. r.version # "bad" /\ r.version # "0.9"
    BY DEF Held
  <2> QED
    BY <1>1, <1>7, <2>2, <2>3, <2>4, <2>5, <2>6 DEF Parsed, KeepsAlive
<1> QED
  <2>1. n = 0 \/ n > 0
    BY <1>3
  <2> QED
    BY <1>4, <1>10, <1>11, <1>12, <2>1, Zenon

\* one more byte of the body
LEMMA BodyGrows ==
    ASSUME NEW id \in Nat, NEW p, NEW n \in Nat, NEW k \in 1 .. n
    PROVE  p.content = Repeat(id, n - k) =>
               /\ Body(p, Byte(id)) = Repeat(id, n - (k - 1))
               /\ Body(p, Byte(id)) \in Seq(Nat)
<1> SUFFICES ASSUME p.content = Repeat(id, n - k)
             PROVE  /\ Body(p, Byte(id)) = Repeat(id, n - (k - 1))
                    /\ Body(p, Byte(id)) \in Seq(Nat)
  OBVIOUS
<1>1. PICK m \in Nat : m = n - k /\ m + 1 = n - (k - 1)
  BY SMT
<1>2. Body(p, Byte(id)) = Append(Repeat(id, m), id)
  BY <1>1 DEF Body, Byte
<1>3. Append(Repeat(id, m), id) = Repeat(id, m + 1)
  BY RepeatAppend, Zenon
<1>4. m + 1 \in Nat
  BY <1>1
<1>5. Repeat(id, m + 1) \in Seq(Nat)
  BY <1>4, RepeatIsSeq
<1> QED
  BY <1>1, <1>2, <1>3, <1>5, Zenon

LEMMA PostConsumed ==
    ASSUME NEW id \in Nat, NEW r \in Requests, NEW p \in Parsers,
           p.result = "incomplete", Held(p, id, r), NEW e, Shaped(e, id, r), NEW j,
           InPost(p, id, r, j)
    PROVE  Parsed(consume(p, e[j + 1]), id, r, j + 1, Len(e))
<1>1. PICK c : c = e[j + 1]
  OBVIOUS
<1> DEFINE q == [p EXCEPT !.contentSize = @ - 1, !.content = Body(p, c)]
<1>2. consume(p, c) = IF q.contentSize = 0 THEN Complete(q) ELSE q
  <2>1. consume(p, c) = Post(p, c)
    BY DEF consume, InPost
  <2> QED
    BY <2>1, Zenon DEF Post
<1>3. PICK h \in Nat, n \in Nat : h = H(r) /\ n = r.n
  BY Sizes, Zenon
<1>4. PICK k \in 1 .. n : k = p.contentSize
  BY <1>3, Zenon DEF InPost
<1>5. /\ r.body = "length" /\ KeepsAlive(p, r) /\ p.state = "Post"
      /\ p.content = Repeat(id, n - k) /\ j = 4 + h + n - k
  BY <1>3, <1>4, Zenon DEF InPost
<1>6. Len(e) = 4 + h + n /\ \A i \in 1 .. n : e[4 + h + i] = Byte(id)
  BY <1>3, <1>5, Zenon DEF Shaped, LengthShape
<1>7. c = Byte(id)
  <2>1. PICK i \in 1 .. n : j + 1 = 4 + h + i
    <3>1. n - k + 1 \in 1 .. n /\ j + 1 = 4 + h + (n - k + 1)
      BY <1>5
    <3> QED
      BY <3>1, Zenon
  <2> QED
    BY <1>1, <1>6, <2>1, Zenon
<1>8. Body(p, c) = Repeat(id, n - (k - 1)) /\ Body(p, c) \in Seq(Nat)
  <2>1. p.content = Repeat(id, n - k) =>
            /\ Body(p, Byte(id)) = Repeat(id, n - (k - 1))
            /\ Body(p, Byte(id)) \in Seq(Nat)
    BY BodyGrows, Zenon
  <2> QED
    BY <1>5, <1>7, <2>1, Zenon
<1>9. /\ q \in Parsers /\ q.result = "incomplete" /\ q.state = p.state
      /\ q.id = p.id /\ q.method = p.method /\ q.version = p.version
      /\ q.content = Repeat(id, n - (k - 1)) /\ q.contentSize = k - 1
      /\ q.keepAlive = p.keepAlive
  <2>1. k - 1 \in Nat /\ p.contentSize - 1 = k - 1
    BY <1>4
  <2> QED
    BY <1>8, <2>1, Zenon DEF Parsers
<1> HIDE DEF q
<1>10. Held(q, id, r) /\ KeepsAlive(q, r)
  BY <1>5, <1>9, Zenon DEF Held, KeepsAlive
<1>11. CASE k = 1
  <2>1. k - 1 = 0 /\ n - (k - 1) = n /\ j + 1 = Len(e)
    BY <1>5, <1>6, <1>11
  <2>2. consume(p, c) = Complete(q)
    BY <1>2, <1>9, <2>1
  <2>3. Content(id, r) = Repeat(id, n)
    BY <1>3, <1>5 DEF Content
  <2>4. /\ Complete(q) \in Parsers /\ Complete(q).result = "completed"
        /\ Complete(q).id = q.id /\ Complete(q).content = q.content
        /\ Complete(q).keepAlive = q.keepAlive
    BY <1>9, Completed, Zenon
  <2>5. KeepsAlive(Complete(q), r)
    BY <1>10, <2>4, Zenon DEF KeepsAlive
  <2>6. r.version # "bad" /\ r.version # "0.9" /\ q.id = id
    BY <1>10 DEF Held
  <2>7. Complete(q).content = Content(id, r) /\ Complete(q).id = id
    BY <1>9, <2>1, <2>3, <2>4, <2>6
  <2> QED
    BY <1>1, <2>1, <2>2, <2>4, <2>5, <2>6, <2>7, Zenon DEF Parsed
<1>12. CASE k # 1
  <2>1. /\ k - 1 \in 1 .. n /\ k - 1 # 0 /\ j + 1 < Len(e) /\ j + 1 = 4 + h + n - (k - 1)
    BY <1>5, <1>6, <1>12
  <2>2. consume(p, c) = q
    BY <1>2, <1>9, <2>1
  <2>3. InPost(q, id, r, j + 1)
    BY <1>3, <1>5, <1>9, <1>10, <2>1, Zenon DEF InPost
  <2> QED
    BY <1>1, <1>9, <1>10, <2>1, <2>2, <2>3, Zenon DEF Parsed, ParserAt
<1> QED
  BY <1>11, <1>12

LEMMA ChunkDataConsumed ==
    ASSUME NEW id \in Nat, NEW r \in Requests, NEW p \in Parsers,
           p.result = "incomplete", Held(p, id, r), NEW e, Shaped(e, id, r), NEW j,
           InChunk(p, id, r, j), p.state = "ChunkData"
    PROVE  Parsed(consume(p, e[j + 1]), id, r, j + 1, Len(e))
<1>1. PICK c : c = e[j + 1]
  OBVIOUS
<1> DEFINE q == [p EXCEPT !.chunkSize = @ - 1, !.content = Body(p, c)]
<1>2. consume(p, c) = IF q.chunkSize = 0 THEN To(q, "ChunkDataNewLine_1") ELSE q
  <2>1. consume(p, c) = ChunkData(p, c)
    BY DEF consume
  <2> QED
    BY <2>1, Zenon DEF ChunkData
<1>3. PICK h \in Nat, n \in Nat, t \in Nat : h = H(r) /\ n = r.n /\ t = T(r)
  BY Sizes, Zenon
<1>4. /\ r.body = "chunks" /\ KeepsAlive(p, r) /\ p.chunkSize \in 1 .. r.n
      /\ p.content = Repeat(id, r.n - p.chunkSize) /\ j = 6 + H(r) + r.n - p.chunkSize
  BY DEF InChunk
<1>5. PICK k \in 1 .. n : k = p.chunkSize
  BY <1>3, <1>4, Zenon
<1>6. p.content = Repeat(id, n - k) /\ j = 6 + h + n - k
  BY <1>3, <1>4, <1>5, Zenon
<1>7. Len(e) = 11 + h + n + t /\ \A i \in 1 .. n : e[6 + h + i] = Byte(id)
  BY <1>3, <1>4, Zenon DEF Shaped, ChunksShape
<1>8. c = Byte(id)
  <2>1. PICK i \in 1 .. n : j + 1 = 6 + h + i
    <3>1. n - k + 1 \in 1 .. n /\ j + 1 = 6 + h + (n - k + 1)
      BY <1>6
    <3> QED
      BY <3>1, Zenon
  <2> QED
    BY <1>1, <1>7, <2>1, Zenon
<1>9. Body(p, c) = Repeat(id, n - (k - 1)) /\ Body(p, c) \in Seq(Nat)
  <2>1. p.content = Repeat(id, n - k) =>
            /\ Body(p, Byte(id)) = Repeat(id, n - (k - 1))
            /\ Body(p, Byte(id)) \in Seq(Nat)
    BY BodyGrows, Zenon
  <2> QED
    BY <1>6, <1>8, <2>1, Zenon
<1>10. /\ q \in Parsers /\ q.result = "incomplete" /\ q.state = "ChunkData"
       /\ q.id = p.id /\ q.method = p.method /\ q.version = p.version
       /\ q.content = Repeat(id, n - (k - 1)) /\ q.chunkSize = k - 1
       /\ q.keepAlive = p.keepAlive
  <2>1. k - 1 \in Nat /\ p.chunkSize - 1 = k - 1
    BY <1>5
  <2> QED
    BY <1>9, <2>1, Zenon DEF Parsers
<1> HIDE DEF q
<1>11. Held(q, id, r) /\ KeepsAlive(q, r)
  BY <1>4, <1>10, Zenon DEF Held, KeepsAlive
<1>12. j + 1 < Len(e)
  BY <1>6, <1>7
<1>13. CASE k = 1
  <2> DEFINE o == To(q, "ChunkDataNewLine_1")
  <2>1. k - 1 = 0 /\ n - (k - 1) = n /\ j + 1 = 6 + h + n
    BY <1>6, <1>13
  <2>2. consume(p, c) = o
    BY <1>2, <1>10, <2>1
  <2>3. "ChunkDataNewLine_1" \in States
    BY DEF States
  <2>4. /\ o \in Parsers /\ o.result = "incomplete" /\ o.state = "ChunkDataNewLine_1"
        /\ o.id = q.id /\ o.method = q.method /\ o.version = q.version
        /\ o.content = q.content /\ o.keepAlive = q.keepAlive
    BY <1>10, <2>3, Moved, Zenon
  <2> HIDE DEF o
  <2>5. Held(o, id, r) /\ KeepsAlive(o, r)
    BY <1>11, <2>4, Zenon DEF Held, KeepsAlive
  <2>6. AfterChunk(o, id, r, j + 1)
    BY <1>3, <1>4, <1>10, <2>1, <2>4, <2>5, Zenon DEF AfterChunk
  <2> QED
    BY <1>1, <1>12, <2>2, <2>4, <2>5, <2>6, Zenon DEF Parsed, ParserAt
<1>14. CASE k # 1
  <2>1. k - 1 \in 1 .. n /\ k - 1 # 0 /\ j + 1 = 6 + h + n - (k - 1)
    BY <1>6, <1>14
  <2>2. consume(p, c) = q
    BY <1>2, <1>10, <2>1
  <2>3. InChunk(q, id, r, j + 1)
    BY <1>3, <1>4, <1>10, <1>11, <2>1, Zenon DEF InChunk
  <2> QED
    BY <1>1, <1>10, <1>11, <1>12, <2>2, <2>3, Zenon DEF Parsed, ParserAt
<1> QED
  BY <1>13, <1>14

LEMMA SizeRead ==
    ASSUME NEW p \in Parsers, p.result = "incomplete", p.state = "ChunkSize", NEW n \in Nat
    PROVE  \E o \in Parsers :
              /\ consume(p, Size(n)) = o
              /\ o.result = "incomplete" /\ o.state = "ChunkSizeNewLine" /\ o.chunkSize = n
              /\ o.id = p.id /\ o.method = p.method /\ o.version = p.version
              /\ o.content = p.content /\ o.keepAlive = p.keepAlive
<1> DEFINE q == To(p, "ChunkSizeNewLine")
           o == [q EXCEPT !.chunkSize = Size(n).n]
<1>1. "ChunkSizeNewLine" \in States
  BY DEF States
<1>2. /\ q \in Parsers /\ q.result = "incomplete" /\ q.state = "ChunkSizeNewLine"
      /\ q.id = p.id /\ q.method = p.method /\ q.version = p.version
      /\ q.content = p.content /\ q.keepAlive = p.keepAlive
  BY <1>1, Moved, Zenon
<1>3. consume(p, Size(n)) = ChunkSize(p, Size(n))
  BY DEF consume
<1>4. Size(n).kind = "size" /\ Size(n).n = n
  BY DEF Size
<1>5. consume(p, Size(n)) = o
  BY <1>3, <1>4, Zenon DEF ChunkSize
<1> HIDE DEF q
<1>6. /\ o \in Parsers /\ o.result = "incomplete" /\ o.state = "ChunkSizeNewLine"
      /\ o.chunkSize = n /\ o.id = q.id /\ o.method = q.method /\ o.version = q.version
      /\ o.content = q.content /\ o.keepAlive = q.keepAlive
  BY <1>2, <1>4, Zenon DEF Parsers
<1> HIDE DEF o
<1> QED
  BY <1>2, <1>5, <1>6, Zenon

\* the states that wait for one kind of lexeme and read nothing from it
LEMMA ChunkMoves ==
    ASSUME NEW p \in Parsers, p.result = "incomplete", NEW s \in States
    PROVE  \E o \in Parsers :
              /\ To(p, s) = o
              /\ o.result = "incomplete" /\ o.state = s /\ o.chunkSize = p.chunkSize
              /\ o.id = p.id /\ o.method = p.method /\ o.version = p.version
              /\ o.content = p.content /\ o.keepAlive = p.keepAlive
  BY Moved, Zenon

LEMMA ChunkStartConsumed ==
    ASSUME NEW id \in Nat, NEW r \in Requests, WellFormed(r), NEW p \in Parsers,
           p.result = "incomplete", Held(p, id, r), NEW e, Shaped(e, id, r), NEW j,
           InChunk(p, id, r, j), p.state # "ChunkData"
    PROVE  Parsed(consume(p, e[j + 1]), id, r, j + 1, Len(e))
<1>1. PICK h \in Nat, n \in Nat, t \in Nat : h = H(r) /\ n = r.n /\ t = T(r)
  BY Sizes, Zenon
<1>2. r.body = "chunks" /\ KeepsAlive(p, r) /\ n # 0
  BY <1>1 DEF InChunk, WellFormed
<1>3. Len(e) = 11 + h + n + t /\ e[5 + h] = Size(n) /\ e[6 + h] = LF
  BY <1>1, <1>2, Zenon DEF Shaped, ChunksShape
<1>4. ASSUME NEW o \in Parsers, consume(p, e[j + 1]) = o, o.result = "incomplete",
             o.id = p.id, o.method = p.method, o.version = p.version, o.keepAlive = p.keepAlive,
             KeepsAlive(o, r) => InChunk(o, id, r, j + 1), j + 1 < Len(e)
      PROVE  Parsed(consume(p, e[j + 1]), id, r, j + 1, Len(e))
  <2>1. Held(o, id, r) /\ KeepsAlive(o, r)
    BY <1>2, <1>4, Zenon DEF Held, KeepsAlive
  <2> QED
    BY <1>4, <2>1, Zenon DEF Parsed, ParserAt
<1>5. CASE p.state = "ChunkSize" /\ p.content = <<>> /\ j = 4 + h
  <2>1. j + 1 = 5 + h /\ j + 1 < Len(e)
    BY <1>3, <1>5
  <2>2. e[j + 1] = Size(n)
    BY <1>3, <2>1, Zenon
  <2>3. PICK o \in Parsers :
              /\ consume(p, Size(n)) = o
              /\ o.result = "incomplete" /\ o.state = "ChunkSizeNewLine" /\ o.chunkSize = n
              /\ o.id = p.id /\ o.method = p.method /\ o.version = p.version
              /\ o.content = p.content /\ o.keepAlive = p.keepAlive
    BY <1>5, SizeRead, Zenon
  <2>4. KeepsAlive(o, r) => InChunk(o, id, r, j + 1)
    BY <1>1, <1>2, <1>5, <2>1, <2>3, Zenon DEF InChunk
  <2>5. consume(p, e[j + 1]) = o
    BY <2>2, <2>3, Zenon
  <2> QED
    BY <1>4, <2>1, <2>3, <2>4, <2>5, Zenon
<1>6. CASE p.state = "ChunkSizeNewLine" /\ p.content = <<>> /\ p.chunkSize = n /\ j = 5 + h
  <2>1. j + 1 = 6 + h /\ j + 1 < Len(e) /\ j + 1 = 6 + h + n - n
    BY <1>3, <1>6
  <2>2. e[j + 1] = LF
    BY <1>3, <2>1, Zenon
  <2>3. consume(p, LF) = ChunkSizeNewLine(p, LF)
    BY <1>6 DEF consume
  <2>4. LF.kind = "lf"
    BY DEF LF
  <2>5. consume(p, LF) = To(p, "ChunkData")
    BY <1>2, <1>6, <2>3, <2>4, Zenon DEF ChunkSizeNewLine, Expect
  <2>6. "ChunkData" \in States
    BY DEF States
  <2>7. PICK o \in Parsers :
              /\ To(p, "ChunkData") = o
              /\ o.result = "incomplete" /\ o.state = "ChunkData" /\ o.chunkSize = p.chunkSize
              /\ o.id = p.id /\ o.method = p.method /\ o.version = p.version
              /\ o.content = p.content /\ o.keepAlive = p.keepAlive
    BY <2>6, ChunkMoves, Zenon
  <2>8. /\ o.chunkSize = n /\ n \in 1 .. n /\ n - n = 0
    BY <1>2, <1>6, <2>7
  <2>9. o.content = Repeat(id, n - n)
    BY <1>6, <2>7, <2>8, RepeatNone
  <2>10. KeepsAlive(o, r) => InChunk(o, id, r, j + 1)
    BY <1>1, <1>2, <2>1, <2>7, <2>8, <2>9, Zenon DEF InChunk
  <2>11. consume(p, e[j + 1]) = o
    BY <2>2, <2>5, <2>7, Zenon
  <2> QED
    BY <1>4, <2>1, <2>7, <2>10, <2>11, Zenon
<1> QED
  BY <1>1, <1>5, <1>6, Zenon DEF InChunk

LEMMA AfterChunkConsumed ==
    ASSUME NEW id \in Nat, NEW r \in Requests, NEW p \in Parsers,
           p.result = "incomplete", Held(p, id, r), NEW e, Shaped(e, id, r), NEW j,
           AfterChunk(p, id, r, j)
    PROVE  Parsed(consume(p, e[j + 1]), id, r, j + 1, Len(e))
<1>1. PICK h \in Nat, n \in Nat, t \in Nat : h = H(r) /\ n = r.n /\ t = T(r)
  BY Sizes, Zenon
<1>2. /\ r.trailer \in BOOLEAN
      /\ r.trailer => t = 2
      /\ ~r.trailer => t = 0
  BY <1>1, Sizes, Zenon
<1>3. r.body = "chunks" /\ KeepsAlive(p, r) /\ p.content = Repeat(id, n)
  BY <1>1, Zenon DEF AfterChunk
<1>4. /\ Len(e) = 11 + h + n + t
      /\ e[7 + h + n] = CRLF /\ e[8 + h + n] = Size(0) /\ e[9 + h + n] = LF
      /\ r.trailer => e[10 + h + n] = Trailer /\ e[11 + h + n] = LF
      /\ e[10 + h + n + t] = CR /\ e[11 + h + n + t] = LF
  BY <1>1, <1>3, Zenon DEF Shaped, ChunksShape
<1>5. ASSUME NEW o \in Parsers, consume(p, e[j + 1]) = o, o.result = "incomplete",
             o.id = p.id, o.method = p.method, o.version = p.version, o.keepAlive = p.keepAlive,
             o.content = p.content,
             KeepsAlive(o, r) /\ o.content = Repeat(id, r.n) => AfterChunk(o, id, r, j + 1),
             j + 1 < Len(e)
      PROVE  Parsed(consume(p, e[j + 1]), id, r, j + 1, Len(e))
  <2>1. Held(o, id, r) /\ KeepsAlive(o, r)
    BY <1>3, <1>5, Zenon DEF Held, KeepsAlive
  <2>2. o.content = Repeat(id, r.n)
    BY <1>1, <1>3, <1>5, Zenon
  <2> QED
    BY <1>5, <2>1, <2>2, Zenon DEF Parsed, ParserAt
<1>6. ASSUME NEW s \in States, consume(p, e[j + 1]) = To(p, s), j + 1 < Len(e),
             \/ s = "ChunkSize" /\ j + 1 = 7 + h + n
             \/ s = "ChunkSizeNewLine" /\ p.chunkSize = 0 /\ r.trailer /\ j + 1 = 10 + h + n
             \/ /\ s = "ChunkSizeNewLine_2" /\ p.chunkSize = 0
                /\ j + 1 = 9 + h + n \/ (r.trailer /\ j + 1 = 11 + h + n)
             \/ s = "ChunkSizeNewLine_3" /\ j + 1 = 10 + h + n + t
      PROVE  Parsed(consume(p, e[j + 1]), id, r, j + 1, Len(e))
  <2>1. PICK o \in Parsers :
              /\ To(p, s) = o
              /\ o.result = "incomplete" /\ o.state = s /\ o.chunkSize = p.chunkSize
              /\ o.id = p.id /\ o.method = p.method /\ o.version = p.version
              /\ o.content = p.content /\ o.keepAlive = p.keepAlive
    BY ChunkMoves, Zenon
  <2>2. KeepsAlive(o, r) /\ o.content = Repeat(id, r.n) => AfterChunk(o, id, r, j + 1)
    BY <1>1, <1>3, <1>6, <2>1, Zenon DEF AfterChunk
  <2>3. consume(p, e[j + 1]) = o
    BY <1>6, <2>1, Zenon
  <2> QED
    BY <1>5, <1>6, <2>1, <2>2, <2>3, Zenon
<1>7. /\ "ChunkSize" \in States /\ "ChunkSizeNewLine" \in States
      /\ "ChunkSizeNewLine_2" \in States /\ "ChunkSizeNewLine_3" \in States
  BY DEF States
<1>8. CASE p.state = "ChunkDataNewLine_1" /\ j = 6 + h + n
  <2>1. j + 1 = 7 + h + n /\ j + 1 < Len(e)
    BY <1>4, <1>8
  <2>2. consume(p, CRLF) = ChunkDataNewLine(p, CRLF) /\ CRLF.kind = "crlf"
    BY <1>8 DEF consume, CRLF
  <2>3. consume(p, e[j + 1]) = To(p, "ChunkSize")
    BY <1>4, <2>1, <2>2, Zenon DEF ChunkDataNewLine, Expect
  <2> QED
    BY <1>6, <1>7, <2>1, <2>3, Zenon
<1>9. CASE p.state = "ChunkSize" /\ j = 7 + h + n
  <2>1. j + 1 = 8 + h + n /\ j + 1 < Len(e) /\ 0 \in Nat
    BY <1>4, <1>9
  <2>2. PICK o \in Parsers :
              /\ consume(p, Size(0)) = o
              /\ o.result = "incomplete" /\ o.state = "ChunkSizeNewLine" /\ o.chunkSize = 0
              /\ o.id = p.id /\ o.method = p.method /\ o.version = p.version
              /\ o.content = p.content /\ o.keepAlive = p.keepAlive
    BY <1>9, <2>1, SizeRead, Zenon
  <2>3. KeepsAlive(o, r) /\ o.content = Repeat(id, r.n) => AfterChunk(o, id, r, j + 1)
    BY <1>1, <1>3, <2>1, <2>2, Zenon DEF AfterChunk
  <2>4. consume(p, e[j + 1]) = o
    BY <1>4, <2>1, <2>2, Zenon
  <2> QED
    BY <1>5, <2>1, <2>2, <2>3, <2>4, Zenon
<1>10. CASE /\ p.state = "ChunkSizeNewLine" /\ p.chunkSize = 0
            /\ j = 8 + h + n \/ (r.trailer /\ j = 10 + h + n)
  <2>1. /\ j + 1 = 9 + h + n \/ (r.trailer /\ j + 1 = 11 + h + n)
        /\ j + 1 < Len(e)
    BY <1>2, <1>4, <1>10
  <2>2. consume(p, LF) = ChunkSizeNewLine(p, LF) /\ LF.kind = "lf"
    BY <1>10 DEF consume, LF
  <2>3. e[j + 1] = LF
    BY <1>4, <2>1, Zenon
  <2>4. consume(p, e[j + 1]) = To(p, "ChunkSizeNewLine_2")
    BY <1>10, <2>2, <2>3, Zenon DEF ChunkSizeNewLine, Expect
  <2> QED
    BY <1>6, <1>7, <1>10, <2>1, <2>4, Zenon
<1>11. CASE /\ p.state = "ChunkSizeNewLine_2" /\ p.chunkSize = 0
            /\ j = 9 + h + n \/ (r.trailer /\ j = 11 + h + n)
  <2>1. \A c : consume(p, c) = ChunkSizeNewLine_2(p, c)
    BY <1>11 DEF consume
  <2>2. CASE r.trailer /\ j = 9 + h + n
    <3>1. j + 1 = 10 + h + n /\ j + 1 < Len(e)
      BY <1>2, <1>4, <2>2
    <3>2. e[j + 1] = Trailer /\ Trailer.kind = "trailer"
      BY <1>4, <2>2, <3>1, SMTT(30) DEF Trailer
    <3>3. consume(p, e[j + 1]) = To(p, "ChunkSizeNewLine")
      BY <2>1, <3>2 DEF ChunkSizeNewLine_2
    <3> QED
      BY <1>6, <1>7, <1>11, <2>2, <3>1, <3>3, Zenon
  <2>3. CASE ~(r.trailer /\ j = 9 + h + n)
    <3>1. j + 1 = 10 + h + n + t /\ j + 1 < Len(e)
      BY <1>2, <1>4, <1>11, <2>3
    <3>2. e[j + 1] = CR /\ CR.kind = "cr"
      BY <1>4, <3>1 DEF CR
    <3>3. consume(p, e[j + 1]) = To(p, "ChunkSizeNewLine_3")
      BY <2>1, <3>2 DEF ChunkSizeNewLine_2
    <3> QED
      BY <1>6, <1>7, <3>1, <3>3, Zenon
  <2> QED
    BY <2>2, <2>3
<1>12. CASE p.state = "ChunkSizeNewLine_3" /\ j = 10 + h + n + t
  <2>1. j + 1 = 11 + h + n + t /\ j + 1 = Len(e)
    BY <1>4, <1>12
  <2>2. consume(p, LF) = ChunkSizeNewLine_3(p, LF) /\ LF.kind = "lf"
    BY <1>12 DEF consume, LF
  <2>3. e[j + 1] = LF
    BY <1>4, <2>1, Zenon
  <2>4. consume(p, e[j + 1]) = Complete(p)
    BY <2>2, <2>3, Zenon DEF ChunkSizeNewLine_3
  <2>5. /\ Complete(p) \in Parsers /\ Complete(p).result = "completed"
        /\ Complete(p).id = p.id /\ Complete(p).content = p.content
        /\ Complete(p).keepAlive = p.keepAlive
    BY Completed, Zenon
  <2>6. r.version # "bad" /\ r.version # "0.9" /\ p.id = id
    BY DEF Held
  <2>7. Content(id, r) = Repeat(id, n)
    BY <1>1, <1>3 DEF Content
  <2>8. KeepsAlive(Complete(p), r) /\ Complete(p).content = Content(id, r)
    BY <1>3, <2>5, <2>7, Zenon DEF KeepsAlive
  <2> QED
    BY <2>1, <2>4, <2>5, <2>6, <2>8, Zenon DEF Parsed
<1> QED
  BY <1>1, <1>8, <1>9, <1>10, <1>11, <1>12, Zenon DEF AfterChunk

LEMMA EncodeShaped ==
    ASSUME NEW id, NEW r \in Requests, r.version \in {"1.0", "1.1"}
    PROVE  Shaped(Encode(id, r), id, r) /\ Len(Encode(id, r)) > 1
<1>1. Len(Encode(id, r)) \in Nat
  <2>1. Encode(id, r) \in Seq(Lexemes(id, r))
    BY EncodeIsSeq
  <2> QED
    BY <2>1
<1>2. Shaped(Encode(id, r), id, r)
  BY <1>1, EncodeShape, Zenon DEF Shaped
<1>3. PICK l \in Nat, h \in Nat, n \in Nat, t \in Nat :
          l = Len(Encode(id, r)) /\ h = H(r) /\ n = r.n /\ t = T(r)
  BY <1>1, Sizes, Zenon
<1>4. l = 3 + h \/ l = 4 + h + n \/ l = 11 + h + n + t
  BY <1>2, <1>3, Sizes, Zenon DEF Shaped, PlainShape, LengthShape, ChunksShape
<1> QED
  BY <1>2, <1>3, <1>4

\* what a request begins with
LEMMA EncodeBegins ==
    ASSUME NEW id, NEW r \in Requests
    PROVE  /\ Len(Encode(id, r)) \in Nat /\ Len(Encode(id, r)) > 0
           /\ r.version = "bad" => Encode(id, r)[1] = Bad
           /\ r.version # "bad" => /\ Encode(id, r)[1] = Line(id, r.version, r.method)
                                   /\ Len(Encode(id, r)) > 1
<1>1. CASE r.version = "0.9"
  <2>1. Encode(id, r) = <<Line(id, r.version, r.method), LF>>
    BY <1>1 DEF Encode
  <2> QED
    BY <1>1, <2>1
<1>2. CASE r.version = "bad"
  <2>1. Encode(id, r) = <<Bad>>
    BY <1>2 DEF Encode
  <2> QED
    BY <1>2, <2>1
<1>3. CASE r.version \in {"1.0", "1.1"}
  <2>1. Shaped(Encode(id, r), id, r) /\ Len(Encode(id, r)) > 1
    BY <1>3, EncodeShaped, Zenon
  <2>2. Len(Encode(id, r)) \in Nat /\ Encode(id, r)[1] = Line(id, r.version, r.method)
    BY <2>1, Zenon DEF Shaped, OpeningShape
  <2>3. Len(Encode(id, r)) > 0 /\ r.version # "bad"
    BY <1>3, <2>1, <2>2
  <2> QED
    BY <2>1, <2>2, <2>3, Zenon
<1> QED
  BY <1>1, <1>2, <1>3 DEF Requests

\* Whatever the parser has consumed of a request, its next lexeme brings it one
\* further, or completes the request with the request's own content, or shows that
\* it is none.
LEMMA LexemeConsumed ==
    ASSUME NEW id \in Nat, NEW r \in Requests, WellFormed(r), NEW p, NEW j, ParserAt(p, id, r, j)
    PROVE  Parsed(consume(p, Encode(id, r)[j + 1]), id, r, j + 1, Len(Encode(id, r)))
<1>1. PICK e : e = Encode(id, r)
  OBVIOUS
<1>2. p \in Parsers /\ p.result = "incomplete"
  BY DEF ParserAt
<1>3. CASE AtStart(p, r, j)
  <2>1. PICK size \in Nat : size = Len(e)
    BY <1>1, EncodeBegins
  <2>2. PICK c : c = e[1]
    OBVIOUS
  <2>3. /\ r.version = "bad" => c = Bad
        /\ r.version # "bad" => c = Line(id, r.version, r.method) /\ size > 1
    BY <1>1, <2>1, <2>2, EncodeBegins, Zenon
  <2>4. Parsed(consume(p, c), id, r, j + 1, size)
    BY <1>2, <1>3, <2>3, StartConsumed, Zenon
  <2>5. c = e[j + 1]
    BY <1>3, <2>2 DEF AtStart
  <2> QED
    BY <1>1, <2>1, <2>4, <2>5, Zenon
<1>4. CASE /\ Held(p, id, r)
           /\ \/ InHeaders(p, r, j)
              \/ AfterHeaders(p, r, j)
              \/ InPost(p, id, r, j)
              \/ InChunk(p, id, r, j)
              \/ AfterChunk(p, id, r, j)
  <2>1. Shaped(e, id, r) /\ Held(p, id, r)
    <3>1. r.version \in {"1.0", "1.1"}
      BY <1>4, Zenon DEF Held
    <3> QED
      BY <1>1, <1>4, <3>1, EncodeShaped, Zenon
  <2>2. Parsed(consume(p, e[j + 1]), id, r, j + 1, Len(e))
    <3>1. CASE InHeaders(p, r, j)
      BY <1>2, <2>1, <3>1, HeadersConsumed, Zenon
    <3>2. CASE AfterHeaders(p, r, j)
      BY <1>2, <2>1, <3>2, EndOfHeadersConsumed, Zenon
    <3>3. CASE InPost(p, id, r, j)
      BY <1>2, <2>1, <3>3, PostConsumed, Zenon
    <3>4. CASE InChunk(p, id, r, j) /\ p.state = "ChunkData"
      BY <1>2, <2>1, <3>4, ChunkDataConsumed, Zenon
    <3>5. CASE InChunk(p, id, r, j) /\ p.state # "ChunkData"
      BY <1>2, <2>1, <3>5, ChunkStartConsumed, Zenon
    <3>6. CASE AfterChunk(p, id, r, j)
      BY <1>2, <2>1, <3>6, AfterChunkConsumed, Zenon
    <3> QED
      BY <1>4, <3>1, <3>2, <3>3, <3>4, <3>5, <3>6, Zenon
  <2> QED
    BY <1>1, <2>2, Zenon
<1> QED
  BY <1>3, <1>4, Zenon DEF ParserAt

-----------------------------------------------------------------------------
(* The inductive invariant. *)

\* the parser is in request k, or after the last one
PositionAt(off, k, at, p) ==
    \/ /\ k <= Len(requests) /\ off[k - 1] <= at /\ at < off[k]
       /\ ParserAt(p, k, requests[k], at - off[k - 1])
    \/ /\ k = Len(requests) + 1 /\ at = Len(stream)
       /\ p \in Parsers /\ p.result = "incomplete" /\ Fresh(p)

\* the request that follows the handled ones
Position(off) == PositionAt(off, Len(handled) + 1, parsed, parser)

\* one reply for each request handled, then perhaps a 400
Replied ==
    \/ /\ Len(replies) = Len(handled) \/ (broken /\ Len(replies) <= Len(handled))
       /\ \A k \in 1 .. Len(replies) : replies[k] = k
    \/ /\ pc = "closed" /\ Len(replies) = Len(handled) + 1
       /\ \A k \in 1 .. Len(handled) : replies[k] = k
       /\ replies[Len(replies)] = 0
       /\ Len(replies) <= Len(requests) /\ requests[Len(replies)].version = "bad"

Answered == pc = "closed" /\ ~broken => \A k \in DOMAIN requests : Due(k) => k <= Len(handled)

ServletTypes == /\ pc \in {"handshake", "read", "parse", "closed"}
                /\ read \in Nat /\ parsed \in Nat /\ Len(stream) \in Nat
                /\ parsed <= read /\ read <= Len(stream)
                /\ parser \in Parsers
                /\ handled \in Seq([id : Nat, content : Seq(Nat)])
                /\ replies \in Seq(Nat)
                /\ broken \in BOOLEAN

ServletInv(off) ==
    /\ requests \in Streams
    /\ ServletTypes
    /\ Len(handled) <= Len(requests) /\ RequestsFramed
    /\ pc # "closed" => Position(off)
    /\ pc \in {"handshake", "read"} => parsed = read
    /\ Replied
    /\ Answered

FramedInv == \E off : Frames(off, requests, stream) /\ ServletInv(off)

LEMMA StreamIsWellFormed ==
    ASSUME requests \in Streams
    PROVE  /\ requests \in Seq(Requests) /\ Len(requests) \in Nat
           /\ DOMAIN requests = 1 .. Len(requests)
           /\ \A k \in 1 .. Len(requests) : /\ requests[k] \in Requests /\ WellFormed(requests[k])
                                            /\ requests[k].version = "0.9" => k = 1
<1>1. /\ requests \in Seq(Requests)
      /\ \A k \in DOMAIN requests : /\ WellFormed(requests[k])
                                    /\ requests[k].version = "0.9" => k = 1
  BY StreamsAssumption, Zenon
<1>2. Len(requests) \in Nat /\ DOMAIN requests = 1 .. Len(requests)
  BY <1>1
<1>3. \A k \in 1 .. Len(requests) : requests[k] \in Requests
  BY <1>1
<1> QED
  BY <1>1, <1>2, <1>3, Zenon

\* A parser without anything of a request is at the beginning of the next one.
LEMMA NextRequest ==
    ASSUME requests \in Streams, NEW off, Frames(off, requests, stream), Len(stream) \in Nat,
           NEW k \in 0 .. Len(requests), NEW p \in Parsers, p.result = "incomplete", Fresh(p),
           k = 0 => p.keepAlive = FALSE
    PROVE  PositionAt(off, k + 1, off[k], p)
<1>1. Len(requests) \in Nat
  BY StreamIsWellFormed
<1>2. CASE k = Len(requests)
  <2>1. off[k] = Len(stream) /\ k + 1 = Len(requests) + 1
    BY <1>2, Zenon DEF Frames
  <2> QED
    BY <2>1, Zenon DEF PositionAt
<1>3. CASE k # Len(requests)
  <2>1. PICK m \in 1 .. Len(requests) : m = k + 1 /\ m - 1 = k
    BY <1>1, <1>3
  <2>2. PICK r \in Requests : r = requests[m]
    BY StreamIsWellFormed, Zenon
  <2>3. Len(Encode(m, r)) \in Nat /\ Len(Encode(m, r)) > 0
    BY EncodeBegins, Zenon
  <2>4. off[k] \in Nat /\ off[m] = off[k] + Len(Encode(m, r))
    <3>1. off \in [0 .. Len(requests) -> Nat] /\ off[m] = off[m - 1] + Len(Encode(m, requests[m]))
      BY Zenon DEF Frames
    <3> QED
      BY <2>1, <2>2, <3>1
  <2>5. off[k] <= off[k] /\ off[k] < off[m] /\ off[k] - off[k] = 0 /\ m <= Len(requests)
    BY <1>1, <2>3, <2>4
  <2>6. r.version = "0.9" => p.keepAlive = FALSE
    <3>1. r.version = "0.9" => m = 1
      BY <2>2, StreamIsWellFormed, Zenon
    <3>2. m = 1 => k = 0
      BY <2>1
    <3> QED
      BY <3>1, <3>2, Zenon
  <2>7. ParserAt(p, m, r, 0)
    BY <2>6, Zenon DEF ParserAt, AtStart
  <2> QED
    BY <2>1, <2>2, <2>5, <2>7, Zenon DEF PositionAt
<1> QED
  BY <1>2, <1>3

LEMMA NewParserFresh ==
    NewParser \in Parsers /\ NewParser.result = "incomplete" /\ Fresh(NewParser)
    /\ NewParser.keepAlive = FALSE
<1>1. <<>> \in Seq(Nat) /\ "RequestMethodStart" \in States /\ "incomplete" \in Results
      /\ "" \in STRING \cup {""}
  BY DEF States, Results
<1>2. NewParser \in Parsers
  BY <1>1 DEF NewParser, Parsers
<1>3. NewParser.result = "incomplete" /\ NewParser.keepAlive = FALSE
  BY DEF NewParser
<1>4. Fresh(NewParser)
  BY DEF NewParser, Fresh
<1> QED
  BY <1>2, <1>3, <1>4

LEMMA ResetFresh ==
    ASSUME NEW p \in Parsers
    PROVE  reset(p) \in Parsers /\ reset(p).result = "incomplete" /\ Fresh(reset(p))
<1>1. PICK q \in Parsers : q = NewParser /\ q.result = "incomplete" /\ Fresh(q)
  BY NewParserFresh, Zenon
<1> DEFINE o == [q EXCEPT !.keepAlive = p.keepAlive, !.version = p.version]
<1>2. reset(p) = o
  BY <1>1 DEF reset
<1>3. /\ o \in Parsers /\ o.result = q.result /\ o.state = q.state /\ o.connection = q.connection
      /\ o.content = q.content /\ o.contentSize = q.contentSize /\ o.chunked = q.chunked
  BY Zenon DEF Parsers
<1> HIDE DEF o
<1> QED
  BY <1>1, <1>2, <1>3, Zenon DEF Fresh

LEMMA ServletInit == Init => FramedInv
<1> SUFFICES ASSUME Init PROVE FramedInv
  OBVIOUS
<1> USE DEF Init
<1>1. requests \in Streams /\ requests \in Seq(Requests) /\ Len(requests) \in Nat
  BY StreamIsWellFormed
<1>2. Len(EncodeAll(requests)) \in Nat /\ \E off : Frames(off, requests, EncodeAll(requests))
  BY <1>1, EncodeAllFrames, Zenon
<1>3. PICK off : Frames(off, requests, stream)
  BY <1>2, Zenon
<1>4. Len(stream) \in Nat /\ 0 \in 0 .. Len(requests) /\ off[0] = 0
      /\ 0 \in Nat /\ 0 <= 0 /\ 0 <= Len(stream)
  BY <1>1, <1>2, <1>3 DEF Frames
<1>5. PositionAt(off, 0 + 1, off[0], NewParser)
  BY <1>1, <1>3, <1>4, NewParserFresh, NextRequest, Zenon
<1>6. /\ handled \in Seq([id : Nat, content : Seq(Nat)]) /\ Len(handled) = 0
      /\ replies \in Seq(Nat) /\ Len(replies) = 0 /\ DOMAIN handled = {}
  OBVIOUS
<1>7. Position(off)
  BY <1>4, <1>5, <1>6, Zenon DEF Position
<1>8. ServletTypes
  BY <1>4, <1>6, NewParserFresh, Zenon DEF ServletTypes
<1>9. Replied
  BY <1>6 DEF Replied
<1>10. Len(handled) <= Len(requests) /\ RequestsFramed
  BY <1>1, <1>6 DEF RequestsFramed
<1>11. Answered /\ parsed = read
  BY DEF Answered
<1> QED
  BY <1>1, <1>3, <1>7, <1>8, <1>9, <1>10, <1>11, Zenon DEF FramedInv, ServletInv

\* A step between two lexemes.
LEMMA QuietStep ==
    ASSUME NEW off, ServletInv(off), pc # "closed",
           UNCHANGED <<requests, stream, parsed, parser, handled, replies>>,
           pc' \in {"handshake", "read", "parse", "closed"}, broken' \in BOOLEAN, broken => broken',
           read' \in Nat, parsed <= read', read' <= Len(stream),
           pc' \in {"handshake", "read"} => parsed = read',
           pc' = "closed" /\ ~broken' => Len(handled) = Len(requests)
    PROVE  ServletInv(off)'
<1>1. requests \in Streams /\ ServletTypes /\ Len(handled) <= Len(requests) /\ RequestsFramed
      /\ Position(off) /\ Replied
  BY Zenon DEF ServletInv
<1>2. ServletTypes'
  BY <1>1 DEF ServletTypes
<1>3. RequestsFramed' /\ Len(handled)' <= Len(requests)' /\ Position(off)'
  BY <1>1, Zenon DEF RequestsFramed, Position, PositionAt
<1>4. Replied'
  BY <1>1, Zenon DEF Replied
<1>5. Answered'
  <2>1. DOMAIN requests = 1 .. Len(requests) /\ Len(requests) \in Nat
    BY <1>1, StreamIsWellFormed
  <2>2. \A k \in DOMAIN requests : k <= Len(requests)
    BY <2>1
  <2> QED
    BY <2>2, Zenon DEF Answered
<1>6. requests' \in Streams /\ (pc' \in {"handshake", "read"} => parsed' = read')
  BY <1>1, Zenon
<1> QED
  BY <1>2, <1>3, <1>4, <1>5, <1>6, Zenon DEF ServletInv

LEMMA HandshakeStep ==
    ASSUME NEW off, ServletInv(off), Handshake \/ HandshakeFails \/ ParseIncomplete \/ Read
    PROVE  ServletInv(off)'
<1>1. ServletTypes /\ (pc \in {"handshake", "read"} => parsed = read)
  BY Zenon DEF ServletInv
<1>2. /\ pc # "closed" /\ UNCHANGED <<requests, stream, parsed, parser, handled, replies>>
      /\ pc' \in {"handshake", "read", "parse", "closed"} /\ broken' \in BOOLEAN
      /\ broken => broken'
      /\ pc' = "closed" => broken'
  BY <1>1, Zenon DEF Handshake, HandshakeFails, ParseIncomplete, Read, Close, ServletTypes
<1>3. read' \in Nat /\ parsed <= read' /\ read' <= Len(stream)
  <2>1. CASE Read
    <3>1. PICK n \in 1 .. BufferSize : read + n <= Len(stream) /\ read' = read + n
      BY <2>1 DEF Read
    <3>2. BufferSize \in Nat /\ n \in Nat
      BY BufferSizeAssumption
    <3> QED
      BY <1>1, <3>1, <3>2 DEF ServletTypes
  <2>2. CASE ~Read
    BY <1>1, <2>2 DEF Handshake, HandshakeFails, ParseIncomplete, ServletTypes
  <2> QED
    BY <2>1, <2>2
<1>4. pc' \in {"handshake", "read"} => parsed = read'
  BY <1>1 DEF Handshake, HandshakeFails, ParseIncomplete, Read, Close
<1> QED
  BY <1>2, <1>3, <1>4, QuietStep, Zenon

LEMMA ReadEndsStep ==
    ASSUME NEW off, Frames(off, requests, stream), ServletInv(off), ReadEnds
    PROVE  ServletInv(off)'
<1>1. requests \in Streams /\ ServletTypes /\ Position(off) /\ parsed = read
      /\ Len(handled) <= Len(requests)
  BY DEF ServletInv, ReadEnds
<1>2. /\ pc # "closed" /\ UNCHANGED <<requests, stream, parsed, parser, handled, replies>>
      /\ pc' \in {"handshake", "read", "parse", "closed"} /\ broken' \in BOOLEAN
      /\ broken => broken'
      /\ pc' \notin {"handshake", "read"}
      /\ read' = read
  BY <1>1 DEF ReadEnds, Close, ServletTypes
<1>3. read' \in Nat /\ parsed <= read' /\ read' <= Len(stream)
  BY <1>1, <1>2 DEF ServletTypes
<1>4. ASSUME ~broken' PROVE Len(handled) = Len(requests)
  <2>1. read = Len(stream) /\ parsed = Len(stream) /\ Len(stream) \in Nat
    <3>1. ~(read < Len(stream))
      BY <1>4, Zenon DEF ReadEnds
    <3> QED
      BY <1>1, <3>1 DEF ServletTypes
  <2>2. Len(handled) \in Nat /\ Len(requests) \in Nat
    <3>1. handled \in Seq([id : Nat, content : Seq(Nat)])
      BY <1>1, Zenon DEF ServletTypes
    <3>2. Len(requests) \in Nat
      BY <1>1, StreamIsWellFormed, Zenon
    <3> QED
      BY <3>1, <3>2
  <2>3. PICK k \in Nat : k = Len(handled) + 1
    BY <2>2
  <2>4. PositionAt(off, k, parsed, parser)
    BY <1>1, <2>3, Zenon DEF Position
  <2>5. ~(k <= Len(requests) /\ parsed < off[k])
    <3> SUFFICES ASSUME k <= Len(requests), parsed < off[k] PROVE FALSE
      OBVIOUS
    <3>1. k \in 1 .. Len(requests)
      BY <2>2, <2>3
    <3>2. off[k] <= Len(stream) /\ off \in [0 .. Len(requests) -> Nat]
      BY <3>1, Zenon DEF Frames
    <3>3. off[k] \in Nat
      BY <2>2, <3>1, <3>2
    <3> QED
      BY <2>1, <3>2, <3>3
  <2>6. k = Len(requests) + 1
    BY <2>4, <2>5, Zenon DEF PositionAt
  <2> QED
    BY <2>2, <2>3, <2>6
<1> QED
  BY <1>2, <1>3, <1>4, QuietStep, Zenon

\* The parser consumes a lexeme of the request it is in.
LEMMA LexemeParsed ==
    ASSUME NEW off, Frames(off, requests, stream), ServletInv(off), pc = "parse", parsed < read
    PROVE  \E k \in 1 .. Len(requests), j \in Nat, size \in Nat :
              /\ k = Len(handled) + 1
              /\ off[k - 1] \in Nat /\ off[k] = off[k - 1] + size
              /\ parsed = off[k - 1] + j /\ j < size
              /\ Parsed(consume(parser, stream[parsed + 1]), k, requests[k], j + 1, size)
<1>1. requests \in Streams /\ ServletTypes /\ Position(off)
  BY DEF ServletInv
<1>2. Len(requests) \in Nat
  BY <1>1, StreamIsWellFormed, Zenon
<1>3. Len(handled) \in Nat /\ parsed \in Nat /\ parsed < Len(stream)
  <2>1. handled \in Seq([id : Nat, content : Seq(Nat)])
    BY <1>1, Zenon DEF ServletTypes
  <2>2. parsed \in Nat /\ parsed < Len(stream)
    BY <1>1 DEF ServletTypes
  <2> QED
    BY <2>1, <2>2
<1>4. PICK k \in Nat : k = Len(handled) + 1 /\ k > 0
  BY <1>3
<1>5. /\ k <= Len(requests) /\ off[k - 1] <= parsed /\ parsed < off[k]
      /\ ParserAt(parser, k, requests[k], parsed - off[k - 1])
  <2>1. PositionAt(off, k, parsed, parser)
    BY <1>1, <1>4, Zenon DEF Position
  <2>2. parsed # Len(stream)
    BY <1>3
  <2> QED
    BY <2>1, <2>2, Zenon DEF PositionAt
<1>6. k \in 1 .. Len(requests) /\ k - 1 \in 0 .. Len(requests)
  BY <1>2, <1>4, <1>5
<1>7. PICK r \in Requests : r = requests[k] /\ WellFormed(r)
  BY <1>1, <1>6, StreamIsWellFormed, Zenon
<1>8. PICK size \in Nat : size = Len(Encode(k, r))
  BY EncodeBegins, Zenon
<1>9. /\ off \in [0 .. Len(requests) -> Nat]
      /\ off[k] = off[k - 1] + size
      /\ \A i \in 1 .. size : stream[off[k - 1] + i] = Encode(k, r)[i]
  BY <1>6, <1>7, <1>8, Zenon DEF Frames
<1>10. off[k - 1] \in Nat
  BY <1>6, <1>9, Zenon
<1>11. PICK j \in Nat : /\ j = parsed - off[k - 1] /\ parsed = off[k - 1] + j /\ j < size
                        /\ j + 1 \in 1 .. size /\ parsed + 1 = off[k - 1] + (j + 1)
  <2>1. PICK b \in Nat : b = off[k - 1]
    BY <1>10
  <2>2. b <= parsed /\ parsed < b + size
    BY <1>5, <1>9, <2>1
  <2>3. /\ parsed - b \in Nat /\ parsed = b + (parsed - b) /\ parsed - b < size
        /\ parsed - b + 1 \in 1 .. size /\ parsed + 1 = b + (parsed - b + 1)
    BY <1>3, <2>2
  <2> QED
    BY <2>1, <2>3, Zenon
<1>12. ParserAt(parser, k, r, j)
  BY <1>5, <1>7, <1>11, Zenon
<1>13. Parsed(consume(parser, Encode(k, r)[j + 1]), k, r, j + 1, Len(Encode(k, r)))
  BY <1>7, <1>12, LexemeConsumed, Zenon
<1>14. stream[parsed + 1] = Encode(k, r)[j + 1]
  BY <1>9, <1>11, Zenon
<1> QED
  BY <1>4, <1>6, <1>7, <1>8, <1>9, <1>10, <1>11, <1>13, <1>14, Zenon

\* A lexeme that completes nothing.
LEMMA IncompleteStep ==
    ASSUME NEW off, ServletInv(off), pc = "parse", parsed < read,
           NEW k \in 1 .. Len(requests), NEW j \in Nat, NEW size \in Nat, NEW b \in Nat, NEW p,
           k = Len(handled) + 1, off[k - 1] = b, off[k] = b + size,
           parsed = b + j, Parsed(p, k, requests[k], j + 1, size),
           p.result = "incomplete", parser' = p, parsed' = parsed + 1,
           UNCHANGED <<requests, stream, pc, read, handled, replies, broken>>
    PROVE  ServletInv(off)'
<1>1. requests \in Streams /\ ServletTypes /\ Len(handled) <= Len(requests) /\ RequestsFramed
      /\ Replied
  BY Zenon DEF ServletInv
<1>2. j + 1 < size /\ ParserAt(p, k, requests[k], j + 1) /\ p \in Parsers
  <2>1. p.result # "completed" /\ p.result # "failed"
    OBVIOUS
  <2> QED
    BY <2>1, Zenon DEF Parsed, ParserAt
<1>3. ServletTypes'
  <2>1. read \in Nat /\ parsed \in Nat
    BY <1>1, Zenon DEF ServletTypes
  <2>2. parsed + 1 \in Nat /\ parsed + 1 <= read
    BY <2>1
  <2> QED
    BY <1>1, <1>2, <2>2, Zenon DEF ServletTypes
<1>4. Position(off)'
  <2>1. b <= b + j + 1 /\ b + j + 1 < b + size /\ j + 1 = b + j + 1 - b
    BY <1>2
  <2>2. k <= Len(requests)
    <3>1. Len(requests) \in Nat
      BY <1>1, StreamIsWellFormed, Zenon
    <3> QED
      BY <3>1
  <2>3. parsed' = b + j + 1
    OBVIOUS
  <2>4. off[k - 1] <= parsed' /\ parsed' < off[k] /\ parsed' - off[k - 1] = j + 1
    BY <2>1, <2>3
  <2>5. ParserAt(p, k, requests[k], parsed' - off[k - 1])
    BY <1>2, <2>4, Zenon
  <2>6. PICK m : m = Len(handled') + 1 /\ m = k
    BY Zenon
  <2>7. /\ m <= Len(requests') /\ off[m - 1] <= parsed' /\ parsed' < off[m]
        /\ ParserAt(parser', m, requests'[m], parsed' - off[m - 1])
    BY <2>2, <2>4, <2>5, <2>6, Zenon
  <2> QED
    BY <2>6, <2>7 DEF Position, PositionAt
<1>5. RequestsFramed' /\ Len(handled)' <= Len(requests)' /\ Replied' /\ requests' \in Streams
  BY <1>1, Zenon DEF RequestsFramed, Replied
<1>6. pc' # "closed" /\ pc' \notin {"handshake", "read"}
  OBVIOUS
<1> QED
  BY <1>3, <1>4, <1>5, <1>6, Zenon DEF ServletInv, Answered

\* The core is given request k.
LEMMA RequestHandled ==
    ASSUME requests \in Streams, handled \in Seq([id : Nat, content : Seq(Nat)]), RequestsFramed,
           NEW k \in 1 .. Len(requests), k = Len(handled) + 1, NEW p \in Parsers, p.id = k,
           p.content = Content(k, requests[k]), handled' = Append(handled, Request(p)),
           requests' = requests
    PROVE  /\ handled' \in Seq([id : Nat, content : Seq(Nat)]) /\ Len(handled') = k
           /\ Len(handled') <= Len(requests') /\ RequestsFramed'
<1>1. Len(requests) \in Nat
  BY StreamIsWellFormed, Zenon
<1>2. PICK q \in [id : Nat, content : Seq(Nat)] : q = Request(p)
  BY Zenon DEF Request, Parsers
<1>3. /\ handled' \in Seq([id : Nat, content : Seq(Nat)]) /\ Len(handled') = k
      /\ handled'[k] = q /\ DOMAIN handled' = 1 .. k
      /\ \A i \in 1 .. k : i # k => i \in DOMAIN handled /\ handled'[i] = handled[i]
  BY <1>2
<1>4. q = [id |-> k, content |-> Content(k, requests[k])] /\ k <= Len(requests)
  BY <1>1, <1>2 DEF Request
<1>5. RequestsFramed'
  BY <1>3, <1>4, Zenon DEF RequestsFramed
<1> QED
  BY <1>3, <1>4, <1>5, Zenon

LEMMA ReplySent ==
    ASSUME replies \in Seq(Nat), NEW k \in Nat, Len(handled) + 1 = k, Len(handled) \in Nat,
           Len(handled') = k, broken \in BOOLEAN, Replied, pc # "closed",
           \/ ~broken /\ replies' = Append(replies, k) /\ broken' = broken
           \/ broken' = TRUE /\ replies' = replies
    PROVE  replies' \in Seq(Nat) /\ Replied'
<1>1. /\ Len(replies) = Len(handled) \/ (broken /\ Len(replies) <= Len(handled))
      /\ \A i \in 1 .. Len(replies) : replies[i] = i
  BY Zenon DEF Replied
<1>2. CASE ~broken /\ replies' = Append(replies, k) /\ broken' = broken
  <2>1. Len(replies) + 1 = k
    BY <1>1, <1>2
  <2>2. replies' \in Seq(Nat) /\ Len(replies') = k /\ \A i \in 1 .. k : replies'[i] = i
    BY <1>1, <1>2, <2>1
  <2> QED
    BY <2>2, Zenon DEF Replied
<1>3. CASE broken' = TRUE /\ replies' = replies
  <2>1. Len(replies) \in Nat
    OBVIOUS
  <2>2. Len(replies) <= Len(handled)
    BY <1>1, <2>1
  <2>3. Len(replies) <= k
    BY <2>1, <2>2
  <2> QED
    BY <1>1, <1>3, <2>3, Zenon DEF Replied
<1> QED
  BY <1>2, <1>3, Zenon

\* A lexeme that completes a request.
LEMMA CompletedStep ==
    ASSUME NEW off, Frames(off, requests, stream), ServletInv(off), pc = "parse", parsed < read,
           NEW k \in 1 .. Len(requests), NEW j \in Nat, NEW size \in Nat, NEW b \in Nat, NEW p,
           k = Len(handled) + 1, off[k - 1] = b, off[k] = b + size,
           parsed = b + j, Parsed(p, k, requests[k], j + 1, size),
           p.result = "completed", Reply(p, parsed + 1) \/ ReplyShutdown(p, parsed + 1),
           UNCHANGED <<requests, stream, read>>
    PROVE  ServletInv(off)'
<1>1. requests \in Streams /\ ServletTypes /\ Len(handled) <= Len(requests) /\ RequestsFramed
      /\ Replied
  BY Zenon DEF ServletInv
<1>2. /\ p \in Parsers /\ p.id = k /\ p.content = Content(k, requests[k])
      /\ KeepsAlive(p, requests[k])
      /\ IF requests[k].version = "0.9" THEN p.keepAlive = FALSE ELSE j + 1 = size
  <2>1. p.result # "incomplete" /\ p.result # "failed"
    OBVIOUS
  <2> QED
    BY <2>1, Zenon DEF Parsed, ParserAt
<1>3. p.keepAlive \in BOOLEAN
  BY <1>2, Zenon DEF Parsers
<1>4. /\ handled \in Seq([id : Nat, content : Seq(Nat)]) /\ replies \in Seq(Nat)
      /\ broken \in BOOLEAN /\ read \in Nat /\ parsed \in Nat /\ Len(stream) \in Nat
      /\ read <= Len(stream)
  BY <1>1, Zenon DEF ServletTypes
<1>5. handled' = Append(handled, Request(p))
  BY Zenon DEF Reply, ReplyShutdown
<1>6. /\ handled' \in Seq([id : Nat, content : Seq(Nat)]) /\ Len(handled') = k
      /\ Len(handled') <= Len(requests') /\ RequestsFramed'
  BY <1>1, <1>2, <1>4, <1>5, RequestHandled, Zenon
<1>7. k \in Nat /\ Len(handled) \in Nat /\ Len(requests) \in Nat
  <2>1. Len(requests) \in Nat
    BY <1>1, StreamIsWellFormed, Zenon
  <2> QED
    BY <1>4, <2>1
<1>8. replies' \in Seq(Nat) /\ Replied' /\ broken' \in BOOLEAN
  <2>1. \/ ~broken /\ replies' = Append(replies, k) /\ broken' = broken
        \/ broken' = TRUE /\ replies' = replies
    BY <1>2, Zenon DEF Reply, ReplyShutdown
  <2>2. pc # "closed" /\ Len(handled) + 1 = k
    OBVIOUS
  <2>3. replies' \in Seq(Nat) /\ Replied'
    BY <1>1, <1>4, <1>6, <1>7, <2>1, <2>2, ReplySent, Zenon
  <2> QED
    BY <1>4, <2>1, <2>3, Zenon
<1>9. parsed' = parsed + 1 /\ parsed + 1 \in Nat /\ parsed + 1 <= read
  <2>1. parsed' = parsed + 1
    BY Zenon DEF Reply, ReplyShutdown, Continue
  <2> QED
    BY <1>4, <2>1
<1>10. CASE Reply(p, parsed + 1) /\ p.keepAlive = TRUE
  <2>1. parser' = reset(p) /\ pc' = IF parsed + 1 # read THEN "parse" ELSE "read"
    BY <1>10, Zenon DEF Reply, Continue
  <2>2. reset(p) \in Parsers /\ reset(p).result = "incomplete" /\ Fresh(reset(p))
    BY <1>2, ResetFresh, Zenon
  <2>3. k \in 0 .. Len(requests) /\ k # 0
    BY <1>7
  <2>4. PositionAt(off, k + 1, off[k], reset(p))
    BY <1>1, <1>4, <2>2, <2>3, NextRequest, Zenon
  <2>5. parsed + 1 = off[k]
    <3>1. j + 1 = size
      BY <1>2, <1>10
    <3> QED
      BY <3>1
  <2>6. PositionAt(off, k + 1, off[k], reset(p))'
    BY <2>4, <2>1, Zenon DEF PositionAt
  <2>7. Position(off)'
    BY <1>6, <1>9, <2>1, <2>5, <2>6 DEF Position, PositionAt
  <2>8. pc' \in {"read", "parse"} /\ (pc' = "read" => parsed + 1 = read) /\ pc' # "closed"
    BY <2>1
  <2>9. ServletTypes'
    BY <1>4, <1>6, <1>8, <1>9, <2>1, <2>2, <2>8, Zenon DEF ServletTypes
  <2>10. pc' \in {"handshake", "read"} => parsed' = read'
    BY <1>9, <2>8
  <2> QED
    BY <1>1, <1>6, <1>8, <2>7, <2>8, <2>9, <2>10, Zenon DEF ServletInv, Answered
<1>11. CASE ~(Reply(p, parsed + 1) /\ p.keepAlive = TRUE)
  <2>1. parser' = p /\ pc' = "closed" /\ (~broken' => p.keepAlive = FALSE)
    BY <1>3, <1>11, Zenon DEF Reply, ReplyShutdown, Continue, Close
  <2>2. ServletTypes'
    BY <1>2, <1>4, <1>6, <1>8, <1>9, <2>1, Zenon DEF ServletTypes
  <2>3. Answered'
    <3> SUFFICES ASSUME ~broken', NEW m \in DOMAIN requests, Due(m)'
                 PROVE  m <= k
      BY <1>6, Zenon DEF Answered
    <3>1. ~WantsKeepAlive(requests[k])
      BY <1>2, <2>1, Zenon DEF KeepsAlive
    <3>2. ~(k \in 1 .. m - 1)
      BY <3>1, Zenon DEF Due
    <3>3. m \in Nat
      BY <1>1, <1>7, StreamIsWellFormed
    <3> QED
      BY <1>7, <3>2, <3>3
  <2>4. pc' \notin {"handshake", "read"}
    BY <2>1
  <2> QED
    BY <1>1, <1>6, <1>8, <2>1, <2>2, <2>3, <2>4, Zenon DEF ServletInv
<1> QED
  BY <1>10, <1>11, Zenon

\* A lexeme that no request has there.
LEMMA FailedStep ==
    ASSUME NEW off, ServletInv(off), pc = "parse", parsed < read,
           NEW k \in 1 .. Len(requests), NEW j, NEW size, NEW p,
           k = Len(handled) + 1, Parsed(p, k, requests[k], j, size),
           p.result = "failed", BadRequest(p, parsed + 1),
           UNCHANGED <<requests, stream, read>>
    PROVE  ServletInv(off)'
<1>1. requests \in Streams /\ ServletTypes /\ Len(handled) <= Len(requests) /\ RequestsFramed
      /\ Replied
  BY Zenon DEF ServletInv
<1>2. p \in Parsers /\ requests[k].version = "bad"
  <2>1. p.result # "incomplete" /\ p.result # "completed"
    OBVIOUS
  <2> QED
    BY <2>1, Zenon DEF Parsed, ParserAt
<1>3. /\ handled \in Seq([id : Nat, content : Seq(Nat)]) /\ replies \in Seq(Nat)
      /\ broken \in BOOLEAN /\ read \in Nat /\ parsed \in Nat /\ Len(stream) \in Nat
      /\ read <= Len(stream)
  BY <1>1, Zenon DEF ServletTypes
<1>4. k \in Nat /\ Len(handled) \in Nat /\ Len(requests) \in Nat /\ k <= Len(requests)
  <2>1. Len(requests) \in Nat
    BY <1>1, StreamIsWellFormed, Zenon
  <2> QED
    BY <1>3, <2>1
<1>5. /\ parser' = p /\ parsed' = parsed + 1 /\ pc' = "closed" /\ handled' = handled
      /\ \/ ~broken /\ replies' = Append(replies, 0) /\ broken' = broken
         \/ broken' = TRUE /\ replies' = replies
  BY Zenon DEF BadRequest, Close
<1>6. parsed + 1 \in Nat /\ parsed + 1 <= read
  BY <1>3
<1>7. /\ Len(replies) = Len(handled) \/ (broken /\ Len(replies) <= Len(handled))
      /\ \A i \in 1 .. Len(replies) : replies[i] = i
  BY <1>1, Zenon DEF Replied
<1>8. replies' \in Seq(Nat) /\ Replied'
  <2>1. CASE ~broken /\ replies' = Append(replies, 0) /\ broken' = broken
    <3>1. Len(replies) = Len(handled)
      BY <1>7, <2>1
    <3>2. /\ replies' \in Seq(Nat) /\ Len(replies') = k /\ replies'[k] = 0
          /\ \A i \in 1 .. Len(handled) : replies'[i] = i
      BY <1>3, <1>7, <2>1, <3>1
    <3> QED
      BY <1>2, <1>4, <1>5, <3>2, Zenon DEF Replied
  <2>2. CASE broken' = TRUE /\ replies' = replies
    <3>1. Len(replies) \in Nat
      BY <1>3
    <3>2. Len(replies) <= Len(handled)
      BY <1>4, <1>7, <3>1
    <3> QED
      BY <1>3, <1>5, <1>7, <2>2, <3>2, Zenon DEF Replied
  <2> QED
    BY <1>5, <2>1, <2>2, Zenon
<1>9. ServletTypes'
  <2>1. broken' \in BOOLEAN
    BY <1>3, <1>5, Zenon
  <2> QED
    BY <1>2, <1>3, <1>5, <1>6, <1>8, <2>1, Zenon DEF ServletTypes
<1>10. Answered'
  <2> SUFFICES ASSUME NEW m \in DOMAIN requests, Due(m)' PROVE m <= Len(handled)
    BY <1>5, Zenon DEF Answered
  <2>1. ~(k \in 1 .. m)
    BY <1>2, Zenon DEF Due
  <2>2. m \in Nat
    BY <1>1, <1>4, StreamIsWellFormed
  <2> QED
    BY <1>4, <2>1, <2>2
<1>11. RequestsFramed' /\ Len(handled') <= Len(requests') /\ pc' \notin {"handshake", "read"}
  <2>1. RequestsFramed' /\ Len(handled') <= Len(requests')
    BY <1>1, <1>5, Zenon DEF RequestsFramed
  <2> QED
    BY <1>5, <2>1
<1> QED
  BY <1>1, <1>5, <1>8, <1>9, <1>10, <1>11, Zenon DEF ServletInv

LEMMA ParseStep ==
    ASSUME NEW off, Frames(off, requests, stream), ServletInv(off), Parse
    PROVE  ServletInv(off)'
<1>1. pc = "parse" /\ parsed < read /\ UNCHANGED <<requests, stream, read>>
  BY Zenon DEF Parse
<1>2. PICK k \in 1 .. Len(requests), j \in Nat, size \in Nat :
              /\ k = Len(handled) + 1
              /\ off[k - 1] \in Nat /\ off[k] = off[k - 1] + size
              /\ parsed = off[k - 1] + j /\ j < size
              /\ Parsed(consume(parser, stream[parsed + 1]), k, requests[k], j + 1, size)
  BY <1>1, LexemeParsed, Zenon
<1>3. PICK b \in Nat : off[k - 1] = b /\ off[k] = b + size /\ parsed = b + j
  BY <1>2, Zenon
<1>4. PICK p : p = consume(parser, stream[parsed + 1])
  OBVIOUS
<1>5. \/ /\ p.result = "incomplete" /\ parser' = p /\ parsed' = parsed + 1
         /\ UNCHANGED <<pc, handled, replies, broken>>
      \/ p.result = "completed" /\ (Reply(p, parsed + 1) \/ ReplyShutdown(p, parsed + 1))
      \/ p.result = "failed" /\ BadRequest(p, parsed + 1)
  BY <1>4, Zenon DEF Parse
<1>6. k = Len(handled) + 1 /\ Parsed(p, k, requests[k], j + 1, size)
  BY <1>2, <1>4, Zenon
<1>7. CASE /\ p.result = "incomplete" /\ parser' = p /\ parsed' = parsed + 1
           /\ UNCHANGED <<pc, handled, replies, broken>>
  <2>1. UNCHANGED <<requests, stream, pc, read, handled, replies, broken>>
    BY <1>1, <1>7, Zenon
  <2> QED
    BY <1>1, <1>3, <1>6, <1>7, <2>1, IncompleteStep, Zenon
<1>8. CASE p.result = "completed" /\ (Reply(p, parsed + 1) \/ ReplyShutdown(p, parsed + 1))
  BY <1>1, <1>3, <1>6, <1>8, CompletedStep, Zenon
<1>9. CASE p.result = "failed" /\ BadRequest(p, parsed + 1)
  BY <1>1, <1>6, <1>9, FailedStep, Zenon
<1> QED
  BY <1>5, <1>7, <1>8, <1>9, Zenon

LEMMA ServletStep == FramedInv /\ [Next]_vars => FramedInv'
<1> SUFFICES ASSUME FramedInv, [Next]_vars PROVE FramedInv'
  OBVIOUS
<1>1. PICK off : Frames(off, requests, stream) /\ ServletInv(off)
  BY Zenon DEF FramedInv
<1>2. UNCHANGED <<requests, stream>>
  BY Zenon DEF Next, Step, Closed, Handshake, HandshakeFails, Read, ReadEnds, ParseIncomplete,
               Parse, vars
<1>3. Frames(off, requests, stream)'
  BY <1>1, <1>2, Zenon DEF Frames
<1>4. ServletInv(off)'
  <2>1. CASE Handshake \/ HandshakeFails \/ ParseIncomplete \/ Read
    BY <1>1, <2>1, HandshakeStep, Zenon
  <2>2. CASE ReadEnds
    BY <1>1, <2>2, ReadEndsStep, Zenon
  <2>3. CASE Parse
    BY <1>1, <2>3, ParseStep, Zenon
  <2>4. CASE UNCHANGED vars
    BY <1>1, <2>4, Zenon DEF vars, ServletInv, ServletTypes, RequestsFramed, Position, PositionAt,
                             Replied, Answered, Due
  <2> QED
    BY <2>1, <2>2, <2>3, <2>4, Zenon DEF Next, Step, Closed
<1> QED
  BY <1>3, <1>4, Zenon DEF FramedInv

LEMMA FramedAlways == Spec => []FramedInv
  BY ServletInit, ServletStep, PTL DEF Spec

-----------------------------------------------------------------------------
(* The properties. *)

LEMMA InvTypeOK == FramedInv => TypeOK
<1> SUFFICES ASSUME FramedInv PROVE TypeOK
  OBVIOUS
<1>1. ServletTypes
  BY Zenon DEF FramedInv, ServletInv
<1>2. parsed \in 0 .. read /\ read \in 0 .. Len(stream)
  BY <1>1 DEF ServletTypes
<1>3. /\ parser.state \in States /\ parser.result \in Results
      /\ parser.contentSize \in Nat /\ parser.chunkSize \in Nat
  BY <1>1, Zenon DEF ServletTypes, Parsers
<1> QED
  BY <1>1, <1>2, <1>3, Zenon DEF TypeOK, ServletTypes

\* what the invariant says of a reply
LEMMA InvReplies ==
    ASSUME FramedInv
    PROVE  RepliesInOrder /\ BadRequestDeserved
<1>1. requests \in Streams /\ ServletTypes /\ Len(handled) <= Len(requests) /\ Replied
  BY Zenon DEF FramedInv, ServletInv
<1>2. Len(requests) \in Nat
  BY <1>1, StreamIsWellFormed, Zenon
<1>3. replies \in Seq(Nat) /\ handled \in Seq([id : Nat, content : Seq(Nat)])
  BY <1>1, Zenon DEF ServletTypes
<1>4. DOMAIN replies = 1 .. Len(replies) /\ Len(replies) \in Nat /\ Len(handled) \in Nat
  BY <1>3
<1>5. ASSUME NEW k \in DOMAIN replies
      PROVE  \/ replies[k] = k
             \/ /\ replies[k] = 0 /\ k = Len(replies) /\ k <= Len(requests)
                /\ requests[k].version = "bad"
  <2>1. k \in 1 .. Len(replies) /\ (k # Len(replies) => k \in 1 .. Len(replies) - 1)
    BY <1>4
  <2>2. CASE \A i \in 1 .. Len(replies) : replies[i] = i
    BY <2>1, <2>2, Zenon
  <2>3. CASE /\ Len(replies) = Len(handled) + 1
             /\ \A i \in 1 .. Len(handled) : replies[i] = i
             /\ replies[Len(replies)] = 0
             /\ Len(replies) <= Len(requests) /\ requests[Len(replies)].version = "bad"
    <3>1. Len(replies) - 1 = Len(handled)
      BY <1>4, <2>3
    <3> QED
      BY <2>1, <2>3, <3>1, Zenon
  <2> QED
    BY <1>1, <2>2, <2>3, Zenon DEF Replied
<1>6. \A k \in DOMAIN replies : k # 0
  BY <1>4
<1> QED
  BY <1>5, <1>6, Zenon DEF RepliesInOrder, BadRequestDeserved

LEMMA InvAnswered ==
    ASSUME FramedInv
    PROVE  AllAnswered
<1>1. requests \in Streams /\ ServletTypes /\ Len(handled) <= Len(requests) /\ Replied /\ Answered
  BY Zenon DEF FramedInv, ServletInv
<1> SUFFICES ASSUME pc = "closed", ~broken, NEW k \in DOMAIN requests, Due(k)
             PROVE  k \in DOMAIN replies /\ replies[k] = k
  BY Zenon DEF AllAnswered
<1>2. k <= Len(handled)
  BY <1>1, Zenon DEF Answered
<1>3. k \in 1 .. Len(requests) /\ Len(requests) \in Nat
  BY <1>1, StreamIsWellFormed, Zenon
<1>4. replies \in Seq(Nat) /\ handled \in Seq([id : Nat, content : Seq(Nat)])
  BY <1>1, Zenon DEF ServletTypes
<1>5. Len(replies) \in Nat /\ Len(handled) \in Nat /\ DOMAIN replies = 1 .. Len(replies)
  BY <1>4
<1>6. k \in 1 .. Len(handled)
  BY <1>2, <1>3, <1>5
<1>7. CASE Len(replies) = Len(handled) /\ \A i \in 1 .. Len(replies) : replies[i] = i
  BY <1>5, <1>6, <1>7, Zenon
<1>8. CASE Len(replies) = Len(handled) + 1 /\ \A i \in 1 .. Len(handled) : replies[i] = i
  <2>1. k \in 1 .. Len(replies)
    BY <1>5, <1>6, <1>8
  <2> QED
    BY <1>5, <1>6, <1>8, <2>1, Zenon
<1> QED
  BY <1>1, <1>7, <1>8, Zenon DEF Replied

\* The servlet's variables keep their types: in particular the parser never takes more
\* lexemes than were read, and the counters of the body never go below zero.
THEOREM ServletTypeCorrect == Spec => []TypeOK
  BY FramedAlways, InvTypeOK, PTL

\* The core is given the client's requests in order, each with exactly its own body:
\* for any number of well-formed requests, bodies of any length, and however SSL_read
\* cuts the stream (RequestParser::parse, RequestParser::reset, HTTPSServer::servlet).
THEOREM RequestsAreFramed == Spec => []RequestsFramed
<1>1. FramedInv => RequestsFramed
  BY Zenon DEF FramedInv, ServletInv
<1> QED
  BY <1>1, FramedAlways, PTL

\* Replies arrive in the order of the requests and none is skipped, also when a write
\* fails and the servlet does not notice it.
THEOREM RepliesAreInOrder == Spec => []RepliesInOrder
<1>1. FramedInv => RepliesInOrder
  BY InvReplies
<1> QED
  BY <1>1, FramedAlways, PTL

\* 400 Bad Request is never the reply to a well-formed request.
THEOREM BadRequestIsDeserved == Spec => []BadRequestDeserved
<1>1. FramedInv => BadRequestDeserved
  BY InvReplies
<1> QED
  BY <1>1, FramedAlways, PTL

\* A connection that did not fail is closed only when every request up to the one that
\* ends it has its reply.
THEOREM AllAreAnswered == Spec => []AllAnswered
<1>1. FramedInv => AllAnswered
  BY InvAnswered
<1> QED
  BY <1>1, FramedAlways, PTL
=============================================================================
