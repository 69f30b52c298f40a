------------------------- MODULE ResponseReaderContent -------------------------
(***************************************************************************)
(* What the reader of a response (ResponseReader) makes of the bytes, for  *)
(* messages of any length, with any headers and chunks, and every wire     *)
(* that HttpWire allows: where each token of a message stands, how far the *)
(* handlers have come at every read, and what the content is by then.      *)
(***************************************************************************)
EXTENDS ResponseReaderProofs

-------------------------------------------------------------------------------
(* The layout of a message *)

\* What tells tokens apart.
LEMMA TokenKinds ==
  /\ CR.kind = "cr" /\ LF.kind = "lf"
  /\ \A i \in Nat : Data(i).kind = "data" /\ Data(i).n = i
  /\ \A n \in 0 .. MaxBody : Digits(n).kind = "size" /\ Digits(n).n = n
<1>1. \A n \in 0 .. MaxBody : n \in Nat /\ n <= MaxBody
  BY WireAssumption
<1>2. CR.kind = "cr" /\ LF.kind = "lf"
  BY TokenType DEF CR, LF, Kinds
<1>3. \A i \in Nat : Data(i).kind = "data" /\ Data(i).n = i
  BY TokenType DEF Data, Kinds
<1>4. \A n \in 0 .. MaxBody : Digits(n).kind = "size" /\ Digits(n).n = n
  BY <1>1, TokenType DEF Digits, Kinds
<1> QED BY <1>2, <1>3, <1>4

\* No kind of token is taken for another.
LEMMA TokensDiffer ==
  /\ \A i \in Nat : Data(i) # CR /\ Data(i) # LF
  /\ \A n \in 0 .. MaxBody : Digits(n) # CR /\ Digits(n) # LF
  /\ \A i, j \in Nat : i # j => Data(i) # Data(j)
  /\ \A n \in 0 .. MaxBody, i \in Nat : Digits(n) # Data(i)
<1> HIDE DEF CR, LF, Data, Digits
<1> QED BY TokenKinds

\* u is s followed by t.
Joined(u, s, t) ==
  /\ Len(u) = Len(s) + Len(t)
  /\ \A p \in 1 .. Len(s) : u[p] = s[p]
  /\ \A k \in 1 .. Len(t) : u[Len(s) + k] = t[k]

\* A join, place by place.
LEMMA TokenJoin ==
  ASSUME NEW s \in Seq(Tokens), NEW t \in Seq(Tokens)
  PROVE  \E u \in Seq(Tokens) : u = s \o t /\ Joined(u, s, t)
<1>1. PICK u : u = s \o t
  OBVIOUS
<1>2. u \in Seq(Tokens) /\ Joined(u, s, t)
  BY <1>1, Join DEF Joined
<1> QED BY <1>1, <1>2

\* A text of one token.
LEMMA SingleToken ==
  ASSUME NEW t \in Tokens
  PROVE  <<t>> \in Seq(Tokens) /\ Len(<<t>>) = 1 /\ <<t>>[1] = t
OBVIOUS

\* A token and CRLF: a header line, a status line or a chunk size.
LEMMA LineLayout ==
  ASSUME NEW t \in Tokens
  PROVE  LET l == <<t>> \o CRLF
         IN l \in Seq(Tokens) /\ Len(l) = 3 /\ l[1] = t /\ l[2] = CR /\ l[3] = LF
<1> DEFINE l == <<t>> \o CRLF
<1>1. PICK a \in Seq(Tokens) : a = <<t>> /\ Len(a) = 1 /\ a[1] = t
  BY SingleToken
<1>2. PICK b \in Seq(Tokens) : b = CRLF /\ Len(b) = 2 /\ b[1] = CR /\ b[2] = LF
  BY TokenTypes
<1>3. PICK c \in Seq(Tokens) : c = a \o b /\ Joined(c, a, b)
  BY TokenJoin
<1>4. /\ c \in Seq(Tokens) /\ Len(c) = Len(a) + Len(b)
      /\ \A p \in 1 .. Len(a) : c[p] = a[p]
      /\ \A k \in 1 .. Len(b) : c[Len(a) + k] = b[k]
  BY <1>3 DEF Joined
<1>5. c[1] = t /\ c[1 + 1] = CR /\ c[1 + 2] = LF
  BY <1>1, <1>2, <1>4
<1>6. c = l
  BY <1>1, <1>2, <1>3
<1> QED BY <1>1, <1>2, <1>4, <1>5, <1>6

HeaderText(m) == FlattenSeq(HeaderParts(m))

\* The header lines: a line begins at 1 and after every line feed, and only there
\* can a line of nothing but CRLF be.
LEMMA HeaderTextLayout ==
  ASSUME NEW m \in Messages
  PROVE  /\ HeaderText(m) \in Seq(Tokens)
         /\ Len(HeaderText(m)) > 0 => HeaderText(m)[Len(HeaderText(m))] = LF
         /\ \A p \in 1 .. Len(HeaderText(m)) :
              /\ HeaderText(m)[p] = CR => p > 1 /\ HeaderText(m)[p - 1] # LF
              /\ HeaderText(m)[p].kind \in {"cr", "lf"} \cup ToSet(m.headers)
         /\ \A k \in ToSet(m.headers) : \E p \in 1 .. Len(HeaderText(m)) : HeaderText(m)[p].kind = k
<1> DEFINE s == HeaderParts(m)
           f == HeaderText(m)
           N == Len(m.headers)
           t(i) == Token(m.headers[i], 0)
<1>1. N \in Nat /\ s \in Seq(Seq(Tokens)) /\ Len(s) = N
  BY HeaderPartTypes
<1>2. f \in Seq(Tokens)
  BY <1>1, FlattenType DEF HeaderText
<1>3. PICK P : Parts(s, f, P)
  BY <1>1, FlattenParts DEF HeaderText
<1>4. ASSUME NEW i \in 1 .. N
      PROVE  /\ t(i) \in Tokens /\ t(i).kind = m.headers[i] /\ t(i).kind \in ToSet(m.headers)
             /\ t(i) # CR /\ t(i) # LF
             /\ s[i] \in Seq(Tokens) /\ Len(s[i]) = 3
             /\ s[i][1] = t(i) /\ s[i][2] = CR /\ s[i][3] = LF
  <2>1. m.headers[i] \in HeaderKinds
    BY MessageTypes, ElementOfSeq
  <2>2. t(i) \in Tokens /\ t(i).kind = m.headers[i]
    BY <2>1, TokenType DEF HeaderKinds, Kinds
  <2>3. t(i) # CR /\ t(i) # LF
    <3>1. CR.kind = "cr" /\ LF.kind = "lf"
      BY TokenType DEF CR, LF, Kinds
    <3>2. m.headers[i] # "cr" /\ m.headers[i] # "lf"
      BY <2>1 DEF HeaderKinds
    <3> HIDE DEF t
    <3> QED BY <2>2, <3>1, <3>2
  <2>4. m.headers[i] \in ToSet(m.headers)
    BY MessageTypes, LenProperties DEF ToSet
  <2>5. s[i] = <<t(i)>> \o CRLF
    BY DEF HeaderParts, HeaderPart
  <2> HIDE DEF t, s
  <2> QED BY <2>2, <2>3, <2>4, <2>5, LineLayout
<1> HIDE DEF s, f, t, N
<1>5. /\ P[0] = 0 /\ P[N] = Len(f)
      /\ \A i \in 1 .. N : P[i] = P[i - 1] + 3
      /\ \A i \in 0 .. N : P[i] \in Nat
      /\ \A i \in 1 .. N : /\ f[P[i - 1] + 1] = t(i)
                         /\ f[P[i - 1] + 2] = CR
                         /\ f[P[i - 1] + 3] = LF
      /\ \A i \in 1 .. N : P[i - 1] + 3 <= Len(f)
      /\ \A p \in 1 .. Len(f) : \E i \in 1 .. N : \E k \in 1 .. 3 : p = P[i - 1] + k
  <2>1. \A i \in 1 .. N : \A k \in 1 .. 3 :
          P[i - 1] + k \in 1 .. Len(f) /\ f[P[i - 1] + k] = s[i][k]
    <3>1. \A i \in 1 .. N : \A k \in 1 .. Len(s[i]) :
            P[i - 1] + k \in 1 .. Len(f) /\ f[P[i - 1] + k] = s[i][k]
      BY <1>1, <1>3 DEF Parts
    <3> SUFFICES ASSUME NEW i \in 1 .. N, NEW k \in 1 .. 3
                 PROVE  P[i - 1] + k \in 1 .. Len(f) /\ f[P[i - 1] + k] = s[i][k]
      OBVIOUS
    <3>2. k \in 1 .. Len(s[i])
      BY <1>4
    <3> QED BY <3>1, <3>2
  <2>2. \A i \in 1 .. N : f[P[i - 1] + 1] = s[i][1] /\ f[P[i - 1] + 2] = s[i][2] /\ f[P[i - 1] + 3] = s[i][3]
    BY <2>1
  <2>3. \A i \in 1 .. N : P[i - 1] + 3 <= Len(f)
    BY <2>1
  <2>4. P[0] = 0 /\ P[N] = Len(f) /\ \A i \in 0 .. N : P[i] \in Nat
    BY <1>1, <1>3 DEF Parts
  <2>5. \A i \in 1 .. N : P[i] = P[i - 1] + 3
    BY <1>1, <1>3, <1>4, ZenonT(60) DEF Parts
  <2>6. \A p \in 1 .. Len(f) : \E i \in 1 .. N : \E k \in 1 .. 3 : p = P[i - 1] + k
    <3>1. \A p \in 1 .. Len(f) : \E i \in 1 .. N : \E k \in 1 .. Len(s[i]) : p = P[i - 1] + k
      BY <1>1, <1>3 DEF Parts
    <3> SUFFICES ASSUME NEW p \in 1 .. Len(f)
                 PROVE  \E i \in 1 .. N : \E k \in 1 .. 3 : p = P[i - 1] + k
      OBVIOUS
    <3>2. PICK i \in 1 .. N : \E k \in 1 .. Len(s[i]) : p = P[i - 1] + k
      BY <3>1
    <3> QED BY <1>4, <3>2
  <2> QED BY <1>4, <2>2, <2>3, <2>4, <2>5, <2>6
<1>6. ASSUME NEW p \in 1 .. Len(f)
      PROVE  /\ f[p] = CR => p > 1 /\ f[p - 1] # LF
             /\ f[p].kind \in {"cr", "lf"} \cup ToSet(m.headers)
  <2>1. PICK i \in 1 .. N, k \in 1 .. 3 : p = P[i - 1] + k
    BY <1>5
  <2>2. P[i - 1] \in Nat
    BY <1>1, <1>5
  <2>3. CASE k = 1
    <3>1. f[p] = t(i)
      BY <1>5, <2>1, <2>3
    <3> QED BY <1>4, <3>1
  <2>4. CASE k = 2
    <3>1. PICK q \in Nat : q = P[i - 1]
      BY <2>2
    <3>2. f[q + 1] = t(i) /\ f[q + 2] = CR
      BY <1>5, <3>1
    <3>3. p = q + 2 /\ p > 1 /\ p - 1 = q + 1
      BY <2>1, <2>4, <3>1
    <3>4. f[p] = CR /\ f[p - 1] = t(i)
      BY <3>2, <3>3
    <3> QED BY <1>4, <3>3, <3>4, TokenKinds
  <2>5. CASE k = 3
    <3>1. f[p] = LF
      BY <1>5, <2>1, <2>5
    <3> QED BY <3>1, TokenTypes, TokenKinds
  <2> QED BY <2>1, <2>3, <2>4, <2>5
<1>7. ASSUME Len(f) > 0
      PROVE  f[Len(f)] = LF
  <2>1. N # 0
    BY <1>5, <1>7
  <2>2. N \in 1 .. N /\ N - 1 \in 0 .. N
    BY <1>1, <2>1
  <2> QED BY <1>5, <2>2
<1>8. ASSUME NEW k \in ToSet(m.headers)
      PROVE  \E p \in 1 .. Len(f) : f[p].kind = k
  <2>1. PICK i \in 1 .. N : k = m.headers[i]
    BY MessageTypes, LenProperties DEF ToSet, N
  <2>2. f[P[i - 1] + 1].kind = k
    BY <1>4, <1>5, <2>1
  <2>3. P[i - 1] + 1 \in 1 .. Len(f)
    <3>1. P[i - 1] \in Nat /\ P[i - 1] + 3 <= Len(f) /\ Len(f) \in Nat
      BY <1>1, <1>2, <1>5
    <3> QED BY <3>1
  <2> QED BY <2>2, <2>3
<1> QED BY <1>2, <1>6, <1>7, <1>8 DEF f

\* Where the head ends.
HeadEnd(m) == Len(HeadOf(m))

\* The head: three tokens, the header lines, and CRLF.
LEMMA HeadLayout ==
  ASSUME NEW m \in Messages
  PROVE  LET h == HeadOf(m)
             L == Len(HeaderText(m))
         IN /\ h \in Seq(Tokens) /\ L \in Nat /\ Len(h) = L + 5
            /\ h[1] # CR
            /\ \A p \in 1 .. L : h[3 + p] = HeaderText(m)[p]
            /\ h[L + 4] = CR /\ h[L + 5] = LF
<1> DEFINE t == Token(IF m.status THEN "status" ELSE "badStatus", 0)
           L == Len(HeaderText(m))
<1>1. t \in Tokens /\ t # CR
  <2>1. t \in Tokens /\ t.kind \in {"status", "badStatus"}
    BY TokenType DEF Kinds
  <2> HIDE DEF t
  <2> QED BY <2>1, TokenKinds
<1>2. PICK a \in Seq(Tokens) : a = <<t>> \o CRLF /\ Len(a) = 3 /\ a[1] = t
  BY <1>1, LineLayout
<1>3. PICK f \in Seq(Tokens) : f = HeaderText(m)
  BY HeaderTextLayout
<1>4. PICK e \in Seq(Tokens) : e = CRLF /\ Len(e) = 2 /\ e[1] = CR /\ e[2] = LF
  BY TokenTypes
<1>5. PICK b \in Seq(Tokens) : b = a \o f /\ Joined(b, a, f)
  BY TokenJoin
<1>6. /\ b \in Seq(Tokens) /\ Len(b) = 3 + Len(f) /\ b[1] = t
      /\ \A k \in 1 .. Len(f) : b[3 + k] = f[k]
  <2>1. /\ b \in Seq(Tokens) /\ Len(b) = Len(a) + Len(f)
        /\ \A p \in 1 .. Len(a) : b[p] = a[p]
        /\ \A k \in 1 .. Len(f) : b[Len(a) + k] = f[k]
    BY <1>5 DEF Joined
  <2> QED BY <1>2, <2>1
<1>7. PICK h \in Seq(Tokens) : h = b \o e /\ Joined(h, b, e)
  BY TokenJoin
<1>8. /\ h \in Seq(Tokens) /\ Len(h) = Len(b) + Len(e)
      /\ \A p \in 1 .. Len(b) : h[p] = b[p]
      /\ \A k \in 1 .. Len(e) : h[Len(b) + k] = e[k]
  BY <1>6, <1>7 DEF Joined
<1>9. Len(f) \in Nat
  BY <1>3
<1>10. /\ Len(h) = Len(f) + 5 /\ h[1] = t
       /\ \A k \in 1 .. Len(f) : h[3 + k] = f[k]
  <2>1. Len(h) = Len(f) + 5 /\ 1 \in 1 .. Len(b)
    BY <1>4, <1>6, <1>8, <1>9
  <2>2. ASSUME NEW k \in 1 .. Len(f)
        PROVE  h[3 + k] = f[k]
    <3>1. 3 + k \in 1 .. Len(b)
      BY <1>6, <1>9
    <3> QED BY <1>6, <1>8, <3>1
  <2> QED BY <1>6, <1>8, <2>1, <2>2
<1>11. h[Len(f) + 4] = CR /\ h[Len(f) + 5] = LF
  <2>1. h[Len(b) + 1] = CR /\ h[Len(b) + 2] = LF
    BY <1>4, <1>8
  <2>2. Len(b) + 1 = Len(f) + 4 /\ Len(b) + 2 = Len(f) + 5
    BY <1>6, <1>9
  <2> QED BY <2>1, <2>2
<1>12. h = HeadOf(m)
  BY <1>2, <1>3, <1>4, <1>5, <1>7 DEF HeadOf, HeaderText, HeaderParts, HeaderPart
<1> HIDE DEF t
<1> QED BY <1>1, <1>3, <1>8, <1>9, <1>10, <1>11, <1>12

\* A message begins with its head.
LEMMA EncodeHead ==
  ASSUME NEW m \in Messages
  PROVE  /\ HeadEnd(m) \in Nat /\ HeadEnd(m) <= Len(Encode(m)) /\ Len(Encode(m)) \in Nat
         /\ \A p \in 1 .. HeadEnd(m) : Encode(m)[p] = HeadOf(m)[p]
<1>1. PICK h \in Seq(Tokens) : h = HeadOf(m)
  BY EncodeType
<1>2. PICK r \in Seq(Tokens) : Encode(m) = h \o r
  <2>1. CASE IsChunked(m)
    <3>1. FlattenSeq(ChunkParts(m)) \in Seq(Tokens) /\ Digits(0) \in Tokens
      BY ChunkPartTypes, FlattenType, TokenTypes, WireAssumption
    <3>2. FlattenSeq(ChunkParts(m)) \o <<Digits(0)>> \o CRLF \o CRLF \in Seq(Tokens)
      BY <3>1, TokenTypes
    <3> QED BY <1>1, <2>1, <3>2 DEF Encode, ChunkParts
  <2>2. CASE ~IsChunked(m)
    BY <1>1, <2>2, EncodeType DEF Encode
  <2> QED BY <2>1, <2>2
<1>4. Len(h) \in Nat /\ Len(r) \in Nat
  OBVIOUS
<1>5. PICK e \in Seq(Tokens) : e = h \o r /\ Joined(e, h, r)
  BY TokenJoin
<1>6. Len(e) = Len(h) + Len(r) /\ \A p \in 1 .. Len(h) : e[p] = h[p]
  BY <1>5 DEF Joined
<1>7. Len(e) \in Nat /\ Len(h) <= Len(e)
  BY <1>4, <1>6
<1> QED BY <1>1, <1>2, <1>4, <1>5, <1>6, <1>7 DEF HeadEnd

\* A body whose length is announced follows the head as it is.
LEMMA LengthLayout ==
  ASSUME NEW m \in Messages, ~IsChunked(m)
  PROVE  /\ Len(Encode(m)) = HeadEnd(m) + m.bytes
         /\ \A i \in 1 .. m.bytes : Encode(m)[HeadEnd(m) + i] = Data(i)
<1>1. PICK h \in Seq(Tokens) : h = HeadOf(m)
  BY EncodeType
<1>2. PICK b \in Seq(Tokens) : b = Body(m)
  BY EncodeType
<1>3. m.bytes \in Nat
  BY MessageTypes, WireAssumption
<1>4. Len(b) = m.bytes /\ \A i \in 1 .. m.bytes : b[i] = Data(i)
  BY <1>2, <1>3 DEF Body
<1>5. PICK e \in Seq(Tokens) : e = h \o b /\ Joined(e, h, b)
  BY TokenJoin
<1>6. Len(e) = Len(h) + Len(b) /\ \A k \in 1 .. Len(b) : e[Len(h) + k] = b[k]
  BY <1>5 DEF Joined
<1>7. e = Encode(m)
  BY <1>1, <1>2, <1>5 DEF Encode
<1> QED BY <1>1, <1>4, <1>6, <1>7 DEF HeadEnd

ChunkText(m) == FlattenSeq(ChunkParts(m))

\* After the chunks comes the one of size nought.
LEMMA ChunkTextLayout ==
  ASSUME NEW m \in Messages, IsChunked(m)
  PROVE  LET e == Encode(m)
             G == Len(ChunkText(m))
         IN /\ ChunkText(m) \in Seq(Tokens) /\ G \in Nat /\ Len(e) = HeadEnd(m) + G + 5
            /\ \A p \in 1 .. G : e[HeadEnd(m) + p] = ChunkText(m)[p]
            /\ e[HeadEnd(m) + G + 1] = Digits(0)
            /\ e[HeadEnd(m) + G + 2] = CR /\ e[HeadEnd(m) + G + 3] = LF
            /\ e[HeadEnd(m) + G + 4] = CR /\ e[HeadEnd(m) + G + 5] = LF
<1>1. PICK h \in Seq(Tokens) : h = HeadOf(m) /\ Len(h) = HeadEnd(m)
  BY EncodeType DEF HeadEnd
<1>2. PICK g \in Seq(Tokens) : g = ChunkText(m)
  BY ChunkPartTypes, FlattenType DEF ChunkText
<1>3. PICK d \in Seq(Tokens) : d = <<Digits(0)>> /\ Len(d) = 1 /\ d[1] = Digits(0)
  <2>1. Digits(0) \in Tokens
    BY TokenTypes, WireAssumption
  <2> QED BY <2>1, SingleToken
<1>4. PICK c \in Seq(Tokens) : c = CRLF /\ Len(c) = 2 /\ c[1] = CR /\ c[2] = LF
  BY TokenTypes
<1>5. Len(h) \in Nat /\ Len(g) \in Nat
  OBVIOUS
<1>6. PICK x \in Seq(Tokens) : x = g \o d /\ Joined(x, g, d)
  BY TokenJoin
<1>7. x \in Seq(Tokens) /\ Len(x) = Len(g) + 1 /\ x[Len(g) + 1] = Digits(0)
      /\ \A p \in 1 .. Len(g) : x[p] = g[p]
  <2>1. /\ x \in Seq(Tokens) /\ Len(x) = Len(g) + Len(d)
        /\ \A p \in 1 .. Len(g) : x[p] = g[p]
        /\ \A k \in 1 .. Len(d) : x[Len(g) + k] = d[k]
    BY <1>6 DEF Joined
  <2> QED BY <1>3, <2>1
<1>8. PICK y \in Seq(Tokens) : y = x \o c /\ Joined(y, x, c)
  BY TokenJoin
<1>9. y \in Seq(Tokens) /\ Len(y) = Len(g) + 3 /\ y[Len(g) + 1] = Digits(0)
      /\ y[Len(g) + 2] = CR /\ y[Len(g) + 3] = LF
      /\ \A p \in 1 .. Len(g) : y[p] = g[p]
  <2>1. /\ y \in Seq(Tokens) /\ Len(y) = Len(x) + Len(c)
        /\ \A p \in 1 .. Len(x) : y[p] = x[p]
        /\ \A k \in 1 .. Len(c) : y[Len(x) + k] = c[k]
    BY <1>7, <1>8 DEF Joined
  <2>2. y[Len(x) + 1] = CR /\ y[Len(x) + 2] = LF
    BY <1>4, <2>1
  <2>3. Len(x) + 1 = Len(g) + 2 /\ Len(x) + 2 = Len(g) + 3 /\ Len(y) = Len(g) + 3
    BY <1>4, <1>5, <1>7, <2>1
  <2>4. Len(g) + 1 \in 1 .. Len(x) /\ \A p \in 1 .. Len(g) : p \in 1 .. Len(x)
    BY <1>5, <1>7
  <2> QED BY <1>7, <2>1, <2>2, <2>3, <2>4
<1>10. PICK r \in Seq(Tokens) : r = y \o c /\ Joined(r, y, c)
  BY TokenJoin
<1>11. r \in Seq(Tokens) /\ Len(r) = Len(g) + 5 /\ r[Len(g) + 1] = Digits(0)
       /\ r[Len(g) + 2] = CR /\ r[Len(g) + 3] = LF
       /\ r[Len(g) + 4] = CR /\ r[Len(g) + 5] = LF
       /\ \A p \in 1 .. Len(g) : r[p] = g[p]
  <2>1. /\ r \in Seq(Tokens) /\ Len(r) = Len(y) + Len(c)
        /\ \A p \in 1 .. Len(y) : r[p] = y[p]
        /\ \A k \in 1 .. Len(c) : r[Len(y) + k] = c[k]
    BY <1>9, <1>10 DEF Joined
  <2>2. r[Len(y) + 1] = CR /\ r[Len(y) + 2] = LF
    BY <1>4, <2>1
  <2>3. Len(y) + 1 = Len(g) + 4 /\ Len(y) + 2 = Len(g) + 5 /\ Len(r) = Len(g) + 5
    BY <1>4, <1>5, <1>9, <2>1
  <2>4. /\ Len(g) + 1 \in 1 .. Len(y) /\ Len(g) + 2 \in 1 .. Len(y) /\ Len(g) + 3 \in 1 .. Len(y)
        /\ \A p \in 1 .. Len(g) : p \in 1 .. Len(y)
    BY <1>5, <1>9
  <2> QED BY <1>9, <2>1, <2>2, <2>3, <2>4
<1>12. PICK e \in Seq(Tokens) : e = h \o r /\ Joined(e, h, r)
  BY TokenJoin
<1>13. Len(e) = Len(h) + Len(r) /\ \A k \in 1 .. Len(r) : e[Len(h) + k] = r[k]
  BY <1>11, <1>12 DEF Joined
<1>14. e = Encode(m)
  <2>1. r = g \o d \o c \o c
    BY <1>6, <1>8, <1>10
  <2>2. Encode(m) = h \o (g \o d \o c \o c)
    BY <1>1, <1>2, <1>3, <1>4 DEF Encode, ChunkText, ChunkParts
  <2> QED BY <1>12, <2>1, <2>2
<1>15. ASSUME NEW k \in 1 .. Len(g)
       PROVE  e[Len(h) + k] = g[k]
  <2>1. k \in 1 .. Len(r)
    BY <1>5, <1>11
  <2>2. e[Len(h) + k] = r[k]
    BY <1>13, <2>1
  <2>3. r[k] = g[k]
    BY <1>11
  <2> QED BY <2>2, <2>3, Zenon
<1>16. ASSUME NEW k \in 1 .. 5
       PROVE  e[Len(h) + Len(g) + k] = r[Len(g) + k]
  <2>1. Len(g) + k \in 1 .. Len(r) /\ Len(h) + (Len(g) + k) = Len(h) + Len(g) + k
    BY <1>5, <1>11
  <2> QED BY <1>13, <2>1
<1>17. Len(e) = Len(h) + Len(g) + 5
  BY <1>5, <1>11, <1>13
<1>18. /\ e[Len(h) + Len(g) + 1] = Digits(0)
       /\ e[Len(h) + Len(g) + 2] = CR /\ e[Len(h) + Len(g) + 3] = LF
       /\ e[Len(h) + Len(g) + 4] = CR /\ e[Len(h) + Len(g) + 5] = LF
  <2>1. 1 \in 1 .. 5 /\ 2 \in 1 .. 5 /\ 3 \in 1 .. 5 /\ 4 \in 1 .. 5 /\ 5 \in 1 .. 5
    OBVIOUS
  <2> QED BY <1>11, <1>16, <2>1, Zenon
<1> QED BY <1>1, <1>2, <1>5, <1>14, <1>15, <1>17, <1>18, Zenon

\* Does a chunk begin before byte i; how many tokens stand before it in its part?
Opens(m, i) == i = 1 \/ i - 1 \in m.ends
Before(m, i) == IF Opens(m, i) THEN 3 ELSE 0

\* Where the chunk of byte i ends.
EndOf(m, i) == Min({x \in m.ends : x >= i})

\* One byte of a chunked body, with what stands before and after it.
LEMMA PartLayout ==
  ASSUME NEW m \in Messages, NEW i \in 1 .. m.bytes
  PROVE  LET c == Chunked(m, i)
             b == Before(m, i)
         IN /\ c \in Seq(Tokens) /\ Len(c) = b + 1 + IF i \in m.ends THEN 2 ELSE 0
            /\ Opens(m, i) => c[1] = Digits(EndOf(m, i) - i + 1) /\ c[2] = CR /\ c[3] = LF
            /\ c[b + 1] = Data(i)
            /\ i \in m.ends => c[b + 2] = CR /\ c[b + 3] = LF
<1> DEFINE D == Digits(EndOf(m, i) - i + 1)
<1>1. i \in Nat /\ D \in Tokens
  <2>1. m.bytes \in Nat /\ m.bytes <= MaxBody
    BY MessageTypes, WireAssumption
  <2>2. EndOf(m, i) \in 1 .. m.bytes /\ i <= EndOf(m, i)
    BY NextEnd, MessageTypes DEF EndOf
  <2>3. EndOf(m, i) - i + 1 \in 0 .. MaxBody
    BY <2>1, <2>2, WireAssumption
  <2> QED BY <2>3, TokenTypes
<1>2. PICK a \in Seq(Tokens) :
        /\ a = (IF Opens(m, i) THEN <<D>> \o CRLF ELSE <<>>)
        /\ Len(a) = Before(m, i)
        /\ Opens(m, i) => a[1] = D /\ a[2] = CR /\ a[3] = LF
  <2> HIDE DEF D
  <2>1. CASE Opens(m, i)
    <3>1. PICK l \in Seq(Tokens) : l = <<D>> \o CRLF /\ Len(l) = 3 /\ l[1] = D /\ l[2] = CR /\ l[3] = LF
      BY <1>1, LineLayout
    <3>2. l = (IF Opens(m, i) THEN <<D>> \o CRLF ELSE <<>>) /\ Before(m, i) = 3
      BY <2>1, <3>1 DEF Before
    <3> QED BY <3>1, <3>2
  <2>2. CASE ~Opens(m, i)
    <3>1. PICK l \in Seq(Tokens) : l = <<>> /\ Len(l) = 0
      BY EmptySeq
    <3>2. l = (IF Opens(m, i) THEN <<D>> \o CRLF ELSE <<>>) /\ Before(m, i) = 0
      BY <2>2, <3>1 DEF Before
    <3> QED BY <2>2, <3>1, <3>2
  <2> QED BY <2>1, <2>2
<1>3. PICK d \in Seq(Tokens) : d = <<Data(i)>> /\ Len(d) = 1 /\ d[1] = Data(i)
  BY <1>1, TokenTypes, SingleToken
<1>4. PICK z \in Seq(Tokens) :
        /\ z = (IF i \in m.ends THEN CRLF ELSE <<>>)
        /\ Len(z) = IF i \in m.ends THEN 2 ELSE 0
        /\ i \in m.ends => z[1] = CR /\ z[2] = LF
  <2>1. PICK l \in Seq(Tokens) : l = <<>> /\ Len(l) = 0
    BY EmptySeq
  <2>2. PICK l2 \in Seq(Tokens) : l2 = CRLF /\ Len(l2) = 2 /\ l2[1] = CR /\ l2[2] = LF
    BY TokenTypes
  <2>3. CASE i \in m.ends
    <3>1. l2 = (IF i \in m.ends THEN CRLF ELSE <<>>) /\ Len(l2) = IF i \in m.ends THEN 2 ELSE 0
      BY <2>2, <2>3
    <3> QED BY <2>2, <3>1
  <2>4. CASE i \notin m.ends
    <3>1. l = (IF i \in m.ends THEN CRLF ELSE <<>>) /\ Len(l) = IF i \in m.ends THEN 2 ELSE 0
      BY <2>1, <2>4
    <3> QED BY <2>1, <2>4, <3>1
  <2> QED BY <2>3, <2>4
<1>5. PICK x \in Seq(Tokens) : x = a \o d /\ Joined(x, a, d)
  BY TokenJoin
<1>6. /\ x \in Seq(Tokens) /\ Len(x) = Len(a) + 1 /\ x[Len(a) + 1] = Data(i)
      /\ \A p \in 1 .. Len(a) : x[p] = a[p]
  <2>1. /\ x \in Seq(Tokens) /\ Len(x) = Len(a) + Len(d)
        /\ \A p \in 1 .. Len(a) : x[p] = a[p]
        /\ \A k \in 1 .. Len(d) : x[Len(a) + k] = d[k]
    BY <1>5 DEF Joined
  <2> QED BY <1>3, <2>1
<1>7. PICK c \in Seq(Tokens) : c = x \o z /\ Joined(c, x, z)
  BY TokenJoin
<1>8. /\ c \in Seq(Tokens) /\ Len(c) = Len(x) + Len(z)
      /\ \A p \in 1 .. Len(x) : c[p] = x[p]
      /\ \A k \in 1 .. Len(z) : c[Len(x) + k] = z[k]
  BY <1>6, <1>7 DEF Joined
<1>9. Len(a) \in Nat
  OBVIOUS
<1>10. c[Len(a) + 1] = Data(i) /\ \A p \in 1 .. Len(a) : c[p] = a[p]
  <2>1. Len(a) + 1 \in 1 .. Len(x) /\ \A p \in 1 .. Len(a) : p \in 1 .. Len(x)
    BY <1>6, <1>9
  <2> QED BY <1>6, <1>8, <2>1
<1>11. i \in m.ends => c[Len(a) + 2] = CR /\ c[Len(a) + 3] = LF
  <2>1. Len(x) + 1 = Len(a) + 2 /\ Len(x) + 2 = Len(a) + 3
    BY <1>6, <1>9
  <2>2. i \in m.ends => c[Len(x) + 1] = CR /\ c[Len(x) + 2] = LF
    <3> SUFFICES ASSUME i \in m.ends
                 PROVE  c[Len(x) + 1] = CR /\ c[Len(x) + 2] = LF
      OBVIOUS
    <3>1. Len(z) = 2 /\ z[1] = CR /\ z[2] = LF
      BY <1>4, Zenon
    <3>2. 1 \in 1 .. Len(z) /\ 2 \in 1 .. Len(z)
      BY <3>1
    <3> QED BY <1>8, <3>1, <3>2
  <2> QED BY <2>1, <2>2
<1>12. Opens(m, i) => Len(a) = 3 /\ c[1] = D /\ c[2] = CR /\ c[3] = LF
  BY <1>2, <1>10 DEF Before
<1>13. Len(c) = Len(a) + 1 + IF i \in m.ends THEN 2 ELSE 0
  BY <1>4, <1>6, <1>8, <1>9
<1>14. c = Chunked(m, i)
  <2>1. c = a \o d \o z
    BY <1>5, <1>7
  <2> QED BY <1>2, <1>3, <1>4, <2>1 DEF Chunked, Opens, EndOf
<1> QED BY <1>2, <1>8, <1>10, <1>11, <1>12, <1>13, <1>14

\* Where the parts are in a chunked message: part i follows position Start(m, i - 1),
\* and byte i itself is at Place(m, i).
Starts(m) == CHOOSE P : Parts(ChunkParts(m), ChunkText(m), P)
Start(m, j) == HeadEnd(m) + Starts(m)[j]
Place(m, i) == Start(m, i - 1) + Before(m, i) + 1

\* The chunks of a message follow one another after the head, byte by byte.
LEMMA StartLayout ==
  ASSUME NEW m \in Messages, IsChunked(m)
  PROVE  /\ \A j \in 0 .. m.bytes : Start(m, j) \in Nat /\ HeadEnd(m) <= Start(m, j)
         /\ Start(m, 0) = HeadEnd(m) /\ Start(m, m.bytes) + 5 = Len(Encode(m))
         /\ \A i \in 1 .. m.bytes :
              /\ Start(m, i) = Start(m, i - 1) + Len(Chunked(m, i))
              /\ \A k \in 1 .. Len(Chunked(m, i)) :
                   /\ Encode(m)[Start(m, i - 1) + k] = Chunked(m, i)[k]
                   /\ Start(m, i - 1) + k + 5 <= Len(Encode(m))
<1> DEFINE s == ChunkParts(m)
           g == ChunkText(m)
           P == Starts(m)
           H == HeadEnd(m)
<1>1. s \in Seq(Seq(Tokens)) /\ Len(s) = m.bytes /\ m.bytes \in Nat
  BY ChunkPartTypes, MessageTypes, WireAssumption
<1>2. Parts(s, g, P)
  <2>1. \E Q : Parts(s, g, Q)
    BY <1>1, FlattenParts DEF ChunkText
  <2> QED BY <2>1, Zenon DEF Starts
<1>3. H \in Nat /\ g \in Seq(Tokens) /\ Len(g) \in Nat /\ Len(Encode(m)) = H + Len(g) + 5
      /\ \A p \in 1 .. Len(g) : Encode(m)[H + p] = g[p]
  BY EncodeHead, ChunkTextLayout
<1>4. /\ P \in [0 .. m.bytes -> Nat] /\ P[0] = 0 /\ P[m.bytes] = Len(g)
      /\ \A i \in 1 .. m.bytes : P[i] = P[i - 1] + Len(s[i])
      /\ \A i \in 1 .. m.bytes : \A k \in 1 .. Len(s[i]) :
           P[i - 1] + k \in 1 .. Len(g) /\ g[P[i - 1] + k] = s[i][k]
  BY <1>1, <1>2 DEF Parts
<1>5. \A i \in 1 .. m.bytes : s[i] = Chunked(m, i)
  BY DEF ChunkParts
<1> HIDE DEF s, g, P, H
<1>6. \A j \in 0 .. m.bytes : Start(m, j) = H + P[j] /\ P[j] \in Nat
  BY <1>4 DEF Start, H, P
<1>7. \A j \in 0 .. m.bytes : Start(m, j) \in Nat /\ H <= Start(m, j)
  BY <1>3, <1>6
<1>8. Start(m, 0) = H /\ Start(m, m.bytes) + 5 = Len(Encode(m))
  <2>1. 0 \in 0 .. m.bytes /\ m.bytes \in 0 .. m.bytes
    BY <1>1
  <2>2. Start(m, 0) = H + P[0] /\ Start(m, m.bytes) = H + P[m.bytes]
    BY <1>6, <2>1
  <2> QED BY <1>3, <1>4, <2>2
<1>9. ASSUME NEW i \in 1 .. m.bytes
      PROVE  /\ Start(m, i) = Start(m, i - 1) + Len(Chunked(m, i))
             /\ \A k \in 1 .. Len(Chunked(m, i)) :
                  /\ Encode(m)[Start(m, i - 1) + k] = Chunked(m, i)[k]
                  /\ Start(m, i - 1) + k + 5 <= Len(Encode(m))
  <2>1. i \in 0 .. m.bytes /\ i - 1 \in 0 .. m.bytes
    BY <1>1
  <2>2. Start(m, i) = H + P[i] /\ Start(m, i - 1) = H + P[i - 1] /\ P[i - 1] \in Nat /\ P[i] \in Nat
    BY <1>6, <2>1
  <2>3. s[i] = Chunked(m, i) /\ P[i] = P[i - 1] + Len(s[i])
    BY <1>4, <1>5
  <2>4. Len(s[i]) \in Nat
    BY PartLayout, <2>3
  <2>5. Start(m, i) = Start(m, i - 1) + Len(Chunked(m, i))
    BY <1>3, <2>2, <2>3, <2>4
  <2>6. ASSUME NEW k \in 1 .. Len(s[i])
        PROVE  Encode(m)[Start(m, i - 1) + k] = s[i][k] /\ Start(m, i - 1) + k + 5 <= Len(Encode(m))
    <3>1. P[i - 1] + k \in 1 .. Len(g) /\ g[P[i - 1] + k] = s[i][k]
      BY <1>4
    <3>2. Start(m, i - 1) + k = H + (P[i - 1] + k)
      BY <1>3, <2>2, <2>4
    <3> QED BY <1>3, <3>1, <3>2, SMTT(60)
  <2> QED BY <2>3, <2>5, <2>6
<1> QED BY <1>7, <1>8, <1>9 DEF H

\* Every byte with its surroundings: what the parser of chunks meets on its way
\* through a message.
LEMMA ByteLayout ==
  ASSUME NEW m \in Messages, IsChunked(m), NEW i \in 1 .. m.bytes
  PROVE  LET e == Encode(m)
             a == Start(m, i - 1)
             p == Place(m, i)
         IN /\ a \in Nat /\ p \in Nat /\ HeadEnd(m) <= a /\ p <= Len(e) /\ e[p] = Data(i)
            /\ Opens(m, i) => /\ p = a + 4
                              /\ e[a + 1] = Digits(EndOf(m, i) - (i - 1))
                              /\ e[a + 2] = CR /\ e[a + 3] = LF
            /\ i \notin m.ends => Start(m, i) = p
            /\ i \in m.ends => Start(m, i) = p + 2 /\ e[p + 1] = CR /\ e[p + 2] = LF
<1> DEFINE c == Chunked(m, i)
           b == Before(m, i)
           e == Encode(m)
           a == Start(m, i - 1)
           p == Place(m, i)
<1>1. m.bytes \in Nat /\ i \in Nat /\ i - 1 \in 0 .. m.bytes
  BY MessageTypes, WireAssumption
<1>2. a \in Nat /\ HeadEnd(m) <= a /\ Start(m, i) = a + Len(c)
      /\ \A k \in 1 .. Len(c) : e[a + k] = c[k] /\ a + k + 5 <= Len(e)
  BY <1>1, StartLayout
<1>3. b \in {0, 3} /\ (Opens(m, i) => b = 3) /\ p = a + b + 1
  BY DEF Before, Place
<1>4. c \in Seq(Tokens) /\ Len(c) \in Nat /\ Len(e) \in Nat
  BY PartLayout, EncodeHead
<1>5. /\ i \in m.ends => Len(c) = b + 3
      /\ i \notin m.ends => Len(c) = b + 1
      /\ Opens(m, i) => c[1] = Digits(EndOf(m, i) - i + 1) /\ c[2] = CR /\ c[3] = LF
      /\ c[b + 1] = Data(i)
      /\ i \in m.ends => c[b + 2] = CR /\ c[b + 3] = LF
  <2>1. PICK l : l = Len(c) /\ l = b + 1 + IF i \in m.ends THEN 2 ELSE 0
    BY PartLayout
  <2>2. (i \in m.ends => l = b + 3) /\ (i \notin m.ends => l = b + 1)
    BY <1>3, <2>1
  <2> QED BY PartLayout, <2>1, <2>2
<1> HIDE DEF c, b, e, a, p
<1>6. b + 1 \in 1 .. Len(c) /\ (Opens(m, i) => 1 \in 1 .. Len(c) /\ 2 \in 1 .. Len(c) /\ 3 \in 1 .. Len(c))
      /\ (i \in m.ends => b + 2 \in 1 .. Len(c) /\ b + 3 \in 1 .. Len(c))
  BY <1>3, <1>4, <1>5, SMTT(30)
<1>7. e[p] = Data(i) /\ p <= Len(e) /\ p \in Nat
  <2>1. e[a + (b + 1)] = c[b + 1] /\ a + (b + 1) + 5 <= Len(e)
    BY <1>2, <1>6
  <2>2. a + (b + 1) = p
    BY <1>2, <1>3
  <2> QED BY <1>2, <1>3, <1>4, <1>5, <2>1, <2>2
<1>8. ASSUME Opens(m, i)
      PROVE  p = a + 4 /\ e[a + 1] = Digits(EndOf(m, i) - (i - 1)) /\ e[a + 2] = CR /\ e[a + 3] = LF
  <2>1. e[a + 1] = c[1] /\ e[a + 2] = c[2] /\ e[a + 3] = c[3]
    BY <1>2, <1>6, <1>8
  <2>2. EndOf(m, i) - i + 1 = EndOf(m, i) - (i - 1)
    <3>1. EndOf(m, i) \in Nat
      BY <1>1, NextEnd, MessageTypes DEF EndOf
    <3> QED BY <1>1, <3>1
  <2> QED BY <1>2, <1>3, <1>5, <1>8, <2>1, <2>2
<1>9. ASSUME i \in m.ends
      PROVE  Start(m, i) = p + 2 /\ e[p + 1] = CR /\ e[p + 2] = LF
  <2>1. e[a + (b + 2)] = c[b + 2] /\ e[a + (b + 3)] = c[b + 3]
    BY <1>2, <1>6, <1>9
  <2>2. a + (b + 2) = p + 1 /\ a + (b + 3) = p + 2
    BY <1>2, <1>3
  <2>3. Start(m, i) = p + 2
    BY <1>2, <1>3, <1>5, <1>9
  <2> QED BY <1>5, <1>9, <2>1, <2>2, <2>3
<1>10. i \notin m.ends => Start(m, i) = p
  BY <1>2, <1>3, <1>5
<1> QED BY <1>2, <1>7, <1>8, <1>9, <1>10 DEF e, a, p

\* The chunk of byte i ends at a byte of the message, and at none before it.
LEMMA EndOfType ==
  ASSUME NEW m \in Messages, NEW i \in 1 .. m.bytes
  PROVE  /\ EndOf(m, i) \in Nat /\ i <= EndOf(m, i) /\ EndOf(m, i) <= m.bytes
         /\ EndOf(m, i) \in m.ends
         /\ \A x \in m.ends : x >= i => EndOf(m, i) <= x
<1>1. m.bytes \in Nat
  BY MessageTypes, WireAssumption
<1>2. /\ EndOf(m, i) \in m.ends /\ i <= EndOf(m, i)
      /\ \A x \in m.ends : x >= i => EndOf(m, i) <= x
  BY NextEnd DEF EndOf
<1> HIDE DEF EndOf
<1>3. EndOf(m, i) \in 1 .. m.bytes
  BY <1>2, MessageTypes
<1> QED BY <1>1, <1>2, <1>3

\* The bytes of a chunk stand one after the other.
LEMMA ChunkRun ==
  ASSUME NEW m \in Messages, IsChunked(m), NEW i \in 1 .. m.bytes
  PROVE  \A j \in i .. EndOf(m, i) : Place(m, j) = Place(m, i) + (j - i)
<1> DEFINE b == EndOf(m, i)
           Good == {j \in i .. b : Place(m, j) = Place(m, i) + (j - i)}
<1>1. /\ m.bytes \in Nat /\ i \in Nat /\ b \in Nat /\ i <= b /\ b <= m.bytes
      /\ \A x \in m.ends : x >= i => b <= x
  BY EndOfType, MessageTypes, WireAssumption
<1> HIDE DEF b
<1>2. i \in Good
  <2>1. Place(m, i) \in Nat
    BY ByteLayout
  <2> QED BY <1>1, <2>1
<1>3. ASSUME NEW j \in i .. b, j \in Good, j < b
      PROVE  j + 1 \in Good
  <2>1. j \in 1 .. m.bytes /\ j + 1 \in 1 .. m.bytes /\ (j + 1) - 1 = j /\ j + 1 # 1 /\ j + 1 \in i .. b
    BY <1>1, <1>3
  <2>2. j \notin m.ends
    BY <1>1, <1>3
  <2>3. Start(m, j) = Place(m, j)
    BY <2>1, <2>2, ByteLayout
  <2>4. Place(m, j + 1) = Start(m, j) + 0 + 1
    BY <2>1, <2>2 DEF Place, Before, Opens
  <2>5. Place(m, j + 1) = Place(m, i) + ((j + 1) - i)
    <3>1. Place(m, i) \in Nat /\ Place(m, j) = Place(m, i) + (j - i)
      BY <1>3, ByteLayout
    <3> QED BY <1>1, <2>1, <2>3, <2>4, <3>1
  <2> QED BY <2>1, <2>5
<1>4. \A j \in i .. b : j \in Good
  <2> HIDE DEF Good
  <2> QED BY <1>1, <1>2, <1>3, Induction
<1> QED BY <1>4 DEF b

\* Is byte j the last of a chunk, or is no byte read: the size of a chunk follows,
\* which is nought after the last byte.
Between(m, j) == j \in 0 .. m.bytes /\ (j = 0 \/ j \in m.ends)
SizeAfter(m, j) == IF j < m.bytes THEN EndOf(m, j + 1) - j ELSE 0

\* Where the size of a chunk stands, and what stands after it.
LEMMA SizeLayout ==
  ASSUME NEW m \in Messages, IsChunked(m), NEW j, Between(m, j)
  PROVE  LET e == Encode(m)
             a == Start(m, j)
             v == SizeAfter(m, j)
         IN /\ a \in Nat /\ HeadEnd(m) <= a /\ a + 5 <= Len(e)
            /\ v \in 0 .. MaxBody /\ (v = 0 <=> j = m.bytes)
            /\ e[a + 1] = Digits(v) /\ e[a + 2] = CR /\ e[a + 3] = LF
            /\ j # m.bytes => e[a + 4] = Data(j + 1) /\ Place(m, j + 1) = a + 4
            /\ j = m.bytes => a + 5 = Len(e) /\ e[a + 4] = CR /\ e[a + 5] = LF
<1> DEFINE e == Encode(m)
           a == Start(m, j)
           v == SizeAfter(m, j)
<1>1. m.bytes \in Nat /\ m.bytes <= MaxBody /\ j \in Nat /\ j <= m.bytes
  BY MessageTypes, WireAssumption DEF Between
<1>2. a \in Nat /\ HeadEnd(m) <= a /\ HeadEnd(m) \in Nat /\ Len(e) \in Nat
  BY <1>1, StartLayout, EncodeHead
<1>3. CASE j = m.bytes
  <2> DEFINE G == Len(ChunkText(m))
  <2>1. /\ G \in Nat /\ Len(e) = HeadEnd(m) + G + 5
        /\ e[HeadEnd(m) + G + 1] = Digits(0)
        /\ e[HeadEnd(m) + G + 2] = CR /\ e[HeadEnd(m) + G + 3] = LF
        /\ e[HeadEnd(m) + G + 4] = CR /\ e[HeadEnd(m) + G + 5] = LF
    BY ChunkTextLayout
  <2>2. a + 5 = Len(e)
    BY <1>3, StartLayout
  <2> HIDE DEF G, a, e
  <2>3. a = HeadEnd(m) + G
    BY <1>2, <2>1, <2>2
  <2>4. v = 0 /\ 0 \in 0 .. MaxBody
    BY <1>1, <1>3, WireAssumption DEF SizeAfter
  <2> HIDE DEF v
  <2> QED BY <1>2, <1>3, <2>1, <2>2, <2>3, <2>4 DEF a, e, v
<1>4. CASE j # m.bytes
  <2> DEFINE i == j + 1
  <2>1. i \in 1 .. m.bytes /\ i - 1 = j /\ j < m.bytes
    BY <1>1, <1>4
  <2>2. Opens(m, i)
    BY <1>1, <2>1 DEF Opens, Between
  <2>3. /\ Place(m, i) = a + 4 /\ Place(m, i) <= Len(e) /\ e[Place(m, i)] = Data(i)
        /\ e[a + 1] = Digits(EndOf(m, i) - j) /\ e[a + 2] = CR /\ e[a + 3] = LF
    <3>1. i \in 1 .. m.bytes /\ Start(m, i - 1) = a /\ EndOf(m, i) - (i - 1) = EndOf(m, i) - j
      BY <2>1
    <3> HIDE DEF i, a, e
    <3> QED BY <2>2, <3>1, ByteLayout DEF e
  <2>4. v = EndOf(m, i) - j /\ EndOf(m, i) - j \in 1 .. MaxBody
    <3>1. EndOf(m, i) \in Nat /\ i <= EndOf(m, i) /\ EndOf(m, i) <= m.bytes
      BY <2>1, EndOfType
    <3> QED BY <1>1, <2>1, <3>1, WireAssumption DEF SizeAfter
  <2>5. a + 5 <= Len(e)
    <3>1. Start(m, j) + Len(Chunked(m, i)) + 5 <= Len(e)
      <4>1. Len(Chunked(m, i)) \in 1 .. Len(Chunked(m, i))
        <5>1. PICK l \in Nat : l = Len(Chunked(m, i)) /\ l = Before(m, i) + 1 + IF i \in m.ends THEN 2 ELSE 0
          <6>1. i \in 1 .. m.bytes
            BY <2>1
          <6> HIDE DEF i
          <6> QED BY <6>1, PartLayout
        <5>2. Before(m, i) \in Nat
          BY DEF Before
        <5>3. l >= 1
          BY <5>1, <5>2
        <5> QED BY <5>1, <5>3
      <4> QED BY <2>1, <4>1, StartLayout
    <3>2. Len(Chunked(m, i)) \in Nat
      BY <2>1, PartLayout
    <3> QED BY <1>2, <3>1, <3>2
  <2>6. e[a + 4] = Data(j + 1) /\ Place(m, j + 1) = a + 4
    BY <2>3
  <2>7. v \in 0 .. MaxBody /\ v # 0 /\ e[a + 1] = Digits(v) /\ e[a + 2] = CR /\ e[a + 3] = LF
    <3>1. v \in 1 .. MaxBody
      BY <2>4
    <3>2. e[a + 1] = Digits(v)
      BY <2>3, <2>4
    <3> HIDE DEF v
    <3> QED BY <2>3, <3>1, <3>2, WireAssumption
  <2> QED BY <1>2, <1>4, <2>5, <2>6, <2>7, Zenon
<1> QED BY <1>3, <1>4

-------------------------------------------------------------------------------
(* What reaches the client of it *)

\* The wire follows the message as far as both go.
LEMMA WireLayout ==
  ASSUME NEW m \in Messages, NEW w \in Wires(m), NEW i \in 1 .. Len(w), i <= Len(Encode(m))
  PROVE  w[i] = Encode(m)[i]
<1>1. PICK e \in Seq(Tokens) : e = Encode(m)
  BY EncodeType
<1>2. Len(e) \in Nat
  BY <1>1
<1>3. CASE w = Append(e, Data(MaxBody + 1))
  <2>1. i \in 1 .. Len(e)
    BY <1>1, <1>2
  <2> QED BY <1>1, <1>3, <2>1, AppendProperties
<1>4. ASSUME NEW k \in 0 .. Len(e), w = SubSeq(e, 1, k)
      PROVE  w[i] = e[i]
  <2>1. k \in Nat /\ k <= Len(e)
    BY <1>2
  <2>2. Len(w) = k /\ \A n \in 1 .. k : w[n] = e[n]
    BY <1>4, <2>1, FirstOf
  <2> QED BY <2>2
<1>5. w = Append(e, Data(MaxBody + 1)) \/ \E k \in 0 .. Len(e) : w = SubSeq(e, 1, k)
  BY <1>1 DEF Wires, Prefixes
<1> QED BY <1>1, <1>3, <1>4, <1>5

Sent == Encode(message)

\* What has been sent is at least the head.
LEMMA SentType ==
  ASSUME TypeInv
  PROVE  /\ Sent \in Seq(Tokens) /\ Len(Sent) \in Nat
         /\ HeadEnd(message) \in Nat /\ HeadEnd(message) <= Len(Sent)
         /\ message.bytes \in Nat /\ message.bytes <= MaxBody
BY EncodeType, EncodeHead, MessageTypes, WireAssumption DEF TypeInv, Sent

\* What arrives is what was sent, as far as it does.
LEMMA AsSent ==
  ASSUME TypeInv, NEW i \in 1 .. Len(wire), i <= Len(Sent)
  PROVE  wire[i] = Sent[i]
BY WireLayout DEF TypeInv, Sent

\* The head is what arrives first.
LEMMA HeadArrives ==
  ASSUME TypeInv, NEW i \in 1 .. Len(wire), i <= HeadEnd(message)
  PROVE  wire[i] = HeadOf(message)[i]
<1>1. i \in Nat /\ 1 <= i /\ HeadEnd(message) \in Nat /\ HeadEnd(message) <= Len(Sent) /\ Len(Sent) \in Nat
  BY SentType, BufferType
<1>2. wire[i] = Sent[i]
  BY <1>1, AsSent
<1>3. Sent[i] = HeadOf(message)[i]
  BY <1>1, EncodeHead DEF TypeInv, Sent
<1> QED BY <1>2, <1>3

\* A chunk size that the parser accepts is the one that the server has sent.
LEMMA SizeRead ==
  ASSUME TypeInv, IsChunked(message), NEW j, Between(message, j),
         Consumed = Start(message, j), ValidSize
  PROVE  DigitsAt = 1 /\ buffer[1].n = SizeAfter(message, j)
<1> DEFINE a == Start(message, j)
           v == SizeAfter(message, j)
           W == Len(wire)
           S == Len(Sent)
           d == DigitsAt
           B == Len(buffer)
<1>1. /\ a \in Nat /\ a + 5 <= S /\ v \in 0 .. MaxBody
      /\ Sent[a + 1] = Digits(v) /\ Sent[a + 2] = CR /\ Sent[a + 3] = LF
      /\ j # message.bytes => Sent[a + 4] = Data(j + 1)
      /\ j = message.bytes => a + 5 = S /\ Sent[a + 4] = CR /\ Sent[a + 5] = LF
  BY SizeLayout DEF TypeInv, Sent
<1>2. j \in Nat
  BY SentType DEF Between
<1>3. /\ CR.kind = "cr" /\ LF.kind = "lf" /\ CR # LF
      /\ Data(j + 1).kind = "data" /\ Data(j + 1) # CR /\ Data(j + 1) # LF
      /\ Digits(v).kind = "size" /\ Digits(v).n = v /\ Digits(v) # CR /\ Digits(v) # LF
  <2> HIDE DEF v
  <2> QED BY <1>1, <1>2, TokenKinds, TokensDiffer, TokenTypes
<1>4. /\ B \in Nat /\ W \in Nat /\ S \in Nat /\ a + B = taken /\ taken <= W /\ taken \in Nat
      /\ \A i \in 1 .. B : buffer[i] = wire[a + i]
  <2>1. \A i \in 1 .. B : buffer[i] = wire[Consumed + i]
    BY DEF TypeInv, Suffix
  <2> QED BY <2>1, BufferType, SentType
<1>5. /\ d \in 1 .. B /\ d + 2 <= B /\ buffer[d].kind = "size"
      /\ buffer[d + 1] = CR /\ buffer[d + 2] = LF
      /\ \A i \in 1 .. B : i < d => buffer[i] \in {CR, LF}
  BY SizeTaken, DigitsFirst DEF ValidSize
<1> HIDE DEF a, v, W, S, d, B
<1>6. 1 \in 1 .. B /\ a + 1 \in 1 .. W /\ a + 1 <= S
  BY <1>1, <1>4, <1>5
<1>7. buffer[1] = Digits(v)
  <2>1. wire[a + 1] = Sent[a + 1]
    BY <1>6, AsSent DEF W, S
  <2> QED BY <1>1, <1>4, <1>6, <2>1
<1>8. ~(1 < d)
  BY <1>3, <1>5, <1>6, <1>7
<1> QED BY <1>3, <1>4, <1>5, <1>7, <1>8 DEF d, v

\* The header loop stops at the empty line that ends the head, has read every
\* header line, and leaves in buffer_ what follows the head.
LEMMA HeadRead ==
  ASSUME TypeInv, Ready, stage = "headers", Consumed = 3, "noValue" \notin ToSet(message.headers)
  PROVE  /\ Suffix(AfterHeaders, HeadEnd(message))
         /\ \A k \in HeaderKinds : k \in HeadersRead <=> k \in ToSet(message.headers)
<1> DEFINE f == HeaderText(message)
           L == Len(f)
           h == HeadOf(message)
           B == Len(buffer)
           N == HeaderStop
           K == ToSet(message.headers)
           E == HeadEnd(message)
<1>0. message \in Messages
  BY DEF TypeInv
<1>1. /\ f \in Seq(Tokens)
      /\ L > 0 => f[L] = LF
      /\ \A p \in 1 .. L : /\ f[p] = CR => p > 1 /\ f[p - 1] # LF
                           /\ f[p].kind \in {"cr", "lf"} \cup K
      /\ \A k \in K : \E p \in 1 .. L : f[p].kind = k
  BY <1>0, HeaderTextLayout
<1>2. /\ L \in Nat /\ Len(h) = L + 5
      /\ \A p \in 1 .. L : h[3 + p] = f[p]
      /\ h[L + 4] = CR /\ h[L + 5] = LF
  BY <1>0, HeadLayout
<1>3. /\ B \in Nat /\ 3 + B = taken /\ taken <= Len(wire) /\ Len(wire) \in Nat
      /\ \A i \in 1 .. B : buffer[i] = wire[3 + i]
  <2>1. \A i \in 1 .. B : buffer[i] = wire[Consumed + i]
    BY DEF TypeInv, Suffix
  <2> QED BY <2>1, BufferType
<1>4. /\ N \in 1 .. B - 1 /\ StopsAt(N)
      /\ \A i \in 1 .. N - 1 : ~StopsAt(i)
  BY HeaderStops
<1>5. E = L + 5
  BY <1>2 DEF HeadEnd
<1> HIDE DEF f, L, h, B, N, K, E
<1>6. ASSUME NEW p \in 1 .. B, p <= L + 2
      PROVE  buffer[p] = h[3 + p]
  <2>1. 3 + p \in 1 .. Len(wire) /\ 3 + p <= E
    BY <1>2, <1>3, <1>5, <1>6
  <2>2. wire[3 + p] = h[3 + p]
    BY <2>1, HeadArrives DEF E, h
  <2> QED BY <1>3, <2>2
<1>7. ASSUME NEW p \in 1 .. B, p <= L
      PROVE  buffer[p] = f[p]
  BY <1>2, <1>6, <1>7
<1>8. ASSUME NEW p \in 1 .. B, p <= L
      PROVE  ~StopsAt(p)
  <2>1. buffer[p] = f[p] /\ p \in 1 .. L
    BY <1>2, <1>7, <1>8
  <2>2. f[p].kind # "noValue"
    BY <1>1, <2>1 DEF K
  <2>3. f[p] = CR => p > 1 /\ buffer[p - 1] # LF
    <3>1. SUFFICES ASSUME f[p] = CR PROVE p > 1 /\ buffer[p - 1] # LF
      OBVIOUS
    <3>2. p > 1 /\ f[p - 1] # LF
      BY <1>1, <2>1, <3>1
    <3>3. p - 1 \in 1 .. B /\ p - 1 <= L
      <4>1. B \in Nat /\ L \in Nat /\ p \in 1 .. B /\ p <= L /\ p > 1
        BY <1>2, <1>3, <1>8, <3>2
      <4> HIDE DEF B, L
      <4> QED BY <4>1
    <3> QED BY <1>7, <3>2, <3>3
  <2> QED BY <2>1, <2>2, <2>3 DEF StopsAt
<1>9. N \in Nat /\ L + 1 <= N
  <2>1. N \in 1 .. B
    BY <1>3, <1>4
  <2>2. ~(N <= L)
    BY <1>4, <1>8, <2>1
  <2> QED BY <1>2, <2>1, <2>2
<1>10. N = L + 1
  <2>1. L + 1 \in 1 .. B /\ L + 2 \in 1 .. B
    BY <1>2, <1>3, <1>4, <1>9
  <2>2. buffer[L + 1] = CR
    <3>1. buffer[L + 1] = h[3 + (L + 1)] /\ 3 + (L + 1) = L + 4
      BY <1>2, <1>6, <2>1
    <3> QED BY <1>2, <3>1
  <2>3. L + 1 = 1 \/ buffer[(L + 1) - 1] = LF
    <3>1. SUFFICES ASSUME L # 0 PROVE buffer[(L + 1) - 1] = LF
      BY <1>2
    <3>2. L \in 1 .. B /\ (L + 1) - 1 = L
      BY <1>2, <1>3, <2>1, <3>1
    <3> QED BY <1>1, <1>2, <1>7, <3>1, <3>2
  <2>4. StopsAt(L + 1)
    BY <2>2, <2>3 DEF StopsAt
  <2> QED BY <1>2, <1>4, <1>9, <2>4
<1>11. buffer[N] = CR
  <2>1. buffer[N] = h[3 + (L + 1)] /\ 3 + (L + 1) = L + 4
    <3>1. N \in 1 .. B /\ N <= L + 2
      BY <1>2, <1>3, <1>4, <1>10
    <3> QED BY <1>2, <1>6, <1>10, <3>1
  <2> QED BY <1>2, <2>1
<1>12. Suffix(AfterHeaders, E)
  <2>1. AfterHeaders = Rest(buffer, N + 1)
    BY <1>11 DEF AfterHeaders, N
  <2>2. N + 1 \in Nat /\ N + 1 <= B /\ 3 + (N + 1) = E
    BY <1>2, <1>3, <1>4, <1>5, <1>9, <1>10
  <2>3. Suffix(Rest(buffer, N + 1), IF N + 1 <= B THEN Consumed + (N + 1) ELSE taken)
    BY <2>2, RestSuffix DEF TypeInv, B
  <2> QED BY <2>1, <2>2, <2>3
<1>13. \A i \in 1 .. L : i \in 1 .. N - 1 /\ i \in 1 .. B /\ buffer[i] = f[i]
  BY <1>2, <1>3, <1>4, <1>7, <1>10
<1>14. \A i \in 1 .. N - 1 : i \in 1 .. L
  BY <1>2, <1>10
<1>15. HeadersRead = {buffer[i].kind : i \in 1 .. N - 1}
  BY DEF HeadersRead, N
<1>16. ASSUME NEW k \in HeaderKinds
       PROVE  k \in HeadersRead <=> k \in K
  <2>1. k # "cr" /\ k # "lf"
    BY DEF HeaderKinds
  <2>2. ASSUME k \in HeadersRead PROVE k \in K
    <3>1. PICK i \in 1 .. N - 1 : k = buffer[i].kind
      BY <1>15, <2>2
    <3>2. i \in 1 .. L /\ k = f[i].kind
      BY <1>13, <1>14, <3>1
    <3> QED BY <1>1, <2>1, <3>2
  <2>3. ASSUME k \in K PROVE k \in HeadersRead
    <3>1. PICK i \in 1 .. L : f[i].kind = k
      BY <1>1, <2>3
    <3>2. i \in 1 .. N - 1 /\ buffer[i].kind = k
      BY <1>13, <3>1
    <3> QED BY <1>15, <3>2
  <2> QED BY <2>2, <2>3
<1> QED BY <1>12, <1>16 DEF K, E

-------------------------------------------------------------------------------
(* The content, and where the handlers stand *)

\* What has become content is, of a chunked body, the beginning of what the server
\* means to send; of another body, what follows the head.
ContentSoFar ==
  IF IsChunked(message)
  THEN /\ Len(content) <= message.bytes
       /\ \A i \in 1 .. Len(content) : content[i] = Data(i)
  ELSE /\ Len(content) > 0 => HeadEnd(message) + Len(content) <= taken
       /\ \A i \in 1 .. Len(content) : content[i] = wire[HeadEnd(message) + i]

\* Where in the message each read begins, as far as the reader can tell.
AtRead ==
  /\ stage = "statusLine" => Consumed = 0 /\ Len(content) = 0
  /\ stage = "headers" => Consumed = 3 /\ Len(content) = 0
  /\ stage = "content" => ~IsChunked(message) /\ Consumed = HeadEnd(message) + Len(content)
  /\ stage = "chunkSize" =>
       /\ IsChunked(message) /\ Between(message, Len(content))
       /\ Consumed = Start(message, Len(content))
  /\ stage = "chunk" =>
       /\ IsChunked(message) /\ Len(content) < message.bytes
       /\ left = EndOf(message, Len(content) + 1) - Len(content)
       /\ Consumed + 1 = Place(message, Len(content) + 1)
  /\ stage = "crlf" =>
       /\ IsChunked(message) /\ Len(content) \in message.ends
       /\ Consumed = Place(message, Len(content))
  /\ stage = "lastCrlf" =>
       /\ IsChunked(message) /\ Len(content) = message.bytes
       /\ Consumed + 2 = Len(Sent)

\* A success has read every token of the message.
Complete ==
  /\ Len(Sent) <= Len(wire) /\ message.bytes <= Len(content)
  /\ IsChunked(message) => Consumed = Len(Sent)

ContentInv ==
  Framed(message) => ContentSoFar /\ AtRead /\ (outcome = "ok" => Complete)

\* The content is right before the first byte ...
LEMMA ContentInit == Init => ContentInv
<1> SUFFICES ASSUME Init PROVE ContentInv
  OBVIOUS
<1>1. TypeInv
  BY TypeInit
<1>2. content = <<>> /\ buffer = <<>> /\ taken = 0 /\ stage = "statusLine" /\ outcome = "none"
  BY DEF Init
<1>3. Len(content) = 0 /\ Len(buffer) = 0
  BY <1>2, EmptySeq
<1>4. Consumed = 0
  <2>1. Len(buffer) = 0 /\ taken = 0
    BY <1>2, <1>3
  <2> QED BY <2>1 DEF Consumed
<1>5. ContentSoFar
  BY <1>1, <1>3, SentType DEF ContentSoFar
<1> QED BY <1>2, <1>3, <1>4, <1>5 DEF ContentInv, AtRead

\* The content so far.
LEMMA LengthTypes ==
  ASSUME TypeInv
  PROVE  content \in Seq(Tokens) /\ Len(content) \in Nat /\ message \in Messages
<1>1. content \in Seq(Tokens) /\ message \in Messages
  BY DEF TypeInv
<1> QED BY <1>1

\* More of the wire arrives.
LEMMA ReceiveKeeps ==
  ASSUME TypeInv, Receive
  PROVE  Consumed' = Consumed /\ taken <= taken' /\ UNCHANGED <<input, stage, left, content, outcome>>
<1>1. PICK n \in taken + 1 .. Len(wire) : buffer' = buffer \o SubSeq(wire, taken + 1, n) /\ taken' = n
  BY DEF Receive
<1>2. buffer \in Seq(Tokens) /\ wire \in Seq(Tokens) /\ Consumed + Len(buffer) = taken
      /\ Len(buffer) \in Nat /\ taken \in Nat /\ Len(wire) \in Nat /\ Consumed \in Nat
  BY BufferType
<1>3. n \in Nat /\ taken + 1 <= n /\ n <= Len(wire)
  BY <1>1, <1>2
<1>4. PICK t \in Seq(Tokens) : t = SubSeq(wire, taken + 1, n) /\ Len(t) = n - taken
  <2>1. \A i \in taken + 1 .. n : wire[i] \in Tokens
    BY <1>2, <1>3, ElementOfSeq
  <2>2. /\ SubSeq(wire, taken + 1, n) \in Seq(Tokens)
        /\ Len(SubSeq(wire, taken + 1, n)) = IF taken + 1 <= n THEN n - (taken + 1) + 1 ELSE 0
    BY <1>2, <1>3, <2>1, SubSeqProperties
  <2>3. (IF taken + 1 <= n THEN n - (taken + 1) + 1 ELSE 0) = n - taken
    BY <1>2, <1>3
  <2> QED BY <2>2, <2>3
<1>5. Len(buffer') = Len(buffer) + Len(t)
  <2>1. buffer' = buffer \o t
    BY <1>1, <1>4
  <2> QED BY <1>2, <2>1, Join
<1>6. Consumed' = Consumed
  <2>1. taken' = n /\ Len(buffer') = Len(buffer) + (n - taken)
    BY <1>1, <1>4, <1>5
  <2> QED BY <1>2, <1>3, <2>1 DEF Consumed
<1> QED BY <1>1, <1>2, <1>3, <1>6 DEF Receive

\* A step that the content and the position do not notice.
LEMMA ContentStays ==
  ASSUME TypeInv, ContentInv, UNCHANGED <<input, stage, left, content, outcome>>,
         Consumed' = Consumed, taken' \in Nat, taken <= taken'
  PROVE  ContentInv'
<1>1. message' = message /\ wire' = wire
  BY DEF input
<1>2. Sent' = Sent
  BY <1>1 DEF Sent
<1> SUFFICES ASSUME Framed(message)
             PROVE  (ContentSoFar /\ AtRead /\ (outcome = "ok" => Complete))'
  BY <1>1 DEF ContentInv
<1>3. ContentSoFar /\ AtRead /\ (outcome = "ok" => Complete)
  BY DEF ContentInv
<1>4. ContentSoFar'
  <2>1. Len(content) \in Nat /\ HeadEnd(message) \in Nat /\ taken \in Nat
    BY LengthTypes, SentType, BufferType
  <2> QED BY <1>1, <1>2, <1>3, <2>1 DEF ContentSoFar
<1>5. AtRead'
  BY <1>1, <1>2, <1>3 DEF AtRead
<1>6. (outcome = "ok" => Complete)'
  BY <1>1, <1>2, <1>3 DEF Complete
<1> QED BY <1>4, <1>5, <1>6

\* A handler that gives up may have consumed something before.
LEMMA GivesUp ==
  ASSUME TypeInv, ContentInv, UNCHANGED <<input, taken, content>>,
         stage' = "done", outcome' # "ok", Consumed' \in Nat, Consumed <= Consumed'
  PROVE  ContentInv'
<1>1. message' = message /\ wire' = wire
  BY DEF input
<1> SUFFICES ASSUME Framed(message)
             PROVE  (ContentSoFar /\ AtRead /\ (outcome = "ok" => Complete))'
  BY <1>1 DEF ContentInv
<1>2. ContentSoFar
  BY DEF ContentInv
<1>3. ContentSoFar'
  BY <1>1, <1>2 DEF ContentSoFar
<1> QED BY <1>3 DEF AtRead

\* The status line is three tokens long.
LEMMA StatusLineStep ==
  ASSUME TypeInv, ContentInv, ReadStatusLineCallback
  PROVE  ContentInv'
<1>1. UNCHANGED <<input, taken, left, content>> /\ message' = message /\ wire' = wire
      /\ stage = "statusLine" /\ Ready /\ outcome = "none"
  BY DEF ReadStatusLineCallback, TypeInv, input
<1> SUFFICES ASSUME Framed(message)
             PROVE  ContentInv'
  BY <1>1 DEF ContentInv
<1>2. Consumed = 0 /\ Len(content) = 0 /\ ContentSoFar
  BY <1>1 DEF ContentInv, AtRead
<1>3. CASE ~ValidStatusLine
  <2>1. stage' = "done" /\ outcome' = "error" /\ buffer' = buffer
    BY <1>3 DEF ReadStatusLineCallback, Finish
  <2>2. Consumed' = Consumed /\ Consumed \in Nat
    BY <1>1, <2>1, BufferType DEF Consumed
  <2> QED BY <1>1, <2>1, <2>2, GivesUp
<1>4. CASE ValidStatusLine
  <2>1. buffer' = Rest(buffer, 3) /\ stage' = "headers" /\ outcome' = "none"
    BY <1>1, <1>4 DEF ReadStatusLineCallback, Continue
  <2>2. 3 <= Len(buffer)
    <3>1. PICK i \in 1 .. Len(buffer) : IsPrefix(CRLF, SubSeq(buffer, i, Len(buffer)))
      BY <1>1 DEF Ready, Delimiter
    <3>2. PICK r : r = SubSeq(buffer, i, Len(buffer))
      OBVIOUS
    <3>3. r \in Seq(Tokens) /\ Len(r) = Len(buffer) - i + 1 /\ r[1] = buffer[i]
      BY <3>2, BufferType
    <3>4. 2 <= Len(r) /\ r[1] = CR
      BY <3>1, <3>2, <3>3, StartsWithCrlf
    <3>5. buffer[1] # CR
      <4>1. Len(buffer) \in Nat /\ 1 \in 1 .. Len(buffer) /\ 1 \in 1 .. Len(wire) /\ 1 <= HeadEnd(message)
        <5>1. HeadEnd(message) >= 5
          BY HeadLayout DEF TypeInv, HeadEnd
        <5>2. Len(buffer) \in Nat /\ Len(wire) \in Nat /\ HeadEnd(message) \in Nat /\ Len(buffer) <= Len(wire)
          BY <1>2, BufferType, SentType
        <5> QED BY <5>1, <5>2
      <4>2. wire[1] = HeadOf(message)[1]
        BY <4>1, HeadArrives
      <4>3. buffer[1] = wire[1]
        <5>1. \A k \in 1 .. Len(buffer) : buffer[k] = wire[Consumed + k]
          BY DEF TypeInv, Suffix
        <5> QED BY <1>2, <4>1, <5>1
      <4> QED BY <4>2, <4>3, HeadLayout DEF TypeInv
    <3>6. i # 1
      BY <3>3, <3>4, <3>5
    <3> QED BY <3>3, <3>4, <3>6, BufferType
  <2>3. Suffix(Rest(buffer, 3), 3)
    <3>1. Suffix(Rest(buffer, 3), IF 3 <= Len(buffer) THEN Consumed + 3 ELSE taken)
      BY RestSuffix DEF TypeInv
    <3> QED BY <1>2, <2>2, <3>1
  <2>4. Consumed' = 3
    BY <1>1, <2>1, <2>3, NewSuffix
  <2>5. content' = content
    BY <1>1
  <2>6. ContentSoFar'
    BY <1>1, <1>2, <2>5, SentType DEF ContentSoFar
  <2> QED BY <1>2, <2>1, <2>4, <2>5, <2>6 DEF ContentInv, AtRead
<1> QED BY <1>3, <1>4

\* Everything in buffer_ becomes content, where the length is announced.
LEMMA AllRead ==
  ASSUME TypeInv, ContentInv, Framed(message), ~IsChunked(message), NEW rest,
         Suffix(rest, HeadEnd(message) + Len(content)), Consumed <= HeadEnd(message) + Len(content),
         content' = content \o rest, buffer' = <<>>, UNCHANGED <<input, taken, left>>,
         \/ stage' = "content" /\ outcome' = "none"
         \/ stage' = "done" /\ outcome' # "ok"
         \/ stage' = "done" /\ message.bytes <= Len(content')
  PROVE  ContentInv'
<1> DEFINE E == HeadEnd(message)
           L == Len(content)
<1>1. message' = message /\ wire' = wire /\ taken' = taken
  BY DEF input
<1>2. /\ rest \in Seq(Tokens) /\ content \in Seq(Tokens) /\ Len(rest) \in Nat /\ L \in Nat /\ E \in Nat
      /\ taken \in Nat /\ E + L + Len(rest) = taken /\ taken <= Len(wire) /\ Len(wire) \in Nat
      /\ \A i \in 1 .. Len(rest) : rest[i] = wire[E + L + i]
  <2>1. rest \in Seq(Tokens) /\ E + L + Len(rest) = taken /\ \A i \in 1 .. Len(rest) : rest[i] = wire[E + L + i]
    BY DEF Suffix
  <2>2. Len(rest) \in Nat
    BY <2>1
  <2> QED BY <2>1, <2>2, BufferType, LengthTypes, SentType
<1>3. PICK c \in Seq(Tokens) : c = content \o rest /\ Joined(c, content, rest)
  BY <1>2, TokenJoin
<1>4. ContentSoFar
  BY DEF ContentInv
<1>5. \A i \in 1 .. L : content[i] = wire[E + i]
  BY <1>4 DEF ContentSoFar
<1> HIDE DEF E, L
<1>6. Len(c) = L + Len(rest) /\ Len(c) \in Nat
  BY <1>2, <1>3 DEF Joined, L
<1>7. ASSUME NEW i \in 1 .. Len(c)
      PROVE  c[i] = wire[E + i]
  <2>1. CASE i <= L
    <3>1. i \in 1 .. L
      BY <1>2, <2>1
    <3>2. c[i] = content[i]
      BY <1>3, <3>1 DEF Joined, L
    <3> QED BY <1>5, <3>1, <3>2
  <2>2. CASE ~(i <= L)
    <3>1. i - L \in 1 .. Len(rest) /\ L + (i - L) = i /\ E + L + (i - L) = E + i
      BY <1>2, <1>6, <2>2
    <3>2. c[L + (i - L)] = rest[i - L]
      BY <1>3, <3>1 DEF Joined, L
    <3>3. rest[i - L] = wire[E + L + (i - L)]
      BY <1>2, <3>1
    <3> QED BY <3>1, <3>2, <3>3
  <2> QED BY <2>1, <2>2
<1>8. E + Len(c) = taken
  BY <1>2, <1>6
<1>9. c = content'
  BY <1>3
<1>10. ContentSoFar'
  BY <1>1, <1>7, <1>8, <1>9, <1>2, SMTT(60) DEF ContentSoFar, E
<1>11. Consumed' = taken
  <2>1. <<>> \in Seq(Tokens) /\ Len(<<>>) = 0
    BY EmptySeq
  <2>2. Suffix(buffer', taken)
    BY <1>2, <2>1 DEF Suffix
  <2> QED BY <2>2, NewSuffix
<1>12. CASE stage' = "content" /\ outcome' = "none"
  <2>1. AtRead'
    BY <1>1, <1>8, <1>9, <1>11, <1>12 DEF AtRead, E
  <2> QED BY <1>10, <1>12, <2>1 DEF ContentInv
<1>13. CASE stage' = "done" /\ outcome' # "ok"
  BY <1>10, <1>13 DEF ContentInv, AtRead
<1>14. CASE stage' = "done" /\ message.bytes <= Len(content')
  <2>1. Len(Sent) = E + message.bytes
    BY LengthLayout DEF Sent, E, TypeInv
  <2>2. message.bytes \in Nat
    BY SentType
  <2>3. Len(Sent) <= Len(wire)
    BY <1>2, <1>6, <1>8, <1>9, <1>14, <2>1, <2>2
  <2>4. Complete'
    BY <1>1, <1>14, <2>3 DEF Complete, Sent
  <2> QED BY <1>10, <1>14, <2>4 DEF ContentInv, AtRead
<1> QED BY <1>12, <1>13, <1>14

\* ... after the headers ...
LEMMA HeadersStep ==
  ASSUME TypeInv, ContentInv, ReadHeadersCallback
  PROVE  ContentInv'
<1>1. /\ UNCHANGED <<input, taken, left>> /\ message' = message /\ wire' = wire /\ taken' = taken
      /\ stage = "headers" /\ Ready /\ outcome = "none"
  BY DEF ReadHeadersCallback, TypeInv, input
<1> SUFFICES ASSUME Framed(message)
             PROVE  ContentInv'
  BY <1>1 DEF ContentInv
<1>2. Consumed = 3 /\ Len(content) = 0
  BY <1>1 DEF ContentInv, AtRead
<1> DEFINE K == ToSet(message.headers)
<1>3. /\ "noValue" \notin K
      /\ \/ IsChunked(message) /\ K \subseteq {"chunked", "other"}
         \/ "length" \in K /\ K \subseteq {"length", "other"}
      /\ IsChunked(message) <=> "chunked" \in K
  BY DEF Framed, IsChunked
<1>4. /\ Suffix(AfterHeaders, HeadEnd(message))
      /\ \A k \in HeaderKinds : k \in HeadersRead <=> k \in K
  BY <1>1, <1>2, <1>3, HeadRead
<1> HIDE DEF K
<1>5. /\ "length" \in HeadersRead <=> "length" \in K
      /\ "badLength" \in HeadersRead <=> "badLength" \in K
      /\ "chunked" \in HeadersRead <=> "chunked" \in K
  BY <1>4 DEF HeaderKinds
<1>6. HeadEnd(message) \in Nat /\ 3 <= HeadEnd(message)
  <2>1. HeadEnd(message) >= 5
    BY HeadLayout DEF TypeInv, HeadEnd
  <2> QED BY <2>1, SentType
<1>7. CASE IsChunked(message)
  <2>1. "chunked" \in HeadersRead /\ "length" \notin HeadersRead /\ "badLength" \notin HeadersRead
    BY <1>3, <1>5, <1>7
  <2>2. buffer' = AfterHeaders /\ content' = content /\ stage' = "chunkSize" /\ outcome' = "none"
    BY <1>1, <2>1 DEF ReadHeadersCallback, Continue
  <2>3. Consumed' = HeadEnd(message)
    BY <1>1, <1>4, <2>2, NewSuffix
  <2>4. Start(message, 0) = HeadEnd(message) /\ Between(message, 0) /\ message.bytes \in Nat
    BY <1>7, StartLayout, SentType DEF TypeInv, Between
  <2>5. ContentSoFar'
    BY <1>1, <1>2, <1>7, <2>2, <2>4 DEF ContentSoFar
  <2> QED BY <1>1, <1>2, <1>7, <2>2, <2>3, <2>4, <2>5 DEF ContentInv, AtRead
<1>8. CASE ~IsChunked(message)
  <2>1. "length" \in HeadersRead /\ "badLength" \notin HeadersRead
    BY <1>3, <1>5, <1>8
  <2>2. /\ content' = content \o AfterHeaders /\ buffer' = <<>>
        /\ \/ stage' = "content" /\ outcome' = "none"
           \/ stage' = "done" /\ ~(Len(content') < message.bytes)
    BY <1>1, <2>1 DEF ReadHeadersCallback, ReadContentFromBuffer, Continue, Finish
  <2>3. ~(Len(content') < message.bytes) => message.bytes <= Len(content')
    <3>1. AfterHeaders \in Seq(Tokens)
      BY <1>4 DEF Suffix
    <3>2. content' \in Seq(Tokens)
      BY <2>2, <3>1, LengthTypes, Join
    <3>3. Len(content') \in Nat
      BY <3>2
    <3> QED BY <3>3, SentType
  <2>4. HeadEnd(message) + Len(content) = HeadEnd(message)
    BY <1>2, <1>6
  <2>5. Suffix(AfterHeaders, HeadEnd(message) + Len(content)) /\ Consumed <= HeadEnd(message) + Len(content)
    BY <1>2, <1>4, <1>6, <2>4
  <2> HIDE DEF AfterHeaders
  <2> QED BY <1>1, <1>8, <2>2, <2>3, <2>5, AllRead
<1> QED BY <1>7, <1>8

\* ... after content of a known length ...
LEMMA ContentStep ==
  ASSUME TypeInv, ContentInv, ReadContentCallback
  PROVE  ContentInv'
<1>1. /\ UNCHANGED <<input, taken, left>> /\ message' = message /\ stage = "content"
      /\ content' = content \o buffer /\ buffer' = <<>> /\ stage' = "done"
      /\ outcome' = IF Len(content') < message.bytes THEN "error" ELSE "ok"
  BY DEF ReadContentCallback, ReadContentFromBuffer, Finish, input
<1> SUFFICES ASSUME Framed(message)
             PROVE  ContentInv'
  BY <1>1 DEF ContentInv
<1>2. ~IsChunked(message) /\ Consumed = HeadEnd(message) + Len(content)
  BY <1>1 DEF ContentInv, AtRead
<1>3. ~(Len(content') < message.bytes) => message.bytes <= Len(content')
  <2>1. content' \in Seq(Tokens)
    BY <1>1, LengthTypes, BufferType, Join
  <2>2. Len(content') \in Nat
    BY <2>1
  <2> QED BY <2>2, SentType
<1>4. outcome' # "ok" \/ message.bytes <= Len(content')
  BY <1>1, <1>3
<1>5. Suffix(buffer, HeadEnd(message) + Len(content)) /\ Consumed <= HeadEnd(message) + Len(content)
  BY <1>2, BufferType DEF TypeInv
<1> QED BY <1>1, <1>2, <1>4, <1>5, AllRead

\* A part of a chunk, or all of it, becomes content.
LEMMA ChunkRead ==
  ASSUME TypeInv, ContentInv, Framed(message), IsChunked(message), outcome = "none",
         NEW rest, NEW c, Suffix(rest, c), Consumed <= c,
         Len(content) < message.bytes, c + 1 = Place(message, Len(content) + 1),
         ReadChunkFromBuffer(rest, EndOf(message, Len(content) + 1) - Len(content)),
         UNCHANGED <<input, taken>>
  PROVE  ContentInv'
<1> DEFINE j == Len(content)
           e == EndOf(message, j + 1)
           b == message.bytes
<1>1. message' = message /\ wire' = wire /\ taken' = taken /\ message \in Messages
  BY DEF input, TypeInv
<1>2. /\ j \in Nat /\ b \in Nat /\ b <= MaxBody /\ j + 1 \in 1 .. b
      /\ rest \in Seq(Tokens) /\ c \in Nat /\ content \in Seq(Tokens) /\ Len(rest) \in Nat
  <2>1. j \in Nat /\ b \in Nat /\ b <= MaxBody /\ content \in Seq(Tokens)
    BY LengthTypes, SentType
  <2>2. rest \in Seq(Tokens) /\ c \in Nat
    BY DEF Suffix
  <2>3. Len(rest) \in Nat
    BY <2>2
  <2> QED BY <2>1, <2>2, <2>3
<1>3. /\ e \in Nat /\ j + 1 <= e /\ e <= b /\ e \in message.ends
      /\ \A x \in message.ends : x >= j + 1 => e <= x
  BY <1>1, <1>2, EndOfType
<1>4. e - j \in 1 .. MaxBody
  BY <1>2, <1>3, WireAssumption
<1>5. PICK n \in 0 .. e - j :
           /\ n <= Len(rest) /\ (n < e - j => n = Len(rest))
           /\ left' = (e - j) - n /\ content' = content \o SubSeq(rest, 1, n)
           /\ content' \in Seq(Tokens) /\ Len(content') = j + n
           /\ stage' = (IF n < e - j THEN "chunk" ELSE "crlf") /\ outcome' = outcome
           /\ Suffix(buffer, Consumed)' /\ Consumed' = c + n
  <2>1. PICK size \in 1 .. MaxBody : size = e - j
    BY <1>4
  <2>2. ReadChunkFromBuffer(rest, size)
    BY <2>1
  <2>3. \E n \in 0 .. size :
           /\ n <= Len(rest) /\ (n < size => n = Len(rest))
           /\ left' = size - n /\ content' = content \o SubSeq(rest, 1, n)
           /\ content' \in Seq(Tokens) /\ Len(content') = Len(content) + n
           /\ stage' = (IF n < size THEN "chunk" ELSE "crlf") /\ outcome' = outcome
           /\ Suffix(buffer, Consumed)' /\ Consumed' = c + n
    BY <2>2, ChunkTaken, ZenonT(60)
  <2> QED BY <2>1, <2>3, Zenon
<1>6. n \in Nat /\ n <= e - j
  BY <1>2, <1>3, <1>5
<1>7. PICK t \in Seq(Tokens) : t = SubSeq(rest, 1, n) /\ Len(t) = n /\ \A i \in 1 .. n : t[i] = rest[i]
  <2>1. /\ SubSeq(rest, 1, n) \in Seq(Tokens) /\ Len(SubSeq(rest, 1, n)) = n
        /\ \A i \in 1 .. n : SubSeq(rest, 1, n)[i] = rest[i]
    BY <1>2, <1>5, <1>6, FirstOf
  <2> QED BY <2>1, Zenon
<1>8. PICK u \in Seq(Tokens) : u = content \o t /\ Joined(u, content, t)
  BY <1>2, TokenJoin
<1>9. u = content'
  BY <1>5, <1>7, <1>8
<1>10. \A i \in j + 1 .. e : Place(message, i) = Place(message, j + 1) + (i - (j + 1))
  BY <1>1, <1>2, ChunkRun
<1> HIDE DEF e, j, b
<1>11. ASSUME NEW i \in 1 .. e - j
       PROVE  /\ Place(message, j + i) = c + i
              /\ c + i <= Len(Sent) /\ Sent[c + i] = Data(j + i)
  <2>1. j + i \in j + 1 .. e /\ j + i \in 1 .. b
    BY <1>2, <1>3
  <2>2. Place(message, j + i) = (c + 1) + ((j + i) - (j + 1))
    BY <1>10, <2>1 DEF j
  <2>3. Place(message, j + i) = c + i
    BY <1>2, <2>1, <2>2
  <2>4. Place(message, j + i) <= Len(Sent) /\ Sent[Place(message, j + i)] = Data(j + i)
    <3>1. PICK x \in 1 .. message.bytes : x = j + i
      BY <2>1 DEF b
    <3>2. Place(message, x) <= Len(Encode(message)) /\ Encode(message)[Place(message, x)] = Data(x)
      BY <1>1, <3>1, ByteLayout
    <3> QED BY <3>1, <3>2 DEF Sent
  <2> QED BY <2>3, <2>4
<1>12. \A i \in 1 .. Len(u) : u[i] = Data(i)
  <2>1. c + Len(rest) = taken /\ taken <= Len(wire) /\ taken \in Nat /\ Len(wire) \in Nat
    BY BufferType DEF Suffix
  <2>2. \A i \in 1 .. j : content[i] = Data(i)
    BY DEF ContentInv, ContentSoFar, j
  <2>3. ASSUME NEW i \in 1 .. Len(u)
        PROVE  u[i] = Data(i)
    <3>1. CASE i <= j
      <4>1. i \in 1 .. j
        BY <1>2, <3>1
      <4>2. u[i] = content[i]
        BY <1>8, <4>1 DEF Joined, j
      <4> QED BY <2>2, <4>1, <4>2
    <3>2. CASE ~(i <= j)
      <4>1. PICK k \in 1 .. n : i = j + k
        <5>1. i \in 1 .. j + n
          BY <1>5, <1>9
        <5>2. i - j \in 1 .. n /\ i = j + (i - j)
          BY <1>2, <1>6, <3>2, <5>1
        <5> QED BY <5>2
      <4>2. k \in 1 .. Len(t) /\ k \in 1 .. Len(rest) /\ k \in 1 .. e - j /\ c + k \in 1 .. Len(wire)
        <5>1. n <= Len(rest)
          BY <1>5
        <5>2. k \in 1 .. Len(t) /\ k \in 1 .. Len(rest) /\ k \in 1 .. e - j
          BY <1>2, <1>3, <1>6, <1>7, <4>1, <5>1
        <5> QED BY <1>2, <2>1, <5>2
      <4>3. u[j + k] = t[k] /\ t[k] = rest[k]
        BY <1>7, <1>8, <4>1, <4>2 DEF Joined, j
      <4>4. rest[k] = wire[c + k]
        BY <4>2 DEF Suffix
      <4>5. wire[c + k] = Sent[c + k]
        BY <1>11, <4>2, AsSent
      <4>6. Sent[c + k] = Data(j + k)
        BY <1>11, <4>2
      <4> QED BY <4>1, <4>3, <4>4, <4>5, <4>6
    <3> QED BY <3>1, <3>2
  <2> QED BY <2>3
<1>13. ContentSoFar'
  <2>1. Len(content') <= message'.bytes
    <3>1. Len(content') = j + n
      BY <1>5
    <3>2. j + n <= b
      BY <1>2, <1>3, <1>6
    <3> QED BY <1>1, <3>1, <3>2 DEF b
  <2> QED BY <1>1, <1>9, <1>12, <2>1 DEF ContentSoFar
<1>14. CASE n < e - j
  <2>1. stage' = "chunk" /\ outcome' = "none"
    BY <1>5, <1>14
  <2>2. j + n < b /\ n + 1 \in 1 .. e - j
    BY <1>2, <1>3, <1>6, <1>14
  <2>3. EndOf(message, (j + n) + 1) = e
    <3> DEFINE f == EndOf(message, (j + n) + 1)
    <3>1. (j + n) + 1 \in 1 .. b
      BY <1>2, <1>3, <1>6, <1>14, SMTT(30)
    <3>2. /\ f \in Nat /\ (j + n) + 1 <= f /\ f \in message.ends
          /\ \A x \in message.ends : x >= (j + n) + 1 => f <= x
      BY <1>1, <3>1, EndOfType DEF b
    <3> HIDE DEF f
    <3>3. f <= e
      BY <1>2, <1>3, <1>6, <1>14, <3>2, SMTT(60)
    <3>4. e <= f
      BY <1>2, <1>3, <1>6, <3>2, SMTT(60)
    <3>5. f = e
      <4>1. f \in Int /\ e \in Int
        BY <1>3, <3>2
      <4> QED BY <3>3, <3>4, <4>1
    <3> QED BY <3>5, Zenon DEF f
  <2>4. Place(message, (j + n) + 1) = (c + n) + 1
    <3>1. Place(message, j + (n + 1)) = c + (n + 1)
      BY <1>11, <2>2
    <3>2. j + (n + 1) = (j + n) + 1 /\ c + (n + 1) = (c + n) + 1
      BY <1>2, <1>6
    <3> QED BY <3>1, <3>2
  <2>5. left' = e - (j + n)
    BY <1>2, <1>3, <1>5, <1>6
  <2>6. AtRead'
    BY <1>1, <1>5, <2>1, <2>2, <2>3, <2>4, <2>5 DEF AtRead, b
  <2> QED BY <1>13, <2>1, <2>6 DEF ContentInv
<1>15. CASE ~(n < e - j)
  <2>1. stage' = "crlf" /\ outcome' = "none"
    BY <1>5, <1>15
  <2>2. n = e - j /\ j + n = e /\ n \in 1 .. e - j
    BY <1>2, <1>3, <1>6, <1>15
  <2>3. Place(message, j + n) = c + n
    BY <1>11, <2>2
  <2>4. AtRead'
    BY <1>1, <1>3, <1>5, <2>1, <2>2, <2>3 DEF AtRead
  <2> QED BY <1>13, <2>1, <2>4 DEF ContentInv
<1> QED BY <1>14, <1>15

\* ... after the size of a chunk ...
LEMMA ChunkSizeStep ==
  ASSUME TypeInv, ContentInv, ReadChunkSizeCallback
  PROVE  ContentInv'
<1> DEFINE j == Len(content)
           rest == Rest(buffer, DigitsAt + 2)
<1>1. /\ UNCHANGED <<input, taken>> /\ message' = message /\ wire' = wire /\ taken' = taken
      /\ stage = "chunkSize" /\ outcome = "none" /\ message \in Messages
  BY DEF ReadChunkSizeCallback, TypeInv, input
<1> SUFFICES ASSUME Framed(message)
             PROVE  ContentInv'
  BY <1>1 DEF ContentInv
<1>2. IsChunked(message) /\ Between(message, j) /\ Consumed = Start(message, j) /\ ContentSoFar
  BY <1>1 DEF ContentInv, AtRead
<1>3. CASE ~ValidSize
  <2>1. buffer' = buffer /\ content' = content /\ stage' = "done" /\ outcome' = "error"
    BY <1>3 DEF ReadChunkSizeCallback, Finish
  <2>2. Consumed' = Consumed /\ Consumed \in Nat
    BY <1>1, <2>1, BufferType DEF Consumed
  <2> QED BY <1>1, <2>1, <2>2, GivesUp
<1>4. CASE ValidSize
  <2>1. DigitsAt = 1 /\ buffer[1].n = SizeAfter(message, j)
    BY <1>2, <1>4, SizeRead
  <2>2. Suffix(rest, Consumed + 3)
    <3>1. Suffix(rest, Consumed + DigitsAt + 2)
      BY <1>4, SizeTaken
    <3>2. Consumed + 1 + 2 = Consumed + 3
      BY BufferType
    <3> QED BY <2>1, <3>1, <3>2
  <2>3. /\ Start(message, j) \in Nat
        /\ SizeAfter(message, j) \in 0 .. MaxBody /\ (SizeAfter(message, j) = 0 <=> j = message.bytes)
        /\ j # message.bytes => Place(message, j + 1) = Start(message, j) + 4
        /\ j = message.bytes => Start(message, j) + 5 = Len(Sent)
    BY <1>1, <1>2, SizeLayout DEF Sent
  <2>4. j \in Nat /\ message.bytes \in Nat /\ j <= message.bytes
    BY <1>2, SentType DEF Between
  <2> HIDE DEF j
  <2>5. CASE j = message.bytes
    <3>1. buffer[DigitsAt].n = 0
      BY <2>1, <2>3, <2>5
    <3>2. buffer' = rest /\ content' = content /\ stage' = "lastCrlf" /\ outcome' = "none"
      BY <1>1, <1>4, <3>1 DEF ReadChunkSizeCallback, Continue
    <3>3. Consumed' = Consumed + 3
      <4> HIDE DEF rest
      <4> QED BY <1>1, <2>2, <3>2, NewSuffix
    <3>4. Consumed' + 2 = Len(Sent)
      BY <1>2, <2>3, <2>5, <3>3
    <3>5. ContentSoFar'
      BY <1>1, <1>2, <3>2 DEF ContentSoFar
    <3>6. Len(content') = message'.bytes
      BY <1>1, <2>5, <3>2 DEF j
    <3>7. AtRead'
      BY <1>1, <1>2, <3>2, <3>4, <3>6 DEF AtRead, Sent
    <3> QED BY <3>2, <3>5, <3>7 DEF ContentInv
  <2>6. CASE j # message.bytes
    <3>1. j < message.bytes /\ SizeAfter(message, j) = EndOf(message, j + 1) - j
          /\ SizeAfter(message, j) > 0
      BY <2>3, <2>4, <2>6 DEF SizeAfter
    <3>2. buffer[DigitsAt].n = SizeAfter(message, j) /\ ~(SizeAfter(message, j) = 0)
      BY <2>1, <2>3, <2>6
    <3>3. ReadChunkFromBuffer(rest, buffer[DigitsAt].n)
      BY <1>4, <3>2 DEF ReadChunkSizeCallback
    <3>4. ReadChunkFromBuffer(rest, EndOf(message, j + 1) - j)
      <4> HIDE DEF rest
      <4> QED BY <3>1, <3>2, <3>3
    <3>5. Place(message, j + 1) = (Consumed + 3) + 1
      BY <1>2, <2>3, <2>6
    <3>6. Consumed <= Consumed + 3
      BY BufferType
    <3> HIDE DEF rest
    <3> QED BY <1>1, <1>2, <2>2, <3>1, <3>4, <3>5, <3>6, ChunkRead DEF j
  <2> QED BY <2>5, <2>6
<1> QED BY <1>3, <1>4

\* ... after the bytes of a chunk ...
LEMMA ChunkedContentStep ==
  ASSUME TypeInv, ContentInv, ReadChunkedContentCallback
  PROVE  ContentInv'
<1>1. /\ UNCHANGED <<input, taken>> /\ message' = message /\ taken' = taken
      /\ stage = "chunk" /\ outcome = "none"
  BY DEF ReadChunkedContentCallback, TypeInv, input
<1> SUFFICES ASSUME Framed(message)
             PROVE  ContentInv'
  BY <1>1 DEF ContentInv
<1>2. /\ IsChunked(message) /\ Len(content) < message.bytes
      /\ left = EndOf(message, Len(content) + 1) - Len(content)
      /\ Consumed + 1 = Place(message, Len(content) + 1)
  BY <1>1 DEF ContentInv, AtRead
<1>3. CASE buffer = <<>>
  <2>1. buffer' = buffer /\ content' = content /\ stage' = "done" /\ outcome' = "error"
    BY <1>3 DEF ReadChunkedContentCallback, Finish
  <2>2. Consumed' = Consumed /\ Consumed \in Nat
    BY <1>1, <2>1, BufferType DEF Consumed
  <2> QED BY <1>1, <2>1, <2>2, GivesUp
<1>4. CASE buffer # <<>>
  <2>1. ReadChunkFromBuffer(buffer, EndOf(message, Len(content) + 1) - Len(content))
    BY <1>2, <1>4 DEF ReadChunkedContentCallback
  <2>2. Suffix(buffer, Consumed) /\ Consumed <= Consumed
    BY BufferType DEF TypeInv
  <2> QED BY <1>1, <1>2, <2>1, <2>2, ChunkRead
<1> QED BY <1>3, <1>4

\* The CRLF after a chunk, or at the end.
LEMMA EmptyCrlfStep ==
  ASSUME TypeInv, ContentInv, ReadEmptyCrlfCallback
  PROVE  ContentInv'
<1>1. /\ UNCHANGED <<input, taken, left, content>>
      /\ message' = message /\ wire' = wire /\ taken' = taken /\ content' = content
      /\ buffer' = Rest(buffer, 2) /\ stage \in {"crlf", "lastCrlf"}
      /\ outcome = "none" /\ message \in Messages
  BY DEF ReadEmptyCrlfCallback, TypeInv, input
<1> SUFFICES ASSUME Framed(message)
             PROVE  ContentInv'
  BY <1>1 DEF ContentInv
<1> DEFINE j == Len(content)
<1>2. IsChunked(message) /\ ContentSoFar
  BY <1>1 DEF ContentInv, AtRead
<1>3. Suffix(Rest(buffer, 2), IF 2 <= Len(buffer) THEN Consumed + 2 ELSE taken)
  BY RestSuffix DEF TypeInv
<1>4. CASE ~IsPrefix(CRLF, buffer)
  <2>1. stage' = "done" /\ outcome' = "error"
    BY <1>4 DEF ReadEmptyCrlfCallback, Finish
  <2>2. Consumed' = IF 2 <= Len(buffer) THEN Consumed + 2 ELSE taken
    BY <1>1, <1>3, NewSuffix
  <2>3. Consumed' \in Nat /\ Consumed <= Consumed'
    BY <2>2, BufferType
  <2> QED BY <1>1, <2>1, <2>3, GivesUp
<1>5. CASE IsPrefix(CRLF, buffer)
  <2>1. 2 <= Len(buffer) /\ buffer[1] = CR /\ buffer[2] = LF
    BY <1>5, BufferType, StartsWithCrlf
  <2>2. Consumed' = Consumed + 2
    BY <1>1, <1>3, <2>1, NewSuffix
  <2>3. wire[Consumed + 2] = LF /\ Consumed + 2 <= Len(wire) /\ Consumed \in Nat
    <3>1. \A i \in 1 .. Len(buffer) : buffer[i] = wire[Consumed + i]
      BY DEF TypeInv, Suffix
    <3> QED BY <2>1, <3>1, BufferType
  <2>4. ContentSoFar'
    BY <1>1, <1>2 DEF ContentSoFar
  <2>5. CASE stage = "crlf"
    <3>1. j \in message.ends /\ Consumed = Place(message, j) /\ j \in 1 .. message.bytes
      BY <1>1, <2>5, MessageTypes DEF ContentInv, AtRead
    <3>2. Start(message, j) = Place(message, j) + 2
      BY <1>1, <1>2, <3>1, ByteLayout
    <3>3. Between(message, j)
      BY <3>1, SentType DEF Between
    <3>4. stage' = "chunkSize" /\ outcome' = "none"
      BY <1>1, <1>5, <2>5 DEF ReadEmptyCrlfCallback, Continue
    <3>5. AtRead'
      BY <1>1, <1>2, <2>2, <3>1, <3>2, <3>3, <3>4 DEF AtRead
    <3> QED BY <2>4, <3>4, <3>5 DEF ContentInv
  <2>6. CASE stage = "lastCrlf"
    <3>1. j = message.bytes /\ Consumed + 2 = Len(Sent)
      BY <2>6 DEF ContentInv, AtRead
    <3>2. stage' = "done" /\ outcome' = "ok"
      BY <1>5, <2>6 DEF ReadEmptyCrlfCallback, Finish
    <3>3. Complete'
      <4>1. message.bytes <= Len(content)
        BY <3>1, SentType
      <4> QED BY <1>1, <2>2, <2>3, <3>1, <4>1 DEF Complete, Sent
    <3> QED BY <2>4, <3>2, <3>3 DEF ContentInv, AtRead
  <2> QED BY <1>1, <2>5, <2>6
<1> QED BY <1>4, <1>5

\* ... and so after every step.
LEMMA ContentPreserved ==
  ASSUME TypeInv, ContentInv, [Next]_vars
  PROVE  ContentInv'
<1>1. ASSUME UNCHANGED vars
      PROVE  ContentInv'
  BY <1>1, BufferType, ContentStays DEF vars, Consumed
<1>2. ASSUME Receive
      PROVE  ContentInv'
  <2>1. taken' \in Nat
    BY <1>2, BufferType DEF Receive
  <2> QED BY <1>2, <2>1, ReceiveKeeps, ContentStays
<1>3. ASSUME ReadHeadEof \/ Interrupt
      PROVE  ContentInv'
  <2>1. /\ UNCHANGED <<input, taken, content>> /\ buffer' = buffer /\ taken' = taken
        /\ stage' = "done" /\ outcome' = "error"
    BY <1>3 DEF ReadHeadEof, Interrupt, Finish
  <2>2. Consumed' = Consumed /\ Consumed \in Nat
    BY <2>1, BufferType DEF Consumed
  <2> QED BY <2>1, <2>2, GivesUp
<1> QED
  BY <1>1, <1>2, <1>3, StatusLineStep, HeadersStep, ContentStep, ChunkSizeStep,
     ChunkedContentStep, EmptyCrlfStep
  DEF Next, Read

-------------------------------------------------------------------------------
(* What the content is worth *)

\* The content is right in every state.
LEMMA ContentInvariant == Spec => [](TypeInv /\ ContentInv)
<1>1. Init => TypeInv /\ ContentInv
  BY TypeInit, ContentInit
<1>2. TypeInv /\ ContentInv /\ [Next]_vars => (TypeInv /\ ContentInv)'
  BY TypeStep, ContentPreserved
<1> QED BY <1>1, <1>2, PTL DEF Spec

\* A response that is cut short, at whatever byte, is never reported as a success,
\* whatever its length, its headers and its chunks, and whatever the segments it
\* arrives in (http_stream.h:168-349).
THEOREM NothingLost == Spec => []Integrity
<1>1. TypeInv /\ ContentInv => Integrity
  <2> SUFFICES ASSUME TypeInv, ContentInv, outcome = "ok", Framed(message)
               PROVE  IsPrefix(Encode(message), wire)
    BY DEF Integrity
  <2>1. Len(Sent) <= Len(wire)
    BY DEF ContentInv, Complete
  <2>2. Sent \in Seq(Tokens) /\ wire \in Seq(Tokens)
    BY SentType, BufferType
  <2>3. \A k \in 1 .. Len(Sent) : Sent[k] = wire[k]
    BY <2>1, AsSent, SentType, BufferType
  <2>4. IsPrefix(Sent, wire)
    BY <2>1, <2>2, <2>3, TokenPrefix, Zenon
  <2> QED BY <2>4 DEF Sent
<1> QED BY <1>1, ContentInvariant, PTL

\* The body of a message is its bytes in their order.
LEMMA BodyType ==
  ASSUME NEW m \in Messages
  PROVE  /\ Body(m) \in Seq(Tokens) /\ Len(Body(m)) = m.bytes /\ m.bytes \in Nat
         /\ \A i \in 1 .. m.bytes : Body(m)[i] = Data(i)
<1>1. m.bytes \in Nat
  BY MessageTypes, WireAssumption
<1>2. PICK b \in Seq(Tokens) : b = Body(m)
  BY EncodeType
<1>3. Len(b) = m.bytes /\ \A i \in 1 .. m.bytes : b[i] = Data(i)
  BY <1>1, <1>2 DEF Body
<1> QED BY <1>1, <1>2, <1>3

\* After a success the body is in the content: all of it and nothing else, if it is
\* chunked, and in front of what came after it, if its length is announced
\* (http_stream.h:211-214, 239-246).
THEOREM BodyArrives == Spec => []SuccessHasBody
<1>1. TypeInv /\ ContentInv => SuccessHasBody
  <2> SUFFICES ASSUME TypeInv, ContentInv, Framed(message), outcome = "ok"
               PROVE  IF IsChunked(message) THEN content = Body(message)
                      ELSE IsPrefix(Body(message), content)
    BY DEF SuccessHasBody
  <2>1. ContentSoFar /\ Len(Sent) <= Len(wire) /\ message.bytes <= Len(content)
        /\ (IsChunked(message) => Consumed = Len(Sent))
    BY DEF ContentInv, Complete
  <2>2. PICK b \in Seq(Tokens) : /\ b = Body(message) /\ Len(b) = message.bytes /\ message.bytes \in Nat
                                 /\ \A i \in 1 .. message.bytes : b[i] = Data(i)
    BY BodyType DEF TypeInv
  <2>3. content \in Seq(Tokens) /\ Len(content) \in Nat
    BY LengthTypes
  <2>4. CASE IsChunked(message)
    <3>1. Len(content) <= message.bytes /\ \A i \in 1 .. Len(content) : content[i] = Data(i)
      BY <2>1, <2>4 DEF ContentSoFar
    <3>2. Len(content) = Len(b)
      BY <2>1, <2>2, <2>3, <3>1
    <3>3. \A i \in 1 .. Len(content) : content[i] = b[i]
      BY <2>2, <3>1, <3>2
    <3>4. content = b
      BY <2>3, <3>2, <3>3, SeqEqual
    <3> QED BY <2>2, <2>4, <3>4
  <2>5. CASE ~IsChunked(message)
    <3>1. \A i \in 1 .. Len(content) : content[i] = wire[HeadEnd(message) + i]
      BY <2>1, <2>5 DEF ContentSoFar
    <3>2. Len(Sent) = HeadEnd(message) + message.bytes
          /\ \A i \in 1 .. message.bytes : Sent[HeadEnd(message) + i] = Data(i)
      BY <2>5, LengthLayout DEF Sent, TypeInv
    <3>3. ASSUME NEW i \in 1 .. message.bytes
          PROVE  b[i] = content[i]
      <4>1. PICK p \in Nat : p = HeadEnd(message) + i /\ 1 <= p
        BY <2>2, SentType
      <4>2. i \in 1 .. Len(content) /\ p <= Len(Sent) /\ p \in 1 .. Len(wire)
        <5>1. /\ Len(Sent) \in Nat /\ Len(wire) \in Nat /\ HeadEnd(message) \in Nat
              /\ message.bytes \in Nat
          BY <2>2, SentType, BufferType
        <5> QED BY <2>1, <2>3, <3>2, <4>1, <5>1
      <4>3. wire[p] = Sent[p]
        BY <4>2, AsSent
      <4> QED BY <2>2, <3>1, <3>2, <4>1, <4>2, <4>3
    <3>4. Len(b) <= Len(content) /\ \A i \in 1 .. Len(b) : b[i] = content[i]
      BY <2>1, <2>2, <3>3
    <3>5. IsPrefix(b, content)
      BY <2>2, <2>3, <3>4, TokenPrefix, Zenon
    <3> QED BY <2>2, <2>5, <3>5
  <2> QED BY <2>4, <2>5
<1> QED BY <1>1, ContentInvariant, PTL

\* Of a message that arrives as it was sent, at any time and however the request
\* ends, the content is the beginning of the body: the handlers neither skip,
\* repeat nor reorder a byte, nor take framing for content.
THEOREM ContentIsBody == Spec => []ExactContent
<1>1. TypeInv /\ ContentInv => ExactContent
  <2> SUFFICES ASSUME TypeInv, ContentInv, Framed(message), IsPrefix(wire, Encode(message))
               PROVE  IsPrefix(content, Body(message))
    BY DEF ExactContent
  <2>1. ContentSoFar
    BY DEF ContentInv
  <2>2. PICK b \in Seq(Tokens) : /\ b = Body(message) /\ Len(b) = message.bytes /\ message.bytes \in Nat
                                 /\ \A i \in 1 .. message.bytes : b[i] = Data(i)
    BY BodyType DEF TypeInv
  <2>3. content \in Seq(Tokens) /\ Len(content) \in Nat
    BY LengthTypes
  <2>4. /\ wire \in Seq(Tokens) /\ Sent \in Seq(Tokens) /\ Len(wire) \in Nat /\ Len(Sent) \in Nat
        /\ Consumed \in Nat /\ Consumed <= Len(wire) /\ taken \in Nat /\ taken <= Len(wire)
        /\ HeadEnd(message) \in Nat
    BY BufferType, SentType
  <2>5. Len(wire) <= Len(Sent) /\ \A k \in 1 .. Len(wire) : wire[k] = Sent[k]
    <3>1. IsPrefix(wire, Sent)
      BY DEF Sent
    <3> QED BY <2>4, <3>1, TokenPrefix, Zenon
  <2>6. Len(content) <= Len(b) /\ \A i \in 1 .. Len(content) : content[i] = b[i]
    <3>1. CASE IsChunked(message)
      <4>1. Len(content) <= message.bytes /\ \A i \in 1 .. Len(content) : content[i] = Data(i)
        BY <2>1, <3>1 DEF ContentSoFar
      <4> QED BY <2>2, <2>3, <4>1
    <3>2. CASE ~IsChunked(message)
      <4>1. Len(content) > 0 => HeadEnd(message) + Len(content) <= taken
        BY <2>1, <3>2 DEF ContentSoFar
      <4>2. \A i \in 1 .. Len(content) : content[i] = wire[HeadEnd(message) + i]
        BY <2>1, <3>2 DEF ContentSoFar
      <4>3. Len(Sent) = HeadEnd(message) + message.bytes
            /\ \A i \in 1 .. message.bytes : Sent[HeadEnd(message) + i] = Data(i)
        BY <3>2, LengthLayout DEF Sent, TypeInv
      <4>4. Len(content) <= message.bytes
        BY <2>2, <2>3, <2>4, <2>5, <4>1, <4>3
      <4>5. ASSUME NEW i \in 1 .. Len(content)
            PROVE  content[i] = b[i]
        <5>1. i \in 1 .. message.bytes /\ HeadEnd(message) + i \in 1 .. Len(wire)
          BY <2>2, <2>3, <2>4, <4>1, <4>4
        <5>2. wire[HeadEnd(message) + i] = Sent[HeadEnd(message) + i]
          BY <2>5, <5>1
        <5> QED BY <2>2, <4>2, <4>3, <5>1, <5>2
      <4> QED BY <2>2, <4>4, <4>5
    <3> QED BY <3>1, <3>2
  <2>7. IsPrefix(content, b)
    BY <2>2, <2>3, <2>6, TokenPrefix, Zenon
  <2> QED BY <2>2, <2>7
<1> QED BY <1>1, ContentInvariant, PTL
===============================================================================
