------------------------- MODULE ResponseReaderProofs -------------------------
(***************************************************************************)
(* The reader of a response (ResponseReader), for bodies of any length and *)
(* any lists of header lines: whatever bytes arrive, and in whatever       *)
(* segments, its handlers follow ReadChain.                                *)
(***************************************************************************)
EXTENDS ResponseReader, DataLemmas

-------------------------------------------------------------------------------
(* The tokens of a message *)

Kinds == HeaderKinds \cup {"status", "badStatus", "cr", "lf", "size", "data"}
Tokens == {t \in [kind : Kinds, n : Nat] : t.kind = "size" => t.n <= MaxBody}

\* A token and its parts.
LEMMA TokenType ==
  ASSUME NEW k \in Kinds, NEW n \in Nat, k = "size" => n <= MaxBody
  PROVE  Token(k, n) \in Tokens /\ Token(k, n).kind = k /\ Token(k, n).n = n
<1> DEFINE t == Token(k, n)
<1>1. t \in [kind : Kinds, n : Nat] /\ t.kind = k /\ t.n = n
  BY DEF Token
<1> HIDE DEF t
<1>2. t \in Tokens
  BY <1>1 DEF Tokens
<1> QED BY <1>1, <1>2 DEF t

\* The tokens that a message is made of.
LEMMA TokenTypes ==
  /\ CR \in Tokens /\ LF \in Tokens /\ CR # LF
  /\ CRLF \in Seq(Tokens) /\ Len(CRLF) = 2 /\ CRLF[1] = CR /\ CRLF[2] = LF
  /\ \A i \in Nat : Data(i) \in Tokens
  /\ \A n \in 0 .. MaxBody : Digits(n) \in Tokens
<1>1. CR \in Tokens /\ LF \in Tokens
  BY TokenType DEF CR, LF, Kinds
<1>2. CR.kind = "cr" /\ LF.kind = "lf"
  BY TokenType DEF CR, LF, Kinds
<1>3. \A i \in Nat : Data(i) \in Tokens
  BY TokenType DEF Data, Kinds
<1>4. \A n \in 0 .. MaxBody : Digits(n) \in Tokens
  <2>1. \A n \in 0 .. MaxBody : n \in Nat /\ n <= MaxBody
    BY WireAssumption
  <2> QED BY <2>1, TokenType DEF Digits, Kinds
<1>5. CR # LF
  BY <1>2
<1> HIDE DEF CRLF
<1> QED BY <1>1, <1>3, <1>4, <1>5 DEF CRLF

\* One text begins another, token by token.
LEMMA TokenPrefix ==
  \A s, t \in Seq(Tokens) :
    IsPrefix(s, t) <=> Len(s) <= Len(t) /\ \A k \in 1 .. Len(s) : s[k] = t[k]
BY PrefixOf

\* A text that begins with the end of a line.
LEMMA StartsWithCrlf ==
  ASSUME NEW r \in Seq(Tokens), IsPrefix(CRLF, r)
  PROVE  2 <= Len(r) /\ r[1] = CR /\ r[2] = LF
<1>1. CRLF \in Seq(Tokens)
  BY TokenTypes
<1>2. Len(CRLF) <= Len(r) /\ \A k \in 1 .. Len(CRLF) : CRLF[k] = r[k]
  BY <1>1, TokenPrefix, Zenon
<1> QED BY <1>2, TokenTypes

\* The end of the headers.
LEMMA DoubleCrlf ==
  /\ CRLF \o CRLF \in Seq(Tokens) /\ Len(CRLF \o CRLF) = 4
  /\ (CRLF \o CRLF)[1] = CR /\ (CRLF \o CRLF)[2] = LF
  /\ (CRLF \o CRLF)[3] = CR /\ (CRLF \o CRLF)[4] = LF
<1>1. PICK c \in Seq(Tokens) : c = CRLF
  BY TokenTypes
<1>2. Len(c) = 2 /\ c[1] = CR /\ c[2] = LF
  BY <1>1, TokenTypes
<1> DEFINE d == c \o c
<1>3. /\ d \in Seq(Tokens) /\ Len(d) = Len(c) + Len(c)
      /\ \A i \in 1 .. Len(c) : d[i] = c[i]
      /\ \A i \in 1 .. Len(c) : d[Len(c) + i] = c[i]
  BY Join
<1> HIDE DEF d
<1>4. d \in Seq(Tokens) /\ Len(d) = 4 /\ d[1] = CR /\ d[2] = LF /\ d[3] = CR /\ d[4] = LF
  <2>1. d[2 + 1] = c[1] /\ d[2 + 2] = c[2]
    BY <1>2, <1>3
  <2> QED BY <1>2, <1>3, <2>1
<1> QED BY <1>1, <1>4, Zenon DEF d

\* The parts of a message.
LEMMA MessageTypes ==
  ASSUME NEW m \in Messages
  PROVE  /\ m.headers \in Seq(HeaderKinds) /\ m.bytes \in 0 .. MaxBody
         /\ m.ends \subseteq 1 .. m.bytes
         /\ m.bytes # 0 => m.bytes \in m.ends
BY WireAssumption DEF Messages

\* The chunk that the byte after position i belongs to ends where the message says.
LEMMA NextEnd ==
  ASSUME NEW m \in Messages, NEW i \in 1 .. m.bytes
  PROVE  LET e == Min({x \in m.ends : x >= i})
         IN e \in m.ends /\ i <= e /\ \A x \in m.ends : x >= i => e <= x
<1> DEFINE D == {x \in m.ends : x >= i}
<1>1. D \in SUBSET Nat
  BY MessageTypes
<1>2. m.bytes \in D
  BY MessageTypes
<1>3. Min(D) \in D /\ \A x \in D : Min(D) <= x
  <2> HIDE DEF D
  <2> QED BY <1>1, <1>2, MinIsLeast
<1> QED BY <1>3

HeaderPart(m, i) == <<Token(m.headers[i], 0)>> \o CRLF
HeaderParts(m) == [i \in 1 .. Len(m.headers) |-> HeaderPart(m, i)]
ChunkParts(m) == [i \in 1 .. m.bytes |-> Chunked(m, i)]

\* The header lines of a message, one by one.
LEMMA HeaderPartTypes ==
  ASSUME NEW m \in Messages
  PROVE  /\ Len(m.headers) \in Nat
         /\ HeaderParts(m) \in Seq(Seq(Tokens)) /\ Len(HeaderParts(m)) = Len(m.headers)
<1>1. Len(m.headers) \in Nat
  BY MessageTypes
<1>2. ASSUME NEW i \in 1 .. Len(m.headers)
      PROVE  HeaderPart(m, i) \in Seq(Tokens)
  <2>1. m.headers[i] \in HeaderKinds
    BY MessageTypes, ElementOfSeq
  <2>2. Token(m.headers[i], 0) \in Tokens
    BY <2>1, TokenType DEF HeaderKinds, Kinds
  <2> QED BY <2>2, TokenTypes DEF HeaderPart
<1>3. HeaderParts(m) \in [1 .. Len(m.headers) -> Seq(Tokens)]
  BY <1>2 DEF HeaderParts
<1> QED BY <1>1, <1>3, FunctionIsSeq

\* The chunks of a message, byte by byte.
LEMMA ChunkPartTypes ==
  ASSUME NEW m \in Messages
  PROVE  ChunkParts(m) \in Seq(Seq(Tokens)) /\ Len(ChunkParts(m)) = m.bytes
<1>1. m.bytes \in Nat
  BY MessageTypes, WireAssumption
<1>2. ASSUME NEW i \in 1 .. m.bytes
      PROVE  Chunked(m, i) \in Seq(Tokens)
  <2> DEFINE e == Min({x \in m.ends : x >= i})
  <2>1. e - i + 1 \in 0 .. MaxBody
    <3>1. e \in 1 .. m.bytes /\ i <= e
      BY NextEnd, MessageTypes
    <3> HIDE DEF e
    <3> QED BY <3>1, <1>1, MessageTypes, WireAssumption
  <2>2. Digits(e - i + 1) \in Tokens /\ Data(i) \in Tokens
    BY <2>1, <1>1, TokenTypes
  <2> HIDE DEF e
  <2>3. <<Digits(e - i + 1)>> \o CRLF \in Seq(Tokens) /\ <<Data(i)>> \in Seq(Tokens)
    BY <2>2, TokenTypes
  <2> QED BY <2>3, TokenTypes DEF Chunked, e
<1>3. ChunkParts(m) \in [1 .. m.bytes -> Seq(Tokens)]
  BY <1>2 DEF ChunkParts
<1> QED BY <1>1, <1>3, FunctionIsSeq

\* A message is written in tokens.
LEMMA EncodeType ==
  ASSUME NEW m \in Messages
  PROVE  HeadOf(m) \in Seq(Tokens) /\ Body(m) \in Seq(Tokens) /\ Encode(m) \in Seq(Tokens)
<1>1. Token(IF m.status THEN "status" ELSE "badStatus", 0) \in Tokens
  BY TokenType DEF Kinds
<1>2. FlattenSeq(HeaderParts(m)) \in Seq(Tokens) /\ FlattenSeq(ChunkParts(m)) \in Seq(Tokens)
  BY HeaderPartTypes, ChunkPartTypes, FlattenType
<1>3. HeadOf(m) \in Seq(Tokens)
  BY <1>1, <1>2, TokenTypes DEF HeadOf, HeaderParts, HeaderPart
<1>4. Body(m) \in Seq(Tokens)
  <2>1. m.bytes \in Nat
    BY MessageTypes, WireAssumption
  <2>2. Body(m) \in [1 .. m.bytes -> Tokens]
    BY <2>1, TokenTypes DEF Body
  <2> QED BY <2>1, <2>2, FunctionIsSeq
<1>5. Digits(0) \in Tokens
  BY TokenTypes, WireAssumption
<1>6. FlattenSeq(ChunkParts(m)) \o <<Digits(0)>> \o CRLF \o CRLF \in Seq(Tokens)
  BY <1>2, <1>5, TokenTypes
<1> QED BY <1>3, <1>4, <1>6 DEF Encode, ChunkParts

\* So is what arrives of it.
LEMMA WireType ==
  ASSUME NEW m \in Messages, NEW w \in Wires(m)
  PROVE  w \in Seq(Tokens)
<1> DEFINE c == Encode(m)
<1>1. c \in Seq(Tokens) /\ Data(MaxBody + 1) \in Tokens
  BY EncodeType, TokenTypes, WireAssumption
<1>2. ASSUME NEW k \in 0 .. Len(c)
      PROVE  SubSeq(c, 1, k) \in Seq(Tokens)
  BY <1>1
<1>3. Append(c, Data(MaxBody + 1)) \in Seq(Tokens)
  BY <1>1
<1>4. w = Append(c, Data(MaxBody + 1)) \/ \E k \in 0 .. Len(c) : w = SubSeq(c, 1, k)
  BY DEF Wires, Prefixes
<1> HIDE DEF c
<1> QED BY <1>2, <1>3, <1>4

-------------------------------------------------------------------------------
(* Types *)

\* How far into the wire the handlers have come: what follows is in buffer_.
Consumed == taken - Len(buffer)

\* b is what has been read of the wire after position c.
Suffix(b, c) ==
  /\ b \in Seq(Tokens)
  /\ c \in Nat /\ c + Len(b) = taken
  /\ \A i \in 1 .. Len(b) : b[i] = wire[c + i]

TypeInv ==
  /\ message \in Messages /\ wire \in Wires(message) /\ closes \in BOOLEAN
  /\ taken \in 0 .. Len(wire)
  /\ Suffix(buffer, Consumed)
  /\ content \in Seq(Tokens) /\ Len(content) <= Consumed
  /\ stage \in Stages /\ left \in 0 .. MaxBody
  /\ outcome \in {"none", "ok", "error", "exception"}
  /\ stage # "done" => outcome = "none"
  /\ stage = "chunk" => left > 0

\* What follows the first n.
LEMMA RestType ==
  ASSUME NEW T, NEW s \in Seq(T), NEW n \in Nat
  PROVE  /\ Rest(s, n) \in Seq(T)
         /\ Len(Rest(s, n)) = IF n < Len(s) THEN Len(s) - n ELSE 0
         /\ \A i \in 1 .. Len(Rest(s, n)) : Rest(s, n)[i] = s[n + i]
BY TailOf DEF Rest

\* What follows in the buffer follows in the input.
LEMMA RestSuffix ==
  ASSUME NEW b, NEW c, Suffix(b, c), NEW n \in Nat
  PROVE  Suffix(Rest(b, n), IF n <= Len(b) THEN c + n ELSE taken)
<1> DEFINE r == Rest(b, n)
           d == IF n <= Len(b) THEN c + n ELSE taken
<1>1. b \in Seq(Tokens) /\ Len(b) \in Nat /\ c \in Nat /\ taken \in Nat /\ taken = c + Len(b)
  <2>1. b \in Seq(Tokens) /\ c \in Nat /\ taken = c + Len(b)
    BY DEF Suffix
  <2>2. Len(b) \in Nat
    BY <2>1
  <2> QED BY <2>1, <2>2
<1>2. /\ r \in Seq(Tokens)
      /\ Len(r) = IF n < Len(b) THEN Len(b) - n ELSE 0
      /\ \A i \in 1 .. Len(r) : r[i] = b[n + i]
  BY <1>1, RestType
<1> HIDE DEF r
<1>3. d \in Nat /\ d + Len(r) = taken
  BY <1>1, <1>2
<1>4. ASSUME NEW i \in 1 .. Len(r)
      PROVE  r[i] = wire[d + i]
  <2>1. n + i \in 1 .. Len(b) /\ c + (n + i) = d + i
    BY <1>1, <1>2, SMTT(30)
  <2>2. b[n + i] = wire[c + (n + i)]
    BY <2>1 DEF Suffix
  <2> QED BY <1>2, <2>1, <2>2
<1> HIDE DEF d
<1> QED BY <1>2, <1>3, <1>4 DEF Suffix, r, d

\* The buffer holds what has been taken and not yet consumed.
LEMMA BufferType ==
  ASSUME TypeInv
  PROVE  /\ buffer \in Seq(Tokens) /\ Len(buffer) \in Nat
         /\ wire \in Seq(Tokens) /\ Len(wire) \in Nat
         /\ taken \in Nat /\ taken <= Len(wire)
         /\ Consumed \in Nat /\ Consumed + Len(buffer) = taken
<1>1. wire \in Seq(Tokens)
  BY WireType DEF TypeInv
<1>2. buffer \in Seq(Tokens) /\ Consumed \in Nat /\ Consumed + Len(buffer) = taken
  BY DEF TypeInv, Suffix
<1>3. Len(wire) \in Nat /\ Len(buffer) \in Nat
  BY <1>1, <1>2
<1> QED BY <1>1, <1>2, <1>3 DEF TypeInv

\* What a handler leaves in buffer_ is a suffix again.
LEMMA NewSuffix ==
  ASSUME NEW c, Suffix(buffer', c), UNCHANGED <<input, taken>>
  PROVE  Suffix(buffer, Consumed)' /\ Consumed' = c
<1>1. wire' = wire /\ taken' = taken
  BY DEF input
<1>2. buffer' \in Seq(Tokens) /\ c \in Nat /\ c + Len(buffer') = taken
  BY DEF Suffix
<1>3. Len(buffer') \in Nat
  BY <1>2
<1>4. Consumed' = c
  BY <1>1, <1>2, <1>3 DEF Consumed
<1> QED BY <1>1, <1>4 DEF Suffix

StopsAt(i) ==
  \/ buffer[i].kind = "noValue"
  \/ buffer[i] = CR /\ (i = 1 \/ buffer[i - 1] = LF)

\* When the headers have arrived, the header loop stops within buffer_, and at the
\* first line at which it can.
LEMMA HeaderStops ==
  ASSUME TypeInv, Ready, stage = "headers"
  PROVE  /\ HeaderStop \in 1 .. Len(buffer) - 1 /\ StopsAt(HeaderStop)
         /\ \A i \in 1 .. HeaderStop - 1 : ~StopsAt(i)
<1> DEFINE D == {i \in 1 .. Len(buffer) : StopsAt(i)}
<1>1. PICK i \in 1 .. Len(buffer) : IsPrefix(CRLF \o CRLF, SubSeq(buffer, i, Len(buffer)))
  BY DEF Ready, Delimiter
<1>2. i + 3 \in 1 .. Len(buffer) /\ buffer[i + 1] = LF /\ buffer[i + 2] = CR
  <2> DEFINE s == SubSeq(buffer, i, Len(buffer))
             d == CRLF \o CRLF
  <2>1. /\ s \in Seq(Tokens) /\ Len(s) = Len(buffer) - i + 1
        /\ \A k \in 1 .. Len(s) : s[k] = buffer[i + k - 1]
    BY BufferType, SMTT(30)
  <2>2. d \in Seq(Tokens) /\ Len(d) = 4
    BY DoubleCrlf
  <2>3. d[2] = LF /\ d[3] = CR
    BY DoubleCrlf
  <2> HIDE DEF d, s
  <2>4. 4 <= Len(s) /\ \A k \in 1 .. 4 : d[k] = s[k]
    <3>1. IsPrefix(d, s)
      BY <1>1 DEF d, s
    <3>2. Len(d) <= Len(s) /\ \A k \in 1 .. Len(d) : d[k] = s[k]
      BY <2>1, <2>2, <3>1, TokenPrefix, Zenon
    <3> QED BY <2>2, <3>2
  <2>6. s[2] = buffer[i + 1] /\ s[3] = buffer[i + 2] /\ i + 3 <= Len(buffer)
    <3>1. s[2] = buffer[i + 2 - 1] /\ s[3] = buffer[i + 3 - 1]
      BY <2>1, <2>4
    <3>2. Len(buffer) \in Nat
      BY BufferType
    <3> QED BY <2>1, <2>4, <3>1, <3>2
  <2> QED BY <2>3, <2>4, <2>6
<1>3. i + 2 \in D /\ i + 2 <= Len(buffer) - 1
  <2>1. (i + 2) - 1 = i + 1 /\ i + 2 # 1 /\ i + 2 \in 1 .. Len(buffer) /\ i + 2 <= Len(buffer) - 1
    BY <1>2, BufferType
  <2>2. StopsAt(i + 2)
    BY <1>2, <2>1 DEF StopsAt
  <2> QED BY <2>1, <2>2
<1>4. Min(D) \in D /\ \A k \in D : Min(D) <= k
  <2>1. D \in SUBSET Nat
    OBVIOUS
  <2> HIDE DEF D
  <2> QED BY <1>3, <2>1, MinIsLeast
<1>5. HeaderStop = Min(D)
  BY DEF HeaderStop, StopsAt
<1> HIDE DEF HeaderStop, StopsAt
<1>6. Len(buffer) \in Nat
  BY BufferType
<1>7. ASSUME NEW k \in 1 .. Min(D) - 1, StopsAt(k)
      PROVE  FALSE
  <2>1. k \in D
    BY <1>4, <1>6, <1>7
  <2>2. Min(D) <= k
    BY <1>4, <2>1
  <2>3. Min(D) \in Nat
    BY <1>4
  <2> QED BY <2>2, <2>3
<1>8. Min(D) \in 1 .. Len(buffer) - 1
  <2>1. Min(D) \in 1 .. Len(buffer) /\ Min(D) <= i + 2
    BY <1>3, <1>4
  <2> QED BY <1>3, <1>6, <2>1
<1> QED BY <1>4, <1>5, <1>7, <1>8

\* ReadHeaders consumes from the front of the buffer.
LEMMA HeadersTaken ==
  ASSUME TypeInv, Ready, stage = "headers"
  PROVE  \E c \in Nat : Suffix(AfterHeaders, c) /\ Consumed <= c
<1> DEFINE n == HeaderStop + IF buffer[HeaderStop] = CR THEN 1 ELSE 2
<1>1. n \in Nat
  <2>1. HeaderStop \in Nat
    BY HeaderStops, BufferType
  <2> HIDE DEF HeaderStop
  <2> QED BY <2>1
<1>2. Suffix(Rest(buffer, n), IF n <= Len(buffer) THEN Consumed + n ELSE taken)
  <2> HIDE DEF n
  <2> QED BY <1>1, RestSuffix DEF TypeInv
<1>3. AfterHeaders = Rest(buffer, n)
  BY DEF AfterHeaders
<1> HIDE DEF n
<1> DEFINE c == IF n <= Len(buffer) THEN Consumed + n ELSE taken
<1>4. c \in Nat /\ Consumed <= c
  BY <1>1, BufferType
<1> QED BY <1>2, <1>3, <1>4

\* The digits of a chunk size are the first that is no end of a line.
LEMMA DigitsFirst ==
  ASSUME TypeInv
  PROVE  /\ DigitsAt \in 0 .. Len(buffer)
         /\ DigitsAt # 0 => buffer[DigitsAt] \notin {CR, LF}
         /\ \A i \in 1 .. Len(buffer) : i < DigitsAt \/ DigitsAt = 0 => buffer[i] \in {CR, LF}
<1> DEFINE D == {i \in 1 .. Len(buffer) : buffer[i] \notin {CR, LF}}
<1>1. DigitsAt = IF D # {} THEN Min(D) ELSE 0
  BY DEF DigitsAt, SelectInSeq
<1>2. Len(buffer) \in Nat
  BY BufferType
<1>3. CASE D # {}
  <2>1. Min(D) \in D /\ \A k \in D : Min(D) <= k
    <3>1. D \in SUBSET Nat
      OBVIOUS
    <3> HIDE DEF D
    <3> QED BY <1>3, <3>1, MinIsLeast
  <2>2. DigitsAt = Min(D)
    BY <1>1, <1>3
  <2> HIDE DEF DigitsAt
  <2>3. DigitsAt \in 1 .. Len(buffer) /\ buffer[DigitsAt] \notin {CR, LF}
    BY <2>1, <2>2
  <2>4. ASSUME NEW i \in 1 .. Len(buffer), i < DigitsAt
        PROVE  buffer[i] \in {CR, LF}
    <3>1. ~(DigitsAt <= i)
      BY <2>3, <2>4, <1>2
    <3> QED BY <2>1, <2>2, <3>1
  <2> QED BY <2>3, <2>4, <1>2
<1>4. CASE D = {}
  <2>1. DigitsAt = 0
    BY <1>1, <1>4
  <2> HIDE DEF DigitsAt
  <2>2. \A i \in 1 .. Len(buffer) : buffer[i] \in {CR, LF}
    BY <1>4
  <2> QED BY <2>1, <2>2, <1>2
<1> QED BY <1>3, <1>4

\* A valid chunk size: where it is, and where its line ends.
LEMMA SizeTaken ==
  ASSUME TypeInv, ValidSize
  PROVE  /\ DigitsAt \in 1 .. Len(buffer) /\ buffer[DigitsAt].n \in 0 .. MaxBody
         /\ DigitsAt + 2 <= Len(buffer)
         /\ buffer[DigitsAt + 1] = CR /\ buffer[DigitsAt + 2] = LF
         /\ Suffix(Rest(buffer, DigitsAt + 2), Consumed + DigitsAt + 2)
<1>1. DigitsAt \in 1 .. Len(buffer) /\ buffer[DigitsAt].kind = "size"
  BY DigitsFirst, BufferType DEF ValidSize
<1> HIDE DEF DigitsAt
<1>2. buffer[DigitsAt].n \in 0 .. MaxBody
  <2>1. buffer[DigitsAt] \in Tokens
    BY <1>1, BufferType, ElementOfSeq
  <2> QED BY <1>1, <2>1, WireAssumption DEF Tokens
<1> DEFINE r == Rest(buffer, DigitsAt)
<1>3. /\ r \in Seq(Tokens) /\ Len(r) \in Nat
      /\ Len(r) = IF DigitsAt < Len(buffer) THEN Len(buffer) - DigitsAt ELSE 0
      /\ \A i \in 1 .. Len(r) : r[i] = buffer[DigitsAt + i]
  <2>1. DigitsAt \in Nat /\ buffer \in Seq(Tokens)
    BY <1>1, BufferType
  <2> QED BY <2>1, RestType
<1>4. IsPrefix(CRLF, r)
  BY DEF ValidSize
<1> HIDE DEF r
<1>5. 2 <= Len(r) /\ r[1] = CR /\ r[2] = LF
  BY <1>3, <1>4, StartsWithCrlf
<1>6. DigitsAt + 2 <= Len(buffer) /\ buffer[DigitsAt + 1] = CR /\ buffer[DigitsAt + 2] = LF
  <2>1. r[1] = buffer[DigitsAt + 1] /\ r[2] = buffer[DigitsAt + 2]
    BY <1>3, <1>5
  <2> QED BY <2>1, <1>1, <1>3, <1>5, BufferType
<1>7. Suffix(Rest(buffer, DigitsAt + 2), Consumed + DigitsAt + 2)
  <2>1. DigitsAt + 2 \in Nat
    BY <1>1
  <2>2. Suffix(Rest(buffer, DigitsAt + 2), IF DigitsAt + 2 <= Len(buffer) THEN Consumed + (DigitsAt + 2) ELSE taken)
    BY <2>1, RestSuffix DEF TypeInv
  <2>3. (IF DigitsAt + 2 <= Len(buffer) THEN Consumed + (DigitsAt + 2) ELSE taken) = Consumed + DigitsAt + 2
    BY <1>6, <1>1, BufferType
  <2> QED BY <2>2, <2>3
<1> QED BY <1>1, <1>2, <1>6, <1>7

\* A part of a chunk moves from buffer_ to the content.
LEMMA ChunkTaken ==
  ASSUME TypeInv, NEW rest, NEW c, Suffix(rest, c), Consumed <= c, NEW size \in 1 .. MaxBody,
         ReadChunkFromBuffer(rest, size), UNCHANGED <<input, taken>>
  PROVE  \E n \in 0 .. size :
           /\ n <= Len(rest) /\ (n < size => n = Len(rest))
           /\ left' = size - n /\ content' = content \o SubSeq(rest, 1, n)
           /\ content' \in Seq(Tokens) /\ Len(content') = Len(content) + n
           /\ stage' = (IF n < size THEN "chunk" ELSE "crlf") /\ outcome' = outcome
           /\ Suffix(buffer, Consumed)' /\ Consumed' = c + n
<1> DEFINE n == ChunkBytes(rest, size)
<1>1. rest \in Seq(Tokens) /\ Len(rest) \in Nat /\ c \in Nat /\ size \in Nat
  <2>1. rest \in Seq(Tokens) /\ c \in Nat
    BY DEF Suffix
  <2>2. Len(rest) \in Nat
    BY <2>1
  <2> QED BY <2>1, <2>2, WireAssumption
<1>2. n \in 0 .. size /\ n <= Len(rest) /\ (n < size => n = Len(rest))
  <2> DEFINE D == {Len(rest), size}
  <2>1. Min(D) \in D /\ \A k \in D : Min(D) <= k
    <3>1. D \in SUBSET Nat /\ D # {}
      BY <1>1
    <3> HIDE DEF D
    <3> QED BY <3>1, MinIsLeast
  <2>2. n = Min(D)
    BY DEF ChunkBytes
  <2> HIDE DEF n
  <2> QED BY <1>1, <2>1, <2>2
<1>3. /\ content' = content \o SubSeq(rest, 1, n) /\ buffer' = Rest(rest, n)
      /\ left' = size - n /\ stage' = (IF n < size THEN "chunk" ELSE "crlf") /\ outcome' = outcome
  BY DEF ReadChunkFromBuffer, Continue
<1> HIDE DEF n
<1>4. Suffix(buffer', c + n)
  BY <1>1, <1>2, <1>3, RestSuffix
<1>5. Suffix(buffer, Consumed)' /\ Consumed' = c + n
  BY <1>4, NewSuffix
<1>6. content' \in Seq(Tokens) /\ Len(content') = Len(content) + n
  <2>1. PICK t \in Seq(Tokens) : t = SubSeq(rest, 1, n) /\ Len(t) = n
    <3>1. n \in Nat
      BY <1>1, <1>2
    <3> QED BY <1>1, <1>2, <3>1, FirstOf
  <2>2. content \in Seq(Tokens)
    BY DEF TypeInv
  <2>3. content \o t \in Seq(Tokens) /\ Len(content \o t) = Len(content) + Len(t)
    BY <2>2, Join
  <2> QED BY <1>3, <2>1, <2>3
<1> QED BY <1>2, <1>3, <1>5, <1>6

\* A chunk is consumed from the front of the buffer.
LEMMA ChunkTypes ==
  ASSUME TypeInv, NEW rest, NEW c, Suffix(rest, c), Consumed <= c, NEW size \in 1 .. MaxBody,
         stage # "done", ReadChunkFromBuffer(rest, size), UNCHANGED <<input, taken>>
  PROVE  TypeInv'
<1>1. PICK n \in 0 .. size :
           /\ n <= Len(rest) /\ (n < size => n = Len(rest))
           /\ left' = size - n
           /\ content' \in Seq(Tokens) /\ Len(content') = Len(content) + n
           /\ stage' = (IF n < size THEN "chunk" ELSE "crlf") /\ outcome' = outcome
           /\ Suffix(buffer, Consumed)' /\ Consumed' = c + n
  BY ChunkTaken
<1>2. left' \in 0 .. MaxBody /\ (stage' = "chunk" => left' > 0) /\ stage' \in Stages \ {"done"}
  BY <1>1, WireAssumption DEF Stages, ReadUntils
<1>3. Len(content') <= Consumed'
  <2>1. Len(content) \in Nat /\ Len(content) <= Consumed /\ Consumed \in Nat /\ c \in Nat
    BY BufferType DEF TypeInv, Suffix
  <2> QED BY <1>1, <2>1, WireAssumption
<1> QED BY <1>1, <1>2, <1>3 DEF TypeInv, input

\* All of a suffix of the wire moves to the content.
LEMMA AllTaken ==
  ASSUME TypeInv, NEW rest, NEW c, Suffix(rest, c), Consumed <= c,
         content' = content \o rest, buffer' = <<>>, UNCHANGED <<input, taken, left>>,
         stage' \in Stages \ {"chunk"}, outcome' \in {"none", "ok", "error", "exception"},
         stage' # "done" => outcome' = "none"
  PROVE  TypeInv' /\ Consumed' = taken
<1>1. rest \in Seq(Tokens) /\ c \in Nat /\ c + Len(rest) = taken /\ content \in Seq(Tokens)
  BY DEF Suffix, TypeInv
<1>2. content' \in Seq(Tokens) /\ Len(content') = Len(content) + Len(rest)
  BY <1>1, Join
<1>3. <<>> \in Seq(Tokens) /\ Len(<<>>) = 0 /\ taken \in Nat
  BY EmptySeq, BufferType
<1>4. Suffix(buffer', taken)
  BY <1>3 DEF Suffix
<1>5. Suffix(buffer, Consumed)' /\ Consumed' = taken
  BY <1>4, NewSuffix
<1>6. Len(content') <= Consumed'
  <2>1. Len(content) \in Nat /\ Len(rest) \in Nat /\ Len(content) <= Consumed
    BY <1>1 DEF TypeInv
  <2> QED BY <1>1, <1>2, <1>5, <2>1, BufferType
<1> QED BY <1>2, <1>5, <1>6 DEF TypeInv, input

\* The types hold before the first byte ...
LEMMA TypeInit == Init => TypeInv
<1> SUFFICES ASSUME Init PROVE TypeInv
  OBVIOUS
<1>1. wire \in Seq(Tokens) /\ message \in Messages /\ wire \in Wires(message)
  BY WireType DEF Init
<1>3. <<>> \in Seq(Tokens) /\ Len(<<>>) = 0
  BY EmptySeq
<1>2. buffer = <<>> /\ taken = 0 /\ Consumed = 0 /\ content = <<>>
  <2>1. buffer = <<>> /\ taken = 0 /\ content = <<>>
    BY DEF Init
  <2>2. Len(buffer) = 0
    BY <1>3, <2>1
  <2>3. taken = 0
    BY <2>1
  <2>4. Consumed = 0
    BY <2>2, <2>3 DEF Consumed
  <2> QED BY <2>1, <2>4
<1>4. Suffix(<<>>, 0)
  BY <1>2, <1>3 DEF Suffix
<1>5. taken \in 0 .. Len(wire)
  BY <1>1, <1>2
<1>6. stage \in Stages /\ left \in 0 .. MaxBody /\ outcome = "none" /\ stage # "chunk" /\ closes \in BOOLEAN
  BY WireAssumption DEF Init, Stages, ReadUntils
<1> QED BY <1>1, <1>2, <1>3, <1>4, <1>5, <1>6 DEF TypeInv

\* ... and after every read and every handler.
LEMMA TypeStep ==
  ASSUME TypeInv, [Next]_vars
  PROVE  TypeInv'
<1>0. buffer \in Seq(Tokens) /\ content \in Seq(Tokens) /\ Len(content) \in Nat /\ Len(content) <= Consumed
  BY BufferType DEF TypeInv
\* What a handler has to keep that only consumes tokens.
<1>1. ASSUME UNCHANGED <<input, taken, left, content>>,
             NEW c \in Nat, Suffix(buffer', c), Consumed <= c,
             stage' \in Stages \ {"chunk"}, outcome' \in {"none", "ok", "error", "exception"},
             stage' # "done" => outcome' = "none"
      PROVE  TypeInv'
  <2>1. Suffix(buffer, Consumed)' /\ Consumed' = c
    BY <1>1, NewSuffix
  <2>2. Len(content') <= Consumed'
    BY <1>0, <1>1, <2>1, BufferType
  <2> QED BY <1>1, <2>1, <2>2 DEF TypeInv, input
<1>2. Suffix(buffer, Consumed) /\ Consumed \in Nat
  BY BufferType DEF TypeInv
<1>3. ASSUME NEW n \in Nat, Suffix(Rest(buffer, n), IF n <= Len(buffer) THEN Consumed + n ELSE taken)
      PROVE  \E c \in Nat : Suffix(Rest(buffer, n), c) /\ Consumed <= c
  BY <1>3, BufferType
<1>4. CASE UNCHANGED vars
  BY <1>4 DEF TypeInv, vars, input, Suffix, Consumed
<1>5. CASE Receive
  <2>1. PICK n \in taken + 1 .. Len(wire) :
              buffer' = buffer \o SubSeq(wire, taken + 1, n) /\ taken' = n
    BY <1>5 DEF Receive
  <2>2. taken \in Nat /\ Len(wire) \in Nat /\ Len(buffer) \in Nat /\ wire \in Seq(Tokens)
        /\ n \in Nat /\ taken + 1 <= n /\ n <= Len(wire) /\ Consumed + Len(buffer) = taken
    BY <2>1, BufferType
  <2> DEFINE s == SubSeq(wire, taken + 1, n)
  <2>3. s \in Seq(Tokens) /\ Len(s) = n - taken /\ \A k \in 1 .. Len(s) : s[k] = wire[taken + k]
    <3>1. \A i \in taken + 1 .. n : wire[i] \in Tokens
      BY <2>2, ElementOfSeq
    <3>2. /\ s \in Seq(Tokens)
          /\ Len(s) = IF taken + 1 <= n THEN n - (taken + 1) + 1 ELSE 0
          /\ \A i \in 1 .. n - (taken + 1) + 1 : s[i] = wire[(taken + 1) + i - 1]
      BY <2>2, <3>1, SubSeqProperties
    <3> HIDE DEF s
    <3>3. Len(s) = n - taken
      BY <2>2, <3>2
    <3>4. ASSUME NEW k \in 1 .. Len(s)
          PROVE  s[k] = wire[taken + k]
      <4>1. k \in 1 .. n - (taken + 1) + 1 /\ (taken + 1) + k - 1 = taken + k
        BY <2>2, <3>3
      <4> QED BY <3>2, <4>1
    <3> QED BY <3>2, <3>3, <3>4
  <2> HIDE DEF s
  <2>4. /\ buffer' \in Seq(Tokens) /\ Len(buffer') = Len(buffer) + Len(s)
        /\ \A i \in 1 .. Len(buffer) : buffer'[i] = buffer[i]
        /\ \A k \in 1 .. Len(s) : buffer'[Len(buffer) + k] = s[k]
    <3>1. buffer' = buffer \o s
      BY <2>1 DEF s
    <3> QED BY <1>0, <2>3, <3>1, Join
  <2>5. Consumed' = Consumed
    BY <2>1, <2>2, <2>3, <2>4 DEF Consumed
  <2>6. ASSUME NEW i \in 1 .. Len(buffer')
        PROVE  buffer'[i] = wire[Consumed + i]
    <3>1. CASE i \in 1 .. Len(buffer)
      <4>1. buffer[i] = wire[Consumed + i]
        BY <3>1, <1>2 DEF Suffix
      <4> QED BY <2>4, <3>1, <4>1
    <3>2. CASE i \notin 1 .. Len(buffer)
      <4>1. i - Len(buffer) \in 1 .. Len(s) /\ Len(buffer) + (i - Len(buffer)) = i
            /\ taken + (i - Len(buffer)) = Consumed + i
        <5>1. i \in 1 .. Len(buffer) + (n - taken) /\ ~(i <= Len(buffer))
          BY <2>2, <2>3, <2>4, <3>2
        <5>2. Consumed \in Nat /\ Len(s) = n - taken
          BY <1>2, <2>3
        <5> QED BY <2>2, <5>1, <5>2
      <4>2. buffer'[Len(buffer) + (i - Len(buffer))] = wire[taken + (i - Len(buffer))]
        BY <2>3, <2>4, <4>1
      <4> QED BY <4>1, <4>2
    <3> QED BY <3>1, <3>2
  <2>7. Suffix(buffer, Consumed)'
    <3>1. wire' = wire /\ Consumed + Len(buffer') = n
      <4>1. Len(buffer') = Len(buffer) + (n - taken)
        BY <2>3, <2>4
      <4>2. wire' = wire
        BY <1>5 DEF Receive, input
      <4> QED BY <1>2, <2>2, <4>1, <4>2
    <3> QED BY <1>2, <2>1, <2>4, <2>5, <2>6, <3>1 DEF Suffix
  <2>8. taken' \in 0 .. Len(wire)
    BY <2>1, <2>2
  <2>9. UNCHANGED <<input, stage, left, content, outcome>>
    BY <1>5 DEF Receive
  <2> QED BY <2>5, <2>7, <2>8, <2>9 DEF TypeInv, input
<1>6. CASE ReadHeadEof \/ Interrupt
  <2>1. /\ UNCHANGED <<input, taken, left, content>> /\ buffer' = buffer
        /\ stage' = "done" /\ outcome' = "error"
    BY <1>6 DEF ReadHeadEof, Interrupt, Finish
  <2> QED BY <2>1, <1>1, <1>2 DEF Stages
<1>7. CASE ReadStatusLineCallback
  <2>1. UNCHANGED <<input, taken, left, content>> /\ stage = "statusLine"
    BY <1>7 DEF ReadStatusLineCallback
  <2>2. CASE ValidStatusLine
    <3>1. buffer' = Rest(buffer, 3) /\ stage' = "headers" /\ outcome' = outcome
      BY <1>7, <2>2 DEF ReadStatusLineCallback, Continue
    <3>2. Suffix(Rest(buffer, 3), IF 3 <= Len(buffer) THEN Consumed + 3 ELSE taken)
      BY <1>2, RestSuffix
    <3>3. PICK c \in Nat : Suffix(Rest(buffer, 3), c) /\ Consumed <= c
      BY <1>3, <3>2
    <3>4. outcome' = "none" /\ stage' \in Stages
      BY <2>1, <3>1 DEF TypeInv, Stages, ReadUntils
    <3> QED BY <1>1, <2>1, <3>1, <3>3, <3>4
  <2>3. CASE ~ValidStatusLine
    <3>1. buffer' = buffer /\ stage' = "done" /\ outcome' = "error"
      BY <1>7, <2>3 DEF ReadStatusLineCallback, Finish
    <3> QED BY <2>1, <3>1, <1>1, <1>2 DEF Stages
  <2> QED BY <2>2, <2>3
<1>8. CASE ReadHeadersCallback
  <2>1. UNCHANGED <<input, taken, left>> /\ stage = "headers" /\ Ready /\ outcome = "none"
    BY <1>8 DEF ReadHeadersCallback, TypeInv
  <2>2. PICK c \in Nat : Suffix(AfterHeaders, c) /\ Consumed <= c
    BY <2>1, HeadersTaken
  <2>3. \/ /\ ReadContentFromBuffer(AfterHeaders)
           /\ Continue("content") \/ Finish("ok")
        \/ Finish("exception") /\ UNCHANGED <<buffer, content>>
        \/ /\ buffer' = AfterHeaders /\ UNCHANGED content
           /\ Continue("chunkSize") \/ Finish("ok")
    BY <1>8 DEF ReadHeadersCallback
  <2>4. CASE ReadContentFromBuffer(AfterHeaders) /\ (Continue("content") \/ Finish("ok"))
    <3>1. content' = content \o AfterHeaders /\ buffer' = <<>>
      BY <2>4 DEF ReadContentFromBuffer
    <3>2. \/ stage' = "content" /\ outcome' = "none"
          \/ stage' = "done" /\ outcome' = "ok"
      BY <2>1, <2>4 DEF Continue, Finish
    <3>3. stage' \in Stages \ {"chunk"} /\ outcome' \in {"none", "ok", "error", "exception"}
          /\ (stage' # "done" => outcome' = "none")
      BY <3>2 DEF Stages
    <3> QED BY <1>0, <2>1, <2>2, <3>1, <3>3, AllTaken
  <2>5. CASE Finish("exception") /\ UNCHANGED <<buffer, content>>
    <3>1. stage' = "done" /\ outcome' = "exception" /\ buffer' = buffer /\ content' = content
      BY <2>5 DEF Finish
    <3> QED BY <1>1, <1>2, <2>1, <3>1 DEF Stages
  <2>6. CASE buffer' = AfterHeaders /\ UNCHANGED content /\ (Continue("chunkSize") \/ Finish("ok"))
    <3>1. \/ stage' = "chunkSize" /\ outcome' = "none"
          \/ stage' = "done" /\ outcome' = "ok"
      BY <2>1, <2>6 DEF Continue, Finish
    <3>2. stage' \in Stages \ {"chunk"} /\ outcome' \in {"none", "ok", "error", "exception"}
          /\ (stage' # "done" => outcome' = "none")
      BY <3>1 DEF Stages, ReadUntils
    <3> QED BY <1>1, <2>1, <2>2, <2>6, <3>2
  <2> QED BY <2>3, <2>4, <2>5, <2>6
<1>9. CASE ReadContentCallback
  <2>1. /\ UNCHANGED <<input, taken, left>>
        /\ content' = content \o buffer /\ buffer' = <<>>
        /\ stage' = "done" /\ outcome' \in {"ok", "error"}
    BY <1>9 DEF ReadContentCallback, ReadContentFromBuffer, Finish
  <2>2. Suffix(buffer, Consumed) /\ Consumed <= Consumed /\ stage' \in Stages \ {"chunk"}
    BY <1>2, <2>1 DEF Stages
  <2> QED BY <1>0, <2>1, <2>2, AllTaken
<1>10. CASE ReadChunkSizeCallback
  <2>1. UNCHANGED <<input, taken>> /\ stage = "chunkSize" /\ outcome = "none"
    BY <1>10 DEF ReadChunkSizeCallback, TypeInv
  <2> DEFINE rest == Rest(buffer, DigitsAt + 2)
  <2>2. CASE ~ValidSize
    <3>1. buffer' = buffer /\ left' = left /\ content' = content /\ stage' = "done" /\ outcome' = "error"
      BY <1>10, <2>2 DEF ReadChunkSizeCallback, Finish
    <3> QED BY <1>1, <1>2, <2>1, <3>1 DEF Stages
  <2>3. CASE ValidSize
    <3>1. /\ DigitsAt \in 1 .. Len(buffer) /\ buffer[DigitsAt].n \in 0 .. MaxBody
          /\ Suffix(rest, Consumed + DigitsAt + 2)
      BY <2>3, SizeTaken
    <3>2. Consumed <= Consumed + DigitsAt + 2 /\ Consumed + DigitsAt + 2 \in Nat
      <4> HIDE DEF DigitsAt
      <4> QED BY <1>2, <3>1, BufferType
    <3>3. CASE buffer[DigitsAt].n = 0
      <4>1. buffer' = rest /\ left' = left /\ content' = content /\ stage' = "lastCrlf" /\ outcome' = "none"
        BY <1>10, <2>1, <2>3, <3>3 DEF ReadChunkSizeCallback, Continue
      <4>2. stage' \in Stages \ {"chunk"}
        BY <4>1 DEF Stages, ReadUntils
      <4> HIDE DEF rest, DigitsAt
      <4> QED BY <1>1, <2>1, <3>1, <3>2, <4>1, <4>2
    <3>4. CASE buffer[DigitsAt].n # 0
      <4>1. buffer[DigitsAt].n \in 1 .. MaxBody /\ ReadChunkFromBuffer(rest, buffer[DigitsAt].n)
        BY <1>10, <2>3, <3>1, <3>4, WireAssumption DEF ReadChunkSizeCallback
      <4> HIDE DEF rest
      <4> QED BY <2>1, <3>1, <3>2, <4>1, ChunkTypes
    <3> QED BY <3>3, <3>4
  <2> QED BY <2>2, <2>3
<1>11. CASE ReadChunkedContentCallback
  <2>1. UNCHANGED <<input, taken>> /\ stage = "chunk" /\ left \in 1 .. MaxBody
    BY <1>11, WireAssumption DEF ReadChunkedContentCallback, TypeInv
  <2>2. CASE buffer = <<>>
    <3>1. buffer' = buffer /\ left' = left /\ content' = content /\ stage' = "done" /\ outcome' = "error"
      BY <1>11, <2>2 DEF ReadChunkedContentCallback, Finish
    <3> QED BY <1>1, <1>2, <2>1, <3>1 DEF Stages
  <2>3. CASE buffer # <<>>
    <3>1. ReadChunkFromBuffer(buffer, left)
      BY <1>11, <2>3 DEF ReadChunkedContentCallback
    <3> QED BY <1>2, <2>1, <3>1, ChunkTypes
  <2> QED BY <2>2, <2>3
<1>12. CASE ReadEmptyCrlfCallback
  <2>1. /\ UNCHANGED <<input, taken, left, content>> /\ buffer' = Rest(buffer, 2)
        /\ stage \in {"crlf", "lastCrlf"} /\ outcome = "none"
        /\ \/ Finish("error") \/ Finish("ok") \/ Continue("chunkSize")
    BY <1>12 DEF ReadEmptyCrlfCallback, TypeInv
  <2>2. Suffix(Rest(buffer, 2), IF 2 <= Len(buffer) THEN Consumed + 2 ELSE taken)
    BY <1>2, RestSuffix
  <2>3. PICK c \in Nat : Suffix(Rest(buffer, 2), c) /\ Consumed <= c
    BY <1>3, <2>2
  <2>4. stage' \in Stages \ {"chunk"} /\ outcome' \in {"none", "ok", "error", "exception"}
        /\ (stage' # "done" => outcome' = "none")
    BY <2>1 DEF Finish, Continue, Stages, ReadUntils
  <2> QED BY <1>1, <2>1, <2>3, <2>4
<1> QED
  BY <1>4, <1>5, <1>6, <1>7, <1>8, <1>9, <1>10, <1>11, <1>12 DEF Next, Read

\* The reader's state keeps its types: ChunkInfo never counts below nought or
\* above the body (utils.h:143, 147), and a stream that is still reading a chunk
\* has bytes of it to come, for messages of any length and any wire.
THEOREM TypeCorrect == Spec => []TypeOK
<1>1. TypeInv => TypeOK
  <2> SUFFICES ASSUME TypeInv PROVE TypeOK
    OBVIOUS
  <2>1. wire \in Seq(Range(wire))
    <3>1. wire \in [1 .. Len(wire) -> Range(wire)] /\ Len(wire) \in Nat
      BY BufferType, LenProperties DEF Range
    <3> QED BY <3>1, FunctionIsSeq
  <2>2. Len(buffer) <= taken /\ Len(content) <= taken
    <3>1. Len(content) \in Nat /\ Len(content) <= Consumed
      BY DEF TypeInv
    <3> QED BY <3>1, BufferType
  <2> QED BY <2>1, <2>2 DEF TypeInv, TypeOK
<1> QED BY <1>1, TypeInit, TypeStep, PTL DEF Spec

-------------------------------------------------------------------------------
(* The chain *)

\* A request is a success only when no read is pending.
Control ==
  /\ stage \in Stages
  /\ stage # "done" => ~Succeeded

\* The stages hold before the first byte.
LEMMA ControlInit == Init => Control
BY DEF Init, Control, Stages, ReadUntils, Succeeded

\* A handler that leaves stage and outcome alone is invisible in the chain; the
\* others proceed along it, give up, or succeed where the response is complete.
LEMMA ReadStep ==
  ASSUME Control, [Next]_vars
  PROVE  Control' /\ [Chain!Next]_Chain!vars
<1> DEFINE Over(o) == stage # "done" /\ stage' = "done" /\ outcome' = o
<1>1. ASSUME stage # "done", Control
      PROVE  ReadStage = stage /\ ReadStage # "none" /\ Succeeded = FALSE
  BY <1>1 DEF Control, ReadStage, Succeeded, Stages, ReadUntils
<1>2. ASSUME UNCHANGED <<stage, outcome>>
      PROVE  Control' /\ [Chain!Next]_Chain!vars
  BY <1>2 DEF Control, ReadStage, Succeeded, Chain!vars
<1>3. ASSUME NEW o \in {"error", "exception"}, Over(o)
      PROVE  Control' /\ [Chain!Next]_Chain!vars
  <2>1. ReadStage' = "none" /\ Succeeded' = FALSE /\ Control'
    BY <1>3 DEF ReadStage, Succeeded, Control, Stages
  <2> QED BY <2>1, <1>1, <1>3 DEF Chain!Next, Chain!Abandon
<1>4. ASSUME stage \in Chain!Final, Over("ok")
      PROVE  Control' /\ [Chain!Next]_Chain!vars
  <2>1. ReadStage' = "none" /\ Succeeded' = TRUE /\ Control'
    BY <1>4 DEF ReadStage, Succeeded, Control, Stages
  <2> QED BY <2>1, <1>1, <1>4 DEF Chain!Next, Chain!Succeed
<1>5. ASSUME NEW s \in Stages \ {"done"}, stage \in Stages \ {"done"}, s \in Chain!Successors[stage],
             Continue(s)
      PROVE  Control' /\ [Chain!Next]_Chain!vars
  <2>1. ReadStage' = s /\ Succeeded' = Succeeded /\ Control'
    BY <1>5, <1>1 DEF Continue, ReadStage, Succeeded, Control, Stages
  <2> QED BY <2>1, <1>1, <1>5 DEF Chain!Next, Chain!Proceed
<1>6. /\ Chain!Successors["statusLine"] = {"headers"}
      /\ Chain!Successors["headers"] = {"content", "chunkSize"}
      /\ Chain!Successors["chunkSize"] = {"chunk", "crlf", "lastCrlf"}
      /\ Chain!Successors["chunk"] = {"chunk", "crlf"}
      /\ Chain!Successors["crlf"] = {"chunkSize"}
  BY DEF Chain!Successors
<1>7. /\ {"headers", "content", "lastCrlf"} = Chain!Final
      /\ ReadUntils \cup {"content", "chunk"} = Stages \ {"done"}
  BY DEF Chain!Final, Stages, ReadUntils
<1>8. CASE Receive
  BY <1>8, <1>2 DEF Receive
<1>9. CASE ReadHeadEof \/ Interrupt
  <2>1. Over("error")
    BY <1>9 DEF ReadHeadEof, Interrupt, Finish
  <2> QED BY <2>1, <1>3
<1>10. CASE ReadStatusLineCallback
  <2>1. CASE ValidStatusLine
    BY <1>10, <2>1, <1>5, <1>6, <1>7 DEF ReadStatusLineCallback, ReadUntils
  <2>2. CASE ~ValidStatusLine
    BY <1>10, <2>2, <1>3 DEF ReadStatusLineCallback, Finish
  <2> QED BY <2>1, <2>2
<1>11. CASE ReadHeadersCallback
  <2>1. stage = "headers"
    BY <1>11 DEF ReadHeadersCallback
  <2>2. \/ Continue("content") \/ Continue("chunkSize")
        \/ Finish("ok") \/ Finish("exception")
    BY <1>11 DEF ReadHeadersCallback
  <2> QED BY <2>1, <2>2, <1>3, <1>4, <1>5, <1>6, <1>7 DEF Finish, ReadUntils
<1>12. CASE ReadContentCallback
  <2>1. Over("ok") \/ Over("error")
    BY <1>12 DEF ReadContentCallback, Finish
  <2> QED BY <1>12, <2>1, <1>3, <1>4, <1>7 DEF ReadContentCallback
<1>13. CASE ReadChunkSizeCallback
  <2>1. stage = "chunkSize"
    BY <1>13 DEF ReadChunkSizeCallback
  <2>2. \/ Finish("error") \/ Continue("lastCrlf")
        \/ Continue("chunk") \/ Continue("crlf")
    BY <1>13 DEF ReadChunkSizeCallback, ReadChunkFromBuffer
  <2> QED BY <2>1, <2>2, <1>3, <1>5, <1>6, <1>7 DEF Finish, ReadUntils
<1>14. CASE ReadChunkedContentCallback
  <2>1. stage = "chunk"
    BY <1>14 DEF ReadChunkedContentCallback
  <2>2. Finish("error") \/ Continue("chunk") \/ Continue("crlf")
    BY <1>14 DEF ReadChunkedContentCallback, ReadChunkFromBuffer
  <2> QED BY <2>1, <2>2, <1>3, <1>5, <1>6, <1>7 DEF Finish, ReadUntils
<1>15. CASE ReadEmptyCrlfCallback
  <2>1. CASE stage = "crlf"
    <3>1. Finish("error") \/ Continue("chunkSize")
      BY <1>15, <2>1 DEF ReadEmptyCrlfCallback
    <3> QED BY <2>1, <3>1, <1>3, <1>5, <1>6, <1>7 DEF Finish, ReadUntils
  <2>2. CASE stage = "lastCrlf"
    <3>1. Finish("error") \/ Finish("ok")
      BY <1>15, <2>2 DEF ReadEmptyCrlfCallback
    <3> QED BY <2>2, <3>1, <1>3, <1>4, <1>7 DEF Finish
  <2> QED BY <1>15, <2>1, <2>2 DEF ReadEmptyCrlfCallback
<1>16. CASE UNCHANGED vars
  BY <1>16, <1>2 DEF vars
<1> QED
  BY <1>8, <1>9, <1>10, <1>11, <1>12, <1>13, <1>14, <1>15, <1>16 DEF Next, Read

\* Whatever the server sends and however it is cut into segments, the reader
\* goes from the status line to the headers and on to the content or from chunk to
\* chunk, never back and never past a read, and reports a success only where the
\* chain ends: http_stream.h:168-349 read as HttpStream's control expects them.
THEOREM BytesFollowChain == Spec => FollowsChain
<1>1. Init => Chain!Init
  BY DEF Init, Chain!Init, ReadStage, Succeeded
<1> QED BY <1>1, ControlInit, ReadStep, PTL DEF Spec, FollowsChain, Chain!Spec
===============================================================================
