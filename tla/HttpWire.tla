------------------------------- MODULE HttpWire -------------------------------
(***************************************************************************)
(* What a server may send: a response message as bytes on the wire, whole, *)
(* cut short, or with a byte after its end.                                *)
(*                                                                         *)
(* A token is one byte of the response, except that a status line and a    *)
(* header line (without their CRLF) and the digits of a chunk size are one *)
(* token each.                                                             *)
(***************************************************************************)
EXTENDS Naturals, Sequences, SequencesExt

CONSTANTS
  MaxBody,       \* bound: bytes in the body of a message
  HeaderLists    \* the lists of header lines a message may have

\* Header lines by what they say: a content-length that is a number or is not,
\* "transfer-encoding: chunked", any other, and one whose value is empty.
HeaderKinds == {"length", "badLength", "chunked", "other", "noValue"}

ASSUME WireAssumption ==
  /\ MaxBody \in Nat
  /\ HeaderLists \subseteq Seq(HeaderKinds)

Token(k, n) == [kind |-> k, n |-> n]

CR == Token("cr", 0)
LF == Token("lf", 0)
CRLF == <<CR, LF>>
Digits(n) == Token("size", n)
Data(i) == Token("data", i)

\* A message: is its status line well formed, its header lines, the bytes of
\* its body, and, where it is chunked, the positions at which a chunk ends.
Messages ==
  {m \in [status : BOOLEAN, headers : HeaderLists, bytes : 0 .. MaxBody, ends : SUBSET (1 .. MaxBody)] :
     IF m.bytes = 0 THEN m.ends = {}
     ELSE m.bytes \in m.ends /\ m.ends \subseteq 1 .. m.bytes}

Body(m) == [i \in 1 .. m.bytes |-> Data(i)]

IsChunked(m) == "chunked" \in ToSet(m.headers)

HeadOf(m) ==
  <<Token(IF m.status THEN "status" ELSE "badStatus", 0)>> \o CRLF
    \o FlattenSeq([i \in 1 .. Len(m.headers) |-> <<Token(m.headers[i], 0)>> \o CRLF])
    \o CRLF

\* Byte i of a chunked body, with the size line of the chunk it begins before
\* it and the CRLF of the chunk it ends after it.
Chunked(m, i) ==
  (IF i = 1 \/ i - 1 \in m.ends
   THEN <<Digits(Min({e \in m.ends : e >= i}) - i + 1)>> \o CRLF ELSE <<>>)
  \o <<Data(i)>>
  \o (IF i \in m.ends THEN CRLF ELSE <<>>)

Encode(m) ==
  HeadOf(m) \o IF IsChunked(m)
               THEN FlattenSeq([i \in 1 .. m.bytes |-> Chunked(m, i)]) \o <<Digits(0)>> \o CRLF \o CRLF
               ELSE Body(m)

\* The message with a byte after it, the whole message, and every beginning of it.
Wires(m) == {Append(Encode(m), Data(MaxBody + 1))} \cup Prefixes(Encode(m))

\* A message that frames its body as HTTP requires, and in the way that this
\* client understands.
Framed(m) ==
  /\ m.status
  /\ "noValue" \notin ToSet(m.headers)
  /\ \/ IsChunked(m) /\ ToSet(m.headers) \subseteq {"chunked", "other"}
     \/ "length" \in ToSet(m.headers) /\ ToSet(m.headers) \subseteq {"length", "other"}
===============================================================================
