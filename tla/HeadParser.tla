------------------------------- MODULE HeadParser -------------------------------
(***************************************************************************)
(* The parsers of src/src/utils.h, character by character, and the header  *)
(* loop of ReadHeadersCallback (src/src/http_stream.h) that fills the map   *)
(* of header fields.  ResponseReader takes whole lines for granted and      *)
(* models what the stream does with them.                                   *)
(***************************************************************************)
EXTENDS CaseOrder, SequencesExt

CONSTANTS
  Heads,         \* heads of responses: [status, lines, body]
  ChunkTexts,    \* what buffer_ may hold when a chunk size is read
  MaxSize        \* the greatest size_t

ASSUME TextsAssumption ==
  /\ Heads \subseteq [status : String, lines : Seq(String), body : String]
  /\ ChunkTexts \subseteq String
  /\ MaxSize \in Nat

VARIABLES
  input,         \* what has arrived: a head, or the text of a chunk size
  text,          \* what is left of it in buffer_
  phase,         \* what is parsed next, or how the parsing has ended
  status,        \* what GetStatusLine has stored
  headers,       \* response_.headers_: a set of <<name, value>>
  chunk_size     \* what GetChunkSize has stored

vars == <<input, text, phase, status, headers, chunk_size>>

LF == 10
CR == 13
SP == 32
COLON == 58
CRLF == <<CR, LF>>

IsSpace(c) == c \in 9 .. 13 \cup {SP}
IsDigit(c) == c \in 48 .. 57
IsHex(c)   == IsDigit(c) \/ Lower(c) \in 97 .. 102
HexValue(c) == IF IsDigit(c) THEN c - 48 ELSE Lower(c) - 87

\* The first position in s, from position i on, of a character that passes a
\* test; one past its end if there is none.
Find(s, i, Test(_)) == Min({k \in i .. Len(s) : Test(s[k])} \cup {Len(s) + 1})

After(s, i) == SubSeq(s, i + 1, Len(s))

\* The position after a sign at position i, which operator>> accepts.
Unsigned(s, i) == IF i <= Len(s) /\ s[i] \in {43, 45} THEN i + 1 ELSE i

\* Mutant: a line ends at its carriage return.
LineEndAtCr(s, i) == Find(s, i, LAMBDA c : c = CR)

\* A line ends at its line feed, and a carriage return in it is dropped.
LineEnd(s, i) == Find(s, i, LAMBDA c : c = LF)

NoCr(s) ==
  LET kept[i \in 0 .. Len(s)] ==
        IF i = 0 THEN <<>> ELSE IF s[i] = CR THEN kept[i - 1] ELSE Append(kept[i - 1], s[i])
  IN kept[Len(s)]

-------------------------------------------------------------------------------
(* GetStatusLine: two words by operator>>, which skips white space of any kind *)
(* and is not good() once it has run into the end; then the rest of the line,  *)
(* the space before the reason included.                                       *)

GetStatusLine(s) ==
  LET v == Find(s, 1, LAMBDA c : ~IsSpace(c))
      w == Find(s, v, IsSpace)
      d == Find(s, w, LAMBDA c : ~IsSpace(c))
      n == Unsigned(s, d)
      e == Find(s, n, LAMBDA c : ~IsDigit(c))
      l == LineEnd(s, e)
  IN [good |-> n < e /\ l <= Len(s),
      version |-> SubSeq(s, v, w - 1), code |-> SubSeq(s, d, e - 1),
      message |-> NoCr(SubSeq(s, e, l - 1)), rest |-> After(s, l)]

-------------------------------------------------------------------------------
(* GetHeader: one character after the other, up to a line feed *)

NoHeader == [name |-> <<>>, value |-> <<>>, naming |-> TRUE, padding |-> TRUE]

\* Mutant: spaces inside a value are taken for padding, too.
HeaderCharPadded(h, c) ==
  IF c \in {CR, SP} THEN h
  ELSE IF ~h.naming THEN [h EXCEPT !.value = Append(@, c)]
  ELSE IF c = COLON THEN [h EXCEPT !.naming = FALSE]
  ELSE [h EXCEPT !.name = Append(@, c)]

HeaderChar(h, c) ==
  IF c = CR \/ (c = SP /\ (h.naming \/ h.padding)) THEN h
  ELSE IF ~h.naming THEN [h EXCEPT !.value = Append(@, c), !.padding = FALSE]
  ELSE IF c = COLON THEN [h EXCEPT !.naming = FALSE]
  ELSE [h EXCEPT !.name = Append(@, c)]

GetHeader(s) ==
  LET l == LineEnd(s, 1)
      read[i \in 0 .. l - 1] == IF i = 0 THEN NoHeader ELSE HeaderChar(read[i - 1], s[i])
      h == read[l - 1]
  IN [good |-> l <= Len(s), name |-> h.name, value |-> h.value, rest |-> After(s, l)]

\* Mutant: a later header line replaces an earlier one.
InsertOver(m, n, v) == {h \in m : ~SameKey(h[1], n)} \cup {<<n, v>>}

\* std::map::insert leaves a value whose key is there.
Insert(m, n, v) == IF \E h \in m : SameKey(h[1], n) THEN m ELSE m \cup {<<n, v>>}

-------------------------------------------------------------------------------
(* GetChunkSize: a number by operator>> with std::hex, which takes a sign and   *)
(* "0x", and then exactly CRLF.                                                *)

Value(digits) == FoldLeft(LAMBDA n, c : 16 * n + HexValue(c), 0, digits)

\* Mutant: the CRLF is skipped unseen.
EndsSizeUnchecked(s, i) == i + 1 <= Len(s)

EndsSize(s, i) == IsPrefix(CRLF, After(s, i - 1))

GetChunkSize(s) ==
  LET i == Find(s, 1, LAMBDA c : ~IsSpace(c))
      j == Unsigned(s, i)
      d == IF j < Len(s) /\ s[j] = 48 /\ Lower(s[j + 1]) = 120 THEN j + 2 ELSE j
      e == Find(s, d, LAMBDA c : ~IsHex(c))
      n == Value(SubSeq(s, d, e - 1))
  IN [good |-> d < e /\ e <= Len(s) /\ n <= MaxSize /\ EndsSize(s, e),
      size |-> IF i < j /\ s[i] = 45 THEN (MaxSize + 1 - n) % (MaxSize + 1) ELSE n,
      rest |-> After(s, e + 1)]
-------------------------------------------------------------------------------
(* The handlers *)

\* async_read_until(kDoubleCrLf) has completed.
HasHead(s) == \E i \in 1 .. Len(s) - 3 : SubSeq(s, i, i + 3) = CRLF \o CRLF

ReadStatusLine ==
  /\ phase = "statusLine"
  /\ LET l == GetStatusLine(text) IN
       /\ status' = l
       /\ text' = l.rest
       /\ phase' = IF ~l.good THEN "error" ELSE IF HasHead(l.rest) THEN "headers" ELSE "starved"
  /\ UNCHANGED <<input, headers, chunk_size>>

\* One turn of the loop: it ends with a header that has no name or no value.
ReadHeader ==
  /\ phase = "headers"
  /\ LET h    == GetHeader(text)
         more == h.good /\ h.name # <<>> /\ h.value # <<>>
     IN /\ text' = h.rest
        /\ headers' = IF more THEN Insert(headers, h.name, h.value) ELSE headers
        /\ phase' = IF more THEN "headers" ELSE IF h.good THEN "done" ELSE "error"
  /\ UNCHANGED <<input, status, chunk_size>>

ReadChunkSize ==
  /\ phase = "chunkSize"
  /\ LET c == GetChunkSize(text) IN
       /\ chunk_size' = c.size
       /\ text' = c.rest
       /\ phase' = IF c.good THEN "done" ELSE "error"
  /\ UNCHANGED <<input, status, headers>>

Lines(lines) == FlattenSeq([k \in DOMAIN lines |-> lines[k] \o CRLF])

Init ==
  /\ \/ /\ phase = "statusLine"
        /\ input \in Heads
        /\ text = input.status \o CRLF \o Lines(input.lines) \o CRLF \o input.body
     \/ /\ phase = "chunkSize"
        /\ \E t \in ChunkTexts : input = [size |-> t] /\ text = t
  /\ status = [good |-> FALSE] /\ headers = {} /\ chunk_size = 0

Next == ReadStatusLine \/ ReadHeader \/ ReadChunkSize

Spec == Init /\ [][Next]_vars

-------------------------------------------------------------------------------
(* Properties *)

\* "HTTP/1.1 200 OK": one space before a number, and before a reason if any.
ProperStatus(l) ==
  LET w == Find(l, 1, IsSpace)
      e == Find(l, w + 1, LAMBDA c : ~IsDigit(c))
  IN /\ ToSet(l) \cap {CR, LF} = {}
     /\ 1 < w /\ w + 1 < e /\ l[w] = SP
     /\ e <= Len(l) => l[e] = SP

\* A header line as RFC 7230 has it: a name without spaces, a colon, a value.
Name(l) == SubSeq(l, 1, Find(l, 1, LAMBDA c : c = COLON) - 1)
Text(l) == LET v == After(l, Len(Name(l)) + 1) IN After(v, Find(v, 1, LAMBDA c : c # SP) - 1)
ProperLine(l) == ToSet(l) \cap {CR, LF} = {} /\ Name(l) # <<>> /\ SP \notin ToSet(Name(l))

ProperHead(h) == ProperStatus(h.status) /\ \A k \in DOMAIN h.lines : ProperLine(h.lines[k])

\* The header loop ends with the head, or with the first line that has no value.
\* Then the map holds, whatever the case of the names, the value of the first line
\* of each name; it finds every name that was sent before that line and no other;
\* and all that follows is left, no byte of it taken (http_stream.h:195-205).
HeadersRead ==
  phase \in {"done", "error"} /\ "lines" \in DOMAIN input /\ ProperHead(input) =>
    LET stop  == Find(input.lines, 1, LAMBDA l : Text(l) = <<>>)
        lines == SubSeq(input.lines, 1, stop - 1)
        rest  == IF stop > Len(input.lines) THEN <<>>
                 ELSE Lines(After(input.lines, stop)) \o CRLF
        Found(n) == {h[2] : h \in {h \in headers : SameKey(h[1], n)}}
    IN /\ phase = "done" /\ text = rest \o input.body
       /\ \A k \in DOMAIN lines :
            LET first == Min({i \in DOMAIN lines : SameLetters(Name(lines[i]), Name(lines[k]))})
            IN Found(Name(lines[k])) = {Text(lines[first])}
       /\ \A h \in headers : \E k \in DOMAIN lines : h = <<Name(lines[k]), Text(lines[k])>>

\* A proper status line is never refused, it is taken apart at its spaces, and
\* nothing is taken of what follows it (utils.h:37-71), although operator>> reads
\* across lines.
StatusLineRead ==
  phase # "statusLine" /\ "lines" \in DOMAIN input /\ ProperStatus(input.status) =>
    /\ status.good
    /\ status.version \o <<SP>> \o status.code \o status.message = input.status
    /\ status.rest = Lines(input.lines) \o CRLF \o input.body

\* A size line: white space up to position i, a sign up to j, "0x" up to d, hexadecimal
\* digits up to e, and CRLF.  RFC 7230 has the digits and the CRLF only.
SizeLine(s, i, j, d, e) ==
  /\ i <= j /\ j <= d /\ d < e /\ e < Len(s)
  /\ \A k \in 1 .. i - 1 : IsSpace(s[k])
  /\ i < j => j = i + 1 /\ s[i] \in {43, 45}
  /\ j < d => d = j + 2 /\ s[j] = 48 /\ s[j + 1] \in {88, 120}
  /\ \A k \in d .. e - 1 : IsHex(s[k])
  /\ s[e] = CR /\ s[e + 1] = LF

\* The number with digits from position d up to e.
Number(s, d, e) == Value(SubSeq(s, d, e - 1))

\* A chunk size is read from a size line that fits a size_t, and from nothing else:
\* neither from one that is cut or followed by anything but CRLF, nor from one that
\* overflows.  It is the number in the line, taken modulo the range of size_t if
\* there is a minus before it, and the chunk's data is what is left
\* (utils.h:120-137).
ChunkSizeRead ==
  phase \in {"done", "error"} /\ "size" \in DOMAIN input =>
    LET s == input.size
    IN /\ phase = "done" =>
            \E i, j, d, e \in 1 .. Len(s) :
              /\ SizeLine(s, i, j, d, e) /\ Number(s, d, e) <= MaxSize
              /\ chunk_size = IF i < j /\ s[i] = 45
                              THEN (MaxSize + 1 - Number(s, d, e)) % (MaxSize + 1) ELSE Number(s, d, e)
              /\ text = After(s, e + 1)
       /\ phase = "error" =>
            ~\E i, j, d, e \in 1 .. Len(s) : SizeLine(s, i, j, d, e) /\ Number(s, d, e) <= MaxSize
===============================================================================
