---------------------------- MODULE ResponseReader ----------------------------
(***************************************************************************)
(* How an HttpStream reads a response (src/src/http_stream.h, 168-349, and *)
(* the parsers of src/src/utils.h): the bytes reach buffer_ in segments of *)
(* any size, and the handlers, one at a time on the strand, take from it   *)
(* what they parse.  The stream has been connected and the request is      *)
(* sent; HttpStream models the concurrency around this.                    *)
(***************************************************************************)
EXTENDS HttpWire

VARIABLES
  message,   \* the message the server means to send
  wire,      \* what it sends of it
  closes,    \* does it close the connection after that?
  taken,     \* how much of the wire the reads have moved into buffer_ so far
  buffer,    \* buffer_
  stage,     \* the read that is pending
  left,      \* ChunkInfo::ChunkBytesLeft() of the chunk being read
  content,   \* response_.content_
  outcome    \* how the request has ended

input == <<message, wire, closes>>
vars == <<input, taken, buffer, stage, left, content, outcome>>

-------------------------------------------------------------------------------
(* Reads.  async_read_until completes when its delimiter is in buffer_;         *)
(* async_read has no completion condition and completes at the end only.       *)

ReadUntils == {"statusLine", "headers", "chunkSize", "crlf", "lastCrlf"}
Stages == ReadUntils \cup {"content", "chunk", "done"}

Delimiter == IF stage = "headers" THEN CRLF \o CRLF ELSE CRLF

\* The pending read has completed successfully.
Ready ==
  /\ stage \in ReadUntils
  /\ \E i \in 1 .. Len(buffer) : IsPrefix(Delimiter, SubSeq(buffer, i, Len(buffer)))

\* The pending read has completed with eof.
Ended == stage # "done" /\ ~Ready /\ closes /\ taken = Len(wire)

\* The next segment arrives.
Receive ==
  /\ stage # "done" /\ ~Ready
  /\ \E n \in taken + 1 .. Len(wire) :
       /\ buffer' = buffer \o SubSeq(wire, taken + 1, n)
       /\ taken' = n
  /\ UNCHANGED <<input, stage, left, content, outcome>>

-------------------------------------------------------------------------------
(* Handlers *)

Rest(s, n) == SubSeq(s, n + 1, Len(s))

\* ErrorCallback and FinishedCallback: the request is over.
Finish(o) == stage' = "done" /\ outcome' = o

\* The handler consumes what it has parsed and starts the read of stage s.
Continue(s) == stage' = s /\ UNCHANGED outcome

\* At eof the handlers of the status line and of the headers give up.
ReadHeadEof ==
  /\ stage \in {"statusLine", "headers"} /\ Ended
  /\ Finish("error")
  /\ UNCHANGED <<input, taken, buffer, left, content>>

\* GetStatusLine finds a version, a number and the end of the line.
ValidStatusLine == buffer[1].kind = "status"

ReadStatusLineCallback ==
  /\ stage = "statusLine" /\ Ready
  /\ IF ValidStatusLine
     THEN buffer' = Rest(buffer, 3) /\ Continue("headers")
     ELSE UNCHANGED buffer /\ Finish("error")
  /\ UNCHANGED <<input, taken, left, content>>

\* The header loop stops at the empty line, and at a header whose value is
\* empty, whatever follows it.
HeaderStop ==
  Min({i \in 1 .. Len(buffer) : \/ buffer[i].kind = "noValue"
                                \/ buffer[i] = CR /\ (i = 1 \/ buffer[i - 1] = LF)})

\* Mutant: the empty line is not consumed.
AfterHeadersKept == Rest(buffer, HeaderStop - 1)

\* What is left in buffer_ after that line.
AfterHeaders == Rest(buffer, HeaderStop + IF buffer[HeaderStop] = CR THEN 1 ELSE 2)

\* The header names read before that.
HeadersRead == {buffer[i].kind : i \in 1 .. HeaderStop - 1}

\* Mutant: what came with the headers is not part of the content.
ReadContentFromBufferForgotten(rest) == content' = content /\ buffer' = <<>>

\* ReadContentFromBuffer: all of buffer_ is content.
ReadContentFromBuffer(rest) == content' = content \o rest /\ buffer' = <<>>

\* content-length comes before transfer-encoding; without either there is no
\* content.  A content-length that is no number makes std::stoull throw.
ReadHeadersCallback ==
  /\ stage = "headers" /\ Ready
  /\ \/ /\ "length" \in HeadersRead
        /\ ReadContentFromBuffer(AfterHeaders)
        /\ IF Len(content') < message.bytes THEN Continue("content") ELSE Finish("ok")
     \/ /\ "badLength" \in HeadersRead
        /\ Finish("exception")
        /\ UNCHANGED <<buffer, content>>
     \/ /\ HeadersRead \cap {"length", "badLength"} = {}
        /\ buffer' = AfterHeaders
        /\ IF "chunked" \in HeadersRead THEN Continue("chunkSize") ELSE Finish("ok")
        /\ UNCHANGED content
  /\ UNCHANGED <<input, taken, left>>

ReadContentCallback ==
  /\ stage = "content" /\ Ended
  /\ ReadContentFromBuffer(buffer)
  /\ Finish(IF Len(content') < message.bytes THEN "error" ELSE "ok")
  /\ UNCHANGED <<input, taken, left>>

\* Mutant: the chunk takes everything that is in buffer_.
ChunkBytesUnbounded(rest, size) == Len(rest)

ChunkBytes(rest, size) == Min({Len(rest), size})

\* ReadChunkFromBuffer, and then the next read: `size` bytes of the chunk are
\* missing, and `rest` is in buffer_.
ReadChunkFromBuffer(rest, size) ==
  LET n == ChunkBytes(rest, size) IN
    /\ content' = content \o SubSeq(rest, 1, n)
    /\ buffer' = Rest(rest, n)
    /\ left' = size - n
    /\ Continue(IF n < size THEN "chunk" ELSE "crlf")

\* The digits of the chunk size are the first thing in buffer_ that is no white
\* space, which operator>> skips; a CRLF must follow them.  Bytes of a body can
\* read as a size or as white space, too, but no wire of HttpWire has one where
\* a size is looked for.
DigitsAt == SelectInSeq(buffer, LAMBDA t : t \notin {CR, LF})

ValidSize ==
  /\ DigitsAt # 0
  /\ buffer[DigitsAt].kind = "size"
  /\ IsPrefix(CRLF, Rest(buffer, DigitsAt))

ReadChunkSizeCallback ==
  /\ stage = "chunkSize" /\ (Ready \/ Ended)
  /\ LET rest == Rest(buffer, DigitsAt + 2) IN
       \/ ~ValidSize /\ Finish("error") /\ UNCHANGED <<buffer, left, content>>
       \/ /\ ValidSize /\ buffer[DigitsAt].n = 0
          /\ buffer' = rest
          /\ Continue("lastCrlf")
          /\ UNCHANGED <<left, content>>
       \/ /\ ValidSize /\ buffer[DigitsAt].n > 0
          /\ ReadChunkFromBuffer(rest, buffer[DigitsAt].n)
  /\ UNCHANGED <<input, taken>>

\* Mutant: the end of the connection ends the body, too.
ReadChunkedContentCallbackEnds ==
  /\ stage = "chunk" /\ Ended
  /\ IF buffer = <<>> THEN Finish("ok") /\ UNCHANGED <<buffer, left, content>>
                      ELSE ReadChunkFromBuffer(buffer, left)
  /\ UNCHANGED <<input, taken>>

\* async_read has transferred what is in buffer_, which the chunk had emptied.
ReadChunkedContentCallback ==
  /\ stage = "chunk" /\ Ended
  /\ IF buffer = <<>> THEN Finish("error") /\ UNCHANGED <<buffer, left, content>>
                      ELSE ReadChunkFromBuffer(buffer, left)
  /\ UNCHANGED <<input, taken>>

\* Mutant: any two bytes, and their absence, pass for the CRLF.
ReadEmptyCrlfUnchecked ==
  /\ stage \in {"crlf", "lastCrlf"} /\ (Ready \/ Ended)
  /\ buffer' = Rest(buffer, 2)
  /\ IF stage = "lastCrlf" THEN Finish("ok") ELSE Continue("chunkSize")
  /\ UNCHANGED <<input, taken, left, content>>

ReadEmptyCrlfCallback ==
  /\ stage \in {"crlf", "lastCrlf"} /\ (Ready \/ Ended)
  /\ buffer' = Rest(buffer, 2)
  /\ IF ~IsPrefix(CRLF, buffer) THEN Finish("error")
     ELSE IF stage = "lastCrlf" THEN Finish("ok") ELSE Continue("chunkSize")
  /\ UNCHANGED <<input, taken, left, content>>

\* The timer, the peer or the application ends the request.
Interrupt ==
  /\ stage # "done"
  /\ Finish("error")
  /\ UNCHANGED <<input, taken, buffer, left, content>>

-------------------------------------------------------------------------------
Init ==
  /\ message \in Messages
  /\ wire \in Wires(message)
  /\ closes \in BOOLEAN
  /\ taken = 0 /\ buffer = <<>>
  /\ stage = "statusLine" /\ left = 0
  /\ content = <<>> /\ outcome = "none"

Read ==
  \/ Receive
  \/ ReadHeadEof \/ ReadStatusLineCallback \/ ReadHeadersCallback
  \/ ReadContentCallback
  \/ ReadChunkSizeCallback \/ ReadChunkedContentCallback \/ ReadEmptyCrlfCallback

Next == Read \/ Interrupt

Spec == Init /\ [][Next]_vars

\* A server that keeps sending within the timer's five seconds, and handlers
\* that run when their read completes.
PromptSpec == Init /\ [][Read]_vars /\ WF_vars(Read)

-------------------------------------------------------------------------------
(* Properties *)

\* The reader's own state.  That `left` is a natural number is what the asserts
\* of ChunkInfo say (utils.h:143, 147).
TypeOK ==
  /\ message \in Messages /\ wire \in Seq(Range(wire)) /\ closes \in BOOLEAN
  /\ taken \in 0 .. Len(wire)
  /\ Len(buffer) <= taken
  /\ stage \in Stages
  /\ left \in 0 .. MaxBody /\ (stage = "chunk" => left > 0 /\ outcome = "none")
  /\ Len(content) <= taken
  /\ outcome \in {"none", "ok", "error", "exception"}

\* A response that is cut short, at whatever byte, is never reported as a success,
\* whatever the segments it arrives in (lines 168-349).
Integrity == outcome = "ok" /\ Framed(message) => IsPrefix(Encode(message), wire)

\* On success the body is in the content: exactly, if it is chunked, and
\* followed by what the server has sent after it, if its length is announced
\* (lines 211-214, 239-246: nothing truncates it to content-length).
SuccessHasBody ==
  Framed(message) /\ outcome = "ok" =>
    IF IsChunked(message) THEN content = Body(message)
    ELSE IsPrefix(Body(message), content)

\* At any time the content is a prefix of the body the server means to send: the
\* handlers neither skip, repeat nor reorder a byte, nor take framing for content.
ExactContent ==
  Framed(message) /\ IsPrefix(wire, Encode(message)) => IsPrefix(content, Body(message))

ReadStage == IF stage = "done" THEN "none" ELSE stage
Succeeded == outcome = "ok"
Chain == INSTANCE ReadChain WITH stage <- ReadStage, success <- Succeeded

\* The bytes lead the reader along the chain that the handlers of HttpStream
\* follow, and to success at its ends only (lines 168-349).
FollowsChain == Chain!Spec

\* A whole response whose connection the server then closes is a success.
ClosedResponseSucceeds ==
  (Framed(message) /\ wire = Encode(message) /\ closes) ~> outcome = "ok"
===============================================================================
