------------------------------ MODULE RequestHead ------------------------------
(***************************************************************************)
(* A Request, filled in by its setters in any order (src/src/request.h),   *)
(* and the head that RequestBuilder::BuildRequest writes for it            *)
(* (src/src/request_builder.h) when a stream is run with it.               *)
(*                                                                         *)
(* Text is a sequence of tokens: a separator of the request syntax, or a   *)
(* word without separators.                                                *)
(***************************************************************************)
EXTENDS Naturals, Sequences, SequencesExt

CONSTANTS
  Methods,       \* texts given to set_method
  Paths,         \* texts given to set_path
  Names,         \* words given as names of parameters and headers
  Values,        \* texts given as values of parameters and headers
  MaxParams,     \* bound: query parameters of a request
  MaxContent     \* bound: bytes of content

VARIABLES
  method, path, query_params, headers, content_type, content,   \* the fields of Request
  built,         \* has HttpStream::Run() built the head?
  head           \* request_buffer_

fields == <<method, path, query_params, headers, content_type, content>>
vars == <<fields, built, head>>

CRLF == "\r\n"
Separators == {" ", "?", "&", "=", ": ", CRLF}
ContentLength == "Content-length"

\* std::to_string() writes digits.
ASSUME RequestAssumption ==
  /\ Names \subseteq STRING
  /\ Methods \cup Paths \cup Values \subseteq Seq(STRING)
  /\ MaxContent \in Nat
  /\ \A c \in 0 .. MaxContent : ToString(c) \in STRING \ Separators

-------------------------------------------------------------------------------
(* The setters *)

SetMethod(m) ==
  /\ method' = m
  /\ UNCHANGED <<path, query_params, headers, content_type, content>>

SetPath(p) ==
  /\ path' = p
  /\ UNCHANGED <<method, query_params, headers, content_type, content>>

AddQueryParam(n, v) ==
  /\ Len(query_params) < MaxParams
  /\ query_params' = Append(query_params, <<n, v>>)
  /\ UNCHANGED <<method, path, headers, content_type, content>>

\* std::map::insert leaves a value that is already there.
AddHeader(n, v) ==
  /\ headers' = [k \in DOMAIN headers \cup {n} |-> IF k \in DOMAIN headers THEN headers[k] ELSE v]
  /\ UNCHANGED <<method, path, query_params, content_type, content>>

\* The content by its length.
SetContent(c) ==
  /\ content' = c
  /\ content_type' = "COMPLETE"
  /\ UNCHANGED <<method, path, query_params, headers>>

-------------------------------------------------------------------------------
(* BuildRequest *)

\* Mutant: every parameter is introduced by a question mark.
QueryMarked ==
  FlattenSeq([i \in DOMAIN query_params |->
    <<"?", query_params[i][1], "=">> \o query_params[i][2]])

Query ==
  FlattenSeq([i \in DOMAIN query_params |->
    <<IF i = 1 THEN "?" ELSE "&", query_params[i][1], "=">> \o query_params[i][2]])

\* The lines of the map, whose order no property tells apart.
HeaderLines ==
  LET names == SetToSeq(DOMAIN headers) IN
    FlattenSeq([i \in DOMAIN names |-> <<names[i], ": ">> \o headers[names[i]] \o <<CRLF>>])

\* Mutant: the length is written whenever there is content to count.
ContentLineIfAny ==
  IF content > 0 THEN <<ContentLength, ": ", ToString(content), CRLF>> ELSE <<>>

ContentLine ==
  IF content_type = "COMPLETE" THEN <<ContentLength, ": ", ToString(content), CRLF>> ELSE <<>>

\* An empty method or path ends it early, and leaves `error` as it was.
BuildRequest ==
  IF method = <<>> THEN <<>>
  ELSE IF path = <<>> THEN method
  ELSE method \o <<" ">> \o path \o Query \o <<" ", "HTTP/1.1", CRLF>>
         \o HeaderLines \o ContentLine \o <<CRLF>>

\* HttpStream::Run(): the request has been moved into the stream and no setter
\* reaches it any more.
Build ==
  /\ built' = TRUE
  /\ head' = BuildRequest
  /\ UNCHANGED fields

\* What the stream writes after the head (WriteRequestCallback).
ContentWritten == IF content_type = "COMPLETE" THEN content ELSE 0

-------------------------------------------------------------------------------
Init ==
  /\ method = <<>> /\ path = <<>>
  /\ query_params = <<>> /\ headers = [n \in {} |-> <<>>]
  /\ content_type = "NONE" /\ content = 0
  /\ built = FALSE /\ head = <<>>

Set ==
  \/ \E m \in Methods : SetMethod(m)
  \/ \E p \in Paths : SetPath(p)
  \/ \E n \in Names, v \in Values : AddQueryParam(n, v) \/ AddHeader(n, v)
  \/ \E c \in 0 .. MaxContent : SetContent(c)

Next ==
  /\ ~built
  /\ \/ Set /\ UNCHANGED <<built, head>>
     \/ Build

Spec == Init /\ [][Next]_vars

-------------------------------------------------------------------------------
(* How a server reads a request head *)

\* A reader has the parts that a separator has ended, and the part that it reads.
NoPart == [parts |-> <<>>, part |-> <<>>]

ReadToken(reader, token, separator) ==
  IF token = separator
  THEN [parts |-> Append(reader.parts, reader.part), part |-> <<>>]
  ELSE [reader EXCEPT !.part = Append(@, token)]

Read(text, separator) ==
  LET reader[i \in 0 .. Len(text)] ==
        IF i = 0 THEN NoPart ELSE ReadToken(reader[i - 1], text[i], separator)
  IN reader[Len(text)]

\* The parts of text between the occurrences of a separator.
Split(text, separator) ==
  LET reader == Read(text, separator) IN Append(reader.parts, reader.part)

\* The text before the first occurrence of a separator, and the text after it.
Cut(text, separator) ==
  LET i == SelectInSeq(text, LAMBDA t : t = separator)
  IN <<SubSeq(text, 1, i - 1), SubSeq(text, i + 1, Len(text))>>

Lines == Split(head, CRLF)
RequestLine == Split(Lines[1], " ")

\* The header lines as <<name, value>>, up to the empty line.
HeadersRead ==
  LET last == SelectInSeq(Lines, LAMBDA l : l = <<>>)
  IN {Cut(Lines[k], ": ") : k \in 2 .. last - 1}

ParamsRead ==
  LET target == RequestLine[2]
      params == Split(Cut(target, "?")[2], "&")
  IN IF "?" \notin ToSet(target) THEN <<>> ELSE [k \in DOMAIN params |-> Cut(params[k], "=")]

-------------------------------------------------------------------------------
(* Properties *)

\* Text that means itself within a request target.
Plain(text) == ToSet(text) \cap {" ", "?", "&", "=", CRLF} = {}

\* BuildRequest escapes nothing and skips nothing: this is what it takes.
WellFormed ==
  /\ method # <<>> /\ ToSet(method) \cap {" ", CRLF} = {}
  /\ path # <<>> /\ Plain(path)
  /\ \A i \in DOMAIN query_params : Plain(<<query_params[i][1]>>) /\ Plain(query_params[i][2])
  /\ \A n \in DOMAIN headers : n \notin {": ", CRLF} /\ CRLF \notin ToSet(headers[n])

\* A server reads from the head the request that the setters have put together:
\* method, path, the parameters in their order, each header once, and nothing
\* more (request_builder.h:18-46).
RoundTrip ==
  built /\ WellFormed =>
    /\ RequestLine[1] = method
    /\ Cut(Append(RequestLine[2], "?"), "?")[1] = path
    /\ ParamsRead = [i \in DOMAIN query_params |-> <<<<query_params[i][1]>>, query_params[i][2]>>]
    /\ {h \in HeadersRead : h[1] # <<ContentLength>>}
         = {<<<<n>>, headers[n]>> : n \in DOMAIN headers \ {ContentLength}}
    /\ SubSeq(Lines, Len(Lines) - 1, Len(Lines)) = <<<<>>, <<>>>>

\* The builder and the stream agree on the content: the head announces as many
\* bytes as WriteRequestCallback writes after it (http_stream.h:148-159), unless
\* the application has added a content-length of its own.
AnnouncedIsWritten ==
  built /\ WellFormed /\ ContentLength \notin DOMAIN headers =>
    LET announced == {h[2] : h \in {h \in HeadersRead : h[1] = <<ContentLength>>}}
    IN IF content_type = "NONE" THEN announced = {} /\ ContentWritten = 0
                                ELSE announced = {<<ToString(ContentWritten)>>}
===============================================================================
