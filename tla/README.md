# A TLA+ verification of restpp

restpp is a small C++11 HTTP client on top of asio. A request is run by an
`HttpStream`, an object that keeps itself alive through the `shared_ptr`s bound
into its asynchronous operations, and that answers through one completion
callback. `NetworkAccess` owns the `io_service` and the threads that run it.

This directory holds the models of that program, the TLC runs that check them
and the TLAPS proofs about them. Paths such as `src/src/http_stream.h:356` are
relative to the parent of this directory.

* [Inventory](#inventory)
* [Modules and the code they model](#modules-and-the-code-they-model)
* [What each run checks](#what-each-run-checks)
* [Bounds](#bounds), [Fairness](#fairness)
* [Proofs](#proofs)
* [What the models show about the code](#what-the-models-show-about-the-code)
* [What is not modelled](#what-is-not-modelled)
* [Plan](#plan)
* [Running it](#running-it)

## Inventory

### HttpStream (`src/src/http_stream.h`)

*State.* `callback_` (set, or cleared after the answer), `socket_` (closed, open
and connecting, connected, or open on a dead connection), `timer_` (at most one
pending wait, and the `TimeoutCallback`s already queued by earlier ones),
`strand_`, `resolver_`, `request_buffer_`, `buffer_`, `response_`, and, for a
chunked body, the `ChunkInfo` passed from handler to handler. Not in any field,
but part of the state: which operations are outstanding, which handlers are
queued, and how many `shared_ptr`s to the stream there are. `state_` is never
assigned.

*Operations.* `Run` (build the request, start the lookup, start the timer),
`Cancel` (close the socket), the destructor (close the socket), and the handlers:
`ResolveCallback` -> `ConnectCallback`, which starts two chains on one socket:
`WriteRequestCallback` -> `WriteRequestContentCallback`, and
`ReadStatusLineCallback` -> `ReadHeadersCallback` -> either `ReadContentCallback`
(content-length) or the loop `ReadChunkSizeCallback` ->
`ReadChunkedContentCallback`* -> `ReadEmptyCrlfCallback` (chunked). Beside them
`TimeoutCallback`. All of them end in `ErrorCallback` or `FinishedCallback`:
test `callback_`, cancel the timer, close the socket, invoke, clear.

*Interactions.* Every asynchronous call goes to asio, and asio calls the handler
on one of the threads in `io_service::run()`. `strand_` serialises the write,
read and timer handlers; `ResolveCallback`, `ConnectCallback`, `Run`, `Cancel`
and the destructor are outside it. `ReadHeadersCallback` is bound to a raw
`this`, all the others to `shared_from_this()`.

*Hard.* Several failures (timer, write, read, cancel) can be queued at once and
race for one callback. A cancelled timer cannot take back a handler that is
already queued. Unstranded handlers interleave with stranded ones. `Run` starts
the timer after the lookup. One handler keeps no reference. Progress depends on
the timer alone.

*Correct when* the callback is invoked exactly once for each request that is
run; no request loses its timer before it is answered; the object outlives the
answer; there is never more than one read and one write on the socket; a success
excludes any error; after the answer nothing of the stream is left behind. Some of this
holds under conditions only, which the sections below name: a response that ends, one thread, a
lookup that does not outlast the answer.

### Response reading (`src/src/http_stream.h:168-349`, `src/src/utils.h`)

*State.* `buffer_`, the bytes left of the chunk, `response_.content_`, and which
read is pending. *Operations:* the six read handlers and the parsers
`GetStatusLine`, `GetHeader`, `GetChunkSize`, `ReadContentFromBuffer`,
`ReadChunkFromBuffer`, `ChunkInfo`. *Hard:* the segmentation of TCP decides how
much of a later element is in `buffer_` when an earlier one is parsed;
`async_read` has no completion condition; `eof` is tolerated by some handlers and
not by others. *Correct when* content and outcome are a function of the message
and not of its segments, a message that is cut short is never a success, and a
whole one is.

### NetworkAccess, HttpWatcher, HttpStreamState

`NetworkAccess` (`src/src/network_access.h`) keeps the `io_service`, the `work`
that keeps it running, and `thread_group_`. The constructor starts the threads;
`Wait`, `Stop` and the destructor give up the work and join them. `Run` was meant
to create a stream and return a watcher over a `weak_ptr` (`CreateHttpWatcher`,
line 114); in this commit it only creates a connector whose callback is empty, so
nothing of this class posts anything to the `io_service`. `HttpWatcher` is a pair of
functions, `state()` and `cancel()`; an expired `weak_ptr` reads as `FINISHED`.
*Hard:* the pool is joined without the mutex the class has, so calls from several
threads interleave inside `unique_ptr::reset`, the loop of joins and
`vector::clear`; the meaning of an expired pointer depends on the lifetime of the
stream. *Correct when* every call returns, no thread is joined twice, forgotten or
left running on a destroyed `io_service`, there is always a thread to run what is
posted, and `FINISHED` is never reported for a request that has yet to answer.

### Request, RequestBuilder, Response

`Request` (`src/src/request.h`) is a record filled in by setters;
`BuildRequest` (`src/src/request_builder.h`) writes its head into a buffer, and the
stream writes the content after it. `Response` is a record. *Hard:* the parts are
set in any order; separators depend on what came before; the announced length is
computed in one place and the content written in another. *Correct when* a server
reads back from the head what was put in, and the announced length is the written one.

### Parsers and `ci_less` (`src/src/utils.h`)

`GetStatusLine`, `GetHeader`, `GetChunkSize` take characters from a stream;
`ci_less` orders the names in the map of headers. *Hard:* `operator>>` skips white
space of any kind, line ends included, and takes signs; CR, LF, spaces and colons mean
different things in different places; two `read_until` calls share one buffer.
*Correct when* a proper line is taken apart at its separators and nothing after it is
touched, a cut line is never taken for a whole one, and `ci_less` is a strict weak
order that identifies exactly the names that differ in case only.

### HttpConnector, tests, vendored code

`HttpConnector` is a stub that hands over an unconnected socket. `src/tests` holds
a test of `HttpStream` against a mock server with a thread of its own (*hard:* both
threads may stop the server, at the same time), two smaller tests, and a node.js
server. `src/3rd/gmock-1.7.0` is vendored. asio is a git submodule and is not in the
tree.

## Modules and the code they model

| Module | Models | Kind |
| --- | --- | --- |
| `OneShotRequest` | what a stream promises to whoever runs a request | abstract specification |
| `HttpStream` | the control of `http_stream.h`: handlers, timer, socket, lifetime, on any number of threads | component |
| `MCHttpStream` | symmetry of the threads | for TLC |
| `HttpStreamProofs` | how a request is answered and guarded, one read and one write at a time, how a stream ends; `HttpStream` implements `ReadChain` and `OneShotRequest` | proofs |
| `ReadChain` | the order in which a response is read, and where it may be complete | abstract specification |
| `HttpWire` | the messages a server may send, and what of their bytes may arrive | environment |
| `ResponseReader` | what the read handlers and the parsers do with these bytes | component |
| `MCResponseReader` | the header lists to check with | for TLC |
| `DataLemmas` | least numbers, induction, recursion, sequences and their concatenation | lemmas |
| `ResponseReaderProofs` | types of `ResponseReader`; it implements `ReadChain` | proofs |
| `ResponseReaderContent` | what arrives is what was sent | proofs |
| `CaseOrder` | `ci_less` | operators |
| `HeadParser` | the three parsers, character by character, and the loop that fills the map of headers | component |
| `MCHeadParser` | the texts to check with | for TLC |
| `HeadParserProofs` | the parsers, and `ci_less` as the strict weak order `std::map` requires | proofs |
| `RequestHead` | the setters of a request, `BuildRequest`, and a server that reads the head | component |
| `MCRequestHead` | the texts to check with | for TLC |
| `RequestHeadProofs` | a server reads back the head of every request | proofs |
| `NetworkAccess` | the pool: constructor, `Wait`, `Stop`, destructor, threads | component |
| `NetworkAccessProofs` | theorems about `NetworkAccess` | proofs |
| `MockServer` | the two threads of the test of `HttpStream` | component |
| `MockServerProofs` | the server stays for its client, and stopping it twice in turn is harmless | proofs |

`HttpStream` and `ResponseReader` split the class along the line that makes both
small. `HttpStream` has all the concurrency and leaves it open what a handler
finds in the bytes (complete, incomplete, malformed). `ResponseReader` has the
bytes and no concurrency, which is right because the reads form one chain on the
strand; whatever ends the chain from outside is its action `Interrupt`.

That the two halves fit is `FollowsChain`: both are shown to implement `ReadChain`,
in which one read follows another (`Successors`), a whole response is possible at three
places only (`Final`), and everything may be abandoned. `HttpStream` maps its pending
or completed read to `stage`; that this is one read, and that nothing is read after
a success, is part of what is checked. `ResponseReader` maps its own `stage`. What
`HttpStream` leaves open inside a stage is thereby what `ResponseReader` decides.

### HttpStream

| Variable | In the code |
| --- | --- |
| `callback`, `delivered`, `outcomes` | whether `callback_` is set; how often it was invoked, with what |
| `late` | history: whether the lookup was still outstanding when it was invoked |
| `ops[op]` | an asynchronous operation: not started, pending, or the result its queued handler will be given |
| `socket` | `socket_`: `closed`, `connecting` (open), `connected`, `dead` (open, connection gone) |
| `armed`, `expired`, `aborted` | the wait on `timer_`; the `TimeoutCallback`s queued without and with `operation_aborted` |
| `job[t]`, `pc[t]`, `verdict[t]` | what thread t runs, where it is in it, and what it will answer |
| `user`, `owner` | the application: in `Run`, in `Cancel`, or in neither; does it hold a `shared_ptr`? |
| `destroyed`, `fault` | has `~HttpStream` run; an assert, an exception out of `io_service::run()`, an empty `std::function`, or a dangling `this` |

A handler is an action of its name. `Enter` is how a thread picks one up: never
two stranded ones at once. The completion path is five steps, as in the code,
because it runs on unstranded handlers too: `CheckCallback`, `CheckOpen`,
`CloseSocket`, `InvokeCallback`, `ClearCallback`. `ResolveCallback` and
`ConnectCallback` take a step per asio call. The other handlers are stranded and
their bodies make one step. `Return` releases the handler's reference and, if it
was the last, runs the destructor.

References are not counted by hand: a stream is referenced while the
application holds it, a wait or an operation with a `shared_ptr` is queued
(`Queued`) or a handler with one runs (`Running`). `Borrowed` is the set of
handlers bound to a raw `this`; that it has a member is line 184.

Three things the code does in parts are one step each. `expires_from_now()` and `async_wait()` of
`StartTimer` (lines 370 and 371) are one: between them no wait is pending, and the same handler puts that right.
Two threads that interleave them (`Run` and `ResolveCallback`) leave two waits with one deadline, which end together; the
model has one of them, and the second adds a `TimeoutCallback` that finds the request answered.
A connection attempt over all endpoints of a lookup (line 123) is one operation, since its handler is called once, and the
socket that asio opens and closes for each endpoint is in the one state `connecting`. And
`Run` builds the request and starts the lookup in one step (lines 91-105), as nothing else runs for the stream before.

What asio does is external: `Initiate` (a call on a closed socket fails at once,
unless the delimiter is already there or there is nothing to write), `AbortedOps`
(what `close()` does to pending operations, and to a connect whose handler is
still queued), `Complete`, `Endings`, `Resolved`, `Expire`, `Abort`.

Reads of `callback_` and of `socket_` on two threads are data races. Each access
is atomic in the model, and the accesses interleave in every order; what a torn
`std::function` would do is left out.

### ResponseReader

A token is one byte, except that a status line, a header line and the digits of
a chunk size are one token each, and their CRs and LFs are tokens. So a segment
can end between CR and LF and anywhere in a body, but not inside a header name,
inside a number, or between a name and its value: the parsers run only once the
delimiter after them is in the buffer, and so never see such a cut, but for
`GetChunkSize` after an `eof`, which then fails for want of the CRLF whatever the
digits are. `HttpWire!Wires` are the whole message, each of its prefixes, and the message with a
byte after it: what TCP delivers of a message that a correct server sends. Wires on which bytes are
missing in the middle are left out on purpose. The code reads any bytes as a size line that look like one
(see [below](#what-the-models-show-about-the-code), 21), and tokens, of which data is never a size, would hide
that. On the wires that there are, a size line is looked for where one stands or where nothing is, so that
`ValidSize` and `DigitsAt` decide as `GetChunkSize` does; which texts are size lines, byte by byte, is `HeadParser`.
`Framed` selects the messages that the properties speak of: a good status line,
headers with values, and exactly one of a numeric content-length and
`transfer-encoding: chunked`.

### HeadParser

The state is the text left in `buffer_` and what the parsers have stored. An action is
the call of one parser: `ReadStatusLine`, one turn of the header loop (`ReadHeader`),
`ReadChunkSize`. Characters are their codes. A loop over characters that
looks for one of them is `Find`; the character machine of `GetHeader` is the recursive
function `read` of `HeaderChar`, the body of its `switch`. `operator>>` and its `good()` are external and
modelled from the standard: leading white space is skipped, a sign and (with
`std::hex`) a `0x` are taken, and a number that runs into the end of the text leaves the
stream with `eofbit`, hence not good. The map of headers is a set of pairs in which
`Insert` does nothing when `SameKey` finds the name. `HasHead` is the condition under
which the second `read_until` completes.

### RequestHead

The variables are the fields of `Request`; one action per setter, in any order and
number, until `Build` takes the request away. A separator of the request syntax is a token
of its own, and so is a word without separators, so that a value with an `&` in it is
two words and a separator. `BuildRequest` writes tokens; `Split` and `Cut` read them
back as a server does: a reader has the parts that a separator has ended and the part that
it is reading (`ReadToken`).

`BuildRequest` escapes nothing. `WellFormed` is what it takes in return: a method and a
path, and no separator of the syntax in a place where it would be taken for one. It says so of
the method, the path, the names and values of parameters and headers; a value of a header may
hold anything but the end of a line, the path and the parameters nothing that parts a target.
`RoundTrip` and `AnnouncedIsWritten` are about such requests, and TLC's texts have both kinds.

### NetworkAccess and MockServer

`work_` is the pointer and `work` the object it owns; `thread_group` is the length of
the vector and `joinable` the set of its threads that have not been joined; `running`
are the threads inside `io_service::run()`. A call of `Wait` or `Stop` takes the steps
in which another call can get in between: `ResetRead` and `ResetDelete`
(`unique_ptr::reset` reads, clears, deletes), `BeginLoop` (the bounds of the range-`for`
are read once), `Join` per thread, `Clear`. What two calls do to each other is undefined
behaviour and is modelled by what a build does: deleting a second time, joining a
thread that is not joinable, going on in the memory of a cleared vector each end
the process with the `fault` named for it. Clearing the pointer and deleting its object are one step,
`ResetDelete`: what a second call can come between is the reading before it. `MockServer` has the main thread of the test,
which runs the client and then stops and joins the server, and the server's thread,
whose handlers may stop the server as well, with the same `reset`. `overlap` is a history variable: one
call of `Stop` has read the pointer while the other had it in hand.

## What each run checks

| Run | Question | States |
| --- | --- | --- |
| `stream_single` | one thread, a release build, any network, a resolver of any speed: `TypeOK`, `AtMostOnce`, `NeverUnguarded`, `ExpiredMeansFinished`, `OneReadOneWrite`, `DanglesOnlyAfterError`, `SettledIsQuiet`, `FollowsChain` (refinement of `ReadChain`) | 395,638 |
| `stream_pool` | two threads: what is left of these when handlers interleave, and `SuccessExclusive` | 1,594,721 |
| `stream_live` | `FiniteSpec`, a response that ends: `Answered`, and `KeepsPromise` (refinement of `OneShotRequest`, liveness included) | 395,638 |
| `stream_drain` | `DrainSpec`, the lookup ends as well, however late: `Drained` | 395,638 |
| `stream_assert` | violation: `AssertsHold`, the `assert(!error)` of line 383, when a connection is refused | |
| `reader_framing` | all messages, wires and segmentations: `TypeOK`, `Integrity`, `SuccessHasBody`, `ExactContent`, `FollowsChain` | 248,928 |
| `reader_prompt` | `PromptSpec`: `ClosedResponseSucceeds` | 154,736 |
| `head_parser` | all short lines as status line and as headers, all short texts as chunk size: `StatusLineRead`, `HeadersRead`, `ChunkSizeRead` | 116,598 |
| `request_head` | all small requests, in every order of setters: `RoundTrip`, `AnnouncedIsWritten` | 33,024 |
| `network_access` | two application threads call what they like: `TypeOK`, `FaultsNeedOverlap`, `ThreadsEndFirst`, `AlwaysServed`, and under `FairSpec` `CallsReturn` | 3,882 |
| `mock_server` | any client and network: `StaysForClient`, `FaultNeedsOverlap`, `TestEnds` | 685 |

What the properties say, and where they come from:

* `AtMostOnce`: the callback is invoked at most once and never after it has been
  cleared, on one thread. On two it is false, see below.
* `SuccessExclusive`: on any number of threads a success is the only answer.
* `NeverUnguarded`: between `Run` and the answer there is always a wait that is
  pending or has expired unseen, or a handler that will answer. This is the safety half
  of `Answered`, and the reason a silent peer cannot hang a request.
* `ExpiredMeansFinished`: the object is not destroyed before the answer, although
  `ReadHeadersCallback` holds no reference. The watcher depends on it.
* `DanglesOnlyAfterError`: the raw `this` can be used after the object is gone, but
  only after an error has been delivered.
* `OneReadOneWrite`: no second composed read, no second composed write.
* `SettledIsQuiet`: the socket is closed once `callback_` is cleared, unless the lookup was
  outstanding at the answer (`late`), in which case `ResolveCallback` may have opened it since.
* `Drained`: in the end nothing of the stream is left in the `io_service`, with the same exception.
* `Answered`, `KeepsPromise`: liveness, for a response that does not go on for ever, and the whole
  promise in one place.
* `AssertsHold`: where the handler of a socket operation reports its failure, the assert of line 383
  does not end the process. It does; the shortest counterexample is a refused connection:
  `Run`, the lookup succeeds, `ResolveCallback` connects, the attempt fails, and `ConnectCallback` goes through
  `ErrorCallback` to `CloseSocket`, on a socket that is open and not connected.
* `Integrity`: a response that is cut short is never a success.
* `ExactContent`, `SuccessHasBody`: no byte of the body is lost, repeated,
  reordered or confused with framing; on success the body is there.
* `ClosedResponseSucceeds`: a whole response on a connection that is then closed
  succeeds, however it is cut into segments.
* `FollowsChain`: the reads follow `ReadChain`; `FinishedCallback` is called at its
  proper ends only and nothing is read after it.
* `StatusLineRead`, `HeadersRead`, `ChunkSizeRead`: what each parser takes from a
  proper line, and that it leaves what follows.
  `ProperStatus`, `ProperLine`, `SizeLine` are the reference, stated on the line
  itself and not by its characters in turn. `ChunkSizeRead` is exact: what is accepted is a
  `SizeLine` (white space, a sign, `0x`, digits of either case, CRLF) whose number fits a `size_t`, what is
  refused is not, and the size is the number, modulo the range after a minus. The map of headers has the first value of each name,
  found under any case, up to the first line without a value.
* `RoundTrip`: a server reads from the head what the setters put in.
  `AnnouncedIsWritten`: the content-length is what the stream will write.
* `FaultsNeedOverlap`: calls on the pool are safe in every order if they do not overlap.
  `ThreadsEndFirst`: even if they do, no thread outlives the object or is destroyed
  unjoined. `AlwaysServed`: whatever number is asked for, there is a thread.
  `CallsReturn`: a call never waits for ever.
* `StaysForClient`: the mock server does not leave a client that is connected.
  `FaultNeedsOverlap`: `Stop` may be called by both threads, in either order; the work is deleted twice only
  if the calls overlap. `TestEnds`: whoever stops the server, the test ends, or the process dies of that.

Every run has `CHECK_DEADLOCK FALSE`: a request ends, a message is
parsed, a pool is destroyed, and a process that has died takes no further step. `Answered`,
`ClosedResponseSucceeds`, `CallsReturn` and `TestEnds` say where it may not stop.

Each property has a mutant in `PROJECT.json`, a plausible bug in one mapped
definition under which the property fails; they stand before the definitions they
replace, marked `Mutant:`.

## Bounds

* `Threads`: one, or two. At most one stranded handler runs at a time, and only
  one of `ResolveCallback` and `ConnectCallback` can be running or queued, so no
  more than two threads are ever in a handler that answers.
* `MaxWaits = 3`: how many `TimeoutCallback`s may be queued when a handler starts a body read.
  Every body read restarts the timer and thereby queues an aborted wait, of which nothing limits the number
  but the threads that run them. At the bound a handler that would start a read comes after
  one of these callbacks; it is put off and not prevented, since they are ready to run and take the strand for a moment each.
  The number of reads is not bounded: a response may have any number of chunks. Three leave room for
  the two waits that `ResolveCallback` and `ConnectCallback` have replaced, and for those of two body reads once they have run.
* `NDEBUG`: with the asserts in (`FALSE`) the process may die at a `CloseSocket`
  on a dead connection; without them it goes on. A debug build does what a release
  build does until an assert ends it, so the passing runs check the release build,
  where nothing is cut short; `stream_assert` runs the debug build and the theorems
  cover both.
* `MaxBody = 3`: bodies of nought to three bytes, in any division into chunks, so
  that a chunk can be inside one segment, span segments, and be followed by another.
* `HeaderLists`: each framing alone and after another header; both; neither;
  a content-length that is no number; a header without a value before the framing.
* `MCHeads`: every status line of up to five characters out of a letter, a digit, space, tab,
  CR and LF; every header line of up to four out of two letters that differ in case, space,
  colon, CR and LF; every pair of proper-looking lines of up to three. That is
  long enough for each character to come before and after each other one at every
  state of the parser, and for two names to be the same but for case.
* `MCChunkTexts`: every text of up to four characters out of `0`, `F`, `f`, `x`, `+`, `-`, space and CR,
  followed by CRLF and data, by LF and data, or by nothing. `MaxSize = 255` stands for
  the greatest `size_t`: three digits overflow it, in either case.
* `MaxParams = 2`, `MaxContent = 2`: a first and a later parameter; content of none, one
  and more bytes. Values are empty, plain, or with a separator in them.
* `Callers = {c1, c2}`, `MaxCalls = 3`: two calls that overlap and one after them;
  `Counts`: nought, one, two, and more than the maximum of four.

## Fairness

`FairSpec` has weak fairness of the threads taken together (`io_service::run()`
runs what is ready), of the second halves of `Run` and `Cancel` (they return), and of the clock. Fairness of the
threads together does not say which handler is run first. The clock is fair to a wait that
is left alone: `Expire` happens at last or the wait is replaced again and again (`Restart`), for a wait that is
restarted within five seconds each time never expires.

This is what a response in chunks does (lines 264, 304, 327): the code limits the time between two chunks and not
the response as a whole. From a peer that sends chunks for ever, each within five seconds, the request is never answered: under
`FairSpec` alone TLC finds that behaviour as a counterexample to `Answered`. `FiniteSpec` therefore adds
`FiniteResponse`: from some point on no handler of a body read runs. It is an assumption about the peer, the
only one; the peer may still send nothing, stop anywhere, or send garbage. `Answered` and `KeepsPromise` hold
under it, and nothing is assumed of the resolver and the network. `DrainSpec` adds that a lookup ends, at any time; it needs that
because nothing cancels `resolver_`. `PromptSpec` is a server that goes on sending before the timer
expires, which is the condition for a success at all.

In `NetworkAccess`, `FairSpec` has weak fairness of each caller inside a call and of each
thread of the pool: they are operating system threads. Nobody has to call anything.
In `MockServer`, both threads are scheduled; that the client's `io_service.run()`
returns is part of `Main`, and what entitles it to that is `Drained` of
`HttpStream`. The network owes nothing.

## Proofs

`HttpStreamProofs` proves, for every finite or infinite
non-empty set of threads, every `MaxWaits` and either kind of build
(`ConstantsAssumption`), where the statement says nothing else:

| Theorem | Statement | Argument |
| --- | --- | --- |
| `TypeCorrect` | `Spec => []TypeOK` | `Typed` is inductive, one lemma per kind of handler; `Paths` from `ChainInv` |
| `RequestIsGuarded` | `Spec => []NeverUnguarded` | `GuardInv` |
| `CallbackOnce` | `OneThread => (Spec => []AtMostOnce)` | `OnceInv` |
| `OneOperationEach` | `Spec => []OneReadOneWrite` | `ChainInv` |
| `ReadsInOrder` | `Spec => FollowsChain` | step simulation from `ChainInv` |
| `SuccessAlone` | `Spec => []SuccessExclusive` | `SoleInv` |
| `FinishedBeforeExpired` | `Spec => []ExpiredMeansFinished` | `KeepInv` |
| `DanglesAfterErrorOnly` | `Spec => []DanglesOnlyAfterError` | from `KeepInv`, `SoleInv`, `LifeInv` |
| `AnsweredIsClosed` | `OneThread => (Spec => []SettledIsQuiet)` | `QuietInv` |
| `StreamKeepsPromise` | `OneThread => (Spec => Promise!Init /\ [][Promise!Next]_(Promise!vars))` | step simulation from the invariants above |

`NeverUnguarded` is not inductive: `CheckCallback` cancels the timer, and the guard
then is the thread itself, so one has to know that the callback is set unless it
has been delivered (`ClearedWasDelivered`), and that a thread between handlers is
not on the completion path (`IdleThreads`). `AtMostOnce` needs that a thread past
`CheckCallback` finds the callback set and undelivered, and that, on one thread,
no other thread is there to change it: this is what `OneThread` (the set of
threads has one member) is for, and on two threads the statement is false.

`OneReadOneWrite` rests on the phases of a request. Looking up, connecting and reading
exclude each other (`OnePhase`): a pending or queued lookup or connect, a thread that is still
in one of their handlers, and anything that reads or has succeeded never coexist,
although no strand keeps these handlers apart; what does is that each of them starts the next one as its
last call or fails. `Serial` is the strand, `Paths` says which steps a handler may be at. The same
invariant gives the simulation of `ReadChain`.

`SuccessExclusive` needs that no other thread is on the completion path when
`FinishedCallback` is: by `OnePhase` the unstranded handlers are over, and by `Serial` the others wait.
So the success finds the callback set and undelivered (`SuccessFirst`), and whoever comes after it
finds the callback cleared or the strand taken (`SuccessLast`).

`ExpiredMeansFinished` rests on `GuardInv`: an unanswered stream has a wait, which
keeps a reference, or a settling handler, which has one of its own. The exception
is a settling `ReadHeadersCallback`, so `Kept` adds that this one, until it has reported
an error, is outlived by a wait (pending, expired or cancelled) that has a reference; the
strand keeps that wait's handler from running meanwhile, which is why one thread need not be assumed.

`SettledIsQuiet` is false on two threads (see below, 2), and `late` in it is the exception of the code (4). Of the
resolver nothing is assumed. `QuietInv` says that the handler that answers has closed the socket before it
invokes the callback, that the name is no longer looked up (`LookingUp`) from the answer on unless the
answer is `late` (both `ClosedAfterAnswer`), and that nothing is pending on a closed socket (`ClosedIsStill`). Only
`ResolveCallback` opens the socket, and without a lookup it cannot run.

Each invariant was checked with TLC before it was proved. The conclusion of
`StreamKeepsPromise` is the safety part of `KeepsPromise`; its liveness part is
left to TLC, as ENABLED and fairness are out of the prover's reach.

`ResponseReaderProofs` and `ResponseReaderContent` prove, for bodies of any length in any chunks, every set
of header lists, every wire and every segmentation (`WireAssumption`):

| Theorem | Statement | Argument |
| --- | --- | --- |
| `TypeCorrect` | `Spec => []TypeOK` | `TypeInv` |
| `BytesFollowChain` | `Spec => FollowsChain` | step simulation from `TypeInv`, `Control` |
| `NothingLost` | `Spec => []Integrity` | `ContentInv` |
| `BodyArrives` | `Spec => []SuccessHasBody` | `ContentInv` |
| `ContentIsBody` | `Spec => []ExactContent` | `ContentInv` |

`TypeInv` holds `buffer_` to be what has been read of the wire after what the handlers have consumed
(`Suffix`); segments disappear from the argument there. The rest is the layout of a
message: where in it each token stands, for any list of headers and any division into
chunks. What arrives is that layout as far as it arrives (`WireLayout`, `AsSent`). `ContentInv` says that what has become
content is what the layout has up to there (`ContentSoFar`), that each pending read begins where the layout has
it (`AtRead`), and that a success has read all of the message (`Complete`): `FinishedCallback` comes after the
last CRLF, or when as many bytes of content are there as were announced, and on a wire that is cut short these are not.
The theorems are about these wires. They say nothing of a response that has lost bytes in its middle, of which they would be
false (below, 21).

`NetworkAccessProofs` proves, for every set of callers, every argument of the constructor
and any number of calls (`CallersAssumption`):

| Theorem | Statement | Argument |
| --- | --- | --- |
| `PoolTypes` | `Spec => []TypeOK` | `PoolInv` |
| `SequentialCallsAreSafe` | `Spec => []FaultsNeedOverlap` | `PoolInv`, `Alone` |
| `ThreadsAreJoined` | `Spec => []ThreadsEndFirst` | `PoolInv`, `Built` and `Joined` |
| `PoolServes` | `Spec => []AlwaysServed` | `PoolInv`, `Worked` |

`PoolInv` is one induction for all of them. `Built` ties the threads that run to those
that are joinable and to the length of the vector, and keeps the destructor alone.
`Joined` says of overlapping loops that none has passed a thread that is not joined, and none ends
before the last one: this is why clearing the vector destroys no joinable thread
even when calls overlap. `Worked` says that no call reaches its loop while the work is
there. `Alone` says that, as long as nothing has overlapped, the one call under way has read
the present state: its pointer is the pointer, its bounds are the vector's, and what
is joinable is what it has yet to pass.

`HeadParserProofs` proves, for texts of any length (`TextsAssumption`):

| Theorem | Statement | Argument |
| --- | --- | --- |
| `CiLessIrreflexive`, `CiLessTransitive`, `SameKeyTransitive` | `ci_less` is a strict weak order | the position of the first difference |
| `SameKeyIsSameLetters` | `SameKey(s, t) <=> SameLetters(s, t)` | the same |
| `SizesAreRead` | `Spec => []ChunkSizeRead` | `SizeInv`, `SizeLineRead` |
| `StatusLinesAreRead` | `Spec => []StatusLineRead` | `StatusInv`, `StatusLine` |
| `HeadersAreRead` | `Spec => []HeadersRead` | `HeadersInv`, `HeaderLine` |

But for the loop over the headers the invariants are small, since each parser makes one step; the work is in the parsers. The `Find` lemmas
say what stands before and at the position that a loop stops at, and from them
`SizeLineRead` and `StatusLine` say what `GetChunkSize` and `GetStatusLine` take from a text, whatever
it is. `SizeLineRead` needs both directions: where the scan stops is a division of the size line if it is
accepted (`ScanGives`), and a text that can be divided as a size line can be divided only there (`SizeLineScan`), so that what
is refused is none. `HeaderLine` is an induction over the characters that `GetHeader` takes:
`ReadTo` says, for each prefix of the line, what the name and the value hold by then. `HeadersInv` says
that when the loop has taken k lines the map is `Mapped(input.lines, k)`, the lines that are the first of
their name among them, and the text is what follows the line k; `InsertNext` is the step of the map, `LinesLeft` that
of the text, and `FoundIsFirst` says what the map then answers for a name, under any case of it.

`RequestHeadProofs` proves, for any methods, paths, names and values made of words, any number of
parameters and headers and setters in any order (`RequestAssumption`):

| Theorem | Statement | Argument |
| --- | --- | --- |
| `RequestIsKept` | `Spec => []RequestInv` | the fields have their types, and a head that is built is `BuildRequest` of them |
| `RequestsAreRead` | `Spec => []RoundTrip` | `RequestInv`, `HeadFacts`, `TargetFacts` |
| `ContentIsAnnounced` | `Spec => []AnnouncedIsWritten` | `RequestInv`, `HeadFacts` |

`RequestAssumption` says that `std::to_string` writes digits and no separator, that names are single
words and that texts are sequences of words; it leaves open which, so that they may hold separators too. The invariant
is small, as no setter reaches a request that is being sent. The work is in
reading. `Has` is the state of a reader after a text, and there are four facts about it: a text without the separator
(`Bare`) extends the part; a separator ends it; any number of texts that each end in the
separator (`Ended`) are read back as parts, which is the lines of the head; and texts that a separator stands before
(`Marked`) are read back likewise, which is the parameters. All are inductions over the length,
or over the number of texts. `HeadFacts` reads the lines, the request line and the headers, in whatever order
`SetToSeq` puts the map's; `TargetFacts` reads the path and the parameters, with the case of no
parameter and so of no question mark.

`MockServerProofs` proves, without any assumption:

| Theorem | Statement | Argument |
| --- | --- | --- |
| `ServerStays` | `Spec => []StaysForClient` | `ServerInv` |
| `StopsTwice` | `Spec => []FaultNeedsOverlap` | `ServerInv` |

`StaysForClient` has to know that no operation has failed while the connection is whole (`Connected`), since
a failed one is what makes the server stop. `FaultNeedsOverlap` has to know that whoever still holds the pointer of a
deleted object has read it while the other had it in hand, and whoever comes later finds it
null (`Cleared`). The module has no constants and its run is exhaustive; the proof is there to say why.

`DataLemmas` has what these proofs need of data. The library's induction theorems take
operators as parameters, which the installed provers cannot instantiate; `Induction` and `Recursion` say the
same with sets and functions in their place, and are proved from the least element of a set of numbers.
With them, what `FlattenSeq` and the recursive functions of `HeadParser` compute is proved for every length.

Model-checked only: all liveness (`Answered`, `Drained`, `ClosedResponseSucceeds`, `CallsReturn`,
`TestEnds`, the fairness of `KeepsPromise`), which is out of the prover's reach. Every invariant that a
passing run checks, and every refinement as far as it is safety, is also a theorem.

## What the models show about the code

Most of what one would want of a single-threaded client holds, and is checked or
proved. The models also have the following behaviours of the code. Only the first
contradicts a statement in the repository, and it has a run.

1. `assert(!error)` after `shutdown()` (`http_stream.h:383`) fails on a socket that
   is open and not connected: when a connection is refused, a debug build
   aborts in `ConnectCallback` instead of reporting the error (`stream_assert`).
2. With two or more threads the callback can be invoked twice, or called after it
   has been cleared (`std::bad_function_call`), because `ResolveCallback` and
   `ConnectCallback` are not in the strand (lines 105, 122) and `callback_` is
   cleared after it is invoked (line 357). `SuccessExclusive` bounds the damage.
3. `ReadHeadersCallback` is bound to a raw `this` (line 184). After an error that
   releases the other references its queued handler uses a destroyed object.
4. The timer neither cancels the lookup nor is `callback_` looked at in
   `ResolveCallback`: a late lookup connects and sends the request after its error
   was reported, and the socket then stays open until the object is destroyed,
   because `ErrorCallback` returns at once. What is read on it then no timer limits. This is the
   `late` of `SettledIsQuiet` and `Drained`.
5. A wait that has expired and is queued fails a request that has progressed since
   (line 369).
6. `Cancel` before the socket is open does nothing, and during a connection
   attempt it is reported as an error of the attempt.
7. `async_read` without a completion condition (lines 232, 309) completes only when
   the connection ends: on a connection kept open, a body that is not in the first
   segments fails by the timer although all of it has arrived.
8. What a server sends after a body of announced length is appended to the
   content, or not, depending on the segments (lines 239-246); `SuccessHasBody`
   therefore says `IsPrefix` for them.
9. `std::stoull` (line 209) throws out of `io_service::run()` on a content-length
   that is no number.
10. A header with an empty value ends the header loop (line 205); what follows is
    taken for the body.
11. A response without any header never succeeds: its CRLFCRLF has lost its first
    half to the status line (lines 171, 183).
12. With both framings, content-length wins; the value `chunked` is compared with
    case; without either the body is dropped; chunk extensions and trailers fail.
13. `state_` is never assigned, so `HttpWatcher::running()` is false all the time.
14. `NetworkAccess::Run` drops the callback, and `BuildRequest` returns early on an
    empty method or path without setting its error: the stream then sends half a head.
15. Two calls of `Wait` or `Stop` that overlap can delete the work twice, join a thread
    twice (`std::system_error`) or iterate over a cleared vector: `mutex_`
    (`network_access.h:135`) is locked nowhere. A `std::thread` that cannot be started in the
    constructor terminates the process if one was started before. After `Wait` or `Stop`
    the object has no threads and is never given new ones.
16. `MockServer::Stop` runs on the test's thread and, when the client closes, on
    the server's: both can read `work_` before either has cleared it, and the work is deleted
    twice. `TestEnds` has that outcome as its alternative; `FaultNeedsOverlap` says that it takes this.
17. The map of the request's headers is case-sensitive and knows nothing of the
    length that the builder adds: a `Content-length` of the application's is sent beside it.
    Nothing is escaped in paths and parameters.
18. `status_message_` keeps the space before it; of a header that is repeated the first value
    is kept; white space, a sign and `0x` are let through before a chunk size, and `-1` is
    the greatest `size_t`.
19. `INVALID_HEADER_LINE` is never reported: the header loop runs on a buffer that holds a
    CRLFCRLF, and so always finds the end of a line.
20. Every chunk gives the peer another five seconds (lines 264, 304, 327) and nothing limits the
    response as a whole, neither in time nor in size: one in chunks without end is never answered, and
    keeps `NetworkAccess::Wait` from returning ([Fairness](#fairness)).
21. The CRLF that ends a chunk is checked, the size line is taken wherever `operator>>` finds digits after
    white space, line ends included. The body `4\r\n1\r\nx\r\n0\r\n\r\n` without its first `4` is read as
    a chunk of one byte and is a success with the content `x`. TCP does not lose bytes in the middle, so no wire
    of `ResponseReader` does; `ChunkSizeRead` has the lenience itself.

## What is not modelled

* The SSL variants: `CloseSocket` on `next_layer()` has the same control; there is
  no handshake in the code.
* Exceptions out of the user's callback, and allocation failures.
* `Run` called twice on a stream: nothing in the repository does.
* Torn reads and writes in data races, as said above.
* Strings too long for memory, status codes beyond `unsigned int` (`operator>>` then fails
  and the response is refused), locales other than "C", log output.
* `HttpConnector`, which connects nothing, and `StreambufToString`, which copies a buffer for
  the log.
* A pool that runs streams: no code of this commit hands a stream to a `NetworkAccess`. The
  stream is modelled on any number of threads of any `io_service`, and the pool without
  anything posted to it.
* Responses that have lost or changed bytes in their middle (21, above), and heads that are damaged other than by
  a cut, a bad status line, a bad content-length or an empty value, in `ResponseReader`; in `HeadParser` status line, header
  lines and size lines are arbitrary short texts.
* `test_request_builder.cc` (sets a method), `test_network_access.cc` (calls `Run` and `Wait`),
  `server.js`, `HttpStreamErrorCategory` (a table of messages), the build files.
* asio itself, beyond what `http_stream.h` and `network_access.h` rely on: its sources are not
  in the tree, and the definitions that stand for it are marked external.
* gmock and gtest, in `src/3rd`: a vendored test framework of about 46,000 lines, which is
  forty times the code of the repository. Lines of this directory count as code when one
  measures how much of the tree is modelled; of restpp's own files nearly every
  handler, parser and operation is.

## Plan

Done, in this order: `OneShotRequest`, `HttpStream` with its runs and proofs,
`HttpWire` with `ResponseReader`, its runs and proofs, `RequestHead`,
`CaseOrder`, `HeadParser` with its proofs, `ReadChain` with the two refinements,
`NetworkAccess` with its proofs, `MockServer`, the proofs of `RequestHead` and `MockServer`.

Left for when the code has it: a pool that runs streams, once `NetworkAccess::Run` creates one; it
would compose `NetworkAccess` and `HttpStream`, and its promise is `OneShotRequest` per request.

## Running it

    tlc -workers 2 -config stream_single.cfg HttpStream
    tlc -workers 2 -config stream_pool.cfg MCHttpStream
    tlc -workers 2 -config reader_framing.cfg MCResponseReader
    tlc -workers 2 -config head_parser.cfg MCHeadParser
    tlc -workers 2 -config network_access.cfg NetworkAccess
    tlapm HttpStreamProofs.tla
    tlapm NetworkAccessProofs.tla
    tlapm ResponseReaderContent.tla
    tlapm HeadParserProofs.tla
    tlapm RequestHeadProofs.tla
    tlapm MockServerProofs.tla

The other runs are in `PROJECT.json`, with the module and the configuration of each. Likewise
`DataLemmas` and `ResponseReaderProofs`, which the modules above extend, are proved by `tlapm` one by one.
