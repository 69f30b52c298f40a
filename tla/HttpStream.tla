------------------------------ MODULE HttpStream ------------------------------
(***************************************************************************)
(* The control of one HttpStream (src/src/http_stream.h): its asynchronous *)
(* operations, their completion handlers on the io_service threads, the    *)
(* timer, the socket, the completion callback and the references that keep *)
(* the object alive.  What the peer answers is nondeterministic here: each *)
(* handler may find the bytes it parses complete, incomplete or malformed. *)
(*                                                                         *)
(* A thread runs one handler at a time.  The completion path               *)
(* (ErrorCallback, FinishedCallback), ResolveCallback and ConnectCallback  *)
(* take several steps, so that handlers which no strand serialises         *)
(* interleave; every other handler body is one step, since the strand      *)
(* excludes the rest.                                                      *)
(***************************************************************************)
EXTENDS Naturals

CONSTANTS
  Threads,       \* the threads that call io_service::run()
  MaxWaits,      \* bound: the TimeoutCallbacks that are queued when a body read starts
  NDEBUG         \* are the assert()s compiled out?

ASSUME ConstantsAssumption ==
  /\ Threads # {}
  /\ MaxWaits \in Nat
  /\ NDEBUG \in BOOLEAN

VARIABLES
  callback,      \* is callback_ still set?
  delivered,     \* how often it has been invoked
  outcomes,      \* the outcomes it has been invoked with
  late,          \* history: was the lookup still outstanding when it was invoked?
  ops,           \* per asynchronous operation: not started, pending, or its result
  socket,        \* socket_, as the kernel sees it
  armed,         \* is a wait pending on timer_?
  expired,       \* expired waits whose TimeoutCallback has yet to run
  aborted,       \* cancelled waits whose TimeoutCallback has yet to run
  job,           \* per thread: the handler it runs
  pc,            \* per thread: where in that handler it is
  verdict,       \* per thread: the outcome its completion path delivers
  user,          \* the application thread: in Run(), in Cancel(), or in neither
  owner,         \* does the application hold a shared_ptr to the stream?
  destroyed,     \* has ~HttpStream run?
  fault          \* what has killed the process, if anything has

answerVars == <<callback, delivered, outcomes, late>>
timerVars  == <<armed, expired, aborted>>
threadVars == <<job, pc, verdict>>
lifeVars   == <<user, owner, destroyed>>
vars == <<answerVars, ops, socket, timerVars, threadVars, lifeVars, fault>>

-------------------------------------------------------------------------------
(* Operations and handlers *)

Writes     == {"writeRequest", "writeContent"}
ReadUntils == {"readStatusLine", "readHeaders", "readChunkSize", "readCrlf", "readLastCrlf"}
ReadToEofs == {"readContent", "readChunk"}
Reads      == ReadUntils \cup ReadToEofs
BodyReads  == Reads \ {"readStatusLine", "readHeaders"}
SocketOps  == Writes \cup Reads \cup {"connect"}
Ops        == SocketOps \cup {"resolve"}

\* Mutant: the reads are not wrapped in strand_.
StrandedWithoutReads == Writes \cup {"timeout"}

\* Handlers wrapped in strand_, of which at most one runs at a time.
Stranded == Writes \cup Reads \cup {"timeout"}

\* Handlers bound to a raw `this` instead of shared_from_this().
Borrowed == {"readHeaders"}

Results == {"none", "pending", "ok", "eof", "error"}
Sockets == {"closed", "connecting", "connected", "dead"}
Labels  == {"idle", "settle", "close", "shutdown", "invoke", "clear",
            "open", "write", "read", "return"}
Faults  == {"none", "assert", "exception", "emptyCall", "dangling"}

\* A thread that is neither in the middle of a handler nor kept out by the
\* strand picks up handler h and leaves it at `label`.
Enter(t, h, label) ==
  /\ job[t] = "none"
  /\ h \in Stranded => \A s \in Threads : job[s] \notin Stranded
  /\ job' = [job EXCEPT ![t] = h]
  /\ pc' = [pc EXCEPT ![t] = label]

\* From one step to the next inside a handler.
Goto(t, from, to) ==
  /\ pc[t] = from
  /\ pc' = [pc EXCEPT ![t] = to]
  /\ UNCHANGED <<job, verdict>>

-------------------------------------------------------------------------------
(* The timer: expires_from_now() and cancel() turn a pending wait into an      *)
(* aborted one; a wait that has already expired they cannot take back.         *)

Abort == aborted' = IF armed THEN aborted + 1 ELSE aborted

\* Mutant: expires_from_now() without the async_wait() that must follow it.
StartTimerWithoutWait == armed' = FALSE /\ Abort /\ UNCHANGED expired

StartTimer == armed' = TRUE /\ Abort /\ UNCHANGED expired

CancelTimer == armed' = FALSE /\ Abort /\ UNCHANGED expired

\* StartTimer puts a new wait in the place of one that is pending.
Restart == armed /\ StartTimer

-------------------------------------------------------------------------------
(* Socket operations *)

\* An operation started on a closed socket fails at once, except that a
\* read_until whose delimiter is already in buffer_ and a write of empty
\* content succeed.
Initiate(o, op) ==
  LET results == IF socket # "closed" THEN {"pending"}
                 ELSE IF op \in ReadUntils \cup {"writeContent"} THEN {"ok", "error"}
                 ELSE {"error"}
  IN {[o EXCEPT ![op] = r] : r \in results}

Taken(op) == [ops EXCEPT ![op] = "none"]

\* close() aborts what is pending.  A connect that has completed and whose
\* handler has yet to run sees the closed socket and reports operation_aborted.
AbortedOps ==
  [op \in Ops |-> IF \/ op \in SocketOps /\ ops[op] = "pending"
                     \/ op = "connect" /\ ops[op] # "none"
                  THEN "error" ELSE ops[op]]

\* CloseSocket past its is_open() test: shutdown(), assert, close(), assert.
\* shutdown() fails on a connection that is gone, and with ENOTCONN on some
\* systems on one that is not yet there.
ShutdownAndClose ==
  /\ socket' = "closed"
  /\ ops' = AbortedOps
  /\ fault' \in (IF NDEBUG \/ socket \in {"connecting", "connected"} THEN {"none"} ELSE {})
                  \cup (IF ~NDEBUG /\ socket # "connected" THEN {"assert"} ELSE {})

-------------------------------------------------------------------------------
(* References.  Each queued wait, each outstanding operation and each running  *)
(* handler holds a shared_ptr to the stream, the borrowed ones excepted.       *)

\* Mutant: TimeoutCallback is bound to a raw `this`, too.
QueuedWithoutWaits == \E op \in Ops \ Borrowed : ops[op] # "none"

Queued == \/ armed \/ expired > 0 \/ aborted > 0
          \/ \E op \in Ops \ Borrowed : ops[op] # "none"

Running(S) == \E t \in S : job[t] \notin Borrowed \cup {"none"}

\* ~HttpStream
Destroy ==
  /\ destroyed' = TRUE
  /\ IF socket = "closed" THEN UNCHANGED <<socket, ops, fault>> ELSE ShutdownAndClose

-------------------------------------------------------------------------------
(* The application *)

\* Run() builds the request and starts the lookup ...
Run ==
  /\ user = "new"
  /\ user' = "running"
  /\ ops' = [ops EXCEPT !["resolve"] = "pending"]
  /\ UNCHANGED <<answerVars, socket, timerVars, threadVars, owner, destroyed, fault>>

\* ... and only then starts the timer: ResolveCallback may already have run.
RunStartTimer ==
  /\ user = "running"
  /\ user' = "idle"
  /\ StartTimer
  /\ UNCHANGED <<answerVars, ops, socket, threadVars, owner, destroyed, fault>>

\* Cancel(), called on the shared_ptr or through a watcher's weak_ptr, which it
\* locks: the test of is_open() and what follows it are two steps.
Cancel ==
  /\ user = "idle" /\ ~destroyed /\ socket # "closed"
  /\ user' = "cancelling"
  /\ UNCHANGED <<answerVars, ops, socket, timerVars, threadVars, owner, destroyed, fault>>

CancelClose ==
  /\ user = "cancelling"
  /\ user' = "idle"
  /\ ShutdownAndClose
  /\ destroyed' = ~(owner \/ Queued \/ Running(Threads))
  /\ UNCHANGED <<answerVars, timerVars, threadVars, owner>>

\* The application gives up its shared_ptr; ~HttpStream runs if it was the last.
DropOwner ==
  /\ user = "idle" /\ owner
  /\ owner' = FALSE
  /\ IF Queued \/ Running(Threads)
     THEN UNCHANGED <<destroyed, socket, ops, fault>> ELSE Destroy
  /\ UNCHANGED <<answerVars, timerVars, threadVars, user>>

-------------------------------------------------------------------------------
(* The resolver, the network and the clock *)

Resolved ==
  /\ ops["resolve"] = "pending"
  /\ \E r \in {"ok", "error"} : ops' = [ops EXCEPT !["resolve"] = r]
  /\ UNCHANGED <<answerVars, socket, timerVars, threadVars, lifeVars, fault>>

\* How an operation on an open socket can end, by itself.  async_read on a
\* streambuf has no completion condition: only the end of the stream or an
\* error ends it.
Endings(op) == IF op \in ReadToEofs THEN {"eof", "error"}
               ELSE IF op \in ReadUntils THEN {"ok", "eof", "error"} ELSE {"ok", "error"}

Complete(op) ==
  /\ ops[op] = "pending"
  /\ \E r \in Endings(op) :
       /\ ops' = [ops EXCEPT ![op] = r]
       /\ socket' = IF r = "error" THEN "dead"
                    ELSE IF op = "connect" THEN "connected" ELSE socket
  /\ UNCHANGED <<answerVars, timerVars, threadVars, lifeVars, fault>>

Expire ==
  /\ armed
  /\ armed' = FALSE
  /\ expired' = expired + 1
  /\ UNCHANGED <<answerVars, ops, socket, aborted, threadVars, lifeVars, fault>>

-------------------------------------------------------------------------------
(* Handlers: what each does with its operation's result *)

\* The handler of op runs with one of these results and ends on the completion
\* path: ErrorCallback (outcome "error") or FinishedCallback (outcome "ok").
Settle(t, op, results, outcome) ==
  /\ ops[op] \in results
  /\ Enter(t, op, "settle")
  /\ verdict' = [verdict EXCEPT ![t] = outcome]
  /\ ops' = Taken(op)
  /\ UNCHANGED <<answerVars, socket, timerVars, lifeVars, fault>>

\* The handler of op runs with one of these results and starts the body read
\* `next` under a new timer: AsyncReadContent, AsyncReadChunkSize,
\* AsyncReadChunkedContent or AsyncReadEmptyCrlf.  A body may take any number of them.
AsyncRead(t, op, results, next) ==
  /\ ops[op] \in results
  /\ expired + aborted < MaxWaits
  /\ Enter(t, op, "return")
  /\ StartTimer
  /\ ops' \in Initiate(Taken(op), next)
  /\ UNCHANGED <<answerVars, socket, verdict, lifeVars, fault>>

\* The handler of op runs with result "ok" and starts `next`, leaving the timer.
AndThen(t, op, next) ==
  /\ ops[op] = "ok"
  /\ Enter(t, op, "return")
  /\ ops' \in Initiate(Taken(op), next)
  /\ UNCHANGED <<answerVars, socket, timerVars, verdict, lifeVars, fault>>

\* The handler of op runs with result "ok" and starts nothing.
Nothing(t, op) ==
  /\ ops[op] = "ok"
  /\ Enter(t, op, "return")
  /\ ops' = Taken(op)
  /\ UNCHANGED <<answerVars, socket, timerVars, verdict, lifeVars, fault>>

\* ResolveCallback restarts the timer, then connects, which opens the socket.
ResolveOk(t) ==
  /\ ops["resolve"] = "ok"
  /\ Enter(t, "resolve", "open")
  /\ StartTimer
  /\ ops' = Taken("resolve")
  /\ UNCHANGED <<answerVars, socket, verdict, lifeVars, fault>>

ResolveOpen(t) ==
  /\ Goto(t, "open", "return")
  /\ socket' = "connecting"
  /\ ops' = [ops EXCEPT !["connect"] = "pending"]
  /\ UNCHANGED <<answerVars, timerVars, lifeVars, fault>>

ResolveCallback(t) ==
  \/ Settle(t, "resolve", {"error"}, "error")
  \/ ResolveOk(t)
  \/ ResolveOpen(t)

\* ConnectCallback restarts the timer, starts the write, starts the read.
ConnectOk(t) ==
  /\ ops["connect"] = "ok"
  /\ Enter(t, "connect", "write")
  /\ StartTimer
  /\ ops' = Taken("connect")
  /\ UNCHANGED <<answerVars, socket, verdict, lifeVars, fault>>

\* Mutant: the content is written without waiting for the request head.
ConnectWriteBoth(t) ==
  /\ Goto(t, "write", "read")
  /\ ops' \in UNION {Initiate(o, "writeContent") : o \in Initiate(ops, "writeRequest")}
  /\ UNCHANGED <<answerVars, socket, timerVars, lifeVars, fault>>

ConnectWrite(t) ==
  /\ Goto(t, "write", "read")
  /\ ops' \in Initiate(ops, "writeRequest")
  /\ UNCHANGED <<answerVars, socket, timerVars, lifeVars, fault>>

ConnectRead(t) ==
  /\ Goto(t, "read", "return")
  /\ ops' \in Initiate(ops, "readStatusLine")
  /\ UNCHANGED <<answerVars, socket, timerVars, lifeVars, fault>>

ConnectCallback(t) ==
  \/ Settle(t, "connect", {"error"}, "error")
  \/ ConnectOk(t)
  \/ ConnectWrite(t)
  \/ ConnectRead(t)

WriteRequestCallback(t) ==
  \/ Settle(t, "writeRequest", {"error"}, "error")
  \/ Nothing(t, "writeRequest")                     \* ContentType::NONE
  \/ AndThen(t, "writeRequest", "writeContent")     \* ContentType::COMPLETE

WriteRequestContentCallback(t) ==
  \/ Settle(t, "writeContent", {"error"}, "error")
  \/ Nothing(t, "writeContent")

ReadStatusLineCallback(t) ==
  \/ Settle(t, "readStatusLine", {"ok", "eof", "error"}, "error")
  \/ AndThen(t, "readStatusLine", "readHeaders")

\* std::stoull throws on a content-length that is no number, out of io_service::run().
HeadersThrow(t) ==
  /\ ops["readHeaders"] = "ok"
  /\ Enter(t, "readHeaders", "return")
  /\ fault' = "exception"
  /\ ops' = Taken("readHeaders")
  /\ UNCHANGED <<answerVars, socket, timerVars, verdict, lifeVars>>

ReadHeadersCallback(t) ==
  \/ Settle(t, "readHeaders", {"ok", "eof", "error"}, "error")
  \/ Settle(t, "readHeaders", {"ok"}, "ok")
  \/ HeadersThrow(t)
  \/ \E next \in {"readContent", "readChunkSize"} : AsyncRead(t, "readHeaders", {"ok"}, next)

\* At the end of the stream the content is complete or it is not.
ReadContentCallback(t) ==
  \/ Settle(t, "readContent", {"eof", "error"}, "error")
  \/ Settle(t, "readContent", {"eof"}, "ok")

\* At "eof" the line is incomplete, and parsing it fails.
ReadChunkSizeCallback(t) ==
  \/ Settle(t, "readChunkSize", {"ok", "eof", "error"}, "error")
  \/ \E next \in {"readLastCrlf", "readChunk", "readCrlf"} :
       AsyncRead(t, "readChunkSize", {"ok"}, next)

ReadChunkedContentCallback(t) ==
  \/ Settle(t, "readChunk", {"eof", "error"}, "error")
  \/ \E next \in {"readChunk", "readCrlf"} : AsyncRead(t, "readChunk", {"eof"}, next)

\* Mutant: last_chunk is not looked at.
ReadEmptyCrlfCallbackLast(t) ==
  \/ \E op \in {"readCrlf", "readLastCrlf"} : \E o \in {"ok", "error"} : Settle(t, op, {"ok"}, o)
  \/ AsyncRead(t, "readCrlf", {"ok"}, "readChunkSize")

ReadEmptyCrlfCallback(t) ==
  \/ \E op \in {"readCrlf", "readLastCrlf"} : Settle(t, op, {"ok", "eof", "error"}, "error")
  \/ Settle(t, "readLastCrlf", {"ok"}, "ok")
  \/ AsyncRead(t, "readCrlf", {"ok"}, "readChunkSize")

\* A cancelled wait does nothing; an expired one is an error.
TimeoutCallback(t) ==
  /\ \/ /\ aborted > 0
        /\ aborted' = aborted - 1
        /\ Enter(t, "timeout", "return")
        /\ UNCHANGED <<expired, verdict>>
     \/ /\ expired > 0
        /\ expired' = expired - 1
        /\ Enter(t, "timeout", "settle")
        /\ verdict' = [verdict EXCEPT ![t] = "error"]
        /\ UNCHANGED aborted
  /\ UNCHANGED <<answerVars, ops, socket, armed, lifeVars, fault>>

-------------------------------------------------------------------------------
(* The completion path, the same five steps in ErrorCallback and in            *)
(* FinishedCallback                                                            *)

\* if (!callback_) return;  timer_.cancel();
CheckCallback(t) ==
  /\ IF callback THEN Goto(t, "settle", "close") /\ CancelTimer
                 ELSE Goto(t, "settle", "return") /\ UNCHANGED timerVars
  /\ UNCHANGED <<answerVars, ops, socket, lifeVars, fault>>

\* Mutant: the completion path forgets CloseSocket().
CheckOpenSkipped(t) ==
  /\ Goto(t, "close", "invoke")
  /\ UNCHANGED <<answerVars, ops, socket, timerVars, lifeVars, fault>>

\* CloseSocket: if (!socket_.is_open()) return;
CheckOpen(t) ==
  /\ Goto(t, "close", IF socket = "closed" THEN "invoke" ELSE "shutdown")
  /\ UNCHANGED <<answerVars, ops, socket, timerVars, lifeVars, fault>>

CloseSocket(t) ==
  /\ Goto(t, "shutdown", "invoke")
  /\ ShutdownAndClose
  /\ UNCHANGED <<answerVars, timerVars, lifeVars>>

\* callback_(error, response): calling an empty std::function throws.
InvokeCallback(t) ==
  /\ Goto(t, "invoke", "clear")
  /\ IF callback
     THEN /\ delivered' = delivered + 1
          /\ outcomes' = outcomes \cup {verdict[t]}
          /\ late' = (ops["resolve"] # "none")
          /\ UNCHANGED fault
     ELSE fault' = "emptyCall" /\ UNCHANGED <<delivered, outcomes, late>>
  /\ UNCHANGED <<callback, ops, socket, timerVars, lifeVars>>

\* Mutant: callback_ keeps its value.
ClearCallbackForgotten(t) ==
  /\ Goto(t, "clear", "return")
  /\ UNCHANGED <<answerVars, ops, socket, timerVars, lifeVars, fault>>

\* callback_ = nullptr;
ClearCallback(t) ==
  /\ Goto(t, "clear", "return")
  /\ callback' = FALSE
  /\ UNCHANGED <<delivered, outcomes, late, ops, socket, timerVars, lifeVars, fault>>

\* The handler returns and releases its shared_ptr, if it held one.
Return(t) ==
  /\ pc[t] = "return"
  /\ pc' = [pc EXCEPT ![t] = "idle"]
  /\ job' = [job EXCEPT ![t] = "none"]
  /\ IF \/ job[t] \in Borrowed \/ owner \/ user \in {"running", "cancelling"}
        \/ Queued \/ Running(Threads \ {t})
     THEN UNCHANGED <<destroyed, socket, ops, fault>> ELSE Destroy
  /\ verdict' = [verdict EXCEPT ![t] = "error"]
  /\ UNCHANGED <<answerVars, timerVars, user, owner>>

\* A borrowed handler starts, or goes on, after the stream was destroyed.
UseAfterFree(t) ==
  /\ destroyed
  /\ \/ job[t] \in Borrowed /\ pc[t] # "return"
     \/ job[t] = "none" /\ \E op \in Borrowed : ops[op] \notin {"none", "pending"}
  /\ fault' = "dangling"
  /\ UNCHANGED <<answerVars, ops, socket, timerVars, threadVars, lifeVars>>

-------------------------------------------------------------------------------
Init ==
  /\ callback = TRUE /\ delivered = 0 /\ outcomes = {} /\ late = FALSE
  /\ ops = [op \in Ops |-> "none"]
  /\ socket = "closed"
  /\ armed = FALSE /\ expired = 0 /\ aborted = 0
  /\ job = [t \in Threads |-> "none"]
  /\ pc = [t \in Threads |-> "idle"]
  /\ verdict = [t \in Threads |-> "error"]
  /\ user = "new" /\ owner = TRUE /\ destroyed = FALSE
  /\ fault = "none"

Handler(t) ==
  \/ ResolveCallback(t) \/ ConnectCallback(t)
  \/ WriteRequestCallback(t) \/ WriteRequestContentCallback(t)
  \/ ReadStatusLineCallback(t) \/ ReadHeadersCallback(t) \/ ReadContentCallback(t)
  \/ ReadChunkSizeCallback(t) \/ ReadChunkedContentCallback(t) \/ ReadEmptyCrlfCallback(t)
  \/ TimeoutCallback(t)

Completion(t) ==
  \/ CheckCallback(t) \/ CheckOpen(t) \/ CloseSocket(t) \/ InvokeCallback(t) \/ ClearCallback(t)

Step(t) ==
  \/ ~destroyed /\ (Handler(t) \/ Completion(t))
  \/ Return(t)
  \/ UseAfterFree(t)

Application == Run \/ RunStartTimer \/ Cancel \/ CancelClose \/ DropOwner

Environment == Resolved \/ Expire \/ \E op \in SocketOps : Complete(op)

\* Once something has killed the process nothing happens any more.
Next ==
  /\ fault = "none"
  /\ Application \/ Environment \/ \E t \in Threads : Step(t)

Spec == Init /\ [][Next]_vars

\* The threads run whatever is ready, Run() and Cancel() return, and the timer
\* goes off, unless it is restarted again and again.
Fairness ==
  /\ WF_vars(fault = "none" /\ \E t \in Threads : Step(t))
  /\ WF_vars(fault = "none" /\ RunStartTimer)
  /\ WF_vars(fault = "none" /\ CancelClose)
  /\ []<><<Restart>>_vars \/ WF_vars(fault = "none" /\ Expire)

FairSpec == Spec /\ Fairness

\* The peer may send nothing, or anything; but what it sends does not keep the
\* stream reading for ever.  A response in chunks without an end, each of them
\* within the five seconds of lines 264, 304 and 327, is followed without an end.
FiniteResponse == <>[](\A t \in Threads : job[t] \notin BodyReads)

FiniteSpec == FairSpec /\ FiniteResponse

\* The resolver answers, too.
DrainSpec ==
  /\ FiniteSpec
  /\ WF_vars(fault = "none" /\ Resolved)

-------------------------------------------------------------------------------
(* Safety *)

\* The values the fields of an HttpStream and its queued handlers can have.
Typed ==
  /\ callback \in BOOLEAN /\ delivered \in Nat /\ outcomes \subseteq {"ok", "error"}
  /\ late \in BOOLEAN
  /\ ops \in [Ops -> Results]
  /\ socket \in Sockets
  /\ armed \in BOOLEAN /\ expired \in Nat /\ aborted \in Nat
  /\ job \in [Threads -> Ops \cup {"timeout", "none"}]
  /\ pc \in [Threads -> Labels]
  /\ verdict \in [Threads -> {"ok", "error"}]
  /\ user \in {"new", "running", "idle", "cancelling"}
  /\ owner \in BOOLEAN /\ destroyed \in BOOLEAN
  /\ fault \in Faults

\* The reads a response may end with.
LastReads == {"readHeaders", "readContent", "readLastCrlf"}

\* A thread is idle when it runs no handler, connects in the handlers that do, and
\* calls FinishedCallback in those at whose end a response is complete.
Paths == \A t \in Threads :
  /\ pc[t] = "idle" <=> job[t] = "none"
  /\ pc[t] \in {"open", "write", "read"} => job[t] \in {"resolve", "connect"}
  /\ verdict[t] = "ok" => job[t] \in LastReads

\* The type invariant: the fields, and what a handler may be doing (lines 115-349).
TypeOK == Typed /\ Paths

\* With a single io_service thread the completion callback is invoked at most
\* once, and never when it has been cleared, although the timer, the write and
\* the read may all fail with their handlers already queued (lines 351-367).
AtMostOnce == delivered <= 1 /\ fault # "emptyCall"

\* Thread t is on the completion path and has yet to invoke the callback.
Settling(t) == pc[t] \in {"settle", "close", "shutdown", "invoke"}

\* Once Run() has returned, an unanswered request is always guarded: a wait is
\* pending or has expired unseen, or a handler is about to answer.  No path
\* through the handlers loses the timer (lines 107, 120, 130, 230-327, 369).
NeverUnguarded ==
  \/ user \in {"new", "running"} \/ delivered > 0 \/ fault # "none"
  \/ armed \/ expired > 0
  \/ \E t \in Threads : Settling(t)

\* A watcher reads an expired weak_ptr as "finished" (network_access.h:118):
\* whoever releases it, the stream is not destroyed before it has answered.
ExpiredMeansFinished == destroyed => delivered > 0

\* asio allows one composed read and one composed write at a time on a socket;
\* the handlers chain theirs so that no second one is started (lines 132-329).
OneReadOneWrite ==
  \A chain \in {Reads, Writes} : \A a, b \in chain :
    ops[a] = "pending" /\ ops[b] = "pending" => a = b

\* On any number of threads a response is never delivered together with an
\* error: FinishedCallback has no rival but the handlers of its own strand.
SuccessExclusive == "ok" \in outcomes => delivered = 1 /\ fault # "emptyCall"

\* ReadHeadersCallback, bound to a raw `this` (line 184), can meet a destroyed
\* stream, but only one that has reported an error before: while a request makes
\* progress, its timer keeps the stream alive for it.
DanglesOnlyAfterError == fault = "dangling" => outcomes = {"error"}

\* With a single io_service thread, a stream that has answered holds no connection,
\* so that nothing of it stays open when the application keeps it (lines 354-357,
\* 362-366), unless the lookup was still outstanding: the timer does not cancel it,
\* and ResolveCallback connects whatever has become of the request (lines 115-123).
SettledIsQuiet == ~callback => socket = "closed" \/ late

\* http_stream.h:383 asserts that shutdown() succeeds, also where the handler of a
\* socket operation reports the operation's failure.
AssertsHold == ~(fault = "assert" /\ \E t \in Threads : pc[t] = "invoke" /\ job[t] \in SocketOps)

-------------------------------------------------------------------------------
(* Liveness, and what a stream promises *)

\* A request that has been run is answered, whatever the resolver and the network
\* do not do, as long as the peer does not send chunks for ever (FiniteResponse).
Answered == user # "new" ~> delivered > 0 \/ fault # "none"

\* Nothing of the stream is left in the io_service.
Quiescent ==
  /\ ~armed /\ expired = 0 /\ aborted = 0
  /\ \A op \in Ops : ops[op] = "none"
  /\ \A t \in Threads : job[t] = "none"

\* In the end nothing of the stream keeps NetworkAccess::Wait() from returning,
\* unless a late lookup has opened the socket again: what it reads from then on
\* nothing limits, as the timer's error finds callback_ cleared (lines 352, 361).
Drained == <>(fault # "none") \/ <>[]Quiescent \/ <>(late /\ socket # "closed")

Promise == INSTANCE OneShotRequest WITH
  phase <- IF fault # "none" THEN "failed"
           ELSE IF user = "new" THEN "idle"
           ELSE IF delivered = 0 THEN "running" ELSE "answered",
  answers <- delivered,
  gone <- destroyed

\* The stream keeps the promise of OneShotRequest.
KeepsPromise == Promise!Spec

StageOf ==
  [readStatusLine |-> "statusLine", readHeaders |-> "headers", readContent |-> "content",
   readChunkSize |-> "chunkSize", readChunk |-> "chunk", readCrlf |-> "crlf",
   readLastCrlf |-> "lastCrlf"]

\* The read that is pending, or whose handler is queued.
ReadStage == IF \A op \in Reads : ops[op] = "none" THEN "none"
             ELSE StageOf[CHOOSE op \in Reads : ops[op] # "none"]

\* FinishedCallback is running, or has answered.
Succeeded == "ok" \in outcomes \/ \E t \in Threads : verdict[t] = "ok"

Chain == INSTANCE ReadChain WITH stage <- ReadStage, success <- Succeeded

\* Whatever interrupts them, the read handlers follow one chain, which
\* ResponseReader follows with the bytes; FinishedCallback is only ever called at
\* its proper ends, and nothing is read after it (lines 137-349).
FollowsChain == Chain!Spec
===============================================================================
