------------------------------- MODULE MockServer -------------------------------
(***************************************************************************)
(* The test of HttpStream (src/tests/test_http_stream.cc) and its server   *)
(* (src/tests/mocks/mock_server.h): the main thread runs the client to its *)
(* end, stops the server and joins its thread, on which the handlers of    *)
(* accept, read and write may stop the server themselves.                  *)
(***************************************************************************)

VARIABLES
  main,        \* where the test is; its Stop() is the steps reset, delete, stop
  server,      \* the server's thread: in run(), in Stop(), or ended
  accept, read, write,   \* per operation: none, pending, or its result
  conn,        \* the client's connection: none, open, closed, or broken
  work_,       \* per thread that calls Stop(): what reset() has read, or "unread"
  work,        \* the object behind work_: live, or deleted
  cleared,     \* is the pointer work_ null?
  stopped,     \* has io_service_ been stopped?
  overlap,     \* history: has one Stop() read work_ while the other had it in hand?
  fault        \* what has killed the process, if anything has

opVars == <<accept, read, write, conn>>
stopVars == <<work_, work, cleared, stopped, overlap>>
vars == <<main, server, opVars, stopVars, fault>>

Threads == {"main", "server"}

At(t) == IF t = "main" THEN main ELSE server

Goto(t, from, to) ==
  /\ At(t) = from
  /\ IF t = "main" THEN main' = to /\ UNCHANGED server ELSE server' = to /\ UNCHANGED main

-------------------------------------------------------------------------------
(* The client, on the main thread *)

Listen ==
  /\ Goto("main", "new", "client")
  /\ accept' = "pending"
  /\ UNCHANGED <<read, write, conn, stopVars, fault>>

Connect ==
  /\ main = "client" /\ conn = "none"
  /\ conn' = "open"
  /\ UNCHANGED <<main, server, accept, read, write, stopVars, fault>>

\* io_service.run() of the client has returned, with or without a connection.
ClientEnds ==
  /\ Goto("main", "client", "reset")
  /\ conn' = IF conn = "open" THEN "closed" ELSE conn
  /\ UNCHANGED <<accept, read, write, stopVars, fault>>

Break ==
  /\ conn = "open"
  /\ conn' = "broken"
  /\ UNCHANGED <<main, server, accept, read, write, stopVars, fault>>

-------------------------------------------------------------------------------
(* The server's operations and handlers.  async_read on a streambuf has no      *)
(* completion condition and ends with the connection.                           *)

AcceptEnds ==
  /\ accept = "pending"
  /\ accept' \in {"error"} \cup IF conn = "none" THEN {} ELSE {"ok"}
  /\ UNCHANGED <<main, server, read, write, conn, stopVars, fault>>

ReadEnds ==
  /\ read = "pending" /\ conn # "open"
  /\ read' = "error"
  /\ UNCHANGED <<main, server, accept, write, conn, stopVars, fault>>

WriteEnds ==
  /\ write = "pending"
  /\ write' = IF conn = "open" THEN "ok" ELSE "error"
  /\ UNCHANGED <<main, server, accept, read, conn, stopVars, fault>>

Dispatch(to) == ~stopped /\ Goto("server", "run", to)

AcceptCallback ==
  /\ \/ accept = "ok" /\ Dispatch("run") /\ read' = "pending" /\ write' = "pending"
     \/ accept = "error" /\ Dispatch("reset") /\ UNCHANGED <<read, write>>
  /\ accept' = "none"
  /\ UNCHANGED <<conn, stopVars, fault>>

ReadCallback ==
  /\ read = "error" /\ Dispatch("reset")
  /\ read' = "none"
  /\ UNCHANGED <<accept, write, conn, stopVars, fault>>

\* Mutant: the server stops when it has answered.
WriteCallbackStops ==
  /\ write \in {"ok", "error"} /\ Dispatch("reset")
  /\ write' = "none"
  /\ UNCHANGED <<accept, read, conn, stopVars, fault>>

WriteCallback ==
  /\ \/ write = "ok" /\ Dispatch("run")
     \/ write = "error" /\ Dispatch("reset")
  /\ write' = "none"
  /\ UNCHANGED <<accept, read, conn, stopVars, fault>>

\* run() returns when it is stopped, or has neither work nor operations.
RunReturns ==
  /\ stopped \/ (work = "deleted" /\ {accept, read, write} = {"none"})
  /\ Goto("server", "run", "ended")
  /\ UNCHANGED <<opVars, stopVars, fault>>

-------------------------------------------------------------------------------
(* Stop() on either thread: work_.reset() reads the pointer, then clears it and *)
(* deletes what it has read; then io_service_.stop().                           *)

ResetRead(t) ==
  /\ Goto(t, "reset", "delete")
  /\ work_' = [work_ EXCEPT ![t] = IF cleared THEN "null" ELSE "set"]
  /\ overlap' = (overlap \/ \E u \in Threads \ {t} : At(u) = "delete")
  /\ UNCHANGED <<opVars, work, cleared, stopped, fault>>

DeleteWork(t) ==
  /\ Goto(t, "delete", "stop")
  /\ work' = IF work_[t] = "set" THEN "deleted" ELSE work
  /\ fault' = IF work_[t] = "set" /\ work = "deleted" THEN "doubleDelete" ELSE fault
  /\ UNCHANGED <<opVars, work_, stopped, overlap>>

\* Mutant: the work is deleted and its pointer kept.
ResetDeleteKeepsPointer(t) == DeleteWork(t) /\ UNCHANGED cleared

ResetDelete(t) == DeleteWork(t) /\ cleared' = TRUE

After(t) == IF t = "main" THEN "join" ELSE "run"

\* Mutant: Stop() only gives up the work.
StopServiceForgotten(t) ==
  /\ Goto(t, "stop", After(t))
  /\ UNCHANGED <<opVars, stopVars, fault>>

StopService(t) ==
  /\ Goto(t, "stop", After(t))
  /\ stopped' = TRUE
  /\ UNCHANGED <<opVars, work_, work, cleared, overlap, fault>>

\* ~MockServer(): the members go after the thread has ended.
Join ==
  /\ server = "ended"
  /\ Goto("main", "join", "joined")
  /\ UNCHANGED <<opVars, stopVars, fault>>

-------------------------------------------------------------------------------
Init ==
  /\ main = "new" /\ server = "run"
  /\ accept = "none" /\ read = "none" /\ write = "none" /\ conn = "none"
  /\ work_ = [t \in Threads |-> "unread"] /\ work = "live" /\ cleared = FALSE
  /\ stopped = FALSE /\ overlap = FALSE
  /\ fault = "none"

Step(t) == ResetRead(t) \/ ResetDelete(t) \/ StopService(t)

Main == Listen \/ ClientEnds \/ Join \/ Step("main")
Server == AcceptCallback \/ ReadCallback \/ WriteCallback \/ RunReturns \/ Step("server")
Network == Connect \/ Break \/ AcceptEnds \/ ReadEnds \/ WriteEnds

Next == fault = "none" /\ (Main \/ Server \/ Network)

\* Both threads are scheduled; that the client ends is what HttpStream shows.
\* The network owes nothing.
Spec ==
  /\ Init /\ [][Next]_vars
  /\ WF_vars(fault = "none" /\ Main)
  /\ WF_vars(fault = "none" /\ Server)

-------------------------------------------------------------------------------
(* Properties *)

\* The server does not stop by itself under a client that it has accepted and
\* whose connection is whole, so that a test sees the client's behaviour and not
\* the server's (mock_server.h:33-67).
StaysForClient ==
  main = "client" /\ conn = "open" /\ read = "pending" => ~stopped /\ server = "run"

\* Stop() may be called again: a call that comes after the server's own, or before
\* it, deletes nothing twice.  Only two calls that overlap can (lines 69-72).
FaultNeedsOverlap == fault # "none" => overlap

\* A test ends, whether or not its client ever connects (lines 69-72), if the
\* two calls of Stop() do not delete the work twice.
TestEnds == <>(main = "joined" \/ fault # "none")
===============================================================================
