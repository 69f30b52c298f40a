--------------------------- MODULE HttpStreamProofs ---------------------------
(***************************************************************************)
(* Theorems about HttpStream, for every set of io_service threads, any     *)
(* number of queued waits and both values of NDEBUG: how a request is      *)
(* answered and guarded, how its operations follow one another, how it     *)
(* ends, and the two specifications that the stream implements.            *)
(***************************************************************************)
EXTENDS HttpStream, TLAPS

USE DEF Writes, ReadUntils, ReadToEofs, Reads, SocketOps, Ops, Borrowed,
        answerVars, timerVars, threadVars, lifeVars

-------------------------------------------------------------------------------
(* Type correctness *)

\* What every initiating function can make of the operations.
LEMMA InitiateType ==
  ASSUME NEW o \in [Ops -> Results], NEW op \in SocketOps
  PROVE  Initiate(o, op) \subseteq [Ops -> Results]
BY DEF Initiate, Results

\* CloseSocket leaves well-typed state, whatever shutdown() reports.
LEMMA ShutdownType ==
  ASSUME Typed, ShutdownAndClose
  PROVE  socket' \in Sockets /\ ops' \in [Ops -> Results] /\ fault' \in Faults
<1>1. socket' \in Sockets
  BY DEF ShutdownAndClose, Sockets
<1>2. ops' \in [Ops -> Results]
  BY DEF ShutdownAndClose, AbortedOps, Typed, Results
<1>3. fault' \in Faults
  BY DEF ShutdownAndClose, Faults
<1> QED BY <1>1, <1>2, <1>3

\* The destructor closes the socket or finds it closed.
LEMMA DestroyType ==
  ASSUME Typed, \/ UNCHANGED <<destroyed, socket, ops, fault>>
                 \/ Destroy
  PROVE  /\ destroyed' \in BOOLEAN /\ socket' \in Sockets
         /\ ops' \in [Ops -> Results] /\ fault' \in Faults
BY ShutdownType DEF Destroy, Typed

\* A handler that ends on the completion path is well typed.
LEMMA SettleType ==
  ASSUME Typed, NEW t \in Threads, NEW op \in Ops, NEW results,
         NEW outcome \in {"ok", "error"}, Settle(t, op, results, outcome)
  PROVE  Typed'
BY DEF Settle, Enter, Taken, Typed, Labels, Results

\* A handler that starts a body read is well typed.
LEMMA AsyncReadType ==
  ASSUME Typed, NEW t \in Threads, NEW op \in Ops, NEW results,
         NEW next \in SocketOps, AsyncRead(t, op, results, next)
  PROVE  Typed'
<1>1. ops' \in [Ops -> Results]
  <2>1. Taken(op) \in [Ops -> Results]
    BY DEF Taken, Typed, Results
  <2> QED BY <2>1, InitiateType DEF AsyncRead
<1>2. pc' \in [Threads -> Labels] /\ job' \in [Threads -> Ops \cup {"timeout", "none"}]
  BY DEF AsyncRead, Enter, Typed, Labels
<1>3. armed' \in BOOLEAN /\ expired' \in Nat /\ aborted' \in Nat
  BY DEF AsyncRead, StartTimer, Abort, Typed
<1> QED BY <1>1, <1>2, <1>3 DEF AsyncRead, Typed

\* So is one that starts the next operation and leaves the timer.
LEMMA AndThenType ==
  ASSUME Typed, NEW t \in Threads, NEW op \in Ops, NEW next \in SocketOps,
         AndThen(t, op, next)
  PROVE  Typed'
<1>1. Taken(op) \in [Ops -> Results]
  BY DEF Taken, Typed, Results
<1>2. ops' \in [Ops -> Results]
  BY <1>1, InitiateType DEF AndThen
<1> QED BY <1>2 DEF AndThen, Enter, Typed, Labels

\* So is one that starts nothing.
LEMMA NothingType ==
  ASSUME Typed, NEW t \in Threads, NEW op \in Ops, Nothing(t, op)
  PROVE  Typed'
BY DEF Nothing, Enter, Taken, Typed, Labels, Results

\* Every handler is well typed.
LEMMA HandlerType ==
  ASSUME Typed, NEW t \in Threads, Handler(t)
  PROVE  Typed'
<1>1. CASE ResolveCallback(t)
  <2>1. CASE ResolveOk(t)
    BY <2>1 DEF ResolveOk, Enter, StartTimer, Abort, Taken, Typed, Labels, Results
  <2>2. CASE ResolveOpen(t)
    BY <2>2 DEF ResolveOpen, Goto, Typed, Labels, Results, Sockets
  <2> QED BY <1>1, <2>1, <2>2, SettleType DEF ResolveCallback
<1>2. CASE ConnectCallback(t)
  <2>1. CASE ConnectOk(t)
    BY <2>1 DEF ConnectOk, Enter, StartTimer, Abort, Taken, Typed, Labels, Results
  <2>2. CASE ConnectWrite(t)
    <3>1. ops' \in [Ops -> Results]
      BY <2>2, InitiateType DEF ConnectWrite, Typed
    <3> QED BY <2>2, <3>1 DEF ConnectWrite, Goto, Typed, Labels
  <2>3. CASE ConnectRead(t)
    <3>1. ops' \in [Ops -> Results]
      BY <2>3, InitiateType DEF ConnectRead, Typed
    <3> QED BY <2>3, <3>1 DEF ConnectRead, Goto, Typed, Labels
  <2> QED BY <1>2, <2>1, <2>2, <2>3, SettleType DEF ConnectCallback
<1>3. CASE WriteRequestCallback(t)
  BY <1>3, SettleType, NothingType, AndThenType DEF WriteRequestCallback
<1>4. CASE WriteRequestContentCallback(t)
  BY <1>4, SettleType, NothingType DEF WriteRequestContentCallback
<1>5. CASE ReadStatusLineCallback(t)
  BY <1>5, SettleType, AndThenType DEF ReadStatusLineCallback
<1>6. CASE ReadHeadersCallback(t)
  <2>1. CASE HeadersThrow(t)
    BY <2>1 DEF HeadersThrow, Enter, Taken, Typed, Labels, Results, Faults
  <2> QED BY <1>6, <2>1, SettleType, AsyncReadType DEF ReadHeadersCallback
<1>7. CASE ReadContentCallback(t)
  BY <1>7, SettleType DEF ReadContentCallback
<1>8. CASE ReadChunkSizeCallback(t)
  BY <1>8, SettleType, AsyncReadType DEF ReadChunkSizeCallback
<1>9. CASE ReadChunkedContentCallback(t)
  BY <1>9, SettleType, AsyncReadType DEF ReadChunkedContentCallback
<1>10. CASE ReadEmptyCrlfCallback(t)
  BY <1>10, SettleType, AsyncReadType DEF ReadEmptyCrlfCallback
<1>11. CASE TimeoutCallback(t)
  BY <1>11 DEF TimeoutCallback, Enter, Typed, Labels
<1> QED BY <1>1, <1>2, <1>3, <1>4, <1>5, <1>6, <1>7, <1>8, <1>9, <1>10, <1>11 DEF Handler

\* Every step of the completion path is well typed.
LEMMA CompletionType ==
  ASSUME Typed, NEW t \in Threads, Completion(t)
  PROVE  Typed'
<1>1. CASE CheckCallback(t)
  <2>1. armed' \in BOOLEAN /\ expired' \in Nat /\ aborted' \in Nat
    <3>1. armed' = FALSE \/ armed' = armed
      BY <1>1 DEF CheckCallback, CancelTimer
    <3>2. aborted' \in {aborted, aborted + 1} /\ expired' = expired
      BY <1>1 DEF CheckCallback, CancelTimer, Abort
    <3>3. armed' \in BOOLEAN
      BY <3>1 DEF Typed
    <3> QED BY <3>2, <3>3 DEF Typed
  <2>2. pc' \in [Threads -> Labels] /\ UNCHANGED <<job, verdict>>
    BY <1>1 DEF CheckCallback, Goto, Typed, Labels
  <2> QED BY <1>1, <2>1, <2>2 DEF CheckCallback, Typed
<1>2. CASE CheckOpen(t)
  BY <1>2 DEF CheckOpen, Goto, Typed, Labels
<1>3. CASE CloseSocket(t)
  BY <1>3, ShutdownType DEF CloseSocket, Goto, Typed, Labels
<1>4. CASE InvokeCallback(t)
  <2>1. pc' \in [Threads -> Labels]
    BY <1>4 DEF InvokeCallback, Goto, Typed, Labels
  <2>2. delivered' \in Nat
    BY <1>4 DEF InvokeCallback, Typed
  <2>3. outcomes' \subseteq {"ok", "error"}
    <3>1. outcomes' \in {outcomes, outcomes \cup {verdict[t]}}
      BY <1>4 DEF InvokeCallback
    <3>2. verdict[t] \in {"ok", "error"} /\ outcomes \subseteq {"ok", "error"}
      BY DEF Typed
    <3> QED BY <3>1, <3>2
  <2>4. fault' \in Faults
    BY <1>4 DEF InvokeCallback, Typed, Faults
  <2>5. late' \in BOOLEAN
    BY <1>4 DEF InvokeCallback, Typed
  <2> QED BY <1>4, <2>1, <2>2, <2>3, <2>4, <2>5 DEF InvokeCallback, Goto, Typed
<1>5. CASE ClearCallback(t)
  BY <1>5 DEF ClearCallback, Goto, Typed, Labels
<1> QED BY <1>1, <1>2, <1>3, <1>4, <1>5 DEF Completion

\* Every step of a thread is well typed.
LEMMA ThreadType ==
  ASSUME Typed, NEW t \in Threads, Step(t)
  PROVE  Typed'
<1>1. CASE Return(t)
  <2>1. /\ destroyed' \in BOOLEAN /\ socket' \in Sockets
        /\ ops' \in [Ops -> Results] /\ fault' \in Faults
    BY <1>1, DestroyType DEF Return
  <2> QED BY <1>1, <2>1 DEF Return, Typed, Labels
<1>2. CASE UseAfterFree(t)
  BY <1>2 DEF UseAfterFree, Typed, Faults
<1> QED BY <1>1, <1>2, HandlerType, CompletionType DEF Step

\* Every step of the application is well typed.
LEMMA ApplicationType ==
  ASSUME Typed, Application
  PROVE  Typed'
<1>1. CASE Run
  BY <1>1 DEF Run, Typed, Results
<1>2. CASE RunStartTimer
  BY <1>2 DEF RunStartTimer, StartTimer, Abort, Typed
<1>3. CASE Cancel
  BY <1>3 DEF Cancel, Typed
<1>4. CASE CancelClose
  BY <1>4, ShutdownType DEF CancelClose, Typed
<1>5. CASE DropOwner
  <2>1. /\ destroyed' \in BOOLEAN /\ socket' \in Sockets
        /\ ops' \in [Ops -> Results] /\ fault' \in Faults
    BY <1>5, DestroyType DEF DropOwner
  <2> QED BY <1>5, <2>1 DEF DropOwner, Typed
<1> QED BY <1>1, <1>2, <1>3, <1>4, <1>5 DEF Application

\* Every step of the resolver, the network and the clock is well typed.
LEMMA EnvironmentType ==
  ASSUME Typed, Environment
  PROVE  Typed'
<1>1. CASE Resolved
  BY <1>1 DEF Resolved, Typed, Results
<1>2. CASE Expire
  <2>1. armed' = FALSE /\ expired' = expired + 1
    BY <1>2 DEF Expire
  <2>2. armed' \in BOOLEAN
    BY <2>1
  <2>3. expired' \in Nat
    BY <2>1 DEF Typed
  <2> QED BY <1>2, <2>2, <2>3 DEF Expire, Typed
<1>3. ASSUME NEW op \in SocketOps, Complete(op)
      PROVE  Typed'
  BY <1>3 DEF Complete, Endings, Typed, Results, Sockets
<1> QED BY <1>1, <1>2, <1>3 DEF Environment

\* Every step of the specification is well typed.
LEMMA TypeStep ==
  ASSUME Typed, [Next]_vars
  PROVE  Typed'
<1>1. CASE Next
  BY <1>1, ThreadType, ApplicationType, EnvironmentType DEF Next
<1>2. CASE UNCHANGED vars
  BY <1>2 DEF vars, Typed
<1> QED BY <1>1, <1>2

\* The fields of a stream and its queued handlers stay in their types.
LEMMA FieldsTyped == Spec => []Typed
<1>1. Init => Typed
  <2> SUFFICES ASSUME Init PROVE Typed
    OBVIOUS
  <2>1. ops \in [Ops -> Results]
    BY DEF Init, Results
  <2>2. /\ job \in [Threads -> Ops \cup {"timeout", "none"}]
        /\ pc \in [Threads -> Labels]
        /\ verdict \in [Threads -> {"ok", "error"}]
    BY DEF Init, Labels
  <2> QED BY <2>1, <2>2 DEF Init, Typed, Sockets, Faults
<1>2. Typed /\ [Next]_vars => Typed'
  BY TypeStep
<1> QED BY <1>1, <1>2, PTL DEF Spec

-------------------------------------------------------------------------------
(* An unanswered request is guarded *)

\* A cleared callback, and one about to be cleared, has been invoked: a handler
\* that finds the callback cleared abandons its completion path, and somebody
\* must have answered before.
ClearedWasDelivered ==
  /\ ~callback => delivered > 0
  /\ \A t \in Threads : pc[t] = "clear" => delivered > 0

\* A thread that runs no handler is at no step of one.
IdleThreads == \A t \in Threads : job[t] = "none" => pc[t] = "idle"

\* What makes NeverUnguarded inductive.
GuardInv == ClearedWasDelivered /\ IdleThreads /\ NeverUnguarded

\* The guard survives a thread's step that leaves the callback alone, if the
\* thread settles, or was not settling and lost no wait, or all is answered.
LEMMA GuardedMove ==
  ASSUME Typed, GuardInv, fault = "none",
         NEW t \in Threads, NEW label,
         pc' = [pc EXCEPT ![t] = label], label # "clear",
         \A s \in Threads \ {t} : job'[s] = job[s],
         job'[t] = "none" => label = "idle",
         UNCHANGED <<callback, delivered, user>>,
         \/ label \in {"settle", "close", "shutdown", "invoke"}
         \/ ~Settling(t) /\ (armed \/ expired > 0 => armed' \/ expired' > 0)
         \/ delivered > 0
  PROVE  GuardInv'
<1>1. ClearedWasDelivered'
  BY DEF GuardInv, ClearedWasDelivered, Typed
<1>2. IdleThreads'
  BY DEF GuardInv, IdleThreads, Typed
<1>3. NeverUnguarded'
  <2>1. CASE label \in {"settle", "close", "shutdown", "invoke"}
    BY <2>1 DEF NeverUnguarded, Settling, Typed
  <2>2. CASE ~Settling(t) /\ (armed \/ expired > 0 => armed' \/ expired' > 0)
    <3>1. ASSUME NEW s \in Threads, Settling(s)
          PROVE  Settling(s)'
      BY <2>2, <3>1 DEF Settling, Typed
    <3> QED BY <2>2, <3>1 DEF GuardInv, NeverUnguarded
  <2>3. CASE delivered > 0
    BY <2>3 DEF NeverUnguarded
  <2> QED BY <2>1, <2>2, <2>3
<1> QED BY <1>1, <1>2, <1>3 DEF GuardInv

\* It survives a step of no thread that loses no wait.
LEMMA GuardedElsewhere ==
  ASSUME GuardInv, fault = "none",
         UNCHANGED <<callback, delivered, pc, job>>,
         armed \/ expired > 0 => armed' \/ expired' > 0,
         user' \in {"new", "running"} \/ user \notin {"new", "running"} \/ armed'
  PROVE  GuardInv'
<1>1. \A s \in Threads : Settling(s) => Settling(s)'
  BY DEF Settling
<1> QED BY <1>1 DEF GuardInv, ClearedWasDelivered, IdleThreads, NeverUnguarded

\* A handler that enters the completion path guards the request.
LEMMA GuardedSettle ==
  ASSUME Typed, GuardInv, fault = "none", NEW t \in Threads, NEW op \in Ops,
         NEW results, NEW outcome, Settle(t, op, results, outcome)
  PROVE  GuardInv'
<1>1. pc' = [pc EXCEPT ![t] = "settle"] /\ job' = [job EXCEPT ![t] = op]
  BY DEF Settle, Enter
<1> QED BY <1>1, GuardedMove DEF Settle, Typed

\* A handler that starts, leaves the callback and loses no wait keeps the guard.
LEMMA GuardedEnter ==
  ASSUME Typed, GuardInv, fault = "none", NEW t \in Threads,
         NEW h \in Ops \cup {"timeout"}, NEW label \in {"return", "open", "write"},
         Enter(t, h, label), UNCHANGED <<callback, delivered, user>>,
         armed \/ expired > 0 => armed' \/ expired' > 0
  PROVE  GuardInv'
<1>1. pc' = [pc EXCEPT ![t] = label] /\ job' = [job EXCEPT ![t] = h] /\ job[t] = "none"
  BY DEF Enter
<1>2. ~Settling(t)
  BY <1>1 DEF GuardInv, IdleThreads, Settling
<1> QED BY <1>1, <1>2, GuardedMove DEF Typed

\* A handler that goes on, leaves the callback and loses no wait keeps the guard.
LEMMA GuardedGoto ==
  ASSUME Typed, GuardInv, fault = "none", NEW t \in Threads,
         NEW from \in {"open", "write", "read"}, NEW to \in {"read", "return"},
         Goto(t, from, to), UNCHANGED <<callback, delivered, user, armed, expired>>
  PROVE  GuardInv'
<1>1. pc' = [pc EXCEPT ![t] = to] /\ job' = job /\ ~Settling(t) /\ pc[t] # "idle"
  BY DEF Goto, Settling
<1>2. job'[t] # "none"
  BY <1>1 DEF GuardInv, IdleThreads
<1> QED BY <1>1, <1>2, GuardedMove

\* Every handler keeps the guard.
LEMMA GuardedHandler ==
  ASSUME Typed, GuardInv, fault = "none", NEW t \in Threads, Handler(t)
  PROVE  GuardInv'
<1>1. ASSUME NEW op \in Ops, NEW results, NEW next, AsyncRead(t, op, results, next)
      PROVE  GuardInv'
  BY <1>1, GuardedEnter DEF AsyncRead, StartTimer
<1>2. ASSUME NEW op \in Ops, NEW next, AndThen(t, op, next)
      PROVE  GuardInv'
  BY <1>2, GuardedEnter DEF AndThen
<1>3. ASSUME NEW op \in Ops, Nothing(t, op)
      PROVE  GuardInv'
  BY <1>3, GuardedEnter DEF Nothing
<1>4. CASE ResolveCallback(t)
  <2>1. CASE ResolveOk(t)
    BY <2>1, GuardedEnter DEF ResolveOk, StartTimer
  <2>2. CASE ResolveOpen(t)
    BY <2>2, GuardedGoto DEF ResolveOpen
  <2> QED BY <1>4, <2>1, <2>2, GuardedSettle DEF ResolveCallback
<1>5. CASE ConnectCallback(t)
  <2>1. CASE ConnectOk(t)
    BY <2>1, GuardedEnter DEF ConnectOk, StartTimer
  <2>2. CASE ConnectWrite(t)
    BY <2>2, GuardedGoto DEF ConnectWrite
  <2>3. CASE ConnectRead(t)
    BY <2>3, GuardedGoto DEF ConnectRead
  <2> QED BY <1>5, <2>1, <2>2, <2>3, GuardedSettle DEF ConnectCallback
<1>6. CASE WriteRequestCallback(t)
  BY <1>6, <1>2, <1>3, GuardedSettle DEF WriteRequestCallback
<1>7. CASE WriteRequestContentCallback(t)
  BY <1>7, <1>3, GuardedSettle DEF WriteRequestContentCallback
<1>8. CASE ReadStatusLineCallback(t)
  BY <1>8, <1>2, GuardedSettle DEF ReadStatusLineCallback
<1>9. CASE ReadHeadersCallback(t)
  <2>1. CASE HeadersThrow(t)
    BY <2>1, GuardedEnter DEF HeadersThrow
  <2> QED BY <1>9, <2>1, <1>1, GuardedSettle DEF ReadHeadersCallback
<1>10. CASE ReadContentCallback(t)
  BY <1>10, GuardedSettle DEF ReadContentCallback
<1>11. CASE ReadChunkSizeCallback(t)
  BY <1>11, <1>1, GuardedSettle DEF ReadChunkSizeCallback
<1>12. CASE ReadChunkedContentCallback(t)
  BY <1>12, <1>1, GuardedSettle DEF ReadChunkedContentCallback
<1>13. CASE ReadEmptyCrlfCallback(t)
  BY <1>13, <1>1, GuardedSettle DEF ReadEmptyCrlfCallback
<1>14. CASE TimeoutCallback(t)
  <2>1. CASE Enter(t, "timeout", "return") /\ UNCHANGED expired
    BY <1>14, <2>1, GuardedEnter DEF TimeoutCallback
  <2>2. CASE Enter(t, "timeout", "settle")
    <3>1. pc' = [pc EXCEPT ![t] = "settle"] /\ job' = [job EXCEPT ![t] = "timeout"]
      BY <2>2 DEF Enter
    <3> QED BY <1>14, <3>1, GuardedMove DEF TimeoutCallback, Typed
  <2> QED BY <1>14, <2>1, <2>2 DEF TimeoutCallback
<1> QED BY <1>4, <1>5, <1>6, <1>7, <1>8, <1>9, <1>10, <1>11, <1>12, <1>13, <1>14 DEF Handler

\* Every step of the completion path keeps the guard, or answers.
LEMMA GuardedCompletion ==
  ASSUME Typed, GuardInv, fault = "none", NEW t \in Threads, Completion(t)
  PROVE  GuardInv'
<1>1. pc[t] # "idle" => job[t] # "none"
  BY DEF GuardInv, IdleThreads
<1>2. CASE CheckCallback(t)
  <2>1. CASE callback
    BY <1>1, <1>2, <2>1, GuardedMove DEF CheckCallback, Goto
  <2>2. CASE ~callback
    <3>1. delivered > 0
      BY <2>2 DEF GuardInv, ClearedWasDelivered
    <3> QED BY <1>1, <1>2, <2>2, <3>1, GuardedMove DEF CheckCallback, Goto
  <2> QED BY <2>1, <2>2
<1>3. CASE CheckOpen(t)
  BY <1>1, <1>3, GuardedMove DEF CheckOpen, Goto
<1>4. CASE CloseSocket(t)
  BY <1>1, <1>4, GuardedMove DEF CloseSocket, Goto
<1>5. CASE InvokeCallback(t)
  <2>1. IdleThreads'
    BY <1>1, <1>5 DEF InvokeCallback, Goto, GuardInv, IdleThreads, Typed
  <2>2. CASE callback
    BY <1>5, <2>1, <2>2
    DEF InvokeCallback, GuardInv, ClearedWasDelivered, NeverUnguarded, Typed
  <2>3. CASE ~callback
    BY <1>5, <2>1, <2>3
    DEF InvokeCallback, GuardInv, ClearedWasDelivered, NeverUnguarded, Typed
  <2> QED BY <2>2, <2>3
<1>6. CASE ClearCallback(t)
  <2>1. delivered > 0 /\ delivered' = delivered
    BY <1>6 DEF ClearCallback, Goto, GuardInv, ClearedWasDelivered
  <2>2. IdleThreads'
    BY <1>1, <1>6 DEF ClearCallback, Goto, GuardInv, IdleThreads, Typed
  <2> QED BY <2>1, <2>2 DEF GuardInv, ClearedWasDelivered, NeverUnguarded
<1> QED BY <1>2, <1>3, <1>4, <1>5, <1>6 DEF Completion

\* Every step of the specification keeps the guard.
LEMMA GuardStep ==
  ASSUME Typed, GuardInv, [Next]_vars
  PROVE  GuardInv'
<1>1. ASSUME fault = "none", NEW t \in Threads, Step(t)
      PROVE  GuardInv'
  <2>1. CASE Return(t)
    <3>1. ~Settling(t)
      BY <2>1 DEF Return, Settling
    <3>2. pc' = [pc EXCEPT ![t] = "idle"] /\ job' = [job EXCEPT ![t] = "none"]
      BY <2>1 DEF Return
    <3>3. UNCHANGED <<callback, delivered, user, armed, expired>>
      BY <2>1 DEF Return
    <3> QED BY <1>1, <3>1, <3>2, <3>3, GuardedMove DEF Typed
  <2>2. CASE UseAfterFree(t)
    BY <1>1, <2>2, GuardedElsewhere DEF UseAfterFree
  <2> QED BY <1>1, <2>1, <2>2, GuardedHandler, GuardedCompletion DEF Step
<1>2. ASSUME fault = "none", Application
      PROVE  GuardInv'
  <2>1. CASE Run
    BY <1>2, <2>1, GuardedElsewhere DEF Run
  <2>2. CASE RunStartTimer
    BY <1>2, <2>2, GuardedElsewhere DEF RunStartTimer, StartTimer
  <2>3. CASE Cancel
    BY <1>2, <2>3, GuardedElsewhere DEF Cancel
  <2>4. CASE CancelClose
    BY <1>2, <2>4, GuardedElsewhere DEF CancelClose
  <2>5. CASE DropOwner
    BY <1>2, <2>5, GuardedElsewhere DEF DropOwner
  <2> QED BY <1>2, <2>1, <2>2, <2>3, <2>4, <2>5 DEF Application
<1>3. ASSUME fault = "none", Environment
      PROVE  GuardInv'
  <2>1. CASE Resolved
    BY <1>3, <2>1, GuardedElsewhere DEF Resolved
  <2>2. CASE Expire
    BY <1>3, <2>2, GuardedElsewhere DEF Expire, Typed
  <2>3. ASSUME NEW op \in SocketOps, Complete(op)
        PROVE  GuardInv'
    BY <1>3, <2>3, GuardedElsewhere DEF Complete
  <2> QED BY <1>3, <2>1, <2>2, <2>3 DEF Environment
<1>4. CASE UNCHANGED vars
  BY <1>4 DEF vars, GuardInv, ClearedWasDelivered, IdleThreads, NeverUnguarded, Settling
<1> QED BY <1>1, <1>2, <1>3, <1>4 DEF Next

\* Once Run() has returned, an unanswered request always has its timer, or an
\* expired wait, or a handler about to answer (NeverUnguarded), whatever the
\* number of threads and however their handlers interleave.
THEOREM RequestIsGuarded == Spec => []NeverUnguarded
<1>1. Init => GuardInv
  BY DEF Init, GuardInv, ClearedWasDelivered, IdleThreads, NeverUnguarded
<1>2. Typed /\ GuardInv /\ [Next]_vars => GuardInv'
  BY GuardStep
<1>3. GuardInv => NeverUnguarded
  BY DEF GuardInv
<1> QED BY <1>1, <1>2, <1>3, FieldsTyped, PTL DEF Spec

-------------------------------------------------------------------------------
(* One thread: the callback is invoked once *)

\* A single thread calls io_service::run().
OneThread == \A s, t \in Threads : s = t

\* What makes AtMostOnce inductive: the callback is set and not yet invoked as
\* long as it is about to be invoked, and stays set after that only until the
\* handler that has invoked it clears it.
OnceInv ==
  /\ delivered \in {0, 1}
  /\ callback => delivered = 0 \/ \E t \in Threads : pc[t] = "clear"
  /\ \A t \in Threads : /\ pc[t] \in {"close", "shutdown", "invoke"} => callback /\ delivered = 0
                        /\ pc[t] = "clear" => delivered = 1
  /\ fault # "emptyCall"

\* A step that leaves the callback alone keeps OnceInv, unless it brings the
\* thread to a label where it matters.
LEMMA OnceMove ==
  ASSUME OneThread, Typed, OnceInv, NEW t \in Threads, NEW label,
         pc' = [pc EXCEPT ![t] = label], pc[t] # "clear",
         label \in {"close", "shutdown", "invoke"} => callback,
         label # "clear", UNCHANGED <<callback, delivered>>, fault' # "emptyCall"
  PROVE  OnceInv'
<1>1. \A s \in Threads : pc[s] # "clear" /\ pc'[s] = label
  BY DEF OneThread, Typed
<1>2. callback => delivered = 0
  BY <1>1 DEF OnceInv
<1> QED BY <1>1, <1>2 DEF OnceInv

\* So does a step that moves no thread.
LEMMA OnceElsewhere ==
  ASSUME OnceInv, UNCHANGED <<callback, delivered, pc>>, fault' # "emptyCall"
  PROVE  OnceInv'
BY DEF OnceInv

\* CloseSocket and the destructor invoke nothing.
LEMMA NoEmptyCall ==
  ASSUME \/ ShutdownAndClose
         \/ Destroy
         \/ UNCHANGED fault
         \/ fault' \in {"exception", "dangling"},
         fault # "emptyCall"
  PROVE  fault' # "emptyCall"
BY DEF ShutdownAndClose, Destroy

\* Every handler keeps OnceInv: it finds its thread idle, and brings it
\* nowhere near the callback before it has tested it.
LEMMA OnceHandler ==
  ASSUME OneThread, Typed, GuardInv, OnceInv, NEW t \in Threads, Handler(t)
  PROVE  OnceInv'
<1> DEFINE Starts(h, label) ==
      Enter(t, h, label) /\ UNCHANGED <<callback, delivered>> /\ fault' # "emptyCall"
<1>1. ASSUME NEW h, NEW label \in {"settle", "return", "open", "write"}, Starts(h, label)
      PROVE  OnceInv'
  <2>1. pc[t] = "idle" /\ pc' = [pc EXCEPT ![t] = label]
    BY <1>1 DEF Enter, GuardInv, IdleThreads
  <2> QED BY <1>1, <2>1, OnceMove
<1>2. ASSUME NEW from \in {"open", "write", "read"}, NEW to \in {"read", "return"},
             Goto(t, from, to), UNCHANGED <<callback, delivered, fault>>
      PROVE  OnceInv'
  BY <1>2, OnceMove DEF Goto, OnceInv
<1>3. fault # "emptyCall"
  BY DEF OnceInv
<1>4. ASSUME NEW op, NEW results, NEW outcome, Settle(t, op, results, outcome)
      PROVE  OnceInv'
  BY <1>4, <1>1, <1>3 DEF Settle
<1>5. ASSUME NEW op, NEW results, NEW next, AsyncRead(t, op, results, next)
      PROVE  OnceInv'
  BY <1>5, <1>1, <1>3 DEF AsyncRead
<1>6. ASSUME NEW op, NEW next, AndThen(t, op, next)
      PROVE  OnceInv'
  BY <1>6, <1>1, <1>3 DEF AndThen
<1>7. ASSUME NEW op, Nothing(t, op)
      PROVE  OnceInv'
  BY <1>7, <1>1, <1>3 DEF Nothing
<1>8. CASE ResolveCallback(t)
  <2>1. CASE ResolveOk(t)
    BY <2>1, <1>1, <1>3 DEF ResolveOk
  <2>2. CASE ResolveOpen(t)
    BY <2>2, <1>2 DEF ResolveOpen
  <2> QED BY <1>8, <2>1, <2>2, <1>4 DEF ResolveCallback
<1>9. CASE ConnectCallback(t)
  <2>1. CASE ConnectOk(t)
    BY <2>1, <1>1, <1>3 DEF ConnectOk
  <2>2. CASE ConnectWrite(t)
    BY <2>2, <1>2 DEF ConnectWrite
  <2>3. CASE ConnectRead(t)
    BY <2>3, <1>2 DEF ConnectRead
  <2> QED BY <1>9, <2>1, <2>2, <2>3, <1>4 DEF ConnectCallback
<1>10. CASE ReadHeadersCallback(t)
  <2>1. CASE HeadersThrow(t)
    BY <2>1, <1>1 DEF HeadersThrow
  <2> QED BY <1>10, <2>1, <1>4, <1>5 DEF ReadHeadersCallback
<1>11. CASE TimeoutCallback(t)
  <2>1. CASE Enter(t, "timeout", "return")
    BY <1>11, <2>1, <1>1, <1>3 DEF TimeoutCallback
  <2>2. CASE Enter(t, "timeout", "settle")
    BY <1>11, <2>2, <1>1, <1>3 DEF TimeoutCallback
  <2> QED BY <1>11, <2>1, <2>2 DEF TimeoutCallback
<1>12. CASE \/ WriteRequestCallback(t) \/ WriteRequestContentCallback(t)
            \/ ReadStatusLineCallback(t)
  BY <1>12, <1>4, <1>6, <1>7
  DEF WriteRequestCallback, WriteRequestContentCallback, ReadStatusLineCallback
<1>13. CASE \/ ReadContentCallback(t) \/ ReadChunkSizeCallback(t)
            \/ ReadChunkedContentCallback(t) \/ ReadEmptyCrlfCallback(t)
  BY <1>13, <1>4, <1>5
  DEF ReadContentCallback, ReadChunkSizeCallback, ReadChunkedContentCallback,
      ReadEmptyCrlfCallback
<1> QED BY <1>8, <1>9, <1>10, <1>11, <1>12, <1>13 DEF Handler

\* The completion path keeps OnceInv: between the test of callback_ and its
\* clearing no other handler runs.
LEMMA OnceCompletion ==
  ASSUME OneThread, Typed, OnceInv, NEW t \in Threads, Completion(t)
  PROVE  OnceInv'
<1>1. CASE CheckCallback(t)
  <2>1. CASE callback
    BY <1>1, <2>1, OnceMove DEF CheckCallback, Goto, OnceInv
  <2>2. CASE ~callback
    BY <1>1, <2>2, OnceMove DEF CheckCallback, Goto, OnceInv
  <2> QED BY <2>1, <2>2
<1>2. CASE CheckOpen(t)
  BY <1>2, OnceMove DEF CheckOpen, Goto, OnceInv
<1>3. CASE CloseSocket(t)
  BY <1>3, OnceMove, NoEmptyCall DEF CloseSocket, Goto, OnceInv
<1>4. CASE InvokeCallback(t)
  <2>1. callback /\ delivered = 0 /\ pc' = [pc EXCEPT ![t] = "clear"]
    BY <1>4 DEF InvokeCallback, Goto, OnceInv
  <2>2. \A s \in Threads : s = t /\ pc'[s] = "clear"
    BY <2>1 DEF OneThread, Typed
  <2>3. delivered' = 1 /\ fault' = fault
    BY <1>4, <2>1 DEF InvokeCallback
  <2> QED BY <2>2, <2>3 DEF OnceInv
<1>5. CASE ClearCallback(t)
  <2>1. pc' = [pc EXCEPT ![t] = "return"] /\ ~callback' /\ UNCHANGED <<delivered, fault>>
    BY <1>5 DEF ClearCallback, Goto
  <2>2. \A s \in Threads : pc'[s] = "return"
    BY <2>1 DEF OneThread, Typed
  <2> QED BY <2>1, <2>2 DEF OnceInv
<1> QED BY <1>1, <1>2, <1>3, <1>4, <1>5 DEF Completion

\* Every step of the specification keeps OnceInv.
LEMMA OnceStep ==
  ASSUME OneThread, Typed, GuardInv, OnceInv, [Next]_vars
  PROVE  OnceInv'
<1>1. fault # "emptyCall"
  BY DEF OnceInv
<1>2. ASSUME NEW t \in Threads, Step(t)
      PROVE  OnceInv'
  <2>1. CASE Return(t)
    <3>1. fault' # "emptyCall"
      BY <1>1, <2>1, NoEmptyCall DEF Return
    <3>2. pc[t] = "return" /\ pc' = [pc EXCEPT ![t] = "idle"] /\ UNCHANGED <<callback, delivered>>
      BY <2>1 DEF Return
    <3> QED BY <3>1, <3>2, OnceMove
  <2>2. CASE UseAfterFree(t)
    BY <2>2, <1>1, NoEmptyCall, OnceElsewhere DEF UseAfterFree
  <2> QED BY <1>2, <2>1, <2>2, OnceHandler, OnceCompletion DEF Step
<1>3. CASE Application
  <2>1. fault' # "emptyCall"
    BY <1>1, <1>3, NoEmptyCall
    DEF Application, Run, RunStartTimer, Cancel, CancelClose, DropOwner
  <2>2. UNCHANGED <<callback, delivered, pc>>
    BY <1>3 DEF Application, Run, RunStartTimer, Cancel, CancelClose, DropOwner
  <2> QED BY <2>1, <2>2, OnceElsewhere
<1>4. CASE Environment
  BY <1>1, <1>4, OnceElsewhere DEF Environment, Resolved, Expire, Complete
<1>5. CASE UNCHANGED vars
  BY <1>1, <1>5, OnceElsewhere DEF vars
<1> QED BY <1>2, <1>3, <1>4, <1>5 DEF Next

\* On a single io_service thread the completion callback is invoked at most
\* once, and never after it has been cleared (AtMostOnce).
THEOREM CallbackOnce ==
  ASSUME OneThread
  PROVE  Spec => []AtMostOnce
<1>1. Init => GuardInv /\ OnceInv
  BY DEF Init, GuardInv, ClearedWasDelivered, IdleThreads, NeverUnguarded, OnceInv
<1>2. Typed /\ GuardInv /\ OnceInv /\ [Next]_vars => GuardInv' /\ OnceInv'
  BY GuardStep, OnceStep
<1>3. OnceInv => AtMostOnce
  BY DEF OnceInv, AtMostOnce
<1> QED BY <1>1, <1>2, <1>3, FieldsTyped, PTL DEF Spec

-------------------------------------------------------------------------------
(* The life of a stream: before Run(), and after the destructor                *)

\* Before Run() nothing has happened, and nothing of the stream is queued.
Fresh ==
  user = "new" =>
    /\ delivered = 0 /\ ~destroyed
    /\ ~armed /\ expired = 0 /\ aborted = 0
    /\ \A op \in Ops : ops[op] = "none"
    /\ \A t \in Threads : job[t] = "none"

\* There is an outcome as soon as the callback has been invoked.
Told == delivered = 0 <=> outcomes = {}

\* A destroyed stream is held by nobody, nor by a wait.
Released == destroyed => /\ ~owner /\ user = "idle"
                         /\ ~armed /\ expired = 0 /\ aborted = 0

LifeInv == Fresh /\ Told /\ Released

\* A handler leaves the life of the stream, and what it has delivered, alone.
LEMMA HandlerFrame ==
  ASSUME NEW t \in Threads, Handler(t)
  PROVE  UNCHANGED <<callback, delivered, outcomes, user, owner, destroyed>>
<1>1. ASSUME NEW op, NEW results, NEW outcome, Settle(t, op, results, outcome)
      PROVE  UNCHANGED <<callback, delivered, outcomes, user, owner, destroyed>>
  BY <1>1 DEF Settle
<1>2. ASSUME NEW op, NEW results, NEW next, AsyncRead(t, op, results, next)
      PROVE  UNCHANGED <<callback, delivered, outcomes, user, owner, destroyed>>
  BY <1>2 DEF AsyncRead
<1>3. ASSUME NEW op, NEW next, AndThen(t, op, next)
      PROVE  UNCHANGED <<callback, delivered, outcomes, user, owner, destroyed>>
  BY <1>3 DEF AndThen
<1>4. ASSUME NEW op, Nothing(t, op)
      PROVE  UNCHANGED <<callback, delivered, outcomes, user, owner, destroyed>>
  BY <1>4 DEF Nothing
<1>5. CASE ResolveCallback(t)
  BY <1>5, <1>1 DEF ResolveCallback, ResolveOk, ResolveOpen
<1>6. CASE ConnectCallback(t)
  BY <1>6, <1>1 DEF ConnectCallback, ConnectOk, ConnectWrite, ConnectRead
<1>7. CASE \/ WriteRequestCallback(t) \/ WriteRequestContentCallback(t)
           \/ ReadStatusLineCallback(t)
  BY <1>7, <1>1, <1>3, <1>4
  DEF WriteRequestCallback, WriteRequestContentCallback, ReadStatusLineCallback
<1>8. CASE ReadHeadersCallback(t)
  BY <1>8, <1>1, <1>2 DEF ReadHeadersCallback, HeadersThrow
<1>9. CASE \/ ReadContentCallback(t) \/ ReadChunkSizeCallback(t)
           \/ ReadChunkedContentCallback(t) \/ ReadEmptyCrlfCallback(t)
  BY <1>9, <1>1, <1>2
  DEF ReadContentCallback, ReadChunkSizeCallback, ReadChunkedContentCallback,
      ReadEmptyCrlfCallback
<1>10. CASE TimeoutCallback(t)
  BY <1>10 DEF TimeoutCallback
<1> QED BY <1>5, <1>6, <1>7, <1>8, <1>9, <1>10 DEF Handler

\* Threads and environment do nothing to a stream that has not been run.
LEMMA NotBeforeRun ==
  ASSUME Typed, GuardInv, Fresh, fault = "none",
         Environment \/ \E t \in Threads : Step(t)
  PROVE  user # "new"
<1> SUFFICES ASSUME user = "new" PROVE FALSE
  OBVIOUS
<1>1. /\ ~destroyed /\ ~armed /\ expired = 0 /\ aborted = 0
      /\ \A op \in Ops : ops[op] = "none"
      /\ \A t \in Threads : job[t] = "none" /\ pc[t] = "idle"
  BY DEF Fresh, GuardInv, IdleThreads
<1>2. ASSUME Environment
      PROVE  FALSE
  BY <1>1, <1>2 DEF Environment, Resolved, Expire, Complete
<1>3. ASSUME NEW t \in Threads, Step(t)
      PROVE  FALSE
  <2>1. CASE Handler(t)
    <3>1. ASSUME NEW op \in Ops, NEW results, "none" \notin results, NEW outcome,
                 Settle(t, op, results, outcome)
          PROVE  FALSE
      BY <1>1, <3>1 DEF Settle
    <3>2. ASSUME NEW op \in Ops, NEW results, "none" \notin results, NEW next,
                 AsyncRead(t, op, results, next)
          PROVE  FALSE
      BY <1>1, <3>2 DEF AsyncRead
    <3>3. ASSUME NEW op \in Ops, NEW next, AndThen(t, op, next)
          PROVE  FALSE
      BY <1>1, <3>3 DEF AndThen
    <3>4. ASSUME NEW op \in Ops, Nothing(t, op)
          PROVE  FALSE
      BY <1>1, <3>4 DEF Nothing
    <3>5. CASE ResolveCallback(t)
      BY <1>1, <3>5, <3>1 DEF ResolveCallback, ResolveOk, ResolveOpen, Goto
    <3>6. CASE ConnectCallback(t)
      BY <1>1, <3>6, <3>1 DEF ConnectCallback, ConnectOk, ConnectWrite, ConnectRead, Goto
    <3>7. CASE \/ WriteRequestCallback(t) \/ WriteRequestContentCallback(t)
               \/ ReadStatusLineCallback(t)
      BY <3>7, <3>1, <3>3, <3>4
      DEF WriteRequestCallback, WriteRequestContentCallback, ReadStatusLineCallback
    <3>8. CASE ReadHeadersCallback(t)
      BY <1>1, <3>8, <3>1, <3>2 DEF ReadHeadersCallback, HeadersThrow
    <3>9. CASE \/ ReadContentCallback(t) \/ ReadChunkSizeCallback(t)
               \/ ReadChunkedContentCallback(t) \/ ReadEmptyCrlfCallback(t)
      BY <3>9, <3>1, <3>2
      DEF ReadContentCallback, ReadChunkSizeCallback, ReadChunkedContentCallback,
          ReadEmptyCrlfCallback
    <3>10. CASE TimeoutCallback(t)
      BY <1>1, <3>10 DEF TimeoutCallback
    <3> QED BY <2>1, <3>5, <3>6, <3>7, <3>8, <3>9, <3>10 DEF Handler
  <2>2. CASE Completion(t)
    BY <1>1, <2>2 DEF Completion, CheckCallback, CheckOpen, CloseSocket, InvokeCallback,
                      ClearCallback, Goto
  <2>3. CASE Return(t)
    BY <1>1, <2>3 DEF Return
  <2>4. CASE UseAfterFree(t)
    BY <1>1, <2>4 DEF UseAfterFree
  <2> QED BY <1>3, <2>1, <2>2, <2>3, <2>4 DEF Step
<1> QED BY <1>2, <1>3

\* What a thread does to the life of the stream.
LEMMA StepFrame ==
  ASSUME NEW t \in Threads, Step(t)
  PROVE  /\ UNCHANGED <<user, owner>>
         /\ \/ UNCHANGED destroyed
            \/ /\ destroyed' = TRUE /\ ~owner /\ user \notin {"running", "cancelling"}
               /\ ~Queued /\ UNCHANGED timerVars
<1>1. CASE Completion(t)
  BY <1>1 DEF Completion, CheckCallback, CheckOpen, CloseSocket, InvokeCallback, ClearCallback
<1>2. CASE Return(t)
  BY <1>2 DEF Return, Destroy
<1>3. CASE UseAfterFree(t)
  BY <1>3 DEF UseAfterFree
<1> QED BY <1>1, <1>2, <1>3, HandlerFrame DEF Step

\* What a thread does to the answer: only InvokeCallback delivers one.
LEMMA AnswerFrame ==
  ASSUME NEW t \in Threads, Step(t)
  PROVE  \/ UNCHANGED <<delivered, outcomes>>
         \/ /\ InvokeCallback(t) /\ callback
            /\ delivered' = delivered + 1 /\ outcomes' = outcomes \cup {verdict[t]}
<1>1. CASE Completion(t)
  BY <1>1 DEF Completion, CheckCallback, CheckOpen, CloseSocket, InvokeCallback, ClearCallback
<1>2. CASE Return(t) \/ UseAfterFree(t)
  BY <1>2 DEF Return, UseAfterFree
<1> QED BY <1>1, <1>2, HandlerFrame DEF Step

\* A destroyed stream arms no timer.
LEMMA ReleasedFrame ==
  ASSUME NEW t \in Threads, Step(t), destroyed
  PROVE  UNCHANGED timerVars
BY DEF Step, Return, UseAfterFree

\* Every step keeps LifeInv.
LEMMA LifeStep ==
  ASSUME Typed, GuardInv, LifeInv, [Next]_vars
  PROVE  LifeInv'
<1>1. ASSUME fault = "none", NEW t \in Threads, Step(t)
      PROVE  LifeInv'
  <2>1. user # "new" /\ user' = user
    BY <1>1, NotBeforeRun, StepFrame DEF LifeInv
  <2>2. Told'
    <3>1. CASE UNCHANGED <<delivered, outcomes>>
      BY <3>1 DEF LifeInv, Told
    <3>2. CASE delivered' = delivered + 1 /\ outcomes' = outcomes \cup {verdict[t]}
      <4>1. delivered' # 0
        BY <3>2 DEF Typed
      <4>2. outcomes' # {}
        BY <3>2
      <4> QED BY <4>1, <4>2 DEF Told
    <3> QED BY <1>1, <3>1, <3>2, AnswerFrame
  <2>3. Released'
    <3>1. CASE destroyed
      BY <1>1, <2>1, <3>1, StepFrame, ReleasedFrame DEF LifeInv, Released
    <3>2. CASE ~destroyed
      <4>1. CASE UNCHANGED destroyed
        BY <3>2, <4>1 DEF Released
      <4>2. CASE /\ ~owner /\ user \notin {"running", "cancelling"}
                 /\ ~Queued /\ UNCHANGED timerVars
        <5>1. ~armed /\ expired = 0 /\ aborted = 0
          BY <4>2 DEF Queued, Typed
        <5>2. user = "idle"
          BY <2>1, <4>2 DEF Typed
        <5> QED BY <1>1, <2>1, <4>2, <5>1, <5>2, StepFrame DEF Released
      <4> QED BY <1>1, <4>1, <4>2, StepFrame
    <3> QED BY <3>1, <3>2
  <2> QED BY <2>1, <2>2, <2>3 DEF LifeInv, Fresh
<1>2. ASSUME fault = "none", Environment
      PROVE  LifeInv'
  <2>1. user # "new"
    BY <1>2, NotBeforeRun DEF LifeInv
  <2> QED BY <1>2, <2>1 DEF Environment, Resolved, Expire, Complete, LifeInv, Fresh, Told, Released
<1>3. ASSUME Application
      PROVE  LifeInv'
  <2>1. Told'
    BY <1>3 DEF Application, Run, RunStartTimer, Cancel, CancelClose, DropOwner, LifeInv, Told
  <2>2. CASE Run
    BY <2>1, <2>2 DEF Run, LifeInv, Fresh, Released
  <2>3. CASE RunStartTimer
    BY <2>1, <2>3 DEF RunStartTimer, LifeInv, Fresh, Released
  <2>4. CASE Cancel
    BY <2>1, <2>4 DEF Cancel, LifeInv, Fresh, Released
  <2>5. CASE CancelClose
    BY <2>1, <2>5 DEF CancelClose, LifeInv, Fresh, Released, Queued, Typed
  <2>6. CASE DropOwner
    BY <2>1, <2>6 DEF DropOwner, Destroy, LifeInv, Fresh, Released, Queued, Typed
  <2> QED BY <1>3, <2>2, <2>3, <2>4, <2>5, <2>6 DEF Application
<1>4. CASE UNCHANGED vars
  BY <1>4 DEF vars, LifeInv, Fresh, Told, Released
<1> QED BY <1>1, <1>2, <1>3, <1>4 DEF Next

-------------------------------------------------------------------------------
(* The phases of a request: looking up, connecting, and then reading           *)

\* The operation is pending, or its handler is queued.
Busy(op) == ops[op] # "none"

\* Thread t is in ResolveCallback or ConnectCallback, not yet about to return.
Connecting(t) == job[t] \in {"resolve", "connect"} /\ pc[t] # "return"

\* The response is being read, or has been.
Reading == \/ Succeeded
           \/ \E op \in Reads : Busy(op)
           \/ \E t \in Threads : job[t] \in Reads

\* Nothing has been written so far.
Unwritten == \/ Busy("resolve") \/ Busy("connect")
             \/ \E t \in Threads : pc[t] \in {"open", "write"}

\* The strand runs at most one handler.
Serial == \A s, t \in Threads : job[s] \in Stranded /\ job[t] \in Stranded => s = t

\* The phases exclude each other.
OnePhase ==
  /\ ~(Busy("resolve") /\ Busy("connect"))
  /\ Reading => ~Busy("resolve") /\ ~Busy("connect")
  /\ \A t \in Threads : Connecting(t) =>
       /\ ~Busy("resolve") /\ ~Busy("connect") /\ ~Reading
       /\ \A s \in Threads : Connecting(s) => s = t

\* One read follows the other, and none follows FinishedCallback.
OneRead ==
  /\ \A a, b \in Reads : Busy(a) /\ Busy(b) => a = b
  /\ Succeeded => \A op \in Reads : ~Busy(op)

\* The content is written after the head.
OneWrite ==
  /\ ~(Busy("writeRequest") /\ Busy("writeContent"))
  /\ Unwritten => ~Busy("writeRequest") /\ ~Busy("writeContent")

\* What makes OneReadOneWrite inductive.
ChainInv == Serial /\ Paths /\ OnePhase /\ OneRead /\ OneWrite

\* An operation that is started is pending or has failed; the others stay.
LEMMA InitiateBusy ==
  ASSUME NEW o \in [Ops -> Results], NEW op \in SocketOps, NEW o2 \in Initiate(o, op)
  PROVE  o2[op] # "none" /\ \A x \in Ops \ {op} : o2[x] = o[x]
BY DEF Initiate

\* Closing the socket completes operations, and takes no handler away.
LEMMA CloseBusy ==
  ASSUME Typed, \/ UNCHANGED <<destroyed, socket, ops, fault>>
                 \/ ShutdownAndClose
                 \/ Destroy
  PROVE  \A op \in Ops : Busy(op)' <=> Busy(op)
<1>1. CASE UNCHANGED ops
  BY <1>1 DEF Busy
<1>2. CASE ShutdownAndClose
  <2>1. \A op \in Ops : AbortedOps[op] = "none" <=> ops[op] = "none"
    BY DEF AbortedOps
  <2> QED BY <1>2, <2>1 DEF ShutdownAndClose, Busy
<1> QED BY <1>1, <1>2 DEF Destroy

\* A step in which no operation, phase or success begins keeps ChainInv.
LEMMA ChainFrame ==
  ASSUME ChainInv, Serial', Paths',
         \A op \in Ops : Busy(op)' => Busy(op),
         \A t \in Threads : Connecting(t)' => Connecting(t),
         Reading' => Reading, Unwritten' => Unwritten, Succeeded' => Succeeded
  PROVE  ChainInv'
<1>1. OnePhase'
  BY DEF ChainInv, OnePhase
<1>2. OneRead'
  BY DEF ChainInv, OneRead
<1>3. OneWrite'
  BY DEF ChainInv, OneWrite
<1> QED BY <1>1, <1>2, <1>3 DEF ChainInv

\* So does one that moves no thread, answers nothing and starts nothing.
LEMMA ChainElsewhere ==
  ASSUME ChainInv, UNCHANGED <<pc, job, verdict, outcomes>>,
         \A op \in Ops : Busy(op)' => Busy(op)
  PROVE  ChainInv'
<1>1. Serial' /\ Paths'
  BY DEF ChainInv, Serial, Paths
<1>2. \A t \in Threads : Connecting(t)' => Connecting(t)
  BY DEF Connecting
<1>3. Succeeded' => Succeeded
  BY DEF Succeeded
<1>4. Reading' => Reading
  BY <1>3 DEF Reading
<1>5. Unwritten' => Unwritten
  BY DEF Unwritten
<1> QED BY <1>1, <1>2, <1>3, <1>4, <1>5, ChainFrame

\* So does a step along the completion path.
LEMMA ChainGoto ==
  ASSUME Typed, ChainInv, NEW t \in Threads,
         NEW from \in {"settle", "close", "shutdown", "invoke", "clear"},
         NEW to \in {"close", "shutdown", "invoke", "clear", "return"},
         Goto(t, from, to), outcomes' \subseteq outcomes \cup {verdict[t]},
         \A op \in Ops : Busy(op)' => Busy(op)
  PROVE  ChainInv'
<1>1. /\ job' = job /\ verdict' = verdict /\ pc[t] = from
      /\ pc'[t] = to /\ \A s \in Threads \ {t} : pc'[s] = pc[s]
  BY DEF Goto, Typed
<1>2. Serial' /\ Paths'
  BY <1>1 DEF ChainInv, Serial, Paths
<1>3. \A s \in Threads : Connecting(s)' => Connecting(s)
  BY <1>1 DEF Connecting
<1>4. Succeeded' => Succeeded
  BY <1>1 DEF Succeeded
<1>5. Reading' => Reading
  BY <1>1, <1>4 DEF Reading
<1>6. Unwritten' => Unwritten
  BY <1>1 DEF Unwritten
<1> QED BY <1>2, <1>3, <1>4, <1>5, <1>6, ChainFrame

\* So does a handler that returns: its thread drops a verdict, if any.
LEMMA ChainReturn ==
  ASSUME Typed, ChainInv, NEW t \in Threads, Return(t)
  PROVE  ChainInv'
<1>1. /\ pc' = [pc EXCEPT ![t] = "idle"] /\ job' = [job EXCEPT ![t] = "none"]
      /\ verdict' = [verdict EXCEPT ![t] = "error"] /\ UNCHANGED outcomes
  BY DEF Return
<1>2. \A op \in Ops : Busy(op)' => Busy(op)
  BY CloseBusy DEF Return
<1>3. /\ pc'[t] = "idle" /\ job'[t] = "none" /\ verdict'[t] = "error"
      /\ \A s \in Threads \ {t} : pc'[s] = pc[s] /\ job'[s] = job[s] /\ verdict'[s] = verdict[s]
  BY <1>1 DEF Typed
<1>4. Serial'
  BY <1>3 DEF ChainInv, Serial, Stranded
<1>5. Paths'
  BY <1>3 DEF ChainInv, Paths
<1>6. \A s \in Threads : Connecting(s)' => Connecting(s)
  BY <1>3 DEF Connecting
<1>7. Succeeded' => Succeeded
  BY <1>1, <1>3 DEF Succeeded
<1>8. Reading' => Reading
  BY <1>2, <1>3, <1>7 DEF Reading
<1>9. Unwritten' => Unwritten
  BY <1>2, <1>3 DEF Unwritten
<1> QED BY <1>2, <1>4, <1>5, <1>6, <1>7, <1>8, <1>9, ChainFrame

\* What a thread that picks up a stranded handler changes of the phases.
LEMMA EnterFrame ==
  ASSUME Typed, ChainInv, NEW t \in Threads, NEW h \in Stranded,
         NEW label \in {"settle", "return"}, NEW outcome, Enter(t, h, label),
         verdict' = verdict \/ verdict' = [verdict EXCEPT ![t] = outcome],
         outcome = "ok" => h \in LastReads
  PROVE  /\ Serial' /\ Paths'
         /\ \A s \in Threads : Connecting(s)' => Connecting(s)
         /\ \A s \in Threads : pc'[s] \in {"open", "write"} => pc[s] \in {"open", "write"}
         /\ \A s \in Threads : job'[s] \in Reads => job[s] \in Reads \/ h \in Reads
         /\ \A s \in Threads : verdict'[s] = "ok" => verdict[s] = "ok" \/ outcome = "ok"
<1>1. /\ pc'[t] = label /\ job'[t] = h /\ job[t] = "none"
      /\ \A s \in Threads \ {t} : pc'[s] = pc[s] /\ job'[s] = job[s] /\ verdict'[s] = verdict[s]
      /\ verdict'[t] \in {verdict[t], outcome}
  BY DEF Enter, Typed
<1>2. \A s \in Threads : job[s] \notin Stranded
  BY DEF Enter
<1>3. Serial'
  BY <1>1, <1>2 DEF Serial
<1>4. h \notin {"none", "resolve", "connect"}
  BY DEF Stranded
<1>5. Paths'
  BY <1>1, <1>4 DEF ChainInv, Paths, LastReads
<1> QED BY <1>1, <1>3, <1>4, <1>5 DEF Connecting

\* A handler that takes its result and starts nothing keeps ChainInv.
LEMMA ChainTake ==
  ASSUME Typed, ChainInv, NEW t \in Threads, NEW op \in Writes \cup Reads,
         NEW label \in {"settle", "return"}, Enter(t, op, label), Busy(op), ops' = Taken(op),
         verdict' = verdict \/ verdict' = [verdict EXCEPT ![t] = "error"],
         UNCHANGED outcomes
  PROVE  ChainInv'
<1>1. op \in Stranded
  BY DEF Stranded
<1>2. /\ Serial' /\ Paths'
      /\ \A s \in Threads : Connecting(s)' => Connecting(s)
      /\ \A s \in Threads : pc'[s] \in {"open", "write"} => pc[s] \in {"open", "write"}
      /\ \A s \in Threads : job'[s] \in Reads => job[s] \in Reads \/ op \in Reads
      /\ \A s \in Threads : verdict'[s] = "ok" => verdict[s] = "ok"
  BY <1>1, EnterFrame
<1>3. \A x \in Ops : Busy(x)' => Busy(x)
  BY DEF Taken, Busy, Typed
<1>4. Succeeded' => Succeeded
  BY <1>2 DEF Succeeded
<1>5. Reading' => Reading
  BY <1>2, <1>3, <1>4 DEF Reading
<1>6. Unwritten' => Unwritten
  BY <1>2, <1>3 DEF Unwritten
<1> QED BY <1>2, <1>3, <1>4, <1>5, <1>6, ChainFrame

\* So does TimeoutCallback, which has no operation.
LEMMA ChainTimeout ==
  ASSUME Typed, ChainInv, NEW t \in Threads, TimeoutCallback(t)
  PROVE  ChainInv'
<1>1. PICK label \in {"settle", "return"} : Enter(t, "timeout", label)
  BY DEF TimeoutCallback
<1>2. verdict' = verdict \/ verdict' = [verdict EXCEPT ![t] = "error"]
  BY DEF TimeoutCallback
<1>3. "timeout" \in Stranded /\ "timeout" \notin Reads
  BY DEF Stranded
<1>4. /\ Serial' /\ Paths'
      /\ \A s \in Threads : Connecting(s)' => Connecting(s)
      /\ \A s \in Threads : pc'[s] \in {"open", "write"} => pc[s] \in {"open", "write"}
      /\ \A s \in Threads : job'[s] \in Reads => job[s] \in Reads
      /\ \A s \in Threads : verdict'[s] = "ok" => verdict[s] = "ok"
  BY <1>1, <1>2, <1>3, EnterFrame
<1>5. UNCHANGED <<ops, outcomes>>
  BY DEF TimeoutCallback
<1>6. \A x \in Ops : Busy(x)' => Busy(x)
  BY <1>5 DEF Busy
<1>7. Succeeded' => Succeeded
  BY <1>4, <1>5 DEF Succeeded
<1>8. Reading' => Reading
  BY <1>4, <1>6, <1>7 DEF Reading
<1>9. Unwritten' => Unwritten
  BY <1>4, <1>6 DEF Unwritten
<1> QED BY <1>4, <1>6, <1>7, <1>8, <1>9, ChainFrame

\* A read handler that succeeds takes the last read of the chain.
LEMMA ChainSucceed ==
  ASSUME Typed, ChainInv, NEW t \in Threads, NEW op \in LastReads, NEW results,
         "none" \notin results, Settle(t, op, results, "ok")
  PROVE  ChainInv'
<1>1. /\ Enter(t, op, "settle") /\ verdict' = [verdict EXCEPT ![t] = "ok"]
      /\ ops' = Taken(op) /\ UNCHANGED outcomes /\ Busy(op)
  BY DEF Settle, Busy
<1>2. op \in Stranded /\ op \in Reads
  BY DEF Stranded, LastReads
<1>3. /\ Serial' /\ Paths'
      /\ \A s \in Threads : Connecting(s)' => Connecting(s)
      /\ \A s \in Threads : pc'[s] \in {"open", "write"} => pc[s] \in {"open", "write"}
  BY <1>1, <1>2, EnterFrame
<1>4. \A x \in Ops : Busy(x)' <=> x # op /\ Busy(x)
  BY <1>1, <1>2 DEF Taken, Busy, Typed
<1>5. Reading
  BY <1>1, <1>2 DEF Reading
<1>6. OnePhase'
  BY <1>3, <1>4, <1>5 DEF ChainInv, OnePhase
<1>7. OneRead'
  BY <1>1, <1>2, <1>4 DEF ChainInv, OneRead
<1>8. Unwritten' => Unwritten
  BY <1>3, <1>4 DEF Unwritten
<1>9. OneWrite'
  BY <1>4, <1>8 DEF ChainInv, OneWrite
<1> QED BY <1>3, <1>6, <1>7, <1>9 DEF ChainInv

\* A read handler that goes on replaces its read by the next one.
LEMMA ChainNext ==
  ASSUME Typed, ChainInv, NEW t \in Threads, NEW op \in Reads, NEW next \in Reads,
         Enter(t, op, "return"), Busy(op), ops' \in Initiate(Taken(op), next),
         UNCHANGED <<verdict, outcomes>>
  PROVE  ChainInv'
<1>1. op \in Stranded
  BY DEF Stranded
<1>2. /\ Serial' /\ Paths'
      /\ \A s \in Threads : Connecting(s)' => Connecting(s)
      /\ \A s \in Threads : pc'[s] \in {"open", "write"} => pc[s] \in {"open", "write"}
  BY <1>1, EnterFrame
<1>3. \A x \in Ops : Busy(x)' <=> x = next \/ (x # op /\ Busy(x))
  <2>1. Taken(op) \in [Ops -> Results] /\ \A x \in Ops : Taken(op)[x] = IF x = op THEN "none" ELSE ops[x]
    BY DEF Taken, Typed, Results
  <2>2. ops'[next] # "none" /\ \A x \in Ops \ {next} : ops'[x] = Taken(op)[x]
    BY <2>1, InitiateBusy
  <2> QED BY <2>1, <2>2 DEF Busy
<1>4. Reading
  BY DEF Reading
<1>5. OnePhase'
  BY <1>2, <1>3, <1>4 DEF ChainInv, OnePhase
<1>6. ~Succeeded /\ \A x \in Reads : Busy(x)' => x = next
  BY <1>3 DEF ChainInv, OneRead
<1>7. OneRead'
  BY <1>6 DEF OneRead, Succeeded
<1>8. Unwritten' => Unwritten
  BY <1>2, <1>3 DEF Unwritten
<1>9. OneWrite'
  BY <1>3, <1>8 DEF ChainInv, OneWrite
<1> QED BY <1>2, <1>5, <1>7, <1>9 DEF ChainInv

\* WriteRequestCallback replaces the first write by the second.
LEMMA ChainContent ==
  ASSUME Typed, ChainInv, NEW t \in Threads, AndThen(t, "writeRequest", "writeContent")
  PROVE  ChainInv'
<1>1. /\ Enter(t, "writeRequest", "return") /\ UNCHANGED <<verdict, outcomes>>
      /\ Busy("writeRequest") /\ ops' \in Initiate(Taken("writeRequest"), "writeContent")
  BY DEF AndThen, Busy
<1>2. "writeRequest" \in Stranded
  BY DEF Stranded
<1>3. /\ Serial' /\ Paths'
      /\ \A s \in Threads : Connecting(s)' => Connecting(s)
      /\ \A s \in Threads : pc'[s] \in {"open", "write"} => pc[s] \in {"open", "write"}
      /\ \A s \in Threads : job'[s] \in Reads => job[s] \in Reads
  BY <1>1, <1>2, EnterFrame
<1>4. \A x \in Ops : Busy(x)' <=> x = "writeContent" \/ (x # "writeRequest" /\ Busy(x))
  <2>1. /\ Taken("writeRequest") \in [Ops -> Results]
        /\ \A x \in Ops : Taken("writeRequest")[x] = IF x = "writeRequest" THEN "none" ELSE ops[x]
    BY DEF Taken, Typed, Results
  <2>2. /\ ops'["writeContent"] # "none"
        /\ \A x \in Ops \ {"writeContent"} : ops'[x] = Taken("writeRequest")[x]
    BY <1>1, <2>1, InitiateBusy
  <2> QED BY <2>1, <2>2 DEF Busy
<1>5. Succeeded' => Succeeded
  BY <1>1 DEF Succeeded
<1>6. Reading' => Reading
  BY <1>3, <1>4, <1>5 DEF Reading
<1>7. OnePhase'
  BY <1>3, <1>4, <1>6 DEF ChainInv, OnePhase
<1>8. OneRead'
  BY <1>4, <1>5 DEF ChainInv, OneRead
<1>9. ~Unwritten /\ (Unwritten' => Unwritten)
  BY <1>1, <1>3, <1>4 DEF Unwritten, ChainInv, OneWrite
<1>10. OneWrite'
  BY <1>4, <1>9 DEF OneWrite
<1> QED BY <1>3, <1>7, <1>8, <1>10 DEF ChainInv

\* ResolveCallback and ConnectCallback take over from their operation.
LEMMA ChainConnecting ==
  ASSUME Typed, ChainInv, NEW t \in Threads, NEW op \in {"resolve", "connect"},
         NEW label \in {"settle", "open", "write"}, Enter(t, op, label), Busy(op),
         ops' = Taken(op), UNCHANGED outcomes,
         verdict' = verdict \/ verdict' = [verdict EXCEPT ![t] = "error"]
  PROVE  ChainInv'
<1>1. /\ pc'[t] = label /\ job'[t] = op /\ job[t] = "none"
      /\ \A s \in Threads \ {t} : pc'[s] = pc[s] /\ job'[s] = job[s] /\ verdict'[s] = verdict[s]
      /\ verdict'[t] # "ok"
  BY DEF Enter, Typed, ChainInv, Paths, LastReads
<1>2. \A x \in Ops : Busy(x)' <=> x # op /\ Busy(x)
  BY DEF Taken, Busy, Typed
<1>3. Serial' /\ Paths'
  BY <1>1 DEF ChainInv, Serial, Paths, Stranded
<1>4. Succeeded' => Succeeded
  BY <1>1 DEF Succeeded
<1>5. Reading' => Reading
  BY <1>1, <1>2, <1>4 DEF Reading
<1>6. /\ ~Reading /\ ~Busy("resolve")' /\ ~Busy("connect")'
      /\ \A s \in Threads : ~Connecting(s)
  BY <1>2 DEF ChainInv, OnePhase
<1>7. \A s \in Threads : Connecting(s)' => s = t
  BY <1>1, <1>6 DEF Connecting
<1>8. OnePhase'
  BY <1>5, <1>6, <1>7 DEF OnePhase
<1>9. OneRead'
  BY <1>2, <1>4 DEF ChainInv, OneRead
<1>10. OneWrite'
  BY <1>2 DEF ChainInv, OneWrite, Unwritten
<1> QED BY <1>3, <1>8, <1>9, <1>10 DEF ChainInv

\* Inside ResolveCallback and ConnectCallback the connect, the first write and
\* the first read are started.
LEMMA ChainStart ==
  ASSUME Typed, ChainInv, NEW t \in Threads,
         ResolveOpen(t) \/ ConnectWrite(t) \/ ConnectRead(t)
  PROVE  ChainInv'
<1>1. PICK from \in {"open", "write", "read"}, to \in {"read", "return"} :
           Goto(t, from, to) /\ (to = "read" <=> ConnectWrite(t)) /\ (from = "write" <=> ConnectWrite(t))
  BY DEF ResolveOpen, ConnectWrite, ConnectRead, Goto
<1>2. /\ job' = job /\ verdict' = verdict /\ outcomes' = outcomes /\ pc[t] = from
      /\ pc'[t] = to /\ \A s \in Threads \ {t} : pc'[s] = pc[s]
  BY <1>1 DEF Goto, Typed, ResolveOpen, ConnectWrite, ConnectRead
<1>3. Connecting(t)
  BY <1>2 DEF Connecting, ChainInv, Paths
<1>4. /\ ~Reading /\ ~Busy("resolve") /\ ~Busy("connect")
      /\ \A s \in Threads : Connecting(s) => s = t
  BY <1>3 DEF ChainInv, OnePhase
<1>5. Serial' /\ Paths'
  BY <1>2 DEF ChainInv, Serial, Paths
<1>6. ~Succeeded' /\ \A s \in Threads : job'[s] \notin Reads
  BY <1>2, <1>4 DEF Reading, Succeeded
<1>7. \A s \in Threads : Connecting(s)' => s = t /\ to = "read"
  BY <1>2, <1>4 DEF Connecting
<1>8. \A s \in Threads : pc'[s] \in {"open", "write"} => pc[s] \in {"open", "write"} /\ s # t
  BY <1>2
<1>9. \A s \in Threads : pc[s] \in {"open", "write"} => s = t
  BY <1>4 DEF Connecting, ChainInv, Paths
<1>10. CASE ResolveOpen(t)
  <2>1. \A x \in Ops : Busy(x)' <=> x = "connect" \/ Busy(x)
    BY <1>10 DEF ResolveOpen, Busy, Typed
  <2>2. Unwritten /\ to = "return"
    BY <1>1, <1>2, <1>10 DEF ResolveOpen, Goto, Unwritten
  <2>3. OnePhase'
    BY <1>4, <1>6, <1>7, <2>1, <2>2 DEF OnePhase, Reading
  <2>4. OneRead' /\ OneWrite'
    BY <1>6, <2>1, <2>2 DEF ChainInv, OneRead, OneWrite
  <2> QED BY <1>5, <2>3, <2>4 DEF ChainInv
<1>11. CASE ConnectWrite(t)
  <2>1. \A x \in Ops : Busy(x)' <=> x = "writeRequest" \/ Busy(x)
    BY <1>11, InitiateBusy DEF ConnectWrite, Busy, Typed
  <2>2. Unwritten
    BY <1>2, <1>1, <1>11 DEF Unwritten
  <2>3. ~Unwritten'
    BY <1>4, <1>8, <1>9, <2>1 DEF Unwritten
  <2>4. OnePhase'
    BY <1>4, <1>6, <1>7, <2>1 DEF OnePhase, Reading
  <2>5. OneRead' /\ OneWrite'
    BY <1>6, <2>1, <2>2, <2>3 DEF ChainInv, OneRead, OneWrite
  <2> QED BY <1>5, <2>4, <2>5 DEF ChainInv
<1>12. CASE ConnectRead(t)
  <2>1. \A x \in Ops : Busy(x)' <=> x = "readStatusLine" \/ Busy(x)
    BY <1>12, InitiateBusy DEF ConnectRead, Busy, Typed
  <2>2. to = "return"
    BY <1>1, <1>2, <1>12 DEF ConnectRead, Goto
  <2>3. ~Unwritten'
    BY <1>4, <1>8, <1>9, <2>1 DEF Unwritten
  <2>4. OnePhase'
    BY <1>4, <1>7, <2>1, <2>2 DEF OnePhase
  <2>5. OneRead'
    BY <1>4, <1>6, <2>1 DEF Reading, OneRead
  <2>6. OneWrite'
    BY <2>1, <2>3 DEF ChainInv, OneWrite
  <2> QED BY <1>5, <2>4, <2>5, <2>6 DEF ChainInv
<1> QED BY <1>10, <1>11, <1>12

\* Every handler keeps ChainInv.
LEMMA ChainHandler ==
  ASSUME Typed, ChainInv, NEW t \in Threads, Handler(t)
  PROVE  ChainInv'
<1>1. ASSUME NEW op \in Ops, NEW results, "none" \notin results, Settle(t, op, results, "error")
      PROVE  ChainInv'
  <2>1. /\ Enter(t, op, "settle") /\ Busy(op) /\ ops' = Taken(op) /\ UNCHANGED outcomes
        /\ verdict' = [verdict EXCEPT ![t] = "error"]
    BY <1>1 DEF Settle, Busy
  <2> QED BY <2>1, ChainTake, ChainConnecting
<1>2. ASSUME NEW op \in Reads, NEW next \in Reads, AsyncRead(t, op, {"ok"}, next)
      PROVE  ChainInv'
  BY <1>2, ChainNext DEF AsyncRead, Busy
<1>3. ASSUME NEW next \in Reads, AsyncRead(t, "readChunk", {"eof"}, next)
      PROVE  ChainInv'
  BY <1>3, ChainNext DEF AsyncRead, Busy
<1>4. ASSUME NEW op \in Writes, Nothing(t, op)
      PROVE  ChainInv'
  BY <1>4, ChainTake DEF Nothing, Busy
<1>5. CASE ResolveCallback(t)
  <2>1. CASE ResolveOk(t)
    BY <2>1, ChainConnecting DEF ResolveOk, Busy
  <2> QED BY <1>5, <2>1, <1>1, ChainStart DEF ResolveCallback
<1>6. CASE ConnectCallback(t)
  <2>1. CASE ConnectOk(t)
    BY <2>1, ChainConnecting DEF ConnectOk, Busy
  <2> QED BY <1>6, <2>1, <1>1, ChainStart DEF ConnectCallback
<1>7. CASE WriteRequestCallback(t) \/ WriteRequestContentCallback(t)
  BY <1>7, <1>1, <1>4, ChainContent DEF WriteRequestCallback, WriteRequestContentCallback
<1>8. CASE ReadStatusLineCallback(t)
  <2>1. CASE AndThen(t, "readStatusLine", "readHeaders")
    BY <2>1, ChainNext DEF AndThen, Busy
  <2> QED BY <1>8, <2>1, <1>1 DEF ReadStatusLineCallback
<1>9. CASE ReadHeadersCallback(t)
  <2>1. CASE HeadersThrow(t)
    BY <2>1, ChainTake DEF HeadersThrow, Busy
  <2> QED BY <1>9, <2>1, <1>1, <1>2, ChainSucceed DEF ReadHeadersCallback, LastReads
<1>10. CASE ReadContentCallback(t) \/ ReadChunkSizeCallback(t) \/ ReadChunkedContentCallback(t)
  BY <1>10, <1>1, <1>2, <1>3, ChainSucceed
  DEF ReadContentCallback, ReadChunkSizeCallback, ReadChunkedContentCallback, LastReads
<1>11. CASE ReadEmptyCrlfCallback(t)
  BY <1>11, <1>1, <1>2, ChainSucceed DEF ReadEmptyCrlfCallback, LastReads
<1> QED BY <1>5, <1>6, <1>7, <1>8, <1>9, <1>10, <1>11, ChainTimeout DEF Handler

\* So does every step of the completion path ...
LEMMA ChainCompletion ==
  ASSUME Typed, ChainInv, NEW t \in Threads, Completion(t)
  PROVE  ChainInv'
<1>1. PICK from \in {"settle", "close", "shutdown", "invoke", "clear"},
           to \in {"close", "shutdown", "invoke", "clear", "return"} : Goto(t, from, to)
  BY DEF Completion, CheckCallback, CheckOpen, CloseSocket, InvokeCallback, ClearCallback
<1>2. outcomes' \subseteq outcomes \cup {verdict[t]}
  BY DEF Completion, CheckCallback, CheckOpen, CloseSocket, InvokeCallback, ClearCallback
<1>3. UNCHANGED ops \/ ShutdownAndClose
  BY DEF Completion, CheckCallback, CheckOpen, CloseSocket, InvokeCallback, ClearCallback
<1>4. \A op \in Ops : Busy(op)' => Busy(op)
  BY <1>3, CloseBusy DEF Busy
<1> QED BY <1>1, <1>2, <1>4, ChainGoto

\* ... of the application, for Run() finds nothing begun ...
LEMMA ChainApplication ==
  ASSUME Typed, GuardInv, LifeInv, ChainInv, Application
  PROVE  ChainInv'
<1>1. CASE Run
  <2>1. /\ \A op \in Ops : ~Busy(op)
        /\ \A t \in Threads : job[t] = "none" /\ pc[t] = "idle" /\ verdict[t] # "ok"
        /\ outcomes = {}
    BY <1>1 DEF Run, LifeInv, Fresh, Told, Busy, ChainInv, Paths, LastReads
  <2>2. UNCHANGED <<job, pc, verdict, outcomes>> /\ \A op \in Ops : Busy(op)' <=> op = "resolve"
    BY <1>1, <2>1 DEF Run, Busy, Typed
  <2>3. Serial' /\ Paths'
    BY <2>2 DEF ChainInv, Serial, Paths
  <2>4. ~Reading' /\ ~Succeeded' /\ \A t \in Threads : ~Connecting(t)'
    BY <2>1, <2>2 DEF Reading, Succeeded, Connecting
  <2>5. OnePhase' /\ OneRead' /\ OneWrite'
    BY <2>2, <2>4 DEF OnePhase, OneRead, OneWrite
  <2> QED BY <2>3, <2>5 DEF ChainInv
<1>2. CASE RunStartTimer \/ Cancel
  BY <1>2, ChainElsewhere DEF RunStartTimer, Cancel, Busy
<1>3. CASE CancelClose
  BY <1>3, CloseBusy, ChainElsewhere DEF CancelClose
<1>4. CASE DropOwner
  BY <1>4, CloseBusy, ChainElsewhere DEF DropOwner
<1> QED BY <1>1, <1>2, <1>3, <1>4 DEF Application

\* ... and of the rest.
LEMMA ChainStep ==
  ASSUME Typed, GuardInv, LifeInv, ChainInv, [Next]_vars
  PROVE  ChainInv'
<1>1. ASSUME NEW t \in Threads, Step(t)
      PROVE  ChainInv'
  <2>1. CASE UseAfterFree(t)
    BY <2>1, ChainElsewhere DEF UseAfterFree, Busy
  <2> QED BY <1>1, <2>1, ChainHandler, ChainCompletion, ChainReturn DEF Step
<1>2. CASE Environment
  <2>1. CASE Resolved
    BY <2>1, ChainElsewhere DEF Resolved, Busy, Typed
  <2>2. CASE Expire
    BY <2>2, ChainElsewhere DEF Expire, Busy
  <2>3. ASSUME NEW op \in SocketOps, Complete(op)
        PROVE  ChainInv'
    <3>1. \A x \in Ops : Busy(x)' => Busy(x)
      BY <2>3 DEF Complete, Busy, Typed
    <3> QED BY <2>3, <3>1, ChainElsewhere DEF Complete
  <2> QED BY <1>2, <2>1, <2>2, <2>3 DEF Environment
<1>3. CASE UNCHANGED vars
  BY <1>3, ChainElsewhere DEF vars, Busy
<1> QED BY <1>1, <1>2, <1>3, ChainApplication DEF Next

\* The invariants hold together, on any number of threads.
LEMMA Chained == Spec => [](Typed /\ GuardInv /\ LifeInv /\ ChainInv)
<1>1. Init => GuardInv /\ LifeInv
  BY DEF Init, GuardInv, ClearedWasDelivered, IdleThreads, NeverUnguarded,
         LifeInv, Fresh, Told, Released
<1>2. Init => ChainInv
  BY DEF Init, ChainInv, Serial, Paths, OnePhase, OneRead, OneWrite, Busy, Connecting,
         Reading, Unwritten, Succeeded, Stranded
<1>3. Typed /\ GuardInv /\ LifeInv /\ ChainInv /\ [Next]_vars => GuardInv' /\ LifeInv' /\ ChainInv'
  BY GuardStep, LifeStep, ChainStep
<1> QED BY <1>1, <1>2, <1>3, FieldsTyped, PTL DEF Spec

\* The fields of a stream stay in their types, and on any number of threads a handler
\* connects, reads and calls FinishedCallback only where it is due (TypeOK).
THEOREM TypeCorrect == Spec => []TypeOK
<1>1. Typed /\ ChainInv => TypeOK
  BY DEF ChainInv, TypeOK
<1> QED BY <1>1, Chained, PTL

\* However the handlers interleave, one read and one write at most are pending
\* on the socket (OneReadOneWrite), which is all that asio allows.
THEOREM OneOperationEach == Spec => []OneReadOneWrite
<1>1. ChainInv => OneReadOneWrite
  BY DEF ChainInv, OneRead, OneWrite, OneReadOneWrite, Busy
<1> QED BY <1>1, Chained, PTL

-------------------------------------------------------------------------------
(* The reads follow ReadChain                                                  *)

\* The read that is busy is the stage of the chain, before a step and after it.
LEMMA StageOfRead ==
  ASSUME NEW op \in Reads
  PROVE  /\ OneRead /\ Busy(op) => ReadStage = StageOf[op]
         /\ (OneRead /\ Busy(op))' => ReadStage' = StageOf[op]
<1>1. ASSUME OneRead, Busy(op)
      PROVE  ReadStage = StageOf[op]
  <2>1. \A x \in Reads : ops[x] # "none" <=> x = op
    BY <1>1 DEF OneRead, Busy
  <2>2. (CHOOSE x \in Reads : ops[x] # "none") = op
    BY <2>1
  <2> QED BY <2>1, <2>2 DEF ReadStage
<1>2. ASSUME OneRead', Busy(op)'
      PROVE  ReadStage' = StageOf[op]
  <2>1. \A x \in Reads : ops'[x] # "none" <=> x = op
    BY <1>2 DEF OneRead, Busy
  <2>2. (CHOOSE x \in Reads : ops'[x] # "none") = op
    BY <2>1
  <2> QED BY <2>1, <2>2 DEF ReadStage
<1> QED BY <1>1, <1>2

\* Without one the chain has no stage.
LEMMA StageOfNothing ==
  /\ (\A op \in Reads : ~Busy(op)) => ReadStage = "none"
  /\ (\A op \in Reads : ~Busy(op)') => ReadStage' = "none"
BY DEF ReadStage, Busy

\* Only FinishedCallback gives a thread the verdict "ok".
LEMMA NoNewSuccess ==
  ASSUME Typed, NEW t \in Threads, UNCHANGED outcomes,
         verdict' = verdict \/ verdict' = [verdict EXCEPT ![t] = "error"]
  PROVE  Succeeded' => Succeeded
BY DEF Succeeded, Typed

\* A step that leaves the reads alone and does not succeed is Discard or none.
LEMMA LeavesReads ==
  ASSUME ChainInv, ChainInv', \A op \in Reads : Busy(op)' <=> Busy(op),
         Succeeded' => Succeeded
  PROVE  [Chain!Next]_Chain!vars
<1>1. ReadStage' = ReadStage
  <2>1. CASE \A op \in Reads : ~Busy(op)
    BY <2>1, StageOfNothing
  <2>2. ASSUME NEW op \in Reads, Busy(op)
        PROVE  ReadStage' = ReadStage
    BY <2>2, StageOfRead DEF ChainInv
  <2> QED BY <2>1, <2>2
<1>2. CASE Succeeded' <=> Succeeded
  <2>1. Succeeded' = Succeeded
    BY <1>2 DEF Succeeded
  <2> QED BY <1>1, <2>1 DEF Chain!vars
<1>3. CASE Succeeded /\ ~Succeeded'
  <2>1. Succeeded' = FALSE
    BY <1>3 DEF Succeeded
  <2> QED BY <1>1, <1>3, <2>1 DEF Chain!Next, Chain!Discard
<1> QED BY <1>2, <1>3

\* A read handler that takes its result leaves the chain, or ends it.
LEMMA TakesRead ==
  ASSUME Typed, ChainInv, NEW op \in Reads, Busy(op), ops' = Taken(op),
         \/ Succeeded' => Succeeded
         \/ Succeeded' /\ op \in {"readHeaders", "readContent", "readLastCrlf"}
  PROVE  [Chain!Next]_Chain!vars
<1>1. ReadStage = StageOf[op] /\ ~Succeeded
  BY StageOfRead DEF ChainInv, OneRead
<1>2. \A x \in Reads : ~Busy(x)'
  BY DEF Taken, Busy, Typed, ChainInv, OneRead
<1>3. ReadStage' = "none"
  BY <1>2, StageOfNothing
<1>4. CASE ~Succeeded'
  <2>1. Succeeded' = Succeeded
    BY <1>1, <1>4 DEF Succeeded
  <2>2. StageOf[op] # "none"
    BY DEF StageOf
  <2> QED BY <1>1, <1>3, <2>1, <2>2 DEF Chain!Next, Chain!Abandon
<1>5. CASE Succeeded' /\ op \in {"readHeaders", "readContent", "readLastCrlf"}
  <2>1. Succeeded' = TRUE
    BY <1>5 DEF Succeeded
  <2>2. StageOf[op] \in Chain!Final
    BY <1>5 DEF StageOf, Chain!Final
  <2> QED BY <1>1, <1>3, <2>1, <2>2 DEF Chain!Next, Chain!Succeed
<1> QED BY <1>1, <1>4, <1>5

\* A read handler that starts the next read proceeds along the chain.
LEMMA ReadsNext ==
  ASSUME Typed, ChainInv, ChainInv', NEW op \in Reads, NEW next \in Reads, Busy(op),
         ops' \in Initiate(Taken(op), next), UNCHANGED <<verdict, outcomes>>,
         StageOf[next] \in Chain!Successors[StageOf[op]]
  PROVE  [Chain!Next]_Chain!vars
<1>1. Taken(op) \in [Ops -> Results]
  BY DEF Taken, Typed, Results
<1>2. Busy(next)'
  BY <1>1, InitiateBusy DEF Busy
<1>3. ReadStage = StageOf[op] /\ ReadStage' = StageOf[next]
  BY <1>2, StageOfRead DEF ChainInv
<1>4. StageOf[op] # "none"
  BY DEF StageOf
<1>5. Succeeded' = Succeeded
  BY DEF Succeeded
<1> QED BY <1>3, <1>4, <1>5 DEF Chain!Next, Chain!Proceed

\* ConnectCallback begins the chain when it starts the first read.
LEMMA BeginsReads ==
  ASSUME Typed, ChainInv, ChainInv', NEW t \in Threads, ConnectRead(t)
  PROVE  [Chain!Next]_Chain!vars
<1>1. Connecting(t)
  BY DEF ConnectRead, Goto, Connecting, ChainInv, Paths
<1>2. ~Reading
  BY <1>1 DEF ChainInv, OnePhase
<1>3. ReadStage = "none"
  BY <1>2, StageOfNothing DEF Reading
<1>4. Busy("readStatusLine")'
  BY InitiateBusy DEF ConnectRead, Busy, Typed
<1>5. ReadStage' = "statusLine"
  BY <1>4, StageOfRead DEF ChainInv, StageOf
<1>6. UNCHANGED <<verdict, outcomes>>
  BY DEF ConnectRead, Goto
<1>7. Succeeded = FALSE /\ Succeeded' = Succeeded
  BY <1>2, <1>6 DEF Reading, Succeeded
<1> QED BY <1>3, <1>5, <1>7 DEF Chain!Next, Chain!Begin

\* Every handler follows the chain.
LEMMA HandlerFollows ==
  ASSUME Typed, ChainInv, ChainInv', NEW t \in Threads, Handler(t)
  PROVE  [Chain!Next]_Chain!vars
<1> DEFINE Follows == [Chain!Next]_Chain!vars
<1>1. ASSUME NEW op \in Ops, NEW results, "none" \notin results, Settle(t, op, results, "error")
      PROVE  Follows
  <2>1. /\ Busy(op) /\ ops' = Taken(op) /\ UNCHANGED outcomes
        /\ verdict' = [verdict EXCEPT ![t] = "error"]
    BY <1>1 DEF Settle, Busy
  <2>2. Succeeded' => Succeeded
    BY <2>1, NoNewSuccess
  <2>3. CASE op \in Reads
    BY <2>1, <2>2, <2>3, TakesRead
  <2>4. CASE op \notin Reads
    <3>1. \A x \in Reads : Busy(x)' <=> Busy(x)
      BY <2>1, <2>4 DEF Taken, Busy, Typed
    <3> QED BY <2>2, <3>1, LeavesReads
  <2> QED BY <2>3, <2>4
<1>2. ASSUME NEW op \in {"readHeaders", "readContent", "readLastCrlf"}, NEW results,
             "none" \notin results, Settle(t, op, results, "ok")
      PROVE  Follows
  <2>1. /\ Busy(op) /\ ops' = Taken(op) /\ verdict' = [verdict EXCEPT ![t] = "ok"]
    BY <1>2 DEF Settle, Busy
  <2>2. Succeeded'
    BY <2>1 DEF Succeeded, Typed
  <2> QED BY <2>1, <2>2, TakesRead
<1>3. ASSUME NEW op \in Reads, NEW results, "none" \notin results, NEW next \in Reads,
             AsyncRead(t, op, results, next), StageOf[next] \in Chain!Successors[StageOf[op]]
      PROVE  Follows
  <2>1. Busy(op) /\ ops' \in Initiate(Taken(op), next) /\ UNCHANGED <<verdict, outcomes>>
    BY <1>3 DEF AsyncRead, Busy
  <2> QED BY <1>3, <2>1, ReadsNext
<1>4. ASSUME UNCHANGED <<verdict, outcomes>>, \A op \in Reads : Busy(op)' <=> Busy(op)
      PROVE  Follows
  BY <1>4, LeavesReads, NoNewSuccess
<1>5. CASE ResolveCallback(t)
  <2>1. CASE ResolveOk(t) \/ ResolveOpen(t)
    <3>1. UNCHANGED <<verdict, outcomes>>
      BY <2>1 DEF ResolveOk, ResolveOpen, Goto
    <3>2. \A op \in Reads : Busy(op)' <=> Busy(op)
      BY <2>1 DEF ResolveOk, ResolveOpen, Taken, Busy, Typed
    <3> QED BY <3>1, <3>2, <1>4
  <2> QED BY <1>5, <2>1, <1>1 DEF ResolveCallback
<1>6. CASE ConnectCallback(t)
  <2>1. CASE ConnectOk(t) \/ ConnectWrite(t)
    <3>1. UNCHANGED <<verdict, outcomes>>
      BY <2>1 DEF ConnectOk, ConnectWrite, Goto
    <3>2. \A op \in Reads : Busy(op)' <=> Busy(op)
      BY <2>1, InitiateBusy DEF ConnectOk, ConnectWrite, Taken, Busy, Typed
    <3> QED BY <3>1, <3>2, <1>4
  <2> QED BY <1>6, <2>1, <1>1, BeginsReads DEF ConnectCallback
<1>7. CASE WriteRequestCallback(t) \/ WriteRequestContentCallback(t)
  <2>1. ASSUME NEW op \in Writes, Nothing(t, op)
        PROVE  Follows
    BY <2>1, <1>4 DEF Nothing, Taken, Busy, Typed
  <2>2. CASE AndThen(t, "writeRequest", "writeContent")
    <3>1. /\ Taken("writeRequest") \in [Ops -> Results]
          /\ \A op \in Reads : Taken("writeRequest")[op] = ops[op]
      BY DEF Taken, Typed, Results
    <3>2. \A op \in Reads : ops'[op] = Taken("writeRequest")[op]
      BY <2>2, <3>1, InitiateBusy DEF AndThen
    <3> QED BY <2>2, <3>1, <3>2, <1>4 DEF AndThen, Busy
  <2> QED BY <1>7, <2>1, <2>2, <1>1 DEF WriteRequestCallback, WriteRequestContentCallback
<1>8. CASE ReadStatusLineCallback(t)
  <2>1. CASE AndThen(t, "readStatusLine", "readHeaders")
    <3>1. StageOf["readHeaders"] \in Chain!Successors[StageOf["readStatusLine"]]
      BY DEF StageOf, Chain!Successors
    <3> QED BY <2>1, <3>1, ReadsNext DEF AndThen, Busy
  <2> QED BY <1>8, <2>1, <1>1 DEF ReadStatusLineCallback
<1>9. CASE ReadHeadersCallback(t)
  <2>1. CASE HeadersThrow(t)
    <3>1. /\ Busy("readHeaders") /\ ops' = Taken("readHeaders") /\ UNCHANGED <<verdict, outcomes>>
      BY <2>1 DEF HeadersThrow, Busy
    <3> QED BY <3>1, TakesRead, NoNewSuccess
  <2>2. ASSUME NEW next \in {"readContent", "readChunkSize"}
        PROVE  StageOf[next] \in Chain!Successors[StageOf["readHeaders"]]
    BY DEF StageOf, Chain!Successors
  <2> QED BY <1>9, <2>1, <2>2, <1>1, <1>2, <1>3 DEF ReadHeadersCallback
<1>10. CASE ReadContentCallback(t)
  BY <1>10, <1>1, <1>2 DEF ReadContentCallback
<1>11. CASE ReadChunkSizeCallback(t)
  <2>1. ASSUME NEW next \in {"readLastCrlf", "readChunk", "readCrlf"}
        PROVE  StageOf[next] \in Chain!Successors[StageOf["readChunkSize"]]
    BY DEF StageOf, Chain!Successors
  <2> QED BY <1>11, <2>1, <1>1, <1>3 DEF ReadChunkSizeCallback
<1>12. CASE ReadChunkedContentCallback(t)
  <2>1. ASSUME NEW next \in {"readChunk", "readCrlf"}
        PROVE  StageOf[next] \in Chain!Successors[StageOf["readChunk"]]
    BY DEF StageOf, Chain!Successors
  <2> QED BY <1>12, <2>1, <1>1, <1>3 DEF ReadChunkedContentCallback
<1>13. CASE ReadEmptyCrlfCallback(t)
  <2>1. StageOf["readChunkSize"] \in Chain!Successors[StageOf["readCrlf"]]
    BY DEF StageOf, Chain!Successors
  <2> QED BY <1>13, <2>1, <1>1, <1>2, <1>3 DEF ReadEmptyCrlfCallback
<1>14. CASE TimeoutCallback(t)
  <2>1. /\ UNCHANGED <<ops, outcomes>>
        /\ verdict' = verdict \/ verdict' = [verdict EXCEPT ![t] = "error"]
    BY <1>14 DEF TimeoutCallback
  <2>2. \A op \in Reads : Busy(op)' <=> Busy(op)
    BY <2>1 DEF Busy
  <2> QED BY <2>1, <2>2, NoNewSuccess, LeavesReads
<1> QED BY <1>5, <1>6, <1>7, <1>8, <1>9, <1>10, <1>11, <1>12, <1>13, <1>14 DEF Handler

\* Every step does.
LEMMA FollowsStep ==
  ASSUME Typed, ChainInv, ChainInv', [Next]_vars
  PROVE  [Chain!Next]_Chain!vars
<1>1. ASSUME UNCHANGED <<verdict, outcomes>>, \A op \in Ops : Busy(op)' <=> Busy(op)
      PROVE  [Chain!Next]_Chain!vars
  <2>1. Succeeded' => Succeeded
    BY <1>1 DEF Succeeded
  <2> QED BY <1>1, <2>1, LeavesReads
<1>2. ASSUME NEW t \in Threads, Step(t)
      PROVE  [Chain!Next]_Chain!vars
  <2>1. CASE Completion(t)
    <3>1. UNCHANGED ops \/ ShutdownAndClose
      BY <2>1 DEF Completion, CheckCallback, CheckOpen, CloseSocket, InvokeCallback, ClearCallback
    <3>2. \A op \in Reads : Busy(op)' <=> Busy(op)
      BY <3>1, CloseBusy DEF Busy
    <3>3. verdict' = verdict /\ outcomes' \subseteq outcomes \cup {verdict[t]}
      BY <2>1 DEF Completion, CheckCallback, CheckOpen, CloseSocket, InvokeCallback,
                  ClearCallback, Goto
    <3>4. Succeeded' => Succeeded
      BY <3>3 DEF Succeeded
    <3> QED BY <3>2, <3>4, LeavesReads
  <2>2. CASE Return(t)
    <3>1. \A op \in Reads : Busy(op)' <=> Busy(op)
      BY <2>2, CloseBusy DEF Return
    <3>2. verdict' = [verdict EXCEPT ![t] = "error"] /\ UNCHANGED outcomes
      BY <2>2 DEF Return
    <3> QED BY <3>1, <3>2, NoNewSuccess, LeavesReads
  <2>3. CASE UseAfterFree(t)
    BY <2>3, <1>1 DEF UseAfterFree, Busy
  <2> QED BY <1>2, <2>1, <2>2, <2>3, HandlerFollows DEF Step
<1>3. CASE Application
  <2>1. UNCHANGED <<verdict, outcomes>>
    BY <1>3 DEF Application, Run, RunStartTimer, Cancel, CancelClose, DropOwner
  <2>2. CASE Run
    <3>1. \A op \in Reads : Busy(op)' <=> Busy(op)
      BY <2>2 DEF Run, Busy, Typed
    <3> QED BY <2>1, <3>1, LeavesReads DEF Succeeded
  <2>3. CASE RunStartTimer \/ Cancel
    BY <2>1, <2>3, <1>1 DEF RunStartTimer, Cancel, Busy
  <2>4. CASE CancelClose \/ DropOwner
    BY <2>1, <2>4, <1>1, CloseBusy DEF CancelClose, DropOwner
  <2> QED BY <1>3, <2>2, <2>3, <2>4 DEF Application
<1>4. CASE Environment
  <2>1. UNCHANGED <<verdict, outcomes>>
    BY <1>4 DEF Environment, Resolved, Expire, Complete
  <2>2. CASE Resolved
    <3>1. \A op \in Ops : Busy(op)' <=> Busy(op)
      BY <2>2 DEF Resolved, Busy, Typed
    <3> QED BY <2>1, <3>1, <1>1
  <2>3. CASE Expire
    BY <2>1, <2>3, <1>1 DEF Expire, Busy
  <2>4. ASSUME NEW op \in SocketOps, Complete(op)
        PROVE  \A x \in Ops : Busy(x)' <=> Busy(x)
    BY <2>4 DEF Complete, Endings, Busy, Typed
  <2> QED BY <1>4, <2>1, <2>2, <2>3, <2>4, <1>1 DEF Environment
<1>5. CASE UNCHANGED vars
  BY <1>5, <1>1 DEF vars, Busy
<1> QED BY <1>2, <1>3, <1>4, <1>5 DEF Next

\* The stream implements ReadChain on any number of threads (FollowsChain):
\* status line, headers, then the content or the chunks; FinishedCallback is
\* called at the ends of the chain only, and nothing is read after it.
THEOREM ReadsInOrder == Spec => FollowsChain
<1>1. Init => Chain!Init
  <2> SUFFICES ASSUME Init PROVE Chain!Init
    OBVIOUS
  <2>1. ReadStage = "none"
    BY StageOfNothing DEF Init, Busy
  <2>2. Succeeded = FALSE
    BY DEF Init, Succeeded
  <2> QED BY <2>1, <2>2 DEF Chain!Init
<1>2. Typed /\ ChainInv /\ ChainInv' /\ [Next]_vars => [Chain!Next]_Chain!vars
  BY FollowsStep
<1> QED BY <1>1, <1>2, Chained, PTL DEF Spec, FollowsChain, Chain!Spec

-------------------------------------------------------------------------------
(* Success has no rival                                                        *)

\* The thread is on the completion path.
OnPath(t) == pc[t] \in {"settle", "close", "shutdown", "invoke", "clear"}

\* It has found the callback set, and not yet invoked it.
Answering(t) == pc[t] \in {"close", "shutdown", "invoke"}

\* A callback that is set after an invocation is about to be cleared.
SetUntilCleared == callback /\ delivered > 0 => \E t \in Threads : pc[t] = "clear"

\* FinishedCallback is the first to answer ...
SuccessFirst ==
  \A t \in Threads : verdict[t] = "ok" /\ Answering(t) => callback /\ delivered = 0

\* ... and the last.
SuccessLast ==
  "ok" \in outcomes =>
    /\ outcomes = {"ok"} /\ delivered = 1 /\ fault # "emptyCall"
    /\ \A t \in Threads : ~Answering(t)

\* What makes SuccessExclusive inductive.
SoleInv == SetUntilCleared /\ SuccessFirst /\ SuccessLast

\* While FinishedCallback is on the completion path no other handler is: the
\* strand keeps out those it serialises, and the others are over.
LEMMA SoleOnPath ==
  ASSUME Typed, ChainInv, Succeeded, NEW s \in Threads, NEW t \in Threads, OnPath(s), OnPath(t)
  PROVE  s = t
<1>1. \A u \in Threads : ~Connecting(u)
  BY DEF ChainInv, OnePhase, Reading
<1>2. ASSUME NEW u \in Threads, OnPath(u)
      PROVE  job[u] \in Stranded
  BY <1>1, <1>2 DEF Connecting, OnPath, ChainInv, Paths, Typed, Stranded
<1> QED BY <1>2 DEF ChainInv, Serial

\* What a handler does to its thread: it picks it up, or goes on connecting.
LEMMA HandlerMove ==
  ASSUME Typed, ChainInv, NEW t \in Threads, Handler(t)
  PROVE  /\ pc[t] \in {"idle", "open", "write", "read"}
         /\ pc'[t] \in {"settle", "return", "open", "write", "read"}
         /\ job'[t] \in Borrowed => job[t] = "none" /\ \A s \in Threads : job[s] \notin Stranded
         /\ \A s \in Threads \ {t} : pc'[s] = pc[s] /\ job'[s] = job[s] /\ verdict'[s] = verdict[s]
         /\ fault' \in {fault, "exception"}
<1> DEFINE Moves == /\ pc[t] \in {"idle", "open", "write", "read"}
                    /\ pc'[t] \in {"settle", "return", "open", "write", "read"}
                    /\ job'[t] \in Borrowed => job[t] = "none" /\ \A s \in Threads : job[s] \notin Stranded
                    /\ \A s \in Threads \ {t} : pc'[s] = pc[s] /\ job'[s] = job[s]
           Alone == /\ \A s \in Threads \ {t} : verdict'[s] = verdict[s]
                    /\ fault' \in {fault, "exception"}
<1>1. ASSUME NEW h \in Ops \cup {"timeout"}, NEW label \in {"settle", "return", "open", "write"},
             Enter(t, h, label)
      PROVE  Moves
  <2>1. job[t] = "none" /\ pc[t] = "idle"
    BY <1>1 DEF Enter, ChainInv, Paths
  <2>2. job'[t] \in Borrowed => \A s \in Threads : job[s] \notin Stranded
    BY <1>1 DEF Enter, Stranded, Typed
  <2> QED BY <1>1, <2>1, <2>2 DEF Enter, Typed
<1>2. ASSUME NEW from \in {"open", "write", "read"}, NEW to \in {"read", "return"},
             Goto(t, from, to)
      PROVE  Moves
  BY <1>2 DEF Goto, Typed, ChainInv, Paths
<1>3. ASSUME NEW op \in Ops, NEW results, NEW outcome, Settle(t, op, results, outcome)
      PROVE  Moves /\ Alone
  BY <1>1, <1>3 DEF Settle, Typed
<1>4. ASSUME NEW op \in Ops, NEW results, NEW next, AsyncRead(t, op, results, next)
      PROVE  Moves /\ Alone
  BY <1>1, <1>4 DEF AsyncRead
<1>5. ASSUME NEW op \in Ops, NEW next, AndThen(t, op, next)
      PROVE  Moves /\ Alone
  BY <1>1, <1>5 DEF AndThen
<1>6. ASSUME NEW op \in Ops, Nothing(t, op)
      PROVE  Moves /\ Alone
  BY <1>1, <1>6 DEF Nothing
<1>7. CASE ResolveCallback(t)
  <2>1. CASE ResolveOk(t)
    BY <2>1, <1>1 DEF ResolveOk
  <2>2. CASE ResolveOpen(t)
    <3>1. Moves
      BY <2>2, <1>2 DEF ResolveOpen
    <3> QED BY <2>2, <3>1 DEF ResolveOpen, Goto
  <2>3. CASE Settle(t, "resolve", {"error"}, "error")
    BY <2>3, <1>3
  <2> QED BY <1>7, <2>1, <2>2, <2>3 DEF ResolveCallback
<1>8. CASE ConnectCallback(t)
  <2>1. CASE ConnectOk(t)
    BY <2>1, <1>1 DEF ConnectOk
  <2>2. CASE ConnectWrite(t)
    <3>1. Moves
      BY <2>2, <1>2 DEF ConnectWrite
    <3> QED BY <2>2, <3>1 DEF ConnectWrite, Goto
  <2>3. CASE ConnectRead(t)
    <3>1. Moves
      BY <2>3, <1>2 DEF ConnectRead
    <3> QED BY <2>3, <3>1 DEF ConnectRead, Goto
  <2>4. CASE Settle(t, "connect", {"error"}, "error")
    BY <2>4, <1>3
  <2> QED BY <1>8, <2>1, <2>2, <2>3, <2>4 DEF ConnectCallback
<1>9. CASE \/ WriteRequestCallback(t) \/ WriteRequestContentCallback(t)
           \/ ReadStatusLineCallback(t)
  <2>1. Moves /\ Alone
    BY <1>9, <1>3, <1>5, <1>6
    DEF WriteRequestCallback, WriteRequestContentCallback, ReadStatusLineCallback
  <2> QED BY <2>1
<1>10. CASE ReadHeadersCallback(t)
  <2>1. CASE HeadersThrow(t)
    BY <2>1, <1>1 DEF HeadersThrow
  <2>2. Moves /\ Alone
    BY <1>10, <2>1, <1>3, <1>4 DEF ReadHeadersCallback
  <2> QED BY <2>2
<1>11. CASE \/ ReadContentCallback(t) \/ ReadChunkSizeCallback(t)
            \/ ReadChunkedContentCallback(t) \/ ReadEmptyCrlfCallback(t)
  <2>1. Moves /\ Alone
    BY <1>11, <1>3, <1>4
    DEF ReadContentCallback, ReadChunkSizeCallback, ReadChunkedContentCallback,
        ReadEmptyCrlfCallback
  <2> QED BY <2>1
<1>12. CASE TimeoutCallback(t)
  <2>1. Moves
    BY <1>12, <1>1 DEF TimeoutCallback
  <2>2. verdict' = verdict \/ verdict' = [verdict EXCEPT ![t] = "error"]
    BY <1>12 DEF TimeoutCallback
  <2>3. Alone
    BY <1>12, <2>2 DEF TimeoutCallback, Typed
  <2> QED BY <2>1, <2>3
<1> QED BY <1>7, <1>8, <1>9, <1>10, <1>11, <1>12 DEF Handler

\* A step that answers nothing and brings no thread near the callback keeps
\* SoleInv.
LEMMA SoleMove ==
  ASSUME SoleInv, NEW t \in Threads, UNCHANGED <<callback, delivered, outcomes>>,
         \A s \in Threads \ {t} : pc'[s] = pc[s] /\ verdict'[s] = verdict[s],
         pc[t] # "clear", ~Answering(t)', fault' # "emptyCall"
  PROVE  SoleInv'
<1>1. SetUntilCleared'
  BY DEF SoleInv, SetUntilCleared
<1>2. SuccessFirst'
  BY DEF SoleInv, SuccessFirst, Answering
<1>3. SuccessLast'
  BY DEF SoleInv, SuccessLast, Answering
<1> QED BY <1>1, <1>2, <1>3 DEF SoleInv

\* So does one that moves no thread.
LEMMA SoleElsewhere ==
  ASSUME SoleInv, UNCHANGED <<callback, delivered, outcomes, pc, verdict>>, fault' # "emptyCall"
  PROVE  SoleInv'
BY DEF SoleInv, SetUntilCleared, SuccessFirst, SuccessLast, Answering

\* The test of callback_ lets nobody follow FinishedCallback.
LEMMA SoleCheck ==
  ASSUME Typed, ChainInv, SoleInv, fault = "none", NEW t \in Threads, CheckCallback(t)
  PROVE  SoleInv'
<1>1. pc[t] = "settle" /\ UNCHANGED <<answerVars, verdict, fault>>
  BY DEF CheckCallback, Goto
<1>2. CASE ~callback
  <2>1. pc' = [pc EXCEPT ![t] = "return"]
    BY <1>2 DEF CheckCallback, Goto
  <2>2. pc'[t] = "return" /\ \A s \in Threads \ {t} : pc'[s] = pc[s]
    BY <2>1 DEF Typed
  <2>3. ~Answering(t)'
    BY <2>2 DEF Answering
  <2> QED BY <1>1, <2>2, <2>3, SoleMove
<1>3. CASE callback
  <2>1. pc' = [pc EXCEPT ![t] = "close"]
    BY <1>3 DEF CheckCallback, Goto
  <2>2. pc'[t] = "close" /\ \A s \in Threads \ {t} : pc'[s] = pc[s]
    BY <2>1 DEF Typed
  <2>3. Succeeded => delivered = 0
    <3>1. SUFFICES ASSUME Succeeded, delivered # 0 PROVE FALSE
      OBVIOUS
    <3>2. PICK s \in Threads : pc[s] = "clear"
      BY <1>3, <3>1 DEF SoleInv, SetUntilCleared, Typed
    <3>3. OnPath(s) /\ OnPath(t)
      BY <1>1, <3>2 DEF OnPath
    <3> QED BY <1>1, <3>1, <3>2, <3>3, SoleOnPath
  <2>4. SetUntilCleared'
    BY <1>1, <2>2 DEF SoleInv, SetUntilCleared
  <2>5. SuccessFirst'
    BY <1>1, <1>3, <2>2, <2>3 DEF SoleInv, SuccessFirst, Succeeded, Answering
  <2>6. "ok" \notin outcomes
    BY <2>3 DEF SoleInv, SuccessLast, Succeeded
  <2> QED BY <1>1, <2>4, <2>5, <2>6 DEF SoleInv, SuccessLast
<1> QED BY <1>2, <1>3

\* CloseSocket leaves the answer alone.
LEMMA SoleClose ==
  ASSUME Typed, SoleInv, NEW t \in Threads, CheckOpen(t) \/ CloseSocket(t)
  PROVE  SoleInv'
<1>1. /\ pc[t] \in {"close", "shutdown"} /\ pc'[t] \in {"shutdown", "invoke"}
      /\ \A s \in Threads \ {t} : pc'[s] = pc[s]
      /\ UNCHANGED <<answerVars, verdict>>
  BY DEF CheckOpen, CloseSocket, Goto, Typed
<1>2. SetUntilCleared' /\ SuccessFirst'
  BY <1>1 DEF SoleInv, SetUntilCleared, SuccessFirst, Answering
<1>3. "ok" \notin outcomes
  BY <1>1 DEF SoleInv, SuccessLast, Answering
<1> QED BY <1>1, <1>2, <1>3 DEF SoleInv, SuccessLast

\* The callback is invoked with success only if it has not been invoked.
LEMMA SoleInvoke ==
  ASSUME Typed, LifeInv, ChainInv, SoleInv, fault = "none", NEW t \in Threads, InvokeCallback(t)
  PROVE  SoleInv'
<1>1. /\ pc[t] = "invoke" /\ pc'[t] = "clear"
      /\ \A s \in Threads \ {t} : pc'[s] = pc[s]
      /\ UNCHANGED <<callback, verdict>>
  BY DEF InvokeCallback, Goto, Typed
<1>2. "ok" \notin outcomes /\ OnPath(t)
  BY <1>1 DEF SoleInv, SuccessLast, Answering, OnPath
<1>3. SetUntilCleared'
  BY <1>1 DEF SetUntilCleared
<1>4. ASSUME NEW s \in Threads, verdict[s] = "ok", OnPath(s)
      PROVE  s = t
  BY <1>2, <1>4, SoleOnPath DEF Succeeded
<1>5. SuccessFirst'
  BY <1>1, <1>4 DEF SuccessFirst, Answering, OnPath
<1>6. CASE callback /\ verdict[t] = "ok"
  <2>1. delivered = 0 /\ outcomes = {}
    BY <1>1, <1>6 DEF SoleInv, SuccessFirst, Answering, LifeInv, Told
  <2>2. delivered' = 1 /\ outcomes' = {"ok"} /\ fault' = fault
    BY <1>6, <2>1 DEF InvokeCallback
  <2>3. \A s \in Threads : ~Answering(s)'
    <3>1. SUFFICES ASSUME NEW s \in Threads, Answering(s)' PROVE FALSE
      OBVIOUS
    <3>2. s # t /\ OnPath(s)
      BY <1>1, <3>1 DEF Answering, OnPath
    <3> QED BY <1>2, <1>6, <3>2, SoleOnPath DEF Succeeded
  <2> QED BY <1>3, <1>5, <2>2, <2>3 DEF SoleInv, SuccessLast
<1>7. CASE ~(callback /\ verdict[t] = "ok")
  <2>1. "ok" \notin outcomes'
    BY <1>2, <1>7 DEF InvokeCallback
  <2> QED BY <1>3, <1>5, <2>1 DEF SoleInv, SuccessLast
<1> QED BY <1>6, <1>7

\* Whoever clears the callback, FinishedCallback is not about to invoke it.
LEMMA SoleClear ==
  ASSUME Typed, ChainInv, SoleInv, NEW t \in Threads, ClearCallback(t)
  PROVE  SoleInv'
<1>1. /\ pc[t] = "clear" /\ pc'[t] = "return"
      /\ \A s \in Threads \ {t} : pc'[s] = pc[s]
      /\ callback' = FALSE /\ UNCHANGED <<delivered, outcomes, verdict, fault>>
  BY DEF ClearCallback, Goto, Typed
<1>2. SetUntilCleared'
  BY <1>1 DEF SetUntilCleared
<1>3. SuccessFirst'
  <2>1. SUFFICES ASSUME NEW s \in Threads, verdict'[s] = "ok", Answering(s)' PROVE FALSE
    BY DEF SuccessFirst
  <2>2. Succeeded /\ s # t /\ OnPath(s) /\ OnPath(t)
    BY <1>1, <2>1 DEF Succeeded, Answering, OnPath
  <2> QED BY <2>2, SoleOnPath
<1>4. SuccessLast'
  BY <1>1 DEF SoleInv, SuccessLast, Answering
<1> QED BY <1>2, <1>3, <1>4 DEF SoleInv

\* Every step of the specification keeps SoleInv.
LEMMA SoleStep ==
  ASSUME Typed, LifeInv, ChainInv, SoleInv, [Next]_vars
  PROVE  SoleInv'
<1>1. ASSUME fault = "none", NEW t \in Threads, Step(t)
      PROVE  SoleInv'
  <2>1. CASE Handler(t)
    <3>1. UNCHANGED <<callback, delivered, outcomes>>
      BY <2>1, HandlerFrame
    <3>2. ~Answering(t)' /\ pc[t] # "clear" /\ fault' # "emptyCall"
      BY <1>1, <2>1, HandlerMove DEF Answering
    <3> QED BY <2>1, <3>1, <3>2, HandlerMove, SoleMove
  <2>2. CASE Return(t)
    <3>1. /\ pc[t] = "return" /\ pc'[t] = "idle" /\ UNCHANGED answerVars
          /\ \A s \in Threads \ {t} : pc'[s] = pc[s] /\ verdict'[s] = verdict[s]
      BY <2>2 DEF Return, Typed
    <3>2. fault' # "emptyCall"
      BY <1>1, <2>2, NoEmptyCall DEF Return
    <3> QED BY <3>1, <3>2, SoleMove DEF Answering
  <2>3. CASE UseAfterFree(t)
    BY <2>3, SoleElsewhere DEF UseAfterFree
  <2> QED BY <1>1, <2>1, <2>2, <2>3, SoleCheck, SoleClose, SoleInvoke, SoleClear
      DEF Step, Completion
<1>2. ASSUME fault = "none", Application
      PROVE  SoleInv'
  <2>1. fault' # "emptyCall"
    BY <1>2, NoEmptyCall DEF Application, Run, RunStartTimer, Cancel, CancelClose, DropOwner
  <2>2. UNCHANGED <<callback, delivered, outcomes, pc, verdict>>
    BY <1>2 DEF Application, Run, RunStartTimer, Cancel, CancelClose, DropOwner
  <2> QED BY <2>1, <2>2, SoleElsewhere
<1>3. ASSUME fault = "none", Environment
      PROVE  SoleInv'
  BY <1>3, SoleElsewhere DEF Environment, Resolved, Expire, Complete
<1>4. CASE UNCHANGED vars
  BY <1>4 DEF vars, SoleInv, SetUntilCleared, SuccessFirst, SuccessLast, Answering
<1> QED BY <1>1, <1>2, <1>3, <1>4 DEF Next

\* On any number of threads a response is delivered once, with no error before
\* it, beside it or after it (SuccessExclusive), although errors alone may be
\* delivered twice.
THEOREM SuccessAlone == Spec => []SuccessExclusive
<1>1. Init => SoleInv
  BY DEF Init, SoleInv, SetUntilCleared, SuccessFirst, SuccessLast, Answering
<1>2. Typed /\ GuardInv /\ LifeInv /\ ChainInv /\ SoleInv /\ [Next]_vars => SoleInv'
  BY SoleStep
<1>3. SoleInv => SuccessExclusive
  BY DEF SoleInv, SuccessLast, SuccessExclusive
<1> QED BY <1>1, <1>2, <1>3, Chained, PTL DEF Spec

-------------------------------------------------------------------------------
(* The stream outlives its answer                                              *)

\* Something will run TimeoutCallback, which holds a reference.
Waiting == armed \/ expired > 0 \/ aborted > 0

\* ReadHeadersCallback holds no reference of its own; until it has reported an
\* error, a wait does, which the strand keeps from running meanwhile.
Kept ==
  \A t \in Threads :
    job[t] \in Borrowed /\ OnPath(t) /\ "error" \notin outcomes
      => user \in {"new", "running"} \/ Waiting

\* What makes ExpiredMeansFinished inductive.
KeepInv == ExpiredMeansFinished /\ Kept /\ (user = "new" => owner)

\* If nobody holds the stream, then it has answered.
LEMMA LastReference ==
  ASSUME Typed, GuardInv, LifeInv, KeepInv, fault = "none",
         user \in {"idle", "cancelling"}, ~Queued, ~Running({s \in Threads : pc[s] # "return"})
  PROVE  delivered > 0
<1>1. ~armed /\ expired = 0 /\ aborted = 0
  BY DEF Queued, Typed
<1>2. SUFFICES ASSUME NEW t \in Threads, Settling(t), delivered = 0
               PROVE  FALSE
  BY <1>1 DEF GuardInv, NeverUnguarded, Typed
<1>3. pc[t] # "return" /\ pc[t] # "idle" /\ OnPath(t)
  BY <1>2 DEF Settling, OnPath
<1>4. job[t] \in Borrowed
  BY <1>3 DEF Running, GuardInv, IdleThreads
<1>5. outcomes = {}
  BY <1>2 DEF LifeInv, Told
<1> QED BY <1>1, <1>3, <1>4, <1>5 DEF KeepInv, Kept, Waiting

\* A step that brings no borrowed handler onto the completion path and loses no
\* wait keeps Kept.
LEMMA KeptMove ==
  ASSUME Kept, outcomes \subseteq outcomes',
         user \in {"new", "running"} => user' \in {"new", "running"} \/ armed',
         Waiting => Waiting',
         \A t \in Threads : OnPath(t)' /\ job'[t] \in Borrowed => OnPath(t) /\ job[t] \in Borrowed
  PROVE  Kept'
BY DEF Kept, Waiting

\* A handler loses no wait, but for TimeoutCallback; if it is a borrowed one
\* that fails, the request is still guarded.
LEMMA KeptHandler ==
  ASSUME Typed, GuardInv, LifeInv, ChainInv, Kept, fault = "none",
         NEW t \in Threads, Handler(t)
  PROVE  Kept'
<1>1. UNCHANGED <<callback, delivered, outcomes, user, owner, destroyed>>
  BY HandlerFrame
<1>2. ASSUME Waiting => Waiting', job'[t] \in Borrowed => pc'[t] = "return"
      PROVE  Kept'
  <2>1. \A s \in Threads : OnPath(s)' /\ job'[s] \in Borrowed => OnPath(s) /\ job[s] \in Borrowed
    BY <1>2, HandlerMove DEF OnPath
  <2> QED BY <1>1, <1>2, <2>1, KeptMove
<1>3. ASSUME NEW op \in Ops, NEW results, "none" \notin results, NEW outcome,
             Settle(t, op, results, outcome)
      PROVE  Kept'
  <2>1. /\ UNCHANGED timerVars /\ Enter(t, op, "settle") /\ Busy(op)
        /\ job'[t] = op /\ pc'[t] = "settle"
    BY <1>3 DEF Settle, Enter, Busy, Typed
  <2>2. Waiting => Waiting'
    BY <2>1 DEF Waiting
  <2>3. CASE op \notin Borrowed
    BY <2>1, <2>2, <2>3, <1>2
  <2>4. CASE op \in Borrowed
    <3>1. ~Succeeded /\ Reading /\ \A s \in Threads : job[s] \notin Stranded
      BY <2>1, <2>4 DEF ChainInv, OneRead, Reading, Enter, Stranded
    <3>2. \A s \in Threads : ~Settling(s)
      <4>1. SUFFICES ASSUME NEW s \in Threads, Settling(s) PROVE FALSE
        OBVIOUS
      <4>2. job[s] \notin {"none", "resolve", "connect"}
        BY <3>1, <4>1 DEF Settling, ChainInv, Paths, OnePhase, Connecting
      <4> QED BY <3>1, <4>2 DEF Typed, Stranded
    <3>3. delivered > 0 \/ user \in {"new", "running"} \/ armed \/ expired > 0
      BY <3>2 DEF GuardInv, NeverUnguarded
    <3>4. CASE user \in {"new", "running"} \/ armed \/ expired > 0
      BY <1>1, <2>1, <3>4 DEF Kept, Waiting
    <3>5. CASE delivered > 0 /\ "error" \in outcomes
      BY <1>1, <3>5 DEF Kept
    <3>6. CASE delivered > 0 /\ "error" \notin outcomes
      <4>1. outcomes # {}
        BY <3>6 DEF LifeInv, Told, Typed
      <4>2. "ok" \in outcomes
        BY <3>6, <4>1 DEF Typed
      <4> QED BY <3>1, <4>2 DEF Succeeded
    <3> QED BY <3>3, <3>4, <3>5, <3>6
  <2> QED BY <2>3, <2>4
<1>4. ASSUME NEW op \in Ops, NEW results, NEW next, AsyncRead(t, op, results, next)
      PROVE  Kept'
  BY <1>4, <1>2 DEF AsyncRead, StartTimer, Waiting, Enter, Typed
<1>5. ASSUME NEW op \in Ops, NEW next, AndThen(t, op, next)
      PROVE  Kept'
  BY <1>5, <1>2 DEF AndThen, Waiting, Enter, Typed
<1>6. ASSUME NEW op \in Ops, Nothing(t, op)
      PROVE  Kept'
  BY <1>6, <1>2 DEF Nothing, Waiting, Enter, Typed
<1>7. CASE ResolveCallback(t)
  <2>1. CASE ResolveOk(t)
    BY <2>1, <1>2 DEF ResolveOk, StartTimer, Waiting, Enter, Typed
  <2>2. CASE ResolveOpen(t)
    BY <2>2, <1>2 DEF ResolveOpen, Waiting, Goto, Typed
  <2> QED BY <1>7, <2>1, <2>2, <1>3 DEF ResolveCallback
<1>8. CASE ConnectCallback(t)
  <2>1. CASE ConnectOk(t)
    BY <2>1, <1>2 DEF ConnectOk, StartTimer, Waiting, Enter, Typed
  <2>2. CASE ConnectWrite(t) \/ ConnectRead(t)
    <3>1. job'[t] \notin Borrowed
      BY <2>2 DEF ConnectWrite, ConnectRead, Goto, ChainInv, Paths
    <3> QED BY <2>2, <3>1, <1>2 DEF ConnectWrite, ConnectRead, Waiting
  <2> QED BY <1>8, <2>1, <2>2, <1>3 DEF ConnectCallback
<1>9. CASE ReadHeadersCallback(t)
  <2>1. CASE HeadersThrow(t)
    BY <2>1, <1>2 DEF HeadersThrow, Waiting, Enter, Typed
  <2> QED BY <1>9, <2>1, <1>3, <1>4 DEF ReadHeadersCallback
<1>10. CASE TimeoutCallback(t)
  <2>1. \A s \in Threads : job'[s] \notin Borrowed
    BY <1>10 DEF TimeoutCallback, Enter, Stranded, Typed
  <2> QED BY <2>1 DEF Kept
<1>11. CASE \/ WriteRequestCallback(t) \/ WriteRequestContentCallback(t)
            \/ ReadStatusLineCallback(t)
  BY <1>11, <1>3, <1>5, <1>6
  DEF WriteRequestCallback, WriteRequestContentCallback, ReadStatusLineCallback
<1>12. CASE \/ ReadContentCallback(t) \/ ReadChunkSizeCallback(t)
            \/ ReadChunkedContentCallback(t) \/ ReadEmptyCrlfCallback(t)
  BY <1>12, <1>3, <1>4
  DEF ReadContentCallback, ReadChunkSizeCallback, ReadChunkedContentCallback,
      ReadEmptyCrlfCallback
<1> QED BY <1>7, <1>8, <1>9, <1>10, <1>11, <1>12 DEF Handler

\* On the completion path a cancelled timer leaves an aborted wait behind.
LEMMA KeptCompletion ==
  ASSUME Typed, Kept, NEW t \in Threads, Completion(t)
  PROVE  Kept'
<1>1. /\ OnPath(t) /\ job' = job /\ \A s \in Threads \ {t} : pc'[s] = pc[s]
      /\ UNCHANGED user /\ outcomes \subseteq outcomes'
  BY DEF Completion, CheckCallback, CheckOpen, CloseSocket, InvokeCallback, ClearCallback,
         Goto, OnPath, Typed
<1>2. \A s \in Threads : OnPath(s)' => OnPath(s)
  BY <1>1 DEF OnPath
<1>3. Waiting => Waiting'
  <2>1. UNCHANGED timerVars \/ CancelTimer
    BY DEF Completion, CheckCallback, CheckOpen, CloseSocket, InvokeCallback, ClearCallback
  <2> QED BY <2>1 DEF CancelTimer, Abort, Waiting, Typed
<1> QED BY <1>1, <1>2, <1>3, KeptMove

\* A step that destroys the stream only when it has answered keeps KeepInv.
LEMMA KeepMove ==
  ASSUME KeepInv, Kept', destroyed' => destroyed \/ delivered > 0,
         delivered > 0 => delivered' > 0, user' = "new" => user = "new" /\ owner' = owner
  PROVE  KeepInv'
BY DEF KeepInv, ExpiredMeansFinished

\* Every step of a thread keeps KeepInv.
LEMMA KeepThread ==
  ASSUME Typed, GuardInv, LifeInv, ChainInv, KeepInv, fault = "none",
         NEW t \in Threads, Step(t)
  PROVE  KeepInv'
<1>1. UNCHANGED <<user, owner>>
  BY StepFrame
<1>2. delivered > 0 => delivered' > 0
  BY AnswerFrame DEF Typed
<1>3. CASE Handler(t)
  <2>1. Kept' /\ UNCHANGED destroyed
    BY <1>3, KeptHandler, HandlerFrame DEF KeepInv
  <2> QED BY <1>1, <1>2, <2>1, KeepMove
<1>4. CASE Completion(t)
  <2>1. Kept'
    BY <1>4, KeptCompletion DEF KeepInv
  <2>2. UNCHANGED destroyed
    BY <1>4 DEF Completion, CheckCallback, CheckOpen, CloseSocket, InvokeCallback, ClearCallback
  <2> QED BY <1>1, <1>2, <2>1, <2>2, KeepMove
<1>5. CASE Return(t)
  <2>1. destroyed' => destroyed \/ delivered > 0
    <3>1. SUFFICES ASSUME ~owner, user \notin {"running", "cancelling"}, ~Queued,
                          ~Running(Threads \ {t})
                   PROVE  delivered > 0
      BY <1>5 DEF Return
    <3>2. user = "idle"
      BY <3>1 DEF KeepInv, Typed
    <3>3. ~Running({s \in Threads : pc[s] # "return"})
      BY <1>5, <3>1 DEF Return, Running
    <3> QED BY <3>1, <3>2, <3>3, LastReference
  <2>2. Kept'
    <3>1. /\ pc'[t] = "idle" /\ \A s \in Threads \ {t} : pc'[s] = pc[s] /\ job'[s] = job[s]
          /\ UNCHANGED <<outcomes, armed, expired, aborted>>
      BY <1>5 DEF Return, Typed
    <3>2. \A s \in Threads : OnPath(s)' /\ job'[s] \in Borrowed => OnPath(s) /\ job[s] \in Borrowed
      BY <3>1 DEF OnPath
    <3> QED BY <1>1, <3>1, <3>2, KeptMove DEF KeepInv, Waiting
  <2> QED BY <1>1, <1>2, <2>1, <2>2, KeepMove
<1>6. CASE UseAfterFree(t)
  BY <1>6 DEF UseAfterFree, KeepInv, ExpiredMeansFinished, Kept, OnPath, Waiting
<1> QED BY <1>3, <1>4, <1>5, <1>6 DEF Step

\* So does every step of the application ...
LEMMA KeepApplication ==
  ASSUME Typed, GuardInv, LifeInv, KeepInv, fault = "none", Application
  PROVE  KeepInv'
<1>1. Kept'
  <2>1. UNCHANGED <<pc, job, outcomes>> /\ (Waiting => Waiting')
    BY DEF Application, Run, RunStartTimer, Cancel, CancelClose, DropOwner, StartTimer, Waiting
  <2>2. user \in {"new", "running"} => user' \in {"new", "running"} \/ armed'
    BY DEF Application, Run, RunStartTimer, Cancel, CancelClose, DropOwner, StartTimer
  <2>3. \A t \in Threads : OnPath(t)' => OnPath(t)
    BY <2>1 DEF OnPath
  <2> QED BY <2>1, <2>2, <2>3, KeptMove DEF KeepInv
<1>2. delivered' = delivered /\ (user' = "new" => user = "new" /\ owner' = owner)
  BY DEF Application, Run, RunStartTimer, Cancel, CancelClose, DropOwner
<1>3. ~Running(Threads) => ~Running({s \in Threads : pc[s] # "return"})
  BY DEF Running
<1>4. destroyed' => destroyed \/ delivered > 0
  BY <1>3, LastReference DEF Application, Run, RunStartTimer, Cancel, CancelClose, DropOwner
<1> QED BY <1>1, <1>2, <1>4, KeepMove

\* ... and of the rest.
LEMMA KeepStep ==
  ASSUME Typed, GuardInv, LifeInv, ChainInv, KeepInv, [Next]_vars
  PROVE  KeepInv'
<1>1. CASE Environment
  <2>1. /\ UNCHANGED <<pc, job, outcomes, delivered, user, owner, destroyed>>
        /\ Waiting => Waiting'
    BY <1>1 DEF Environment, Resolved, Expire, Complete, Waiting, Typed
  <2>2. \A t \in Threads : OnPath(t)' => OnPath(t)
    BY <2>1 DEF OnPath
  <2>3. Kept'
    BY <2>1, <2>2, KeptMove DEF KeepInv
  <2> QED BY <2>1, <2>3, KeepMove
<1>2. CASE UNCHANGED vars
  BY <1>2 DEF vars, KeepInv, ExpiredMeansFinished, Kept, OnPath, Waiting
<1> QED BY <1>1, <1>2, KeepThread, KeepApplication DEF Next

\* All the invariants together.
LEMMA Lived == Spec => [](Typed /\ GuardInv /\ LifeInv /\ ChainInv /\ SoleInv /\ KeepInv)
<1>1. Init => SoleInv /\ KeepInv
  BY DEF Init, SoleInv, SetUntilCleared, SuccessFirst, SuccessLast, Answering,
         KeepInv, ExpiredMeansFinished, Kept, OnPath
<1>2. /\ Typed /\ GuardInv /\ LifeInv /\ ChainInv /\ SoleInv /\ KeepInv /\ [Next]_vars
      => SoleInv' /\ KeepInv'
  BY SoleStep, KeepStep
<1> QED BY <1>1, <1>2, Chained, PTL DEF Spec

\* A stream is destroyed only after it has answered, so that a watcher may take
\* an expired weak pointer for a finished request (ExpiredMeansFinished),
\* whatever the number of threads, although one handler holds no reference.
THEOREM FinishedBeforeExpired == Spec => []ExpiredMeansFinished
<1>1. KeepInv => ExpiredMeansFinished
  BY DEF KeepInv
<1> QED BY <1>1, Lived, PTL

\* Nothing but a borrowed handler of a destroyed stream uses it.
LEMMA OnlyUseAfterFree ==
  ASSUME Typed, ChainInv, Next, fault' = "dangling"
  PROVE  \E t \in Threads : UseAfterFree(t)
<1>1. fault = "none"
  BY DEF Next
<1>2. ~(ShutdownAndClose \/ Destroy \/ UNCHANGED fault \/ fault' \in {fault, "exception", "emptyCall"})
  BY <1>1 DEF ShutdownAndClose, Destroy
<1>3. ~Application
  BY <1>2 DEF Application, Run, RunStartTimer, Cancel, CancelClose, DropOwner
<1>4. ~Environment
  BY <1>2 DEF Environment, Resolved, Expire, Complete
<1>5. ASSUME NEW t \in Threads, Step(t), ~UseAfterFree(t)
      PROVE  FALSE
  <2>1. CASE Handler(t)
    BY <1>2, <2>1, HandlerMove
  <2>2. CASE Completion(t)
    BY <1>2, <2>2
    DEF Completion, CheckCallback, CheckOpen, CloseSocket, InvokeCallback, ClearCallback
  <2>3. CASE Return(t)
    BY <1>2, <2>3 DEF Return
  <2> QED BY <1>5, <2>1, <2>2, <2>3 DEF Step
<1> QED BY <1>3, <1>4, <1>5 DEF Next

\* What it uses then has reported an error and nothing else.
LEMMA DanglesStep ==
  ASSUME Typed, LifeInv, ChainInv, SoleInv, KeepInv, DanglesOnlyAfterError, [Next]_vars
  PROVE  DanglesOnlyAfterError'
<1>1. CASE UNCHANGED vars
  BY <1>1 DEF vars, DanglesOnlyAfterError
<1>2. ASSUME Next, fault' = "dangling"
      PROVE  outcomes' = {"error"}
  <2>1. PICK t \in Threads : UseAfterFree(t)
    BY <1>2, OnlyUseAfterFree
  <2>2. destroyed /\ outcomes' = outcomes
    BY <2>1 DEF UseAfterFree
  <2>3. outcomes # {}
    BY <2>2 DEF KeepInv, ExpiredMeansFinished, LifeInv, Told, Typed
  <2>4. ASSUME "ok" \in outcomes
        PROVE  FALSE
    <3>1. outcomes = {"ok"} /\ \A op \in Reads : ~Busy(op)
      BY <2>4 DEF SoleInv, SuccessLast, ChainInv, OneRead, Succeeded
    <3>2. job[t] \in Borrowed /\ pc[t] # "return"
      BY <2>1, <3>1 DEF UseAfterFree, Busy
    <3>3. OnPath(t)
      BY <3>2 DEF OnPath, ChainInv, Paths, Typed, Labels
    <3>4. user \in {"new", "running"} \/ Waiting
      BY <3>1, <3>2, <3>3 DEF KeepInv, Kept
    <3> QED BY <2>2, <3>4 DEF LifeInv, Released, Waiting, Typed
  <2> QED BY <2>2, <2>3, <2>4 DEF Typed
<1> QED BY <1>1, <1>2 DEF DanglesOnlyAfterError

\* A handler that holds no reference can run on a destroyed stream, but only on
\* one that has failed (DanglesOnlyAfterError), whatever the number of threads.
THEOREM DanglesAfterErrorOnly == Spec => []DanglesOnlyAfterError
<1>1. Init => DanglesOnlyAfterError
  BY DEF Init, DanglesOnlyAfterError
<1>2. /\ Typed /\ LifeInv /\ ChainInv /\ SoleInv /\ KeepInv
      /\ DanglesOnlyAfterError /\ [Next]_vars
      => DanglesOnlyAfterError'
  BY DanglesStep
<1> QED BY <1>1, <1>2, Lived, PTL DEF Spec

-------------------------------------------------------------------------------
(* One thread: an answered stream is closed, but for a late lookup             *)

\* Nothing waits for a socket that is closed.
ClosedIsStill == socket = "closed" => \A op \in SocketOps : ops[op] # "pending"

\* The name is being looked up, or ResolveCallback is about to connect.
LookingUp == Busy("resolve") \/ \E t \in Threads : pc[t] = "open"

\* The handler that answers closes the socket before, and only ResolveCallback
\* opens it again.
ClosedAfterAnswer ==
  /\ ~callback /\ ~late => socket = "closed" /\ ~LookingUp
  /\ \A t \in Threads : pc[t] \in {"invoke", "clear"} => socket = "closed"
  /\ \A t \in Threads : pc[t] = "clear" => late \/ ~LookingUp

\* What makes SettledIsQuiet inductive.
QuietInv == ClosedIsStill /\ ClosedAfterAnswer

\* Closing the socket, in CloseSocket or the destructor, keeps the socket shut.
LEMMA QuietClose ==
  ASSUME Typed, ClosedIsStill, \/ UNCHANGED <<destroyed, socket, ops, fault>>
                                \/ ShutdownAndClose
                                \/ Destroy
  PROVE  /\ ClosedIsStill' /\ (socket = "closed" => socket' = "closed")
         /\ Busy("resolve")' => Busy("resolve")
<1>1. CASE UNCHANGED <<socket, ops>>
  BY <1>1 DEF ClosedIsStill, Busy
<1>2. CASE ShutdownAndClose
  <2>1. \A op \in SocketOps : AbortedOps[op] # "pending"
    BY DEF AbortedOps, Typed
  <2>2. AbortedOps["resolve"] = ops["resolve"]
    BY DEF AbortedOps
  <2> QED BY <1>2, <2>1, <2>2 DEF ShutdownAndClose, ClosedIsStill, Busy
<1> QED BY <1>1, <1>2 DEF Destroy

\* What is started on a closed socket does not wait for it.
LEMMA InitiateClosed ==
  ASSUME socket = "closed", NEW o \in [Ops -> Results], NEW op \in SocketOps,
         NEW o2 \in Initiate(o, op)
  PROVE  o2[op] # "pending"
BY DEF Initiate

\* A handler that starts nothing waits for nothing more.
LEMMA QuietTake ==
  ASSUME Typed, ClosedIsStill, NEW op \in Ops, ops' = Taken(op), UNCHANGED socket
  PROVE  ClosedIsStill'
BY DEF ClosedIsStill, Taken, Typed

\* Nor does one that starts the next operation on a closed socket.
LEMMA QuietNext ==
  ASSUME Typed, ClosedIsStill, NEW op \in Ops, NEW next \in SocketOps,
         ops' \in Initiate(Taken(op), next), UNCHANGED socket
  PROVE  ClosedIsStill' /\ (Busy("resolve")' => Busy("resolve"))
<1>1. /\ Taken(op) \in [Ops -> Results]
      /\ \A x \in Ops : Taken(op)[x] = IF x = op THEN "none" ELSE ops[x]
  BY DEF Taken, Typed, Results
<1>2. ops'[next] # "none" /\ \A x \in Ops \ {next} : ops'[x] = Taken(op)[x]
  BY <1>1, InitiateBusy
<1>3. socket = "closed" => ops'[next] # "pending"
  BY <1>1, InitiateClosed
<1> QED BY <1>1, <1>2, <1>3 DEF ClosedIsStill, Busy

\* On one thread, a step that is not about to answer keeps QuietInv if it neither
\* opens the socket nor starts a lookup, and ResolveCallback if there is one.
LEMMA QuietMove ==
  ASSUME OneThread, QuietInv, ClosedIsStill', NEW t \in Threads,
         pc'[t] \notin {"invoke", "clear"}, LookingUp' => LookingUp,
         UNCHANGED <<callback, late>>, socket = "closed" => socket' = "closed"
  PROVE  QuietInv'
<1>1. \A s \in Threads : s = t
  BY DEF OneThread
<1>2. ClosedAfterAnswer'
  BY <1>1 DEF QuietInv, ClosedAfterAnswer
<1> QED BY <1>2 DEF QuietInv

\* Every handler keeps QuietInv: one that opens the socket after the answer has
\* found a lookup that outlasted it.
LEMMA QuietHandler ==
  ASSUME OneThread, Typed, ChainInv, QuietInv, NEW t \in Threads, Handler(t)
  PROVE  QuietInv'
<1>0. \A s \in Threads : s = t
  BY DEF OneThread
<1>1. ASSUME NEW h, NEW label \in {"return", "write", "settle"}, Enter(t, h, label),
             UNCHANGED <<callback, late, socket>>,
             ClosedIsStill', Busy("resolve")' => Busy("resolve")
      PROVE  QuietInv'
  <2>1. pc'[t] = label
    BY <1>1 DEF Enter, Typed
  <2>2. LookingUp' => LookingUp
    BY <1>0, <1>1, <2>1 DEF LookingUp
  <2> QED BY <1>1, <2>1, <2>2, QuietMove
<1>2. ASSUME NEW op \in Ops, NEW results, NEW next \in SocketOps, AsyncRead(t, op, results, next)
      PROVE  QuietInv'
  BY <1>2, <1>1, QuietNext DEF AsyncRead, QuietInv
<1>3. ASSUME NEW op \in Ops, NEW next \in SocketOps, AndThen(t, op, next)
      PROVE  QuietInv'
  BY <1>3, <1>1, QuietNext DEF AndThen, QuietInv
<1>4. ASSUME NEW op \in Ops, ops' = Taken(op), UNCHANGED socket
      PROVE  ClosedIsStill' /\ (Busy("resolve")' => Busy("resolve"))
  BY <1>4, QuietTake DEF QuietInv, Taken, Busy, Typed
<1>5. ASSUME NEW op \in Ops, Nothing(t, op)
      PROVE  QuietInv'
  BY <1>5, <1>1, <1>4 DEF Nothing
<1>6. ASSUME NEW op \in Ops, NEW results, NEW outcome, Settle(t, op, results, outcome)
      PROVE  QuietInv'
  BY <1>6, <1>1, <1>4 DEF Settle
<1>7. CASE ResolveCallback(t)
  <2>1. CASE ResolveOk(t)
    <3>1. /\ pc'[t] = "open" /\ ops' = Taken("resolve") /\ Busy("resolve")
          /\ UNCHANGED <<callback, late, socket>>
      BY <2>1 DEF ResolveOk, Enter, Busy, Typed
    <3>2. LookingUp
      BY <3>1 DEF LookingUp
    <3> QED BY <3>1, <3>2, <1>4, QuietMove
  <2>2. CASE ResolveOpen(t)
    <3>1. /\ pc[t] = "open" /\ pc'[t] = "return" /\ socket' = "connecting"
          /\ UNCHANGED <<callback, late>>
      BY <2>2 DEF ResolveOpen, Goto, Typed
    <3>2. callback \/ late
      BY <3>1 DEF QuietInv, ClosedAfterAnswer, LookingUp
    <3> QED BY <1>0, <3>1, <3>2 DEF QuietInv, ClosedIsStill, ClosedAfterAnswer
  <2> QED BY <1>7, <2>1, <2>2, <1>6 DEF ResolveCallback
<1>8. CASE ConnectCallback(t)
  <2>1. CASE ConnectOk(t)
    BY <2>1, <1>1, <1>4 DEF ConnectOk
  <2>2. CASE ConnectWrite(t) \/ ConnectRead(t)
    <3>1. pc'[t] \in {"read", "return"} /\ UNCHANGED <<callback, late, socket>>
      BY <2>2 DEF ConnectWrite, ConnectRead, Goto, Typed
    <3>2. PICK op \in SocketOps : ops' \in Initiate(ops, op)
      BY <2>2 DEF ConnectWrite, ConnectRead
    <3>3. ops'[op] # "none" /\ \A x \in Ops \ {op} : ops'[x] = ops[x]
      BY <3>2, InitiateBusy DEF Typed
    <3>4. socket = "closed" => ops'[op] # "pending"
      BY <3>2, InitiateClosed DEF Typed
    <3>5. ClosedIsStill'
      BY <3>1, <3>3, <3>4 DEF QuietInv, ClosedIsStill
    <3>6. LookingUp' => LookingUp
      BY <1>0, <3>1, <3>3 DEF LookingUp, Busy
    <3> QED BY <3>1, <3>5, <3>6, QuietMove
  <2> QED BY <1>8, <2>1, <2>2, <1>6 DEF ConnectCallback
<1>9. CASE ReadHeadersCallback(t)
  <2>1. CASE HeadersThrow(t)
    BY <2>1, <1>1, <1>4 DEF HeadersThrow
  <2> QED BY <1>9, <2>1, <1>2, <1>6 DEF ReadHeadersCallback
<1>10. CASE TimeoutCallback(t)
  <2>1. ClosedIsStill' /\ (Busy("resolve")' <=> Busy("resolve"))
    BY <1>10 DEF TimeoutCallback, QuietInv, ClosedIsStill, Busy
  <2> QED BY <1>10, <2>1, <1>1 DEF TimeoutCallback
<1>11. CASE \/ WriteRequestCallback(t) \/ WriteRequestContentCallback(t)
            \/ ReadStatusLineCallback(t)
  BY <1>11, <1>3, <1>5, <1>6
  DEF WriteRequestCallback, WriteRequestContentCallback, ReadStatusLineCallback
<1>12. CASE \/ ReadContentCallback(t) \/ ReadChunkSizeCallback(t)
            \/ ReadChunkedContentCallback(t) \/ ReadEmptyCrlfCallback(t)
  BY <1>12, <1>2, <1>6
  DEF ReadContentCallback, ReadChunkSizeCallback, ReadChunkedContentCallback,
      ReadEmptyCrlfCallback
<1> QED BY <1>7, <1>8, <1>9, <1>10, <1>11, <1>12 DEF Handler

\* The completion path closes the socket before it invokes the callback, and what is
\* being looked up then makes the answer a late one.
LEMMA QuietCompletion ==
  ASSUME OneThread, Typed, QuietInv, NEW t \in Threads, Completion(t)
  PROVE  QuietInv'
<1>1. \A s \in Threads : s = t
  BY DEF OneThread
<1>2. CASE CloseSocket(t)
  <2>1. pc'[t] = "invoke" /\ pc[t] = "shutdown" /\ socket' = "closed" /\ UNCHANGED <<callback, late>>
    BY <1>2 DEF CloseSocket, Goto, ShutdownAndClose, Typed
  <2>2. ClosedIsStill' /\ (Busy("resolve")' => Busy("resolve"))
    BY <1>2, QuietClose DEF CloseSocket, QuietInv
  <2>3. LookingUp' => LookingUp
    BY <1>1, <2>1, <2>2 DEF LookingUp
  <2> QED BY <1>1, <2>1, <2>2, <2>3 DEF QuietInv, ClosedAfterAnswer
<1>3. CASE CheckCallback(t) \/ CheckOpen(t)
  <2>1. /\ UNCHANGED <<callback, late, ops, socket>>
        /\ pc'[t] \in {"close", "return", "shutdown"} \/ (pc'[t] = "invoke" /\ socket = "closed")
    BY <1>3 DEF CheckCallback, CheckOpen, Goto, Typed
  <2>2. ClosedIsStill' /\ (LookingUp' => LookingUp)
    BY <1>1, <2>1 DEF QuietInv, ClosedIsStill, LookingUp, Busy
  <2> QED BY <1>1, <2>1, <2>2 DEF QuietInv, ClosedAfterAnswer
<1>4. CASE InvokeCallback(t) \/ ClearCallback(t)
  <2>1. /\ pc[t] \in {"invoke", "clear"} /\ pc'[t] \in {"clear", "return"}
        /\ UNCHANGED <<ops, socket>>
    BY <1>4 DEF InvokeCallback, ClearCallback, Goto, Typed
  <2>2. ClosedIsStill' /\ socket' = "closed"
    BY <2>1 DEF QuietInv, ClosedIsStill, ClosedAfterAnswer
  <2>3. LookingUp <=> Busy("resolve")
    BY <1>1, <2>1 DEF LookingUp
  <2>4. LookingUp' <=> Busy("resolve")
    BY <1>1, <2>1 DEF LookingUp, Busy
  <2>5. CASE InvokeCallback(t)
    <3>1. pc'[t] = "clear" /\ callback' = callback
      BY <2>5 DEF InvokeCallback, Goto, Typed
    <3>2. CASE callback
      <4>1. late' = Busy("resolve")
        BY <2>5, <3>2 DEF InvokeCallback, Busy
      <4> QED BY <1>1, <2>2, <2>4, <3>1, <3>2, <4>1 DEF QuietInv, ClosedAfterAnswer
    <3>3. CASE ~callback
      <4>1. late' = late
        BY <2>5, <3>3 DEF InvokeCallback
      <4>2. late \/ ~LookingUp
        BY <3>3 DEF QuietInv, ClosedAfterAnswer
      <4> QED BY <1>1, <2>2, <2>3, <2>4, <3>1, <4>1, <4>2 DEF QuietInv, ClosedAfterAnswer
    <3> QED BY <3>2, <3>3
  <2>6. CASE ClearCallback(t)
    <3>1. pc[t] = "clear" /\ pc'[t] = "return" /\ late' = late
      BY <2>6 DEF ClearCallback, Goto, Typed
    <3>2. late \/ ~LookingUp
      BY <3>1 DEF QuietInv, ClosedAfterAnswer
    <3> QED BY <1>1, <2>2, <2>3, <2>4, <3>1, <3>2 DEF QuietInv, ClosedAfterAnswer
  <2> QED BY <1>4, <2>5, <2>6
<1> QED BY <1>2, <1>3, <1>4 DEF Completion

\* A step of no thread keeps QuietInv if it opens nothing and looks up nothing.
LEMMA QuietElsewhere ==
  ASSUME QuietInv, ClosedIsStill', UNCHANGED <<callback, late, pc>>,
         socket = "closed" => socket' = "closed",
         Busy("resolve")' => Busy("resolve")
  PROVE  QuietInv'
<1>1. LookingUp' => LookingUp
  BY DEF LookingUp
<1>2. ClosedAfterAnswer'
  BY <1>1 DEF QuietInv, ClosedAfterAnswer
<1> QED BY <1>2 DEF QuietInv

\* Every step of the specification keeps QuietInv.
LEMMA QuietStep ==
  ASSUME OneThread, Typed, GuardInv, LifeInv, ChainInv, QuietInv, [Next]_vars
  PROVE  QuietInv'
<1>1. ASSUME NEW t \in Threads, Step(t)
      PROVE  QuietInv'
  <2>1. CASE Return(t)
    <3>1. pc'[t] = "idle" /\ UNCHANGED <<callback, late>>
      BY <2>1 DEF Return, Typed
    <3>2. /\ ClosedIsStill' /\ (socket = "closed" => socket' = "closed")
          /\ Busy("resolve")' => Busy("resolve")
      BY <2>1, QuietClose DEF Return, QuietInv
    <3>3. LookingUp' => LookingUp
      BY <3>1, <3>2 DEF LookingUp, OneThread
    <3> QED BY <3>1, <3>2, <3>3, QuietMove
  <2>2. CASE UseAfterFree(t)
    BY <2>2, QuietElsewhere DEF UseAfterFree, QuietInv, ClosedIsStill, Busy
  <2> QED BY <1>1, <2>1, <2>2, QuietHandler, QuietCompletion DEF Step
<1>2. CASE Application
  <2>1. UNCHANGED <<callback, late, pc>>
    BY <1>2 DEF Application, Run, RunStartTimer, Cancel, CancelClose, DropOwner
  <2>2. CASE Run
    <3>1. callback /\ \A t \in Threads : pc[t] = "idle"
      BY <2>2 DEF Run, LifeInv, Fresh, GuardInv, ClearedWasDelivered, IdleThreads
    <3>2. ClosedIsStill'
      BY <2>2 DEF Run, QuietInv, ClosedIsStill, Typed
    <3> QED BY <2>1, <3>1, <3>2 DEF QuietInv, ClosedAfterAnswer
  <2>3. CASE RunStartTimer \/ Cancel
    BY <2>1, <2>3, QuietElsewhere DEF RunStartTimer, Cancel, QuietInv, ClosedIsStill, Busy
  <2>4. CASE CancelClose \/ DropOwner
    <3>1. /\ ClosedIsStill' /\ (socket = "closed" => socket' = "closed")
          /\ Busy("resolve")' => Busy("resolve")
      BY <2>4, QuietClose DEF CancelClose, DropOwner, QuietInv
    <3> QED BY <2>1, <3>1, QuietElsewhere
  <2> QED BY <1>2, <2>2, <2>3, <2>4 DEF Application
<1>3. CASE Environment
  <2>1. CASE Resolved
    <3>1. /\ \A op \in SocketOps : ops'[op] = ops[op]
          /\ UNCHANGED <<callback, late, pc, socket>> /\ Busy("resolve")
      BY <2>1 DEF Resolved, Busy, Typed
    <3>2. ClosedIsStill'
      BY <3>1 DEF QuietInv, ClosedIsStill
    <3> QED BY <3>1, <3>2, QuietElsewhere
  <2>2. CASE Expire
    BY <2>2, QuietElsewhere DEF Expire, QuietInv, ClosedIsStill, Busy
  <2>3. ASSUME NEW op \in SocketOps, Complete(op)
        PROVE  QuietInv'
    <3>1. /\ socket # "closed" /\ socket' # "closed" /\ UNCHANGED <<callback, late, pc>>
      BY <2>3 DEF Complete, QuietInv, ClosedIsStill
    <3>2. Busy("resolve")' => Busy("resolve")
      BY <2>3 DEF Complete, Busy, Typed
    <3>3. ClosedIsStill'
      BY <3>1 DEF ClosedIsStill
    <3> QED BY <3>1, <3>2, <3>3, QuietElsewhere
  <2> QED BY <1>3, <2>1, <2>2, <2>3 DEF Environment
<1>4. CASE UNCHANGED vars
  BY <1>4 DEF vars, QuietInv, ClosedIsStill, LookingUp, ClosedAfterAnswer, Busy
<1> QED BY <1>1, <1>2, <1>3, <1>4 DEF Next

\* On one thread, a stream that has answered holds no connection unless its lookup
\* outlasted the answer (http_stream.h:115-123, 351-367).
THEOREM AnsweredIsClosed ==
  ASSUME OneThread
  PROVE  Spec => []SettledIsQuiet
<1>1. Init => QuietInv
  BY DEF Init, QuietInv, ClosedIsStill, LookingUp, ClosedAfterAnswer, Busy
<1>2. Typed /\ GuardInv /\ LifeInv /\ ChainInv /\ QuietInv /\ [Next]_vars => QuietInv'
  BY QuietStep
<1>3. QuietInv => SettledIsQuiet
  BY DEF QuietInv, ClosedAfterAnswer, SettledIsQuiet
<1> QED BY <1>1, <1>2, <1>3, Chained, PTL DEF Spec

-------------------------------------------------------------------------------
(* On a single io_service thread HttpStream implements OneShotRequest: every    *)
(* step of the stream is a step of the promise, or none.                        *)

\* What the mapping of a step rests on.
MapInv == GuardInv /\ LifeInv /\ OnceInv /\ KeepInv

\* A step that delivers nothing, and destroys the stream only after it has
\* answered, is Retire, Fail or a stutter.
LEMMA SilentStep ==
  ASSUME Typed, fault = "none", user # "new", user' # "new", delivered' = delivered,
         UNCHANGED destroyed \/ (destroyed' = TRUE /\ delivered > 0)
  PROVE  [Promise!Next]_Promise!vars
<1>1. CASE fault' # "none"
  <2>1. CASE delivered = 0
    BY <1>1, <2>1 DEF Promise!Next, Promise!Fail
  <2>2. CASE delivered # 0
    BY <1>1, <2>2 DEF Promise!Next, Promise!Fail
  <2> QED BY <2>1, <2>2
<1>2. CASE fault' = "none" /\ UNCHANGED destroyed
  BY <1>2 DEF Promise!vars
<1>3. CASE fault' = "none" /\ ~destroyed /\ destroyed' = TRUE /\ delivered > 0
  BY <1>3 DEF Typed, Promise!Next, Promise!Retire
<1> QED BY <1>1, <1>2, <1>3 DEF Typed

\* Every step of the stream is a step of the promise, or none.
LEMMA PromiseStep ==
  ASSUME OneThread, Typed, MapInv, MapInv', [Next]_vars
  PROVE  [Promise!Next]_Promise!vars
<1>1. destroyed' => delivered' > 0
  BY DEF MapInv, KeepInv, ExpiredMeansFinished
<1>2. ASSUME fault = "none", Environment
      PROVE  [Promise!Next]_Promise!vars
  BY <1>2, NotBeforeRun, SilentStep DEF MapInv, LifeInv, Environment, Resolved, Expire, Complete
<1>3. ASSUME fault = "none", NEW t \in Threads, Step(t)
      PROVE  [Promise!Next]_Promise!vars
  <2>1. user # "new" /\ user' = user
    BY <1>3, NotBeforeRun, StepFrame DEF MapInv, LifeInv
  <2>2. CASE InvokeCallback(t) /\ callback
    <3>1. delivered = 0 /\ delivered' = 1 /\ UNCHANGED <<fault, destroyed>>
      BY <2>2 DEF InvokeCallback, Goto, MapInv, OnceInv
    <3> QED BY <1>3, <2>1, <3>1 DEF Promise!Next, Promise!Answer
  <2>3. CASE ~(InvokeCallback(t) /\ callback)
    <3>1. delivered' = delivered
      BY <1>3, <2>3, AnswerFrame
    <3>2. UNCHANGED destroyed \/ (destroyed' = TRUE /\ delivered > 0)
      BY <1>1, <1>3, <3>1, StepFrame
    <3> QED BY <1>3, <2>1, <3>1, <3>2, SilentStep
  <2> QED BY <2>2, <2>3
<1>4. ASSUME fault = "none", Application
      PROVE  [Promise!Next]_Promise!vars
  <2>1. CASE Run
    BY <1>4, <2>1 DEF Run, MapInv, LifeInv, Fresh, Promise!Next, Promise!Start
  <2>2. CASE ~Run
    <3>1. user # "new" /\ user' # "new" /\ delivered' = delivered
      BY <1>4, <2>2 DEF Application, RunStartTimer, Cancel, CancelClose, DropOwner
    <3>2. UNCHANGED destroyed \/ destroyed' = TRUE
      BY <1>4, <2>2 DEF Application, RunStartTimer, Cancel, CancelClose, DropOwner, Destroy,
                        MapInv, LifeInv, Released, Typed
    <3> QED BY <1>1, <1>4, <3>1, <3>2, SilentStep
  <2> QED BY <2>1, <2>2
<1>5. CASE UNCHANGED vars
  BY <1>5 DEF vars, Promise!vars
<1> QED BY <1>2, <1>3, <1>4, <1>5 DEF Next

\* On a single io_service thread a stream keeps what OneShotRequest promises of
\* its safety (KeepsPromise without the fairness of Answer): it is started
\* once, answers once, and is destroyed only after that.
THEOREM StreamKeepsPromise ==
  ASSUME OneThread
  PROVE  Spec => Promise!Init /\ [][Promise!Next]_Promise!vars
<1>1. Init => OnceInv
  BY DEF Init, OnceInv
<1>2. Typed /\ GuardInv /\ OnceInv /\ [Next]_vars => OnceInv'
  BY OnceStep
<1>3. Init => Promise!Init
  BY DEF Init, Promise!Init
<1>4. Typed /\ MapInv /\ MapInv' /\ [Next]_vars => [Promise!Next]_Promise!vars
  BY PromiseStep
<1>5. GuardInv /\ LifeInv /\ OnceInv /\ KeepInv => MapInv
  BY DEF MapInv
<1> QED BY <1>1, <1>2, <1>3, <1>4, <1>5, Lived, PTL DEF Spec
===============================================================================
