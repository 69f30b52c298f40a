----------------------------- MODULE NetworkAccess -----------------------------
(***************************************************************************)
(* The life of a NetworkAccess (src/src/network_access.h): the constructor *)
(* starts the threads that run io_service_, application threads call       *)
(* Wait() and Stop() on it, the destructor joins what is left.  mutex_ is  *)
(* locked nowhere.                                                         *)
(*                                                                         *)
(* Run() is not an action: in this commit it drops the request and the     *)
(* callback, hands nothing to io_service_ and changes no field.            *)
(***************************************************************************)
EXTENDS Naturals

CONSTANTS
  Callers,       \* the application's threads
  Owner,         \* the one that constructs and destroys
  Counts,        \* arguments of the constructor
  MaxCalls       \* bound: calls of Wait() and Stop()

kMaxThreadCount == 4

ASSUME CallersAssumption == Owner \in Callers /\ Counts \subseteq Nat /\ MaxCalls \in Nat

VARIABLES
  life,          \* of the object
  wanted,        \* threads the constructor has yet to start
  thread_group,  \* how many threads the vector has
  joinable,      \* which of them have not been joined
  running,       \* threads in io_service::run()
  stopped,       \* has io_service_ been stopped?
  work_,         \* is work_ set?
  work,          \* does the object exist that keeps run() from returning?
  pc,            \* per caller: where in a call it is
  old,           \* per caller: what reset() has read from work_
  next,          \* per caller: the thread to join next ...
  end,           \* ... and the last one when the loop was begun
  calls,         \* calls begun so far
  overlapped,    \* has a call begun during another?
  fault          \* what has killed the process, if anything has

poolVars == <<life, wanted, thread_group, joinable, running>>
workVars == <<stopped, work_, work>>
callVars == <<pc, old, next, end, calls, overlapped>>
vars == <<poolVars, workVars, callVars, fault>>

\* Mutant: nought is let through.
SafeThreadCountAtMost(n) == IF n > kMaxThreadCount THEN kMaxThreadCount ELSE n

\* Mutant: there is no greatest number.
SafeThreadCountAtLeast(n) == IF n = 0 THEN 1 ELSE n

SafeThreadCount(n) == IF n = 0 THEN 1 ELSE IF n > kMaxThreadCount THEN kMaxThreadCount ELSE n

Goto(c, from, to) == pc[c] = from /\ pc' = [pc EXCEPT ![c] = to]

-------------------------------------------------------------------------------
(* The constructor *)

StartThread ==
  /\ life = "starting" /\ wanted > 0
  /\ wanted' = wanted - 1
  /\ thread_group' = thread_group + 1
  /\ joinable' = joinable \cup {thread_group + 1}
  /\ running' = running \cup {thread_group + 1}
  /\ UNCHANGED <<life, workVars, callVars, fault>>

\* std::thread throws, and the vector of joinable threads is destroyed.
StartFails ==
  /\ life = "starting" /\ wanted > 0
  /\ fault' = IF thread_group > 0 THEN "terminate" ELSE "exception"
  /\ UNCHANGED <<poolVars, workVars, callVars>>

Constructed ==
  /\ life = "starting" /\ wanted = 0
  /\ life' = "alive"
  /\ UNCHANGED <<wanted, thread_group, joinable, running, workVars, callVars, fault>>

-------------------------------------------------------------------------------
(* Wait(), Stop(), ~NetworkAccess() *)

Begin(c) ==
  /\ life = "alive" /\ calls < MaxCalls
  /\ Goto(c, "idle", "reset")
  /\ calls' = calls + 1
  /\ overlapped' = (overlapped \/ \E d \in Callers : pc[d] # "idle")
  /\ UNCHANGED <<poolVars, work_, work, old, next, end, fault>>

Wait(c) == Begin(c) /\ UNCHANGED stopped

Stop(c) == Begin(c) /\ stopped' = TRUE

\* The owner destroys the object when no call is under way.
Destroy ==
  /\ life = "alive" /\ \A c \in Callers : pc[c] = "idle"
  /\ life' = "ending"
  /\ pc' = [pc EXCEPT ![Owner] = "reset"]
  /\ UNCHANGED <<wanted, thread_group, joinable, running, workVars, old, next, end, calls, overlapped, fault>>

\* work_.reset(): reads the pointer, ...
ResetRead(c) ==
  /\ Goto(c, "reset", "delete")
  /\ old' = [old EXCEPT ![c] = work_]
  /\ UNCHANGED <<poolVars, workVars, next, end, calls, overlapped, fault>>

\* Mutant: the work is kept.
ResetDeleteForgotten(c) ==
  /\ Goto(c, "delete", "loop")
  /\ UNCHANGED <<poolVars, workVars, old, next, end, calls, overlapped, fault>>

\* ... clears it, and deletes what it has read.
ResetDelete(c) ==
  /\ Goto(c, "delete", "loop")
  /\ work_' = FALSE
  /\ work' = (work /\ ~old[c])
  /\ fault' = IF old[c] /\ ~work THEN "doubleDelete" ELSE fault
  /\ UNCHANGED <<poolVars, stopped, old, next, end, calls, overlapped>>

BeginLoop(c) ==
  /\ Goto(c, "loop", "join")
  /\ next' = [next EXCEPT ![c] = 1]
  /\ end' = [end EXCEPT ![c] = thread_group]
  /\ UNCHANGED <<poolVars, workVars, old, calls, overlapped, fault>>

\* Mutant: the threads are detached.
JoinDetached(c) ==
  /\ pc[c] = "join" /\ next[c] <= end[c]
  /\ joinable' = joinable \ {next[c]}
  /\ next' = [next EXCEPT ![c] = @ + 1]
  /\ UNCHANGED <<life, wanted, thread_group, running, workVars, pc, old, end, calls, overlapped, fault>>

\* t.join() waits for the thread; it throws if the thread has been joined.  The
\* loop goes on in the memory of a vector that another call has cleared.
Join(c) ==
  /\ pc[c] = "join" /\ next[c] <= end[c]
  /\ IF next[c] \in joinable /\ next[c] <= thread_group
     THEN /\ next[c] \notin running
          /\ joinable' = joinable \ {next[c]}
          /\ next' = [next EXCEPT ![c] = @ + 1]
          /\ UNCHANGED fault
     ELSE /\ fault' = IF next[c] <= thread_group THEN "joinedTwice" ELSE "dangling"
          /\ UNCHANGED <<joinable, next>>
  /\ UNCHANGED <<life, wanted, thread_group, running, workVars, pc, old, end, calls, overlapped>>

\* Mutant: the vector keeps its threads.
ClearForgotten(c) ==
  /\ next[c] > end[c]
  /\ Goto(c, "join", "idle")
  /\ life' = IF life = "ending" THEN "destroyed" ELSE life
  /\ UNCHANGED <<wanted, thread_group, joinable, running, workVars, old, next, end, calls, overlapped, fault>>

\* thread_group_.clear(), or the end of the members: a thread that is destroyed
\* and has not been joined terminates the process.
Clear(c) ==
  /\ next[c] > end[c]
  /\ Goto(c, "join", "idle")
  /\ thread_group' = 0
  /\ life' = IF life = "ending" THEN "destroyed" ELSE life
  /\ fault' = IF joinable = {} THEN fault ELSE "terminate"
  /\ UNCHANGED <<wanted, joinable, running, workVars, old, next, end, calls, overlapped>>

-------------------------------------------------------------------------------
\* io_service::run() returns when it is stopped or has no work.
Return(i) ==
  /\ i \in running
  /\ stopped \/ ~work
  /\ running' = running \ {i}
  /\ UNCHANGED <<life, wanted, thread_group, joinable, workVars, callVars, fault>>

Init ==
  /\ life = "starting"
  /\ \E n \in Counts : wanted = SafeThreadCount(n)
  /\ thread_group = 0 /\ joinable = {} /\ running = {}
  /\ stopped = FALSE /\ work_ = TRUE /\ work = TRUE
  /\ pc = [c \in Callers |-> "idle"] /\ old = [c \in Callers |-> FALSE]
  /\ next = [c \in Callers |-> 1] /\ end = [c \in Callers |-> 0]
  /\ calls = 0 /\ overlapped = FALSE
  /\ fault = "none"

Constructor == StartThread \/ StartFails \/ Constructed

Step(c) == ResetRead(c) \/ ResetDelete(c) \/ BeginLoop(c) \/ Join(c) \/ Clear(c)

Next ==
  /\ fault = "none"
  /\ \/ Constructor \/ Destroy
     \/ \E c \in Callers : Wait(c) \/ Stop(c) \/ Step(c)
     \/ \E i \in 1 .. kMaxThreadCount : Return(i)

Spec == Init /\ [][Next]_vars

\* The callers and the threads are scheduled; nobody has to call anything.
FairSpec ==
  /\ Spec
  /\ \A c \in Callers : WF_vars(fault = "none" /\ Step(c))
  /\ \A i \in 1 .. kMaxThreadCount : WF_vars(fault = "none" /\ Return(i))

-------------------------------------------------------------------------------
(* Properties *)

\* The values of the fields, and of the locals of the calls.
TypeOK ==
  /\ life \in {"starting", "alive", "ending", "destroyed"}
  /\ wanted \in Nat /\ thread_group \in Nat
  /\ joinable \subseteq 1 .. kMaxThreadCount /\ running \subseteq 1 .. kMaxThreadCount
  /\ stopped \in BOOLEAN /\ work_ \in BOOLEAN /\ work \in BOOLEAN
  /\ pc \in [Callers -> {"idle", "reset", "delete", "loop", "join"}]
  /\ old \in [Callers -> BOOLEAN] /\ next \in [Callers -> Nat] /\ end \in [Callers -> Nat]
  /\ calls \in Nat /\ overlapped \in BOOLEAN
  /\ fault \in {"none", "exception", "terminate", "doubleDelete", "joinedTwice", "dangling"}

\* Wait(), Stop() and the destructor may follow each other in any number and
\* order, on any threads: without a call that begins during another, no work is
\* deleted and no thread is joined twice (lines 35-38, 97-107).
FaultsNeedOverlap ==
  fault \in {"doubleDelete", "joinedTwice", "dangling"} => overlapped

\* No thread runs the io_service_ that is destroyed with the object, and none is
\* destroyed before it was joined, however many calls came before and overlapped
\* (lines 35-38, 97-102); only a constructor that fails terminates the process.
ThreadsEndFirst ==
  /\ life = "destroyed" => running = {}
  /\ fault = "terminate" => life = "starting"

\* Whatever number of threads is asked for, an object that is neither stopped
\* nor waited for has a thread to run what is handed to it (lines 19, 28).
AlwaysServed == life = "alive" /\ ~stopped /\ work => running # {}

\* A call that has begun returns, however calls overlap, or kills the process.
CallsReturn == \A c \in Callers : pc[c] # "idle" ~> pc[c] = "idle" \/ fault # "none"
===============================================================================
