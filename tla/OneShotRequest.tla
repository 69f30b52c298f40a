---------------------------- MODULE OneShotRequest ----------------------------
(***************************************************************************)
(* What an HttpStream promises to the code that runs a request: the        *)
(* request is started once, its completion callback is invoked exactly     *)
(* once, and the stream object is released only after that, so that a      *)
(* watcher that holds a weak pointer may read an expired pointer as "the   *)
(* request is finished" (network_access.h, CreateHttpWatcher).  The        *)
(* process itself may die under it.                                        *)
(***************************************************************************)
EXTENDS Naturals

VARIABLES
  phase,    \* "idle" | "running" | "answered" | "failed"
  answers,  \* how often the completion callback has been invoked
  gone      \* has the stream object been destroyed?

vars == <<phase, answers, gone>>

Init ==
  /\ phase = "idle"
  /\ answers = 0
  /\ gone = FALSE

\* Run() is called on a stream.
Start ==
  /\ phase = "idle"
  /\ phase' = "running"
  /\ UNCHANGED <<answers, gone>>

\* The completion callback is invoked, with a response or with an error.
Answer ==
  /\ phase = "running"
  /\ phase' = "answered"
  /\ answers' = answers + 1
  /\ UNCHANGED gone

\* The last reference to the stream is released.
Retire ==
  /\ phase = "answered"
  /\ ~gone
  /\ gone' = TRUE
  /\ UNCHANGED <<phase, answers>>

\* The process dies: an exception leaves a handler, or memory is misused.  The
\* step that kills it may be the one that releases the stream.
Fail ==
  /\ phase \in {"running", "answered"}
  /\ phase' = "failed"
  /\ \/ UNCHANGED gone
     \/ phase = "answered" /\ gone' = TRUE
  /\ UNCHANGED answers

Next == Start \/ Answer \/ Retire \/ Fail

Spec == Init /\ [][Next]_vars /\ WF_vars(Answer)
===============================================================================
