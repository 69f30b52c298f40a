------------------------------- MODULE ReadChain -------------------------------
(***************************************************************************)
(* The order in which a stream reads a response, and where a response is   *)
(* complete: the status line, the headers, then nothing, or the content,   *)
(* or chunks up to the one of size nought.  The control of a stream        *)
(* (HttpStream) and the reader of its bytes (ResponseReader) implement the *)
(* same chain: what one leaves open is what the other says.                *)
(***************************************************************************)

VARIABLES
  stage,     \* what is being read, or "none"
  success    \* has the chain ended with a whole response?

vars == <<stage, success>>

Successors ==
  [statusLine |-> {"headers"},
   headers    |-> {"content", "chunkSize"},
   content    |-> {},
   chunkSize  |-> {"chunk", "crlf", "lastCrlf"},
   chunk      |-> {"chunk", "crlf"},
   crlf       |-> {"chunkSize"},
   lastCrlf   |-> {}]

\* Where a response may be complete.
Final == {"headers", "content", "lastCrlf"}

Init == stage \in {"none", "statusLine"} /\ success = FALSE

\* The request is sent and its answer is awaited.
Begin ==
  /\ stage = "none" /\ ~success
  /\ stage' = "statusLine"
  /\ UNCHANGED success

Proceed ==
  /\ stage # "none"
  /\ stage' \in Successors[stage]
  /\ UNCHANGED success

Succeed ==
  /\ stage \in Final
  /\ stage' = "none" /\ success' = TRUE

\* A read fails, its bytes are malformed, or the request ends from outside.
Abandon ==
  /\ stage # "none"
  /\ stage' = "none"
  /\ UNCHANGED success

\* A request that was answered before has no use for the response.
Discard ==
  /\ success
  /\ success' = FALSE
  /\ UNCHANGED stage

Next == Begin \/ Proceed \/ Succeed \/ Abandon \/ Discard

Spec == Init /\ [][Next]_vars
===============================================================================
