--------------------------- MODULE MockServerProofs ---------------------------
(***************************************************************************)
(* Theorems about the test of HttpStream and its server: the server serves *)
(* a client that it has accepted, and stopping it twice does no harm, one  *)
(* call after the other.                                                   *)
(***************************************************************************)
EXTENDS MockServer, TLAPS

TypeOK ==
  /\ main \in {"new", "client", "reset", "delete", "stop", "join", "joined"}
  /\ server \in {"run", "reset", "delete", "stop", "ended"}
  /\ accept \in {"none", "pending", "ok", "error"}
  /\ read \in {"none", "pending", "error"}
  /\ write \in {"none", "pending", "ok", "error"}
  /\ conn \in {"none", "open", "closed", "broken"}
  /\ work_ \in [Threads -> {"unread", "set", "null"}]
  /\ work \in {"live", "deleted"} /\ cleared \in BOOLEAN
  /\ stopped \in BOOLEAN /\ overlap \in BOOLEAN

\* Nothing is read or written before the accepted connection, and nothing fails
\* while that is whole.
Connected ==
  /\ main = "new" => conn = "none"
  /\ conn = "none" => accept # "ok" /\ read = "none" /\ write = "none"
  /\ accept # "none" => read = "none" /\ write = "none"
  /\ read = "error" \/ write = "error" => conn \in {"closed", "broken"}

\* Who finds the pointer null comes after the one who has deleted its object; who
\* holds the pointer of a deleted object has read it while the other had it.
Cleared ==
  /\ cleared <=> work = "deleted"
  /\ \A t \in Threads :
       /\ work_[t] = "null" => cleared
       /\ At(t) = "delete" => work_[t] # "unread"
       /\ At(t) = "delete" /\ work_[t] = "set" /\ cleared => overlap
  /\ main = "delete" /\ server = "delete" => overlap
  /\ FaultNeedsOverlap

ServerInv == TypeOK /\ Connected /\ Cleared /\ StaysForClient

USE DEF FaultNeedsOverlap, Threads, At, Goto, Dispatch, After, opVars, stopVars, vars

\* The invariant holds before the test has begun.
LEMMA ServerInit ==
  Init => ServerInv
BY DEF Init, ServerInv, TypeOK, Connected, Cleared, StaysForClient

\* Every step of either thread and of the network keeps the invariant.
LEMMA ServerStep ==
  ASSUME ServerInv, [Next]_vars
  PROVE  ServerInv'
<1> USE DEF ServerInv
<1>1. CASE Listen
  <2>1. TypeOK'
    BY <1>1 DEF Listen, TypeOK
  <2>2. Connected'
    BY <1>1 DEF Listen, TypeOK, Connected
  <2>3. Cleared'
    BY <1>1 DEF Listen, TypeOK, Cleared
  <2>4. StaysForClient'
    BY <1>1 DEF Listen, TypeOK, Connected, Cleared, StaysForClient
  <2> QED BY <2>1, <2>2, <2>3, <2>4
<1>2. CASE Connect
  <2>1. TypeOK'
    BY <1>2 DEF Connect, TypeOK
  <2>2. Connected'
    BY <1>2 DEF Connect, TypeOK, Connected
  <2>3. Cleared'
    BY <1>2 DEF Connect, TypeOK, Cleared
  <2>4. StaysForClient'
    BY <1>2 DEF Connect, TypeOK, Connected, Cleared, StaysForClient
  <2> QED BY <2>1, <2>2, <2>3, <2>4
<1>3. CASE ClientEnds
  <2>1. TypeOK'
    BY <1>3 DEF ClientEnds, TypeOK
  <2>2. Connected'
    BY <1>3 DEF ClientEnds, TypeOK, Connected
  <2>3. Cleared'
    BY <1>3 DEF ClientEnds, TypeOK, Cleared
  <2>4. StaysForClient'
    BY <1>3 DEF ClientEnds, TypeOK, Connected, Cleared, StaysForClient
  <2> QED BY <2>1, <2>2, <2>3, <2>4
<1>4. CASE Break
  <2>1. TypeOK'
    BY <1>4 DEF Break, TypeOK
  <2>2. Connected'
    BY <1>4 DEF Break, TypeOK, Connected
  <2>3. Cleared'
    BY <1>4 DEF Break, TypeOK, Cleared
  <2>4. StaysForClient'
    BY <1>4 DEF Break, TypeOK, Connected, Cleared, StaysForClient
  <2> QED BY <2>1, <2>2, <2>3, <2>4
<1>5. CASE AcceptEnds
  <2>1. TypeOK'
    BY <1>5 DEF AcceptEnds, TypeOK
  <2>2. Connected'
    BY <1>5 DEF AcceptEnds, TypeOK, Connected
  <2>3. Cleared'
    BY <1>5 DEF AcceptEnds, TypeOK, Cleared
  <2>4. StaysForClient'
    BY <1>5 DEF AcceptEnds, TypeOK, Connected, Cleared, StaysForClient
  <2> QED BY <2>1, <2>2, <2>3, <2>4
<1>6. CASE ReadEnds
  <2>1. TypeOK'
    BY <1>6 DEF ReadEnds, TypeOK
  <2>2. Connected'
    BY <1>6 DEF ReadEnds, TypeOK, Connected
  <2>3. Cleared'
    BY <1>6 DEF ReadEnds, TypeOK, Cleared
  <2>4. StaysForClient'
    BY <1>6 DEF ReadEnds, TypeOK, Connected, Cleared, StaysForClient
  <2> QED BY <2>1, <2>2, <2>3, <2>4
<1>7. CASE WriteEnds
  <2>1. TypeOK'
    BY <1>7 DEF WriteEnds, TypeOK
  <2>2. Connected'
    BY <1>7 DEF WriteEnds, TypeOK, Connected
  <2>3. Cleared'
    BY <1>7 DEF WriteEnds, TypeOK, Cleared
  <2>4. StaysForClient'
    BY <1>7 DEF WriteEnds, TypeOK, Connected, Cleared, StaysForClient
  <2> QED BY <2>1, <2>2, <2>3, <2>4
<1>8. CASE AcceptCallback
  <2>1. TypeOK'
    BY <1>8 DEF AcceptCallback, TypeOK
  <2>2. Connected'
    BY <1>8 DEF AcceptCallback, TypeOK, Connected
  <2>3. Cleared'
    BY <1>8 DEF AcceptCallback, TypeOK, Cleared
  <2>4. StaysForClient'
    BY <1>8 DEF AcceptCallback, TypeOK, Connected, Cleared, StaysForClient
  <2> QED BY <2>1, <2>2, <2>3, <2>4
<1>9. CASE ReadCallback
  <2>1. TypeOK'
    BY <1>9 DEF ReadCallback, TypeOK
  <2>2. Connected'
    BY <1>9 DEF ReadCallback, TypeOK, Connected
  <2>3. Cleared'
    BY <1>9 DEF ReadCallback, TypeOK, Cleared
  <2>4. StaysForClient'
    BY <1>9 DEF ReadCallback, TypeOK, Connected, Cleared, StaysForClient
  <2> QED BY <2>1, <2>2, <2>3, <2>4
<1>10. CASE WriteCallback
  <2>1. TypeOK'
    BY <1>10 DEF WriteCallback, TypeOK
  <2>2. Connected'
    BY <1>10 DEF WriteCallback, TypeOK, Connected
  <2>3. Cleared'
    BY <1>10 DEF WriteCallback, TypeOK, Cleared
  <2>4. StaysForClient'
    BY <1>10 DEF WriteCallback, TypeOK, Connected, Cleared, StaysForClient
  <2> QED BY <2>1, <2>2, <2>3, <2>4
<1>11. CASE RunReturns
  <2>1. TypeOK'
    BY <1>11 DEF RunReturns, TypeOK
  <2>2. Connected'
    BY <1>11 DEF RunReturns, TypeOK, Connected
  <2>3. Cleared'
    BY <1>11 DEF RunReturns, TypeOK, Cleared
  <2>4. StaysForClient'
    BY <1>11 DEF RunReturns, TypeOK, Connected, Cleared, StaysForClient
  <2> QED BY <2>1, <2>2, <2>3, <2>4
<1>12. CASE Join
  <2>1. TypeOK'
    BY <1>12 DEF Join, TypeOK
  <2>2. Connected'
    BY <1>12 DEF Join, TypeOK, Connected
  <2>3. Cleared'
    BY <1>12 DEF Join, TypeOK, Cleared
  <2>4. StaysForClient'
    BY <1>12 DEF Join, TypeOK, Connected, Cleared, StaysForClient
  <2> QED BY <2>1, <2>2, <2>3, <2>4
<1>13. ASSUME NEW t \in Threads, ResetRead(t)
      PROVE  ServerInv'
  <2>1. TypeOK'
    BY <1>13 DEF ResetRead, TypeOK
  <2>2. Connected'
    BY <1>13 DEF ResetRead, TypeOK, Connected
  <2>3. Cleared'
    <3>1. /\ cleared' = cleared /\ work' = work /\ fault' = fault
          /\ \A u \in Threads : work_'[u] = IF u = t THEN IF cleared THEN "null" ELSE "set" ELSE work_[u]
      BY <1>13 DEF ResetRead, TypeOK
    <3>2. \A u \in Threads : u # t => At(u)' = At(u)
      BY <1>13 DEF ResetRead
    <3>3. overlap \/ (\E u \in Threads : u # t /\ At(u) = "delete") => overlap'
      BY <1>13, Zenon DEF ResetRead
    <3>4. (main = "delete" /\ server = "delete" => overlap)'
      BY <1>13, <3>2, <3>3
    <3> QED BY <3>1, <3>2, <3>3, <3>4 DEF Cleared
  <2>4. StaysForClient'
    BY <1>13 DEF ResetRead, TypeOK, Connected, Cleared, StaysForClient
  <2> QED BY <2>1, <2>2, <2>3, <2>4
<1>14. ASSUME NEW t \in Threads, ResetDelete(t)
      PROVE  ServerInv'
  <2>1. TypeOK'
    BY <1>14 DEF ResetDelete, DeleteWork, TypeOK
  <2>2. Connected'
    BY <1>14 DEF ResetDelete, DeleteWork, TypeOK, Connected
  <2>3. Cleared'
    BY <1>14 DEF ResetDelete, DeleteWork, TypeOK, Cleared
  <2>4. StaysForClient'
    BY <1>14 DEF ResetDelete, DeleteWork, TypeOK, Connected, Cleared, StaysForClient
  <2> QED BY <2>1, <2>2, <2>3, <2>4
<1>15. ASSUME NEW t \in Threads, StopService(t)
      PROVE  ServerInv'
  <2>1. TypeOK'
    BY <1>15 DEF StopService, TypeOK
  <2>2. Connected'
    BY <1>15 DEF StopService, TypeOK, Connected
  <2>3. Cleared'
    BY <1>15 DEF StopService, TypeOK, Cleared
  <2>4. StaysForClient'
    BY <1>15 DEF StopService, TypeOK, Connected, Cleared, StaysForClient
  <2> QED BY <2>1, <2>2, <2>3, <2>4
<1>16. CASE UNCHANGED vars
  BY <1>16 DEF TypeOK, Connected, Cleared, StaysForClient
<1>17. QED
  BY <1>1, <1>2, <1>3, <1>4, <1>5, <1>6, <1>7, <1>8, <1>9, <1>10, <1>11, <1>12, <1>13, <1>14, <1>15, <1>16
  DEF Next, Main, Server, Network, Step

\* The invariant of the test and its server.
LEMMA ServerHolds == Spec => []ServerInv
BY ServerInit, ServerStep, PTL DEF Spec

\* While the connection of an accepted client is whole, neither an error of an
\* operation nor the test has made the server stop: the client under test sees
\* its own behaviour and never the server's end (mock_server.h:33-67).
THEOREM ServerStays == Spec => []StaysForClient
<1>1. ServerInv => StaysForClient
  BY DEF ServerInv
<1> QED BY <1>1, ServerHolds, PTL

\* Whichever thread stops the server first, and whenever the other does, the work is
\* deleted once unless the two calls overlap (mock_server.h:69-72).
THEOREM StopsTwice == Spec => []FaultNeedsOverlap
<1>1. ServerInv => FaultNeedsOverlap
  BY DEF ServerInv, Cleared
<1> QED BY <1>1, ServerHolds, PTL
===============================================================================
