-------------------------- MODULE NetworkAccessProofs --------------------------
(***************************************************************************)
(* Theorems about NetworkAccess, for every set of callers, every argument  *)
(* of the constructor and any number of calls.                             *)
(***************************************************************************)
EXTENDS NetworkAccess, TLAPS

USE DEF kMaxThreadCount, poolVars, workVars, callVars

\* What is joinable has been built, what runs is joinable, and calls come after
\* the constructor; during the destructor there is no call but its own.
Built ==
  /\ wanted + thread_group <= kMaxThreadCount
  /\ joinable \subseteq 1 .. thread_group
  /\ running \subseteq joinable
  /\ life # "starting" => wanted = 0
  /\ life \in {"starting", "destroyed"} => \A c \in Callers : pc[c] = "idle"
  /\ life = "ending" => \A c \in Callers : pc[c] # "idle" => c = Owner
  /\ life = "destroyed" => joinable = {}

\* A loop has joined what it has passed, and nothing joinable is beyond its end.
Joined ==
  \A c \in Callers : pc[c] = "join" => \A i \in joinable : next[c] <= i /\ i <= end[c]

\* No call reaches its loop before the work is gone, and as long as it is there
\* and nothing was stopped every thread runs.
Worked ==
  /\ work => work_
  /\ \A c \in Callers : pc[c] = "delete" /\ ~old[c] => ~work
  /\ \A c \in Callers : pc[c] \in {"loop", "join"} => ~work
  /\ work /\ ~stopped => running = 1 .. thread_group /\ wanted + thread_group >= 1

\* Without overlap the only call knows all of the state.
Alone ==
  ~overlapped =>
    /\ \A c, d \in Callers : pc[c] # "idle" /\ pc[d] # "idle" => c = d
    /\ work = work_
    /\ \A c \in Callers : pc[c] = "delete" => old[c] = work_
    /\ \A c \in Callers : pc[c] = "join" => end[c] = thread_group /\ joinable = next[c] .. end[c]
    /\ (\A c \in Callers : pc[c] # "join") => joinable = 1 .. thread_group

PoolInv == TypeOK /\ Built /\ Joined /\ Worked /\ Alone /\ FaultsNeedOverlap /\ ThreadsEndFirst
-------------------------------------------------------------------------------
(* The invariant is inductive: one lemma per conjunct *)

\* It holds of a constructor that is about to start its threads.
LEMMA PoolInit == Init => PoolInv
<1> SUFFICES ASSUME Init PROVE PoolInv
  OBVIOUS
<1>1. wanted \in 1 .. kMaxThreadCount
  BY CallersAssumption DEF Init, SafeThreadCount
<1>2. TypeOK
  <2>1. wanted \in Nat
    BY <1>1
  <2> QED BY <2>1 DEF Init, TypeOK
<1>3. Built /\ Joined /\ Worked /\ Alone
  BY <1>1 DEF Init, Built, Joined, Worked, Alone
<1>4. FaultsNeedOverlap /\ ThreadsEndFirst
  BY DEF Init, FaultsNeedOverlap, ThreadsEndFirst
<1> QED BY <1>2, <1>3, <1>4 DEF PoolInv

\* No step leaves the types; no more than four threads are started.
LEMMA TypeStep ==
  ASSUME PoolInv, [Next]_vars
  PROVE  TypeOK'
<1> USE DEF PoolInv, TypeOK, Built
<1>1. ASSUME StartThread PROVE TypeOK'
  BY <1>1 DEF StartThread
<1>2. ASSUME StartFails PROVE TypeOK'
  BY <1>2 DEF StartFails
<1>3. ASSUME Constructed PROVE TypeOK'
  BY <1>3 DEF Constructed
<1>4. ASSUME Destroy PROVE TypeOK'
  BY <1>4 DEF Destroy
<1>5. ASSUME NEW c \in Callers, Wait(c) PROVE TypeOK'
  BY <1>5 DEF Wait, Begin, Goto
<1>6. ASSUME NEW c \in Callers, Stop(c) PROVE TypeOK'
  BY <1>6 DEF Stop, Begin, Goto
<1>7. ASSUME NEW c \in Callers, ResetRead(c) PROVE TypeOK'
  BY <1>7 DEF ResetRead, Goto
<1>8. ASSUME NEW c \in Callers, ResetDelete(c) PROVE TypeOK'
  BY <1>8 DEF ResetDelete, Goto
<1>9. ASSUME NEW c \in Callers, BeginLoop(c) PROVE TypeOK'
  BY <1>9 DEF BeginLoop, Goto
<1>10. ASSUME NEW c \in Callers, Join(c) PROVE TypeOK'
  <2>1. next[c] + 1 \in Nat
    OBVIOUS
  <2>2. next' \in [Callers -> Nat] /\ joinable' \subseteq 1 .. kMaxThreadCount
    BY <1>10, <2>1 DEF Join
  <2>3. fault' \in {"none", "exception", "terminate", "doubleDelete", "joinedTwice", "dangling"}
    BY <1>10 DEF Join
  <2> QED BY <1>10, <2>2, <2>3 DEF Join
<1>11. ASSUME NEW c \in Callers, Clear(c) PROVE TypeOK'
  BY <1>11 DEF Clear, Goto
<1>12. ASSUME NEW i \in 1 .. kMaxThreadCount, Return(i) PROVE TypeOK'
  BY <1>12 DEF Return
<1>13. ASSUME UNCHANGED vars PROVE TypeOK'
  BY <1>13 DEF vars
<1> QED BY <1>1, <1>2, <1>3, <1>4, <1>5, <1>6, <1>7, <1>8, <1>9, <1>10, <1>11, <1>12, <1>13 DEF Next, Constructor, Step

\* The counts of threads agree, and the destructor stays alone.
LEMMA BuiltStep ==
  ASSUME PoolInv, [Next]_vars
  PROVE  Built'
<1> USE DEF PoolInv, TypeOK, Built, Joined
<1>1. ASSUME StartThread PROVE Built'
  BY <1>1 DEF StartThread
<1>2. ASSUME StartFails PROVE Built'
  BY <1>2 DEF StartFails
<1>3. ASSUME Constructed PROVE Built'
  BY <1>3 DEF Constructed
<1>4. ASSUME Destroy PROVE Built'
  BY <1>4 DEF Destroy
<1>5. ASSUME NEW c \in Callers, Wait(c) PROVE Built'
  BY <1>5 DEF Wait, Begin, Goto
<1>6. ASSUME NEW c \in Callers, Stop(c) PROVE Built'
  BY <1>6 DEF Stop, Begin, Goto
<1>7. ASSUME NEW c \in Callers, ResetRead(c) PROVE Built'
  BY <1>7 DEF ResetRead, Goto
<1>8. ASSUME NEW c \in Callers, ResetDelete(c) PROVE Built'
  BY <1>8 DEF ResetDelete, Goto
<1>9. ASSUME NEW c \in Callers, BeginLoop(c) PROVE Built'
  BY <1>9 DEF BeginLoop, Goto
<1>10. ASSUME NEW c \in Callers, Join(c) PROVE Built'
  BY <1>10 DEF Join
<1>11. ASSUME NEW c \in Callers, Clear(c) PROVE Built'
  BY <1>11 DEF Clear, Goto
<1>12. ASSUME NEW i \in 1 .. kMaxThreadCount, Return(i) PROVE Built'
  BY <1>12 DEF Return
<1>13. ASSUME UNCHANGED vars PROVE Built'
  BY <1>13 DEF vars
<1> QED BY <1>1, <1>2, <1>3, <1>4, <1>5, <1>6, <1>7, <1>8, <1>9, <1>10, <1>11, <1>12, <1>13 DEF Next, Constructor, Step

\* The loops of overlapping calls pass no thread that is not joined.
LEMMA JoinedStep ==
  ASSUME PoolInv, [Next]_vars
  PROVE  Joined'
<1> USE DEF PoolInv, TypeOK, Built, Joined
<1>1. ASSUME StartThread PROVE Joined'
  BY <1>1 DEF StartThread
<1>2. ASSUME StartFails PROVE Joined'
  BY <1>2 DEF StartFails
<1>3. ASSUME Constructed PROVE Joined'
  BY <1>3 DEF Constructed
<1>4. ASSUME Destroy PROVE Joined'
  BY <1>4 DEF Destroy
<1>5. ASSUME NEW c \in Callers, Wait(c) PROVE Joined'
  BY <1>5 DEF Wait, Begin, Goto
<1>6. ASSUME NEW c \in Callers, Stop(c) PROVE Joined'
  BY <1>6 DEF Stop, Begin, Goto
<1>7. ASSUME NEW c \in Callers, ResetRead(c) PROVE Joined'
  BY <1>7 DEF ResetRead, Goto
<1>8. ASSUME NEW c \in Callers, ResetDelete(c) PROVE Joined'
  BY <1>8 DEF ResetDelete, Goto
<1>9. ASSUME NEW c \in Callers, BeginLoop(c) PROVE Joined'
  BY <1>9 DEF BeginLoop, Goto
<1>10. ASSUME NEW c \in Callers, Join(c) PROVE Joined'
  <2>1. CASE next' = next /\ joinable' = joinable
    BY <1>10, <2>1 DEF Join
  <2>2. CASE joinable' = joinable \ {next[c]} /\ next' = [next EXCEPT ![c] = next[c] + 1]
    <3> SUFFICES ASSUME NEW d \in Callers, pc[d] = "join", NEW i \in joinable, i # next[c]
                 PROVE  next'[d] <= i /\ i <= end[d]
      BY <1>10, <2>2 DEF Join
    <3>1. next[d] <= i /\ i <= end[d] /\ i \in Nat /\ next[d] \in Nat
      OBVIOUS
    <3>2. next'[d] = IF d = c THEN next[c] + 1 ELSE next[d]
      BY <2>2
    <3> QED BY <3>1, <3>2
  <2> QED BY <1>10, <2>1, <2>2 DEF Join
<1>11. ASSUME NEW c \in Callers, Clear(c) PROVE Joined'
  BY <1>11 DEF Clear, Goto
<1>12. ASSUME NEW i \in 1 .. kMaxThreadCount, Return(i) PROVE Joined'
  BY <1>12 DEF Return
<1>13. ASSUME UNCHANGED vars PROVE Joined'
  BY <1>13 DEF vars
<1> QED BY <1>1, <1>2, <1>3, <1>4, <1>5, <1>6, <1>7, <1>8, <1>9, <1>10, <1>11, <1>12, <1>13 DEF Next, Constructor, Step

\* The work is gone before any thread is waited for.
LEMMA WorkedStep ==
  ASSUME PoolInv, [Next]_vars
  PROVE  Worked'
<1> USE DEF PoolInv, TypeOK, Built, Worked
<1>1. ASSUME StartThread PROVE Worked'
  BY <1>1 DEF StartThread
<1>2. ASSUME StartFails PROVE Worked'
  BY <1>2 DEF StartFails
<1>3. ASSUME Constructed PROVE Worked'
  BY <1>3 DEF Constructed
<1>4. ASSUME Destroy PROVE Worked'
  BY <1>4 DEF Destroy
<1>5. ASSUME NEW c \in Callers, Wait(c) PROVE Worked'
  BY <1>5 DEF Wait, Begin, Goto
<1>6. ASSUME NEW c \in Callers, Stop(c) PROVE Worked'
  BY <1>6 DEF Stop, Begin, Goto
<1>7. ASSUME NEW c \in Callers, ResetRead(c) PROVE Worked'
  BY <1>7 DEF ResetRead, Goto
<1>8. ASSUME NEW c \in Callers, ResetDelete(c) PROVE Worked'
  BY <1>8 DEF ResetDelete, Goto
<1>9. ASSUME NEW c \in Callers, BeginLoop(c) PROVE Worked'
  BY <1>9 DEF BeginLoop, Goto
<1>10. ASSUME NEW c \in Callers, Join(c) PROVE Worked'
  BY <1>10 DEF Join
<1>11. ASSUME NEW c \in Callers, Clear(c) PROVE Worked'
  BY <1>11 DEF Clear, Goto
<1>12. ASSUME NEW i \in 1 .. kMaxThreadCount, Return(i) PROVE Worked'
  BY <1>12 DEF Return
<1>13. ASSUME UNCHANGED vars PROVE Worked'
  BY <1>13 DEF vars
<1> QED BY <1>1, <1>2, <1>3, <1>4, <1>5, <1>6, <1>7, <1>8, <1>9, <1>10, <1>11, <1>12, <1>13 DEF Next, Constructor, Step

\* A call that nothing overlaps leaves the object ready for the next one.
LEMMA AloneStep ==
  ASSUME PoolInv, [Next]_vars
  PROVE  Alone'
<1> USE DEF PoolInv, TypeOK, Built, Joined, Alone
<1>1. ASSUME StartThread PROVE Alone'
  BY <1>1, SMTT(30) DEF StartThread
<1>2. ASSUME StartFails PROVE Alone'
  BY <1>2 DEF StartFails
<1>3. ASSUME Constructed PROVE Alone'
  BY <1>3 DEF Constructed
<1>4. ASSUME Destroy PROVE Alone'
  BY <1>4 DEF Destroy
<1>5. ASSUME NEW c \in Callers, Wait(c) PROVE Alone'
  BY <1>5, ZenonT(60) DEF Wait, Begin, Goto
<1>6. ASSUME NEW c \in Callers, Stop(c) PROVE Alone'
  BY <1>6, ZenonT(60) DEF Stop, Begin, Goto
<1>7. ASSUME NEW c \in Callers, ResetRead(c) PROVE Alone'
  BY <1>7 DEF ResetRead, Goto
<1>8. ASSUME NEW c \in Callers, ResetDelete(c) PROVE Alone'
  BY <1>8, ZenonT(60) DEF ResetDelete, Goto
<1>9. ASSUME NEW c \in Callers, BeginLoop(c) PROVE Alone'
  BY <1>9, ZenonT(60) DEF BeginLoop, Goto
<1>10. ASSUME NEW c \in Callers, Join(c) PROVE Alone'
  <2> SUFFICES ASSUME ~overlapped PROVE Alone'
    BY <1>10 DEF Join
  <2>1. pc[c] = "join" /\ \A d \in Callers : pc[d] = "join" => d = c
    BY <1>10 DEF Join
  <2>2. end[c] = thread_group /\ joinable = next[c] .. end[c]
    BY <2>1
  <2>3. CASE next' = next /\ joinable' = joinable
    BY <1>10, <2>3 DEF Join
  <2>4. CASE joinable' = joinable \ {next[c]} /\ next' = [next EXCEPT ![c] = next[c] + 1]
    <3>1. next'[c] = next[c] + 1 /\ next[c] \in Nat /\ end[c] \in Nat
      BY <2>4
    <3>2. joinable' = next'[c] .. end[c]
      BY <2>2, <2>4, <3>1
    <3> QED BY <1>10, <2>1, <2>2, <3>2 DEF Join
  <2> QED BY <1>10, <2>3, <2>4 DEF Join
<1>11. ASSUME NEW c \in Callers, Clear(c) PROVE Alone'
  BY <1>11 DEF Clear, Goto
<1>12. ASSUME NEW i \in 1 .. kMaxThreadCount, Return(i) PROVE Alone'
  BY <1>12 DEF Return
<1>13. ASSUME UNCHANGED vars PROVE Alone'
  BY <1>13 DEF vars
<1> QED BY <1>1, <1>2, <1>3, <1>4, <1>5, <1>6, <1>7, <1>8, <1>9, <1>10, <1>11, <1>12, <1>13 DEF Next, Constructor, Step

\* A call that nothing overlaps does not fail.
LEMMA FaultStep ==
  ASSUME PoolInv, [Next]_vars
  PROVE  FaultsNeedOverlap'
<1> USE DEF PoolInv, TypeOK, Built, Alone, FaultsNeedOverlap
<1>1. ASSUME StartThread PROVE FaultsNeedOverlap'
  BY <1>1 DEF StartThread
<1>2. ASSUME StartFails PROVE FaultsNeedOverlap'
  BY <1>2 DEF StartFails
<1>3. ASSUME Constructed PROVE FaultsNeedOverlap'
  BY <1>3 DEF Constructed
<1>4. ASSUME Destroy PROVE FaultsNeedOverlap'
  BY <1>4 DEF Destroy
<1>5. ASSUME NEW c \in Callers, Wait(c) PROVE FaultsNeedOverlap'
  BY <1>5 DEF Wait, Begin, Goto
<1>6. ASSUME NEW c \in Callers, Stop(c) PROVE FaultsNeedOverlap'
  BY <1>6 DEF Stop, Begin, Goto
<1>7. ASSUME NEW c \in Callers, ResetRead(c) PROVE FaultsNeedOverlap'
  BY <1>7 DEF ResetRead, Goto
<1>8. ASSUME NEW c \in Callers, ResetDelete(c) PROVE FaultsNeedOverlap'
  BY <1>8 DEF ResetDelete, Goto
<1>9. ASSUME NEW c \in Callers, BeginLoop(c) PROVE FaultsNeedOverlap'
  BY <1>9 DEF BeginLoop, Goto
<1>10. ASSUME NEW c \in Callers, Join(c) PROVE FaultsNeedOverlap'
  BY <1>10 DEF Join
<1>11. ASSUME NEW c \in Callers, Clear(c) PROVE FaultsNeedOverlap'
  BY <1>11 DEF Clear, Goto
<1>12. ASSUME NEW i \in 1 .. kMaxThreadCount, Return(i) PROVE FaultsNeedOverlap'
  BY <1>12 DEF Return
<1>13. ASSUME UNCHANGED vars PROVE FaultsNeedOverlap'
  BY <1>13 DEF vars
<1> QED BY <1>1, <1>2, <1>3, <1>4, <1>5, <1>6, <1>7, <1>8, <1>9, <1>10, <1>11, <1>12, <1>13 DEF Next, Constructor, Step

\* Nothing that runs is destroyed.
LEMMA EndStep ==
  ASSUME PoolInv, [Next]_vars
  PROVE  ThreadsEndFirst'
<1> USE DEF PoolInv, TypeOK, Built, Joined, ThreadsEndFirst
<1>1. ASSUME StartThread PROVE ThreadsEndFirst'
  BY <1>1 DEF StartThread
<1>2. ASSUME StartFails PROVE ThreadsEndFirst'
  BY <1>2 DEF StartFails
<1>3. ASSUME fault = "none", Constructed PROVE ThreadsEndFirst'
  BY <1>3 DEF Constructed
<1>4. ASSUME fault = "none", Destroy PROVE ThreadsEndFirst'
  BY <1>4 DEF Destroy
<1>5. ASSUME NEW c \in Callers, Wait(c) PROVE ThreadsEndFirst'
  BY <1>5 DEF Wait, Begin, Goto
<1>6. ASSUME NEW c \in Callers, Stop(c) PROVE ThreadsEndFirst'
  BY <1>6 DEF Stop, Begin, Goto
<1>7. ASSUME NEW c \in Callers, ResetRead(c) PROVE ThreadsEndFirst'
  BY <1>7 DEF ResetRead, Goto
<1>8. ASSUME NEW c \in Callers, ResetDelete(c) PROVE ThreadsEndFirst'
  BY <1>8 DEF ResetDelete, Goto
<1>9. ASSUME NEW c \in Callers, BeginLoop(c) PROVE ThreadsEndFirst'
  BY <1>9 DEF BeginLoop, Goto
<1>10. ASSUME NEW c \in Callers, Join(c) PROVE ThreadsEndFirst'
  BY <1>10 DEF Join
<1>11. ASSUME fault = "none", NEW c \in Callers, Clear(c) PROVE ThreadsEndFirst'
  BY <1>11 DEF Clear, Goto
<1>12. ASSUME NEW i \in 1 .. kMaxThreadCount, Return(i) PROVE ThreadsEndFirst'
  BY <1>12 DEF Return
<1>13. ASSUME UNCHANGED vars PROVE ThreadsEndFirst'
  BY <1>13 DEF vars
<1> QED BY <1>1, <1>2, <1>3, <1>4, <1>5, <1>6, <1>7, <1>8, <1>9, <1>10, <1>11, <1>12, <1>13 DEF Next, Constructor, Step

\* The invariant of the pool.
LEMMA PoolInvariant == Spec => []PoolInv
<1>1. PoolInv /\ [Next]_vars => PoolInv'
  BY TypeStep, BuiltStep, JoinedStep, WorkedStep, AloneStep, FaultStep, EndStep DEF PoolInv
<1> QED BY PoolInit, <1>1, PTL DEF Spec

-------------------------------------------------------------------------------
(* What follows for every NetworkAccess *)

\* Fields and locals keep their types, and there are never more than four threads.
THEOREM PoolTypes == Spec => []TypeOK
<1>1. PoolInv => TypeOK
  BY DEF PoolInv
<1> QED BY PoolInvariant, <1>1, PTL

\* Calls that follow each other neither join nor delete anything twice.
THEOREM SequentialCallsAreSafe == Spec => []FaultsNeedOverlap
<1>1. PoolInv => FaultsNeedOverlap
  BY DEF PoolInv
<1> QED BY PoolInvariant, <1>1, PTL

\* The io_service outlives its threads, and no thread is destroyed unjoined.
THEOREM ThreadsAreJoined == Spec => []ThreadsEndFirst
<1>1. PoolInv => ThreadsEndFirst
  BY DEF PoolInv
<1> QED BY PoolInvariant, <1>1, PTL

\* There is a thread for what is handed to the io_service.
THEOREM PoolServes == Spec => []AlwaysServed
<1>1. PoolInv => AlwaysServed
  <2> SUFFICES ASSUME PoolInv, life = "alive", ~stopped, work PROVE running # {}
    BY DEF AlwaysServed
  <2>1. running = 1 .. thread_group /\ wanted + thread_group >= 1 /\ wanted = 0
    BY DEF PoolInv, Built, Worked
  <2>2. thread_group \in Nat /\ wanted \in Nat
    BY DEF PoolInv, TypeOK
  <2>3. 1 \in running
    BY <2>1, <2>2
  <2> QED BY <2>3
<1> QED BY PoolInvariant, <1>1, PTL
===============================================================================
