------------------------- MODULE ClientLifecycle_proofs -------------------------
(***************************************************************************)
(* Proofs about ClientLifecycle, for any number of application threads and *)
(* any number of loops started one after the other.                        *)
(***************************************************************************)
EXTENDS ClientLifecycle, TLAPS

(* What makes OneOwner inductive: an owner holds running_, and a handler   *)
(* on a worker thread is never past the CAS of connect_async.              *)
OwnerInv ==
    /\ OneOwner
    /\ Active => running
    /\ \A w \in Workers : call[w] \in {"idle", "token"}

(* What makes SessionClosed inductive: only a loop that has neither closed *)
(* the link nor returned without an exception leaves it up.                *)
SessionInv ==
    link = "up" =>
        \E w \in Workers : worker[w] \in {"loop", "iterate", "close", "error",
                                          "failed", "broken"}

--------------------------------------------------------------------------------
(* Every variable of the client keeps its type.                            *)
THEOREM Typing == Spec => []TypeOK
<1>1. Init => TypeOK
  <2> SUFFICES ASSUME Init
               PROVE  TypeOK
    OBVIOUS
  <2>1. running \in BOOLEAN /\ stop_requested \in BOOLEAN /\ terminated \in BOOLEAN
    BY DEF Init
  <2>2. token \in [Workers -> BOOLEAN]
    BY DEF Init
  <2>3. QED
    BY <2>1, <2>2 DEF Init, TypeOK, Links
<1>2. TypeOK /\ [Next]_vars => TypeOK'
  <2> SUFFICES ASSUME TypeOK, [Next]_vars
               PROVE  TypeOK'
    OBVIOUS
  <2> USE DEF TypeOK, Links
  <2>1. CASE UNCHANGED vars
    BY <2>1 DEF vars, assignment
  <2>2. ASSUME NEW t \in Threads, ConnectClaim(t)
        PROVE  TypeOK'
    BY <2>2 DEF ConnectClaim, Unborn, In, assignment
  <2>3. ASSUME NEW t \in Threads, ConnectClear(t)
        PROVE  TypeOK'
    BY <2>3 DEF ConnectClear, In, assignment
  <2>4. ASSUME NEW t \in Threads, ConnectSpawn(t)
        PROVE  TypeOK'
    <3>1. NewWorker \in Workers /\ worker[NewWorker] = "unborn"
      BY <2>4 DEF ConnectSpawn, NewWorker, Unborn
    <3>2. QED
      BY <2>4, <3>1 DEF ConnectSpawn, In, assignment
  <2>5. ASSUME NEW t \in Threads, ConnectSpawnFails(t)
        PROVE  TypeOK'
    BY <2>5 DEF ConnectSpawnFails, In, assignment
  <2>6. ASSUME NEW t \in Threads, ConnectReplace(t)
        PROVE  TypeOK'
    <3>1. \A w \in Workers : (token[w] \/ w = opcua_thread) \in BOOLEAN
      OBVIOUS
    <3>2. token' \in [Workers -> BOOLEAN]
      BY <2>6, <3>1, Zenon DEF ConnectReplace
    <3>3. QED
      BY <2>6, <3>2 DEF ConnectReplace
  <2>7. ASSUME NEW t \in Threads, ConnectJoin(t)
        PROVE  TypeOK'
    BY <2>7 DEF ConnectJoin, In
  <2>8. ASSUME NEW t \in Threads, ConnectJoined(t)
        PROVE  TypeOK'
    BY <2>8 DEF ConnectJoined, In
  <2>9. ASSUME NEW t \in Threads, ConnectTake(t)
        PROVE  TypeOK'
    BY <2>9 DEF ConnectTake, In
  <2>10. ASSUME NEW t \in Threads, ConnectTerminates(t)
         PROVE  TypeOK'
    BY <2>10 DEF ConnectTerminates, In
  <2>11. ASSUME NEW t \in Threads, StopFlag(t)
        PROVE  TypeOK'
    BY <2>11 DEF StopFlag, In, assignment
  <2>12. ASSUME NEW t \in Threads, StopToken(t)
        PROVE  TypeOK'
    <3>1. \A w \in Workers : (token[w] \/ w = opcua_thread) \in BOOLEAN
      OBVIOUS
    <3>2. token' \in [Workers -> BOOLEAN]
      BY <2>12, <3>1, Zenon DEF StopToken, In, assignment
    <3>3. QED
      BY <2>12, <3>2 DEF StopToken, In, assignment
  <2>13. ASSUME NEW w \in Workers, Open(w)
         PROVE  TypeOK'
    BY <2>13 DEF Open, Step, In, assignment
  <2>14. ASSUME NEW w \in Workers, Check(w)
         PROVE  TypeOK'
    BY <2>14 DEF Check, Step, In, assignment
  <2>15. ASSUME NEW w \in Workers, Iterate(w)
         PROVE  TypeOK'
    BY <2>15 DEF Iterate, Step, In, assignment
  <2>16. ASSUME NEW w \in Workers, Close(w)
         PROVE  TypeOK'
    BY <2>16 DEF Close, Step, In, assignment
  <2>17. ASSUME NEW w \in Workers, Report(w)
         PROVE  TypeOK'
    BY <2>17 DEF Report, Step, In, assignment
  <2>18. ASSUME NEW w \in Workers, Finish(w)
         PROVE  TypeOK'
    BY <2>18 DEF Finish, Step, In, assignment
  <2>19. CASE Aborted
    BY <2>19 DEF Aborted, vars, assignment
  <2> QED
    BY <2>1, <2>2, <2>3, <2>4, <2>5, <2>6, <2>7, <2>8, <2>9, <2>10, <2>11,
       <2>12, <2>13, <2>14, <2>15, <2>16, <2>17, <2>18, <2>19
       DEF Next, Connect, Body, Handlers
<1>3. QED
  BY <1>1, <1>2, PTL DEF Spec

--------------------------------------------------------------------------------
(* One thread at a time owns the start and the loop (lines 67-101), and a  *)
(* handler on the worker thread never gets past the CAS.                   *)
THEOREM Ownership == Spec => []OwnerInv
<1>1. Init => OwnerInv
  BY DEF Init, OwnerInv, OneOwner, Active, Claims, Live, Threads
<1>2. TypeOK /\ OwnerInv /\ [Next]_vars => OwnerInv'
  <2> SUFFICES ASSUME TypeOK, OwnerInv, [Next]_vars
               PROVE  OwnerInv'
    OBVIOUS
  <2> USE ThreadsAssumption DEF TypeOK, OwnerInv, OneOwner, Active, Claims, Live, Threads
  <2>1. CASE UNCHANGED vars
    BY <2>1 DEF vars, assignment
  <2>2. ASSUME NEW t \in Threads, ConnectClaim(t)
        PROVE  OwnerInv'
    BY <2>2 DEF ConnectClaim, Unborn, CanCall, In, assignment
  <2>3. ASSUME NEW t \in Threads, ConnectClear(t)
        PROVE  OwnerInv'
    BY <2>3 DEF ConnectClear, In, assignment
  <2>4. ASSUME NEW t \in Threads, ConnectSpawn(t)
        PROVE  OwnerInv'
    <3>1. NewWorker \in Workers /\ worker[NewWorker] = "unborn"
      BY <2>4 DEF ConnectSpawn, NewWorker, Unborn
    <3>2. QED
      BY <2>4, <3>1 DEF ConnectSpawn, In, assignment
  <2>5. ASSUME NEW t \in Threads, ConnectSpawnFails(t)
        PROVE  OwnerInv'
    BY <2>5 DEF ConnectSpawnFails, In, assignment
  <2>6. ASSUME NEW t \in Threads, ConnectReplace(t)
        PROVE  OwnerInv'
    BY <2>6 DEF ConnectReplace, In
  <2>7. ASSUME NEW t \in Threads, ConnectJoin(t)
        PROVE  OwnerInv'
    BY <2>7 DEF ConnectJoin, In
  <2>8. ASSUME NEW t \in Threads, ConnectJoined(t)
        PROVE  OwnerInv'
    BY <2>8 DEF ConnectJoined, In
  <2>9. ASSUME NEW t \in Threads, ConnectTake(t)
        PROVE  OwnerInv'
    BY <2>9 DEF ConnectTake, In
  <2>10. ASSUME NEW t \in Threads, ConnectTerminates(t)
         PROVE  OwnerInv'
    BY <2>10 DEF ConnectTerminates, In
  <2>11. ASSUME NEW t \in Threads, StopFlag(t)
        PROVE  OwnerInv'
    BY <2>11 DEF StopFlag, In, assignment
  <2>12. ASSUME NEW t \in Threads, StopToken(t)
        PROVE  OwnerInv'
    BY <2>12 DEF StopToken, In, assignment
  <2>13. ASSUME NEW w \in Workers, Open(w)
        PROVE  OwnerInv'
    BY <2>13 DEF Open, Step, In, assignment
  <2>14. ASSUME NEW w \in Workers, Check(w)
        PROVE  OwnerInv'
    BY <2>14 DEF Check, Step, In, assignment
  <2>15. ASSUME NEW w \in Workers, Iterate(w)
        PROVE  OwnerInv'
    BY <2>15 DEF Iterate, Step, In, assignment
  <2>16. ASSUME NEW w \in Workers, Close(w)
        PROVE  OwnerInv'
    BY <2>16 DEF Close, Step, In, assignment
  <2>17. ASSUME NEW w \in Workers, Report(w)
        PROVE  OwnerInv'
    BY <2>17 DEF Report, Step, In, assignment
  <2>18. ASSUME NEW w \in Workers, Finish(w)
        PROVE  OwnerInv'
    BY <2>18 DEF Finish, Step, In, assignment
  <2>19. CASE Aborted
    BY <2>19 DEF Aborted, vars, assignment
  <2> QED
    BY <2>1, <2>2, <2>3, <2>4, <2>5, <2>6, <2>7, <2>8, <2>9, <2>10, <2>11,
       <2>12, <2>13, <2>14, <2>15, <2>16, <2>17, <2>18, <2>19
       DEF Next, Connect, Body, Handlers
<1>3. QED
  BY <1>1, <1>2, Typing, PTL DEF Spec

(* No two threads ever start or run the OPC UA loop at the same time.      *)
COROLLARY OneOwnerHolds == Spec => []OneOwner
<1>1. OwnerInv => OneOwner
  BY DEF OwnerInv
<1>2. QED
  BY <1>1, Ownership, PTL

(* No handler makes its own thread join itself in connect_async.           *)
COROLLARY NoSelfJoinHolds == Spec => []NoSelfJoin
<1>1. OwnerInv => NoSelfJoin
  BY DEF OwnerInv, NoSelfJoin
<1>2. QED
  BY <1>1, Ownership, PTL

--------------------------------------------------------------------------------
(* A client that is neither started nor running has closed its session,    *)
(* unless an exception ended one of its loops.                             *)
THEOREM SessionClosedHolds == Spec => []SessionClosed
<1>1. Init => SessionInv
  BY DEF Init, SessionInv, Links
<1>2. TypeOK /\ SessionInv /\ [Next]_vars => SessionInv'
  <2> SUFFICES ASSUME TypeOK, SessionInv, [Next]_vars
               PROVE  SessionInv'
    OBVIOUS
  <2> USE ThreadsAssumption DEF TypeOK, SessionInv, Links
  <2>1. CASE UNCHANGED vars
    BY <2>1 DEF vars, assignment
  <2>2. ASSUME NEW t \in Threads, ConnectClaim(t)
        PROVE  SessionInv'
    BY <2>2 DEF ConnectClaim, Unborn, CanCall, In, assignment
  <2>3. ASSUME NEW t \in Threads, ConnectClear(t)
        PROVE  SessionInv'
    BY <2>3 DEF ConnectClear, In, assignment
  <2>4. ASSUME NEW t \in Threads, ConnectSpawn(t)
        PROVE  SessionInv'
    <3>1. NewWorker \in Workers /\ worker[NewWorker] = "unborn"
      BY <2>4 DEF ConnectSpawn, NewWorker, Unborn
    <3>2. QED
      BY <2>4, <3>1 DEF ConnectSpawn, In, assignment
  <2>5. ASSUME NEW t \in Threads, ConnectSpawnFails(t)
        PROVE  SessionInv'
    BY <2>5 DEF ConnectSpawnFails, In, assignment
  <2>6. ASSUME NEW t \in Threads, ConnectReplace(t)
        PROVE  SessionInv'
    BY <2>6 DEF ConnectReplace, In
  <2>7. ASSUME NEW t \in Threads, ConnectJoin(t)
        PROVE  SessionInv'
    BY <2>7 DEF ConnectJoin, In
  <2>8. ASSUME NEW t \in Threads, ConnectJoined(t)
        PROVE  SessionInv'
    BY <2>8 DEF ConnectJoined, In
  <2>9. ASSUME NEW t \in Threads, ConnectTake(t)
        PROVE  SessionInv'
    BY <2>9 DEF ConnectTake, In
  <2>10. ASSUME NEW t \in Threads, ConnectTerminates(t)
         PROVE  SessionInv'
    BY <2>10 DEF ConnectTerminates, In
  <2>11. ASSUME NEW t \in Threads, StopFlag(t)
        PROVE  SessionInv'
    BY <2>11 DEF StopFlag, In, assignment
  <2>12. ASSUME NEW t \in Threads, StopToken(t)
        PROVE  SessionInv'
    BY <2>12 DEF StopToken, In, assignment
  <2>13. ASSUME NEW w \in Workers, Open(w)
        PROVE  SessionInv'
    BY <2>13 DEF Open, Step, In, assignment
  <2>14. ASSUME NEW w \in Workers, Check(w)
        PROVE  SessionInv'
    BY <2>14 DEF Check, Step, In, assignment
  <2>15. ASSUME NEW w \in Workers, Iterate(w)
        PROVE  SessionInv'
    BY <2>15 DEF Iterate, Step, In, assignment
  <2>16. ASSUME NEW w \in Workers, Close(w)
        PROVE  SessionInv'
    BY <2>16 DEF Close, Step, In, assignment
  <2>17. ASSUME NEW w \in Workers, Report(w)
        PROVE  SessionInv'
    BY <2>17 DEF Report, Step, In, assignment
  <2>18. ASSUME NEW w \in Workers, Finish(w)
        PROVE  SessionInv'
    BY <2>18 DEF Finish, Step, In, assignment
  <2>19. CASE Aborted
    BY <2>19 DEF Aborted, vars, assignment
  <2> QED
    BY <2>1, <2>2, <2>3, <2>4, <2>5, <2>6, <2>7, <2>8, <2>9, <2>10, <2>11,
       <2>12, <2>13, <2>14, <2>15, <2>16, <2>17, <2>18, <2>19
       DEF Next, Connect, Body, Handlers
<1>3. SessionInv => SessionClosed
  BY DEF SessionInv, SessionClosed, Active, Live
<1>4. QED
  BY <1>1, <1>2, <1>3, Typing, PTL DEF Spec

--------------------------------------------------------------------------------
(* An assignment between its stop and the end of its join has told a loop  *)
(* to stop.                                                                *)
ToldInv ==
    \A t \in Threads :
        call[t] \in {"join", "wait"} => stopped[t] \in Workers /\ token[stopped[t]]

(* A connect_async that has to wait for a loop has told that loop to stop, *)
(* unless another late starter overtook it in line 79: the safety half of  *)
(* CallsReturn.                                                            *)
THEOREM WaitsForStopped ==
    Spec => [](\A t \in Threads :
                  call[t] = "wait" /\ ~Overtaken(t) => token[joining[t]])
<1>1. Init => ToldInv
  BY DEF Init, ToldInv
<1>2. TypeOK /\ ToldInv /\ [Next]_vars => ToldInv'
  <2> SUFFICES ASSUME TypeOK, ToldInv, [Next]_vars
               PROVE  ToldInv'
    OBVIOUS
  <2> USE ThreadsAssumption DEF TypeOK, ToldInv
  <2>1. CASE UNCHANGED vars
    BY <2>1 DEF vars, assignment
  <2>2. ASSUME NEW t \in Threads, ConnectClaim(t)
        PROVE  ToldInv'
    BY <2>2 DEF ConnectClaim, Unborn, CanCall, In, assignment
  <2>3. ASSUME NEW t \in Threads, ConnectClear(t)
        PROVE  ToldInv'
    BY <2>3 DEF ConnectClear, In, assignment
  <2>4. ASSUME NEW t \in Threads, ConnectSpawn(t)
        PROVE  ToldInv'
    <3>1. NewWorker \in Workers /\ worker[NewWorker] = "unborn"
      BY <2>4 DEF ConnectSpawn, NewWorker, Unborn
    <3>2. QED
      BY <2>4, <3>1 DEF ConnectSpawn, In, assignment
  <2>5. ASSUME NEW t \in Threads, ConnectSpawnFails(t)
        PROVE  ToldInv'
    BY <2>5 DEF ConnectSpawnFails, In, assignment
  <2>6. ASSUME NEW t \in Threads, ConnectReplace(t)
        PROVE  ToldInv'
    BY <2>6 DEF ConnectReplace, In
  <2>7. ASSUME NEW t \in Threads, ConnectJoin(t)
        PROVE  ToldInv'
    BY <2>7 DEF ConnectJoin, In
  <2>8. ASSUME NEW t \in Threads, ConnectJoined(t)
        PROVE  ToldInv'
    BY <2>8 DEF ConnectJoined, In
  <2>9. ASSUME NEW t \in Threads, ConnectTake(t)
        PROVE  ToldInv'
    BY <2>9 DEF ConnectTake, In
  <2>10. ASSUME NEW t \in Threads, ConnectTerminates(t)
         PROVE  ToldInv'
    BY <2>10 DEF ConnectTerminates, In
  <2>11. ASSUME NEW t \in Threads, StopFlag(t)
        PROVE  ToldInv'
    BY <2>11 DEF StopFlag, In, assignment
  <2>12. ASSUME NEW t \in Threads, StopToken(t)
        PROVE  ToldInv'
    BY <2>12 DEF StopToken, In, assignment
  <2>13. ASSUME NEW w \in Workers, Open(w)
        PROVE  ToldInv'
    BY <2>13 DEF Open, Step, In, assignment
  <2>14. ASSUME NEW w \in Workers, Check(w)
        PROVE  ToldInv'
    BY <2>14 DEF Check, Step, In, assignment
  <2>15. ASSUME NEW w \in Workers, Iterate(w)
        PROVE  ToldInv'
    BY <2>15 DEF Iterate, Step, In, assignment
  <2>16. ASSUME NEW w \in Workers, Close(w)
        PROVE  ToldInv'
    BY <2>16 DEF Close, Step, In, assignment
  <2>17. ASSUME NEW w \in Workers, Report(w)
        PROVE  ToldInv'
    BY <2>17 DEF Report, Step, In, assignment
  <2>18. ASSUME NEW w \in Workers, Finish(w)
        PROVE  ToldInv'
    BY <2>18 DEF Finish, Step, In, assignment
  <2>19. CASE Aborted
    BY <2>19 DEF Aborted, vars, assignment
  <2> QED
    BY <2>1, <2>2, <2>3, <2>4, <2>5, <2>6, <2>7, <2>8, <2>9, <2>10, <2>11,
       <2>12, <2>13, <2>14, <2>15, <2>16, <2>17, <2>18, <2>19
       DEF Next, Connect, Body, Handlers
<1>3. ToldInv => \A t \in Threads :
                     call[t] = "wait" /\ ~Overtaken(t) => token[joining[t]]
  BY DEF ToldInv, Overtaken
<1>4. QED
  BY <1>1, <1>2, <1>3, Typing, PTL DEF Spec

--------------------------------------------------------------------------------
(* A stop that did not fall between lines 67 and 70 of a start is not      *)
(* erased by one: what the eventual end of the loop (StopEnds) rests on.   *)
StopInv ==
    halted = "clean" => stop_requested /\ \A t \in Threads : call[t] # "clear"

(* No loop goes round again.                                               *)
LoopsStop == halted = "clean" => \A w \in Workers : worker[w] = "loop" => worker'[w] # "iterate"

(* After a stop() outside lines 67-70 no loop enters runIterate again,     *)
(* neither the present one nor one that a start under way still spawns,    *)
(* until the client is started anew (client.cpp:89, 122).                  *)
THEOREM StopKeeps == Spec => [][LoopsStop]_vars
<1>1. Init => StopInv
  BY DEF Init, StopInv
<1>2. TypeOK /\ StopInv /\ [Next]_vars => StopInv'
  <2> SUFFICES ASSUME TypeOK, StopInv, [Next]_vars
               PROVE  StopInv'
    OBVIOUS
  <2> USE DEF TypeOK, StopInv
  <2>1. CASE UNCHANGED vars
    BY <2>1 DEF vars, assignment
  <2>2. ASSUME NEW t \in Threads, ConnectClaim(t)
        PROVE  StopInv'
    BY <2>2 DEF ConnectClaim, Unborn, In, assignment
  <2>3. ASSUME NEW t \in Threads, ConnectClear(t)
        PROVE  StopInv'
    BY <2>3 DEF ConnectClear, In, assignment
  <2>4. ASSUME NEW t \in Threads, ConnectSpawn(t)
        PROVE  StopInv'
    <3>1. NewWorker \in Workers /\ worker[NewWorker] = "unborn"
      BY <2>4 DEF ConnectSpawn, NewWorker, Unborn
    <3>2. QED
      BY <2>4, <3>1 DEF ConnectSpawn, In, assignment
  <2>5. ASSUME NEW t \in Threads, ConnectSpawnFails(t)
        PROVE  StopInv'
    BY <2>5 DEF ConnectSpawnFails, In, assignment
  <2>6. ASSUME NEW t \in Threads, ConnectReplace(t)
        PROVE  StopInv'
    BY <2>6 DEF ConnectReplace, In
  <2>7. ASSUME NEW t \in Threads, ConnectJoin(t)
        PROVE  StopInv'
    BY <2>7 DEF ConnectJoin, In
  <2>8. ASSUME NEW t \in Threads, ConnectJoined(t)
        PROVE  StopInv'
    BY <2>8 DEF ConnectJoined, In
  <2>9. ASSUME NEW t \in Threads, ConnectTake(t)
        PROVE  StopInv'
    BY <2>9 DEF ConnectTake, In
  <2>10. ASSUME NEW t \in Threads, ConnectTerminates(t)
         PROVE  StopInv'
    BY <2>10 DEF ConnectTerminates, In
  <2>11. ASSUME NEW t \in Threads, StopFlag(t)
        PROVE  StopInv'
    BY <2>11 DEF StopFlag, In, assignment
  <2>12. ASSUME NEW t \in Threads, StopToken(t)
        PROVE  StopInv'
    BY <2>12 DEF StopToken, In, assignment
  <2>13. ASSUME NEW w \in Workers, Open(w)
         PROVE  StopInv'
    BY <2>13 DEF Open, Step, In, assignment
  <2>14. ASSUME NEW w \in Workers, Check(w)
         PROVE  StopInv'
    BY <2>14 DEF Check, Step, In, assignment
  <2>15. ASSUME NEW w \in Workers, Iterate(w)
         PROVE  StopInv'
    BY <2>15 DEF Iterate, Step, In, assignment
  <2>16. ASSUME NEW w \in Workers, Close(w)
         PROVE  StopInv'
    BY <2>16 DEF Close, Step, In, assignment
  <2>17. ASSUME NEW w \in Workers, Report(w)
         PROVE  StopInv'
    BY <2>17 DEF Report, Step, In, assignment
  <2>18. ASSUME NEW w \in Workers, Finish(w)
         PROVE  StopInv'
    BY <2>18 DEF Finish, Step, In, assignment
  <2>19. CASE Aborted
    BY <2>19 DEF Aborted, vars, assignment
  <2> QED
    BY <2>1, <2>2, <2>3, <2>4, <2>5, <2>6, <2>7, <2>8, <2>9, <2>10, <2>11,
       <2>12, <2>13, <2>14, <2>15, <2>16, <2>17, <2>18, <2>19
       DEF Next, Connect, Body, Handlers
<1>3. TypeOK /\ StopInv /\ [Next]_vars => [LoopsStop]_vars
  <2> SUFFICES ASSUME TypeOK, StopInv, Next, halted = "clean",
                      NEW w \in Workers, worker[w] = "loop"
               PROVE  worker'[w] # "iterate"
    BY DEF LoopsStop
  <2>1. stop_requested
    BY DEF StopInv
  <2> USE DEF TypeOK
  <2>2. ASSUME NEW t \in Threads, ConnectClaim(t) \/ Connect(t) \/ StopFlag(t) \/ StopToken(t)
        PROVE  worker'[w] # "iterate"
    BY <2>2 DEF ConnectClaim, Connect, ConnectClear, ConnectSpawn, ConnectSpawnFails,
       ConnectReplace, ConnectJoin, ConnectJoined, ConnectTake, ConnectTerminates,
       StopFlag, StopToken, Unborn
  <2>3. ASSUME NEW v \in Workers, Body(v) \/ Handlers(v)
        PROVE  worker'[w] # "iterate"
    BY <2>1, <2>3 DEF Body, Handlers, Open, Check, Finish, Iterate, Close, Report, Step
  <2>4. CASE Aborted
    BY <2>4 DEF Aborted, vars
  <2> QED
    BY <2>2, <2>3, <2>4 DEF Next
<1>4. QED
  BY <1>1, <1>2, <1>3, Typing, PTL DEF Spec

================================================================================
