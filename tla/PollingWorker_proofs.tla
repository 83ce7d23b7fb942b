-------------------------- MODULE PollingWorker_proofs --------------------------
(***************************************************************************)
(* Proofs about PollingWorker, for any number of callers, pollers and      *)
(* intervals.                                                              *)
(***************************************************************************)
EXTENDS PollingWorker, TLAPS

(* The jthreads moved out of the member: each was told to stop, is held by *)
(* one call that has not returned, and is out of reach of everybody else.  *)
HandleInv ==
    /\ polling_worker # None => poller[polling_worker] # "unborn"
    /\ \A w \in Pollers : poller[w] = "unborn" =>
           ~stop[w] /\ \A t \in Threads : old[t] # w
    /\ \A t \in Threads : old[t] # None =>
           /\ stop[old[t]]
           /\ old[t] # polling_worker
           /\ call[t] \in {"notify", "join"}
    /\ \A t \in Threads : call[t] = "join" => old[t] # None

PollerInv == HandleInv /\ OnePoller /\ NoOrphan

(* What a loop has read is a setting of the past, or the one in force.     *)
SeenInv ==
    \A w \in Pollers :
        /\ seen[w].revision \leq setting.revision
        /\ seen[w].revision = setting.revision => seen[w] = setting

SleepInv == SeenInv /\ NoStaleSleep

--------------------------------------------------------------------------------
(* The fresh identity of a new poller is one that no poller has had.       *)
LEMMA NewPollerFresh ==
    ASSUME Unborn # {}
    PROVE  NewPoller \in Pollers /\ poller[NewPoller] = "unborn"
BY DEF Unborn, NewPoller

(* Every variable of the poller keeps its type.                            *)
THEOREM Typing == Spec => []TypeOK
<1>1. Init => TypeOK
  <2> SUFFICES ASSUME Init
               PROVE  TypeOK
    OBVIOUS
  <2>1. setting \in Settings
    BY PollingAssumption DEF Init, Settings
  <2>2. QED
    BY <2>1 DEF Init, TypeOK
<1>2. TypeOK /\ [Next]_vars => TypeOK'
  <2> SUFFICES ASSUME TypeOK, [Next]_vars
               PROVE  TypeOK'
    OBVIOUS
  <2> USE PollingAssumption DEF TypeOK, Settings, Threads
  <2>1. CASE UNCHANGED vars
    BY <2>1 DEF vars
  <2>2. ASSUME NEW t \in Threads, StartPolling(t)
        PROVE  TypeOK'
    BY <2>2, NewPollerFresh DEF StartPolling, CanCall, In, Stale, NewSetting, Unborn
  <2>3. ASSUME NEW t \in Threads, StartPollingFails(t)
        PROVE  TypeOK'
    BY <2>3 DEF StartPollingFails, CanCall, In, Stale, NewSetting
  <2>4. ASSUME NEW t \in Threads, Notify(t)
        PROVE  TypeOK'
    BY <2>4 DEF Notify, In, Woken
  <2>5. ASSUME NEW t \in Threads, Join(t)
        PROVE  TypeOK'
    BY <2>5 DEF Join, In
  <2>6. ASSUME NEW t \in Threads, SelfJoin(t)
        PROVE  TypeOK'
    BY <2>6 DEF SelfJoin, In
  <2>7. ASSUME NEW t \in Threads, StopPolling(t)
        PROVE  TypeOK'
    BY <2>7 DEF StopPolling, CanCall, In, Woken
  <2>8. ASSUME NEW w \in Pollers, Check(w)
        PROVE  TypeOK'
    BY <2>8 DEF Check, Step, At
  <2>9. ASSUME NEW w \in Pollers, Request(w)
        PROVE  TypeOK'
    BY <2>9 DEF Request, Step, At
  <2>10. ASSUME NEW w \in Pollers, HandlerReturns(w)
        PROVE  TypeOK'
    BY <2>10 DEF HandlerReturns, Step, At
  <2>11. ASSUME NEW w \in Pollers, WaitBegin(w)
        PROVE  TypeOK'
    BY <2>11 DEF WaitBegin, Step, At
  <2>12. ASSUME NEW w \in Pollers, Timeout(w)
        PROVE  TypeOK'
    BY <2>12 DEF Timeout, Step, At
  <2>13. ASSUME NEW w \in Pollers, Wake(w)
        PROVE  TypeOK'
    BY <2>13 DEF Wake, Step, At
  <2>14. CASE Aborted
    BY <2>14 DEF Aborted, vars
  <2> QED
    BY <2>1, <2>2, <2>3, <2>4, <2>5, <2>6, <2>7, <2>8,
       <2>9, <2>10, <2>11, <2>12, <2>13, <2>14
    DEF Next, Return, Loop
<1>3. QED
  BY <1>1, <1>2, PTL DEF Spec

--------------------------------------------------------------------------------
(* Who owns the pollers: see HandleInv.                                    *)
THEOREM Pollership == Spec => []PollerInv
<1>1. Init => PollerInv
  BY PollingAssumption DEF Init, PollerInv, HandleInv, OnePoller, NoOrphan, Live, Threads
<1>2. TypeOK /\ PollerInv /\ [Next]_vars => PollerInv'
  <2> SUFFICES ASSUME TypeOK, PollerInv, [Next]_vars
               PROVE  PollerInv'
    OBVIOUS
  <2> USE PollingAssumption DEF TypeOK, PollerInv, HandleInv, OnePoller, NoOrphan, Live, Threads
  <2>1. CASE UNCHANGED vars
    BY <2>1 DEF vars
  <2>2. ASSUME NEW t \in Threads, StartPolling(t)
        PROVE  PollerInv'
    BY <2>2, NewPollerFresh DEF StartPolling, CanCall, In, Stale, NewSetting, Unborn
  <2>3. ASSUME NEW t \in Threads, StartPollingFails(t)
        PROVE  PollerInv'
    BY <2>3 DEF StartPollingFails, CanCall, In, Stale, NewSetting
  <2>4. ASSUME NEW t \in Threads, Notify(t)
        PROVE  PollerInv'
    BY <2>4 DEF Notify, In, Woken
  <2>5. ASSUME NEW t \in Threads, Join(t)
        PROVE  PollerInv'
    BY <2>5 DEF Join, In
  <2>6. ASSUME NEW t \in Threads, SelfJoin(t)
        PROVE  PollerInv'
    BY <2>6 DEF SelfJoin, In
  <2>7. ASSUME NEW t \in Threads, StopPolling(t)
        PROVE  PollerInv'
    BY <2>7 DEF StopPolling, CanCall, In, Woken
  <2>8. ASSUME NEW w \in Pollers, Check(w)
        PROVE  PollerInv'
    BY <2>8 DEF Check, Step, At
  <2>9. ASSUME NEW w \in Pollers, Request(w)
        PROVE  PollerInv'
    BY <2>9 DEF Request, Step, At
  <2>10. ASSUME NEW w \in Pollers, HandlerReturns(w)
        PROVE  PollerInv'
    BY <2>10 DEF HandlerReturns, Step, At
  <2>11. ASSUME NEW w \in Pollers, WaitBegin(w)
        PROVE  PollerInv'
    BY <2>11 DEF WaitBegin, Step, At
  <2>12. ASSUME NEW w \in Pollers, Timeout(w)
        PROVE  PollerInv'
    BY <2>12 DEF Timeout, Step, At
  <2>13. ASSUME NEW w \in Pollers, Wake(w)
        PROVE  PollerInv'
    BY <2>13 DEF Wake, Step, At
  <2>14. CASE Aborted
    BY <2>14 DEF Aborted, vars
  <2> QED
    BY <2>1, <2>2, <2>3, <2>4, <2>5, <2>6, <2>7, <2>8,
       <2>9, <2>10, <2>11, <2>12, <2>13, <2>14
    DEF Next, Return, Loop
<1>3. QED
  BY <1>1, <1>2, Typing, PTL DEF Spec

(* At most one poller has not been told to stop, and the member owns it.   *)
COROLLARY OnePollerHolds == Spec => []OnePoller
<1>1. PollerInv => OnePoller
  BY DEF PollerInv
<1>2. QED
  BY <1>1, Pollership, PTL

(* Every other running poller is held by the one call that will join it.   *)
COROLLARY NoOrphanHolds == Spec => []NoOrphan
<1>1. PollerInv => NoOrphan
  BY DEF PollerInv
<1>2. QED
  BY <1>1, Pollership, PTL

--------------------------------------------------------------------------------
(* No wakeup is lost: a poller never sleeps on a setting that was replaced *)
(* before its wait unless a notify is on its way, nor after its stop.      *)
THEOREM NoStaleSleepHolds == Spec => []NoStaleSleep
<1>1. Init => SleepInv
  BY PollingAssumption DEF Init, SleepInv, SeenInv, NoStaleSleep
<1>2. TypeOK /\ OnePoller /\ SleepInv /\ [Next]_vars => SleepInv'
  <2> SUFFICES ASSUME TypeOK, OnePoller, SleepInv, [Next]_vars
               PROVE  SleepInv'
    OBVIOUS
  <2> USE PollingAssumption DEF TypeOK, Settings, SleepInv, SeenInv, NoStaleSleep, OnePoller, Live
  <2>1. CASE UNCHANGED vars
    BY <2>1 DEF vars
  <2>2. ASSUME NEW t \in Threads, StartPolling(t)
        PROVE  SleepInv'
    BY <2>2, NewPollerFresh DEF StartPolling, CanCall, In, Stale, NewSetting, Unborn
  <2>3. ASSUME NEW t \in Threads, StartPollingFails(t)
        PROVE  SleepInv'
    BY <2>3 DEF StartPollingFails, CanCall, In, Stale, NewSetting
  <2>4. ASSUME NEW t \in Threads, Notify(t)
        PROVE  SleepInv'
    BY <2>4 DEF Notify, In, Woken
  <2>5. ASSUME NEW t \in Threads, Join(t)
        PROVE  SleepInv'
    BY <2>5 DEF Join, In
  <2>6. ASSUME NEW t \in Threads, SelfJoin(t)
        PROVE  SleepInv'
    BY <2>6 DEF SelfJoin, In
  <2>7. ASSUME NEW t \in Threads, StopPolling(t)
        PROVE  SleepInv'
    BY <2>7 DEF StopPolling, CanCall, In, Woken
  <2>8. ASSUME NEW w \in Pollers, Check(w)
        PROVE  SleepInv'
    BY <2>8 DEF Check, Step, At
  <2>9. ASSUME NEW w \in Pollers, Request(w)
        PROVE  SleepInv'
    BY <2>9 DEF Request, Step, At
  <2>10. ASSUME NEW w \in Pollers, HandlerReturns(w)
        PROVE  SleepInv'
    BY <2>10 DEF HandlerReturns, Step, At
  <2>11. ASSUME NEW w \in Pollers, WaitBegin(w)
        PROVE  SleepInv'
    BY <2>11 DEF WaitBegin, Step, At
  <2>12. ASSUME NEW w \in Pollers, Timeout(w)
        PROVE  SleepInv'
    BY <2>12 DEF Timeout, Step, At
  <2>13. ASSUME NEW w \in Pollers, Wake(w)
        PROVE  SleepInv'
    BY <2>13 DEF Wake, Step, At
  <2>14. CASE Aborted
    BY <2>14 DEF Aborted, vars
  <2> QED
    BY <2>1, <2>2, <2>3, <2>4, <2>5, <2>6, <2>7, <2>8,
       <2>9, <2>10, <2>11, <2>12, <2>13, <2>14
    DEF Next, Return, Loop
<1>3. SleepInv => NoStaleSleep
  BY DEF SleepInv
<1>4. QED
  BY <1>1, <1>2, <1>3, Typing, OnePollerHolds, PTL DEF Spec

--------------------------------------------------------------------------------
(* Where the handlers of pollers wait for each other in a circle, each     *)
(* joining the next, one of them joins itself.                             *)
CirclesAreSelfJoins ==
    \A circle \in SUBSET Pollers :
        circle # {} /\ (\A w \in circle : old[w] \in circle) => \E w \in circle : old[w] = w

(* The poller that the member owns has not moved another one out: what     *)
(* keeps a new wait from closing a circle.                                 *)
CircleInv ==
    /\ polling_worker # None => old[polling_worker] = None
    /\ \A w \in Pollers : poller[w] = "unborn" => old[w] = None
    /\ CirclesAreSelfJoins

(* A call moves the poller of the member out, or none.                     *)
LEMMA MoveOut ==
    ASSUME TypeOK, PollerInv, CircleInv, NEW t \in Threads, CanCall(t),
           old' = [old EXCEPT ![t] = polling_worker],
           polling_worker' = None \/ polling_worker' \in Unborn,
           \A w \in Pollers : poller'[w] = "unborn" => poller[w] = "unborn"
    PROVE  CircleInv'
<1>1. /\ old'[t] = polling_worker /\ \A u \in Threads : u # t => old'[u] = old[u]
      /\ Pollers \subseteq Threads
  BY DEF TypeOK, Threads
<1>2. t \in Pollers => poller[t] # "unborn"
  BY DEF CanCall
<1>3. ASSUME NEW circle \in SUBSET Pollers, circle # {}, \A w \in circle : old'[w] \in circle
      PROVE  \E w \in circle : old'[w] = w
  <2>1. CASE t \in circle
    <3>1. polling_worker \in circle /\ polling_worker # None
      BY <1>1, <1>3, <2>1, PollingAssumption
    <3>2. old[polling_worker] = None
      BY <3>1 DEF CircleInv
    <3>3. polling_worker = t
      BY <1>1, <1>3, <3>1, <3>2, PollingAssumption
    <3> QED
      BY <1>1, <2>1, <3>3
  <2>2. CASE t \notin circle
    <3>1. \A w \in circle : old'[w] = old[w] /\ old[w] \in circle
      BY <1>1, <1>3, <2>2
    <3> QED
      BY <1>3, <3>1 DEF CircleInv, CirclesAreSelfJoins
  <2> QED
    BY <2>1, <2>2
<1>4. \A w \in Pollers : poller[w] = "unborn" => old'[w] = None
  BY <1>1, <1>2 DEF CircleInv
<1>5. polling_worker' # None => old'[polling_worker'] = None
  BY <1>4 DEF Unborn
<1> QED
  BY <1>3, <1>4, <1>5 DEF CircleInv, CirclesAreSelfJoins

(* Handlers that replace pollers never wait for each other in a circle,    *)
(* however many there are: the one join that cannot end is a poller's of   *)
(* itself (tpc.cpp:171-184).                                               *)
THEOREM CirclesAreSelfJoinsHolds == Spec => []CirclesAreSelfJoins
<1>1. Init => CircleInv
  BY PollingAssumption DEF Init, CircleInv, CirclesAreSelfJoins, Threads
<1>2. TypeOK /\ PollerInv /\ CircleInv /\ [Next]_vars => CircleInv'
  <2> SUFFICES ASSUME TypeOK, PollerInv, CircleInv, [Next]_vars
               PROVE  CircleInv'
    OBVIOUS
  <2>1. ASSUME UNCHANGED <<polling_worker, old>>,
               \A w \in Pollers : poller'[w] = "unborn" => poller[w] = "unborn"
        PROVE  CircleInv'
    BY <2>1 DEF CircleInv, CirclesAreSelfJoins
  <2>2. ASSUME NEW t \in Threads, StartPolling(t)
        PROVE  CircleInv'
    <3>1. CASE UNCHANGED <<polling_worker, poller, old>>
      BY <2>1, <3>1
    <3>2. CASE ~UNCHANGED <<polling_worker, poller, old>>
      <4>1. /\ CanCall(t) /\ Unborn # {} /\ polling_worker' = NewPoller
            /\ poller' = [poller EXCEPT ![NewPoller] = "check"]
            /\ old' = [old EXCEPT ![t] = polling_worker]
        BY <2>2, <3>2 DEF StartPolling
      <4>2. NewPoller \in Unborn
        BY <4>1, NewPollerFresh DEF Unborn
      <4>3. \A w \in Pollers : poller'[w] = "unborn" => poller[w] = "unborn"
        BY <4>1 DEF TypeOK
      <4> QED
        BY <4>1, <4>2, <4>3, MoveOut
    <3> QED
      BY <3>1, <3>2
  <2>3. ASSUME NEW t \in Threads, StartPollingFails(t)
        PROVE  CircleInv'
    BY <2>3, MoveOut DEF StartPollingFails
  <2>4. ASSUME NEW t \in Threads, Notify(t) \/ SelfJoin(t) \/ StopPolling(t)
        PROVE  CircleInv'
    BY <2>1, <2>4 DEF Notify, SelfJoin, StopPolling, Woken
  <2>5. ASSUME NEW t \in Threads, Join(t)
        PROVE  CircleInv'
    <3>1. /\ old'[t] = None /\ \A u \in Threads : u # t => old'[u] = old[u]
          /\ Pollers \subseteq Threads
          /\ UNCHANGED <<polling_worker, poller>>
      BY <2>5 DEF Join, TypeOK, Threads
    <3>2. ASSUME NEW circle \in SUBSET Pollers, circle # {}, \A w \in circle : old'[w] \in circle
          PROVE  \E w \in circle : old'[w] = w
      <4>1. t \notin circle
        BY <3>1, <3>2, PollingAssumption
      <4>2. \A w \in circle : old'[w] = old[w] /\ old[w] \in circle
        BY <3>1, <3>2, <4>1
      <4> QED
        BY <3>2, <4>2 DEF CircleInv, CirclesAreSelfJoins
    <3>3. \A w \in Pollers : old[w] = None => old'[w] = None
      BY <3>1
    <3>4. polling_worker \in Pollers \cup {None}
      BY DEF TypeOK
    <3> QED
      BY <3>1, <3>2, <3>3, <3>4 DEF CircleInv, CirclesAreSelfJoins
  <2>6. ASSUME NEW w \in Pollers, Loop(w) \/ HandlerReturns(w) \/ Timeout(w)
        PROVE  CircleInv'
    BY <2>1, <2>6 DEF Loop, Check, Request, WaitBegin, Wake, HandlerReturns, Timeout, Step, TypeOK
  <2>7. CASE UNCHANGED vars
    BY <2>1, <2>7 DEF vars
  <2> QED
    BY <2>2, <2>3, <2>4, <2>5, <2>6, <2>7 DEF Next, Return, Aborted
<1>3. CircleInv => CirclesAreSelfJoins
  BY DEF CircleInv
<1>4. QED
  BY <1>1, <1>2, <1>3, Typing, Pollership, PTL DEF Spec

================================================================================
