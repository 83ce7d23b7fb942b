-------------------------- MODULE EventHandler_proofs --------------------------
(***************************************************************************)
(* Proofs about EventHandler, for any number of threads and subscriptions  *)
(* and any nesting of events.                                              *)
(***************************************************************************)
EXTENDS EventHandler, TLAPS

(* A subscription whose id was given out since the last dispose.           *)
Current(s) == s \in Subscriptions \ old /\ id[s] # 0

(* Ids given out since the last dispose are distinct and were counted;     *)
(* handlers_ has the standing subscriptions, each under its own id.        *)
Registry ==
    /\ \A s \in Subscriptions : Current(s) => id[s] < next_id
    /\ \A r, s \in Subscriptions : Current(r) /\ Current(s) /\ id[r] = id[s] => r = s
    /\ \A s \in standing : Current(s)
    /\ \A s \in old : id[s] # 0
    /\ ~stale =>
        /\ \A i \in DOMAIN handlers : handlers[i] \in standing /\ id[handlers[i]] = i
        /\ \A s \in standing : id[s] \in DOMAIN handlers /\ handlers[id[s]] = s

--------------------------------------------------------------------------------
(* An empty registry has no ids.                                           *)
LEMMA EmptyRegistry == DOMAIN <<>> = {}
OBVIOUS

(* The last event of a delivery is one, and so is what is left without it. *)
LEMMA TopIsEvent ==
    ASSUME TypeOK, NEW t \in Threads, stack[t] # <<>>
    PROVE  /\ Len(stack[t]) \in 1..Len(stack[t])
           /\ Top(t) \in Events
           /\ SubSeq(stack[t], 1, Len(stack[t]) - 1) \in Seq(Events)
<1>1. stack[t] \in Seq(Events)
  BY DEF TypeOK
<1>2. Len(stack[t]) \in Nat \ {0}
  BY <1>1
<1> QED
  BY <1>1, <1>2 DEF Top

(* A delivery of which the last event is replaced remains one.             *)
LEMMA ReplaceKeeps ==
    ASSUME TypeOK, NEW t \in Threads, stack[t] # <<>>, NEW e \in Events,
           Replace(t, e)
    PROVE  stack' \in [Threads -> Seq(Events)]
<1>1. stack[t] \in Seq(Events) /\ stack \in [Threads -> Seq(Events)]
  BY DEF TypeOK
<1>2. [stack[t] EXCEPT ![Len(stack[t])] = e] \in Seq(Events)
  BY <1>1
<1>3. stack' = [stack EXCEPT ![t] = [stack[t] EXCEPT ![Len(stack[t])] = e]]
  BY DEF Replace
<1> QED
  BY <1>1, <1>2, <1>3

--------------------------------------------------------------------------------
(* The registry and the deliveries keep their types.                       *)
THEOREM Typing == Spec => []TypeOK
<1>1. Init => TypeOK
  <2> SUFFICES ASSUME Init
               PROVE  TypeOK
    OBVIOUS
  <2>1. DOMAIN handlers = {} /\ Registered = {}
    BY EmptyRegistry DEF Init, Registered
  <2>2. stack \in [Threads -> Seq(Events)]
    BY DEF Init
  <2>3. ask \in [Threads -> Requests \cup {None}]
    <3>1. ask = [t \in Threads |-> None]
      BY DEF Init
    <3> QED
      BY ONLY <3>1
  <2>4. next_id \in Nat \ {0} /\ id \in [Subscriptions -> Nat]
    <3>1. next_id = 1 /\ id = [s \in Subscriptions |-> 0]
      BY DEF Init
    <3> QED
      BY ONLY <3>1
  <2>5. standing = {} /\ old = {}
    BY DEF Init
  <2>6. stale \in BOOLEAN
    BY Zenon DEF Init
  <2> QED
    BY <2>1, <2>2, <2>3, <2>4, <2>5, <2>6 DEF TypeOK
<1>2. TypeOK /\ [Next]_vars => TypeOK'
  <2> SUFFICES ASSUME TypeOK, [Next]_vars
               PROVE  TypeOK'
    OBVIOUS
  <2> USE EventAssumption
  <2>1. CASE UNCHANGED vars
    BY <2>1 DEF vars, TypeOK, Registered
  <2> SUFFICES ASSUME NEW t \in Threads,
                      \/ Ask(t) \/ Step(t) \/ HandlerThrows(t)
                      \/ \E depth \in 1..MaxDepth : HandlerReturns(t, depth)
               PROVE  TypeOK'
    BY <2>1 DEF Next
  <2>2. ASSUME NEW what, Call(t, what)
        PROVE  ask' \in [Threads -> Requests \cup {None}]
    BY <2>2 DEF Call, TypeOK
  <2>3. ASSUME UNCHANGED registry,
               stack' \in [Threads -> Seq(Events)],
               ask' \in [Threads -> Requests \cup {None}]
        PROVE  TypeOK'
    BY <2>3 DEF registry, TypeOK, Registered
  <2>4. CASE Ask(t)
    <3>1. ask' \in [Threads -> Requests \cup {None}]
      BY <2>4 DEF Ask, TypeOK
    <3>2. UNCHANGED registry /\ stack' \in [Threads -> Seq(Events)]
      BY <2>4 DEF Ask, TypeOK
    <3> QED
      BY <2>3, <3>1, <3>2
  <2>5. CASE subscribe(t)
    <3>1. ask' \in [Threads -> Requests \cup {None}]
      BY <2>2, <2>5 DEF subscribe
    <3>2. PICK s \in New :
              /\ id' = [id EXCEPT ![s] = next_id]
              /\ handlers' = [i \in DOMAIN handlers \cup {next_id} |->
                                 IF i \in DOMAIN handlers THEN handlers[i] ELSE s]
              /\ standing' = standing \cup {s}
      BY <2>5 DEF subscribe
    <3>3. s \in Subscriptions
      BY DEF New
    <3>4. DOMAIN handlers' \subseteq Nat \ {0} /\ Registered' \subseteq Subscriptions
      BY <3>2, <3>3 DEF TypeOK, Registered
    <3>5. id' \in [Subscriptions -> Nat] /\ standing' \subseteq Subscriptions
      BY <3>2, <3>3 DEF TypeOK
    <3>6. next_id' \in Nat \ {0} /\ UNCHANGED <<stack, old, stale>>
      BY <2>5 DEF subscribe, TypeOK
    <3> QED
      BY <3>1, <3>4, <3>5, <3>6 DEF TypeOK
  <2>6. CASE unsubscribe(t)
    <3>1. ask' \in [Threads -> Requests \cup {None}]
      BY <2>2, <2>6 DEF unsubscribe
    <3>2. DOMAIN handlers' \subseteq Nat \ {0} /\ Registered' \subseteq Subscriptions
      BY <2>6 DEF unsubscribe, TypeOK, Registered
    <3>3. standing' \subseteq Subscriptions /\ UNCHANGED <<next_id, id, stack, old>>
      BY <2>6 DEF unsubscribe, TypeOK
    <3>4. stale' \in BOOLEAN
      BY <2>6 DEF unsubscribe, TypeOK
    <3> QED
      BY <3>1, <3>2, <3>3, <3>4 DEF TypeOK
  <2>7. ASSUME handlers' = <<>>
        PROVE  DOMAIN handlers' \subseteq Nat \ {0} /\ Registered' \subseteq Subscriptions
    BY <2>7, EmptyRegistry DEF Registered
  <2>8. CASE release(t)
    <3>1. ask' \in [Threads -> Requests \cup {None}]
      BY <2>2, <2>8 DEF release
    <3>2. /\ handlers' = <<>> /\ standing' = {}
          /\ UNCHANGED <<next_id, id, stack, old, stale>>
      BY <2>8 DEF release
    <3> QED
      BY <2>7, <3>1, <3>2 DEF TypeOK
  <2>9. CASE dispose(t)
    <3>1. ask' \in [Threads -> Requests \cup {None}]
      BY <2>2, <2>9 DEF dispose
    <3>2. /\ handlers' = <<>> /\ next_id' \in Nat \ {0} /\ standing' = {}
          /\ old' \subseteq Subscriptions
          /\ UNCHANGED <<id, stack, stale>>
      BY <2>9 DEF dispose
    <3> QED
      BY <2>7, <3>1, <3>2 DEF TypeOK
  <2>10. CASE Snapshot(t)
    <3>1. ask' \in [Threads -> Requests \cup {None}]
      BY <2>2, <2>10 DEF Snapshot
    <3>2. [todo |-> Registered, running |-> FALSE] \in Events
      BY DEF TypeOK, Events
    <3>3. stack' \in [Threads -> Seq(Events)]
      BY <2>10, <3>2 DEF Snapshot, TypeOK
    <3> QED
      BY <2>3, <2>10, <3>1, <3>3 DEF Snapshot
  <2>11. CASE CallHandler(t)
    <3>1. PICK s \in Top(t).todo :
              Replace(t, [todo |-> Top(t).todo \ {s}, running |-> TRUE])
      BY <2>11 DEF CallHandler
    <3>2. stack[t] # <<>> /\ UNCHANGED <<registry, ask>>
      BY <2>11 DEF CallHandler
    <3>3. [todo |-> Top(t).todo \ {s}, running |-> TRUE] \in Events
      BY <3>2, TopIsEvent DEF Events
    <3>4. stack' \in [Threads -> Seq(Events)]
      BY <3>1, <3>2, <3>3, ReplaceKeeps
    <3> QED
      BY <2>3, <3>2, <3>4 DEF TypeOK
  <2>12. ASSUME NEW depth \in 1..MaxDepth, HandlerReturns(t, depth)
         PROVE  TypeOK'
    <3>1. /\ stack[t] # <<>> /\ UNCHANGED <<registry, ask>>
          /\ Replace(t, [Top(t) EXCEPT !.running = FALSE])
      BY <2>12 DEF HandlerReturns
    <3>2. [Top(t) EXCEPT !.running = FALSE] \in Events
      BY <3>1, TopIsEvent DEF Events
    <3>3. stack' \in [Threads -> Seq(Events)]
      BY <3>1, <3>2, ReplaceKeeps
    <3> QED
      BY <2>3, <3>1, <3>3 DEF TypeOK
  <2>13. ASSUME stack[t] # <<>>, Pop(t)
         PROVE  stack' \in [Threads -> Seq(Events)]
    BY <2>13, TopIsEvent DEF Pop, TypeOK
  <2>14. CASE HandlerThrows(t)
    BY <2>3, <2>13, <2>14 DEF HandlerThrows, TypeOK
  <2>15. CASE Return(t)
    BY <2>3, <2>13, <2>15 DEF Return, TypeOK
  <2> QED
    BY <2>4, <2>5, <2>6, <2>8, <2>9, <2>10, <2>11, <2>12, <2>14, <2>15 DEF Step
<1>3. QED
  BY <1>1, <1>2, PTL DEF Spec

--------------------------------------------------------------------------------
(* Nobody's id is another's, as long as none from before a dispose is used.*)
THEOREM RegistryHolds == Spec => []Registry
<1>1. Init => Registry
  BY EmptyRegistry DEF Init, Registry, Current
<1>2. TypeOK /\ Registry /\ [Next]_vars => Registry'
  <2> SUFFICES ASSUME TypeOK, Registry, [Next]_vars
               PROVE  Registry'
    OBVIOUS
  <2> USE EventAssumption DEF Current
  <2>1. ASSUME UNCHANGED registry
        PROVE  Registry'
    BY <2>1 DEF registry, Registry
  <2>2. ASSUME NEW t \in Threads, subscribe(t)
        PROVE  Registry'
    <3>1. PICK s \in New :
              /\ id' = [id EXCEPT ![s] = next_id]
              /\ handlers' = [i \in DOMAIN handlers \cup {next_id} |->
                                 IF i \in DOMAIN handlers THEN handlers[i] ELSE s]
              /\ standing' = standing \cup {s}
      BY <2>2 DEF subscribe
    <3>2. /\ next_id' = next_id + 1
          /\ UNCHANGED <<old, stale>>
      BY <2>2 DEF subscribe
    <3>3. s \in Subscriptions /\ id[s] = 0 /\ s \notin old /\ s \notin standing
      BY <3>1 DEF New, Registry
    <3>4. /\ id'[s] = next_id
          /\ \A r \in Subscriptions : r # s => id'[r] = id[r]
          /\ id' \in [Subscriptions -> Nat]
      BY <3>1, <3>3 DEF TypeOK
    <3>5. next_id \in Nat \ {0} /\ \A r \in Subscriptions : id[r] \in Nat
      BY DEF TypeOK
    <3>6. ~stale => next_id \notin DOMAIN handlers
      BY <3>5 DEF Registry, TypeOK
    <3>7. /\ \A r \in Subscriptions : Current(r)' => id'[r] < next_id'
          /\ \A q, r \in Subscriptions :
                 Current(q)' /\ Current(r)' /\ id'[q] = id'[r] => q = r
      BY <3>2, <3>3, <3>4, <3>5 DEF Registry
    <3>8. \A r \in standing' : Current(r)'
      BY <3>1, <3>2, <3>3, <3>4, <3>5 DEF Registry
    <3>9. \A r \in old' : id'[r] # 0
      BY <3>2, <3>3, <3>4 DEF Registry, TypeOK
    <3>10. ASSUME ~stale, NEW i \in DOMAIN handlers'
           PROVE  handlers'[i] \in standing' /\ id'[handlers'[i]] = i
      <4>1. CASE i = next_id
        BY <3>1, <3>4, <3>6, <3>10, <4>1
      <4>2. CASE i # next_id
        <5>1. i \in DOMAIN handlers /\ handlers'[i] = handlers[i]
          BY <3>1, <3>10, <4>2
        <5>2. handlers[i] \in standing /\ id[handlers[i]] = i
          BY <3>10, <5>1 DEF Registry
        <5> QED
          BY <3>1, <3>3, <3>4, <5>1, <5>2 DEF TypeOK
      <4> QED
        BY <4>1, <4>2
    <3>11. ASSUME ~stale, NEW r \in standing'
           PROVE  id'[r] \in DOMAIN handlers' /\ handlers'[id'[r]] = r
      <4>1. CASE r = s
        BY <3>1, <3>4, <3>6, <3>11, <4>1
      <4>2. CASE r # s
        <5>1. id[r] \in DOMAIN handlers /\ handlers[id[r]] = r /\ id'[r] = id[r]
          BY <3>1, <3>4, <3>11, <4>2 DEF Registry, TypeOK
        <5> QED
          BY <3>1, <5>1
      <4> QED
        BY <4>1, <4>2
    <3> QED
      BY <3>2, <3>7, <3>8, <3>9, <3>10, <3>11 DEF Registry
  <2>3. ASSUME NEW t \in Threads, unsubscribe(t)
        PROVE  Registry'
    <3> DEFINE s == ask[t].of
    <3>1. s \in Subscriptions
      BY <2>3 DEF unsubscribe, Call, TypeOK, Requests
    <3>2. /\ handlers' = [i \in DOMAIN handlers \ {id[s]} |-> handlers[i]]
          /\ standing' = standing \ {s}
          /\ stale' = (stale \/ s \in old)
          /\ UNCHANGED <<next_id, id, old>>
      BY <2>3 DEF unsubscribe
    <3> HIDE DEF s
    <3>3. /\ \A r \in Subscriptions : Current(r)' => id'[r] < next_id'
          /\ \A q, r \in Subscriptions :
                 Current(q)' /\ Current(r)' /\ id'[q] = id'[r] => q = r
          /\ \A r \in standing' : Current(r)'
          /\ \A r \in old' : id'[r] # 0
      BY <3>2 DEF Registry
    <3>4. ASSUME ~stale', NEW i \in DOMAIN handlers'
          PROVE  handlers'[i] \in standing' /\ id'[handlers'[i]] = i
      <4>1. i \in DOMAIN handlers /\ i # id[s] /\ handlers'[i] = handlers[i]
        BY <3>2, <3>4
      <4>2. handlers[i] \in standing /\ id[handlers[i]] = i
        BY <3>2, <3>4, <4>1 DEF Registry
      <4> QED
        BY <3>2, <4>1, <4>2
    <3>5. ASSUME ~stale', NEW r \in standing'
          PROVE  id'[r] \in DOMAIN handlers' /\ handlers'[id'[r]] = r
      <4>1. r \in standing /\ r # s /\ ~stale /\ s \notin old
        BY <3>2, <3>5
      <4>2. id[r] \in DOMAIN handlers /\ handlers[id[r]] = r /\ Current(r)
        BY <4>1 DEF Registry
      <4>3. id[r] # id[s]
        BY <3>1, <4>1, <4>2 DEF Registry
      <4> QED
        BY <3>2, <4>2, <4>3
    <3> QED
      BY <3>3, <3>4, <3>5 DEF Registry
  <2>4. ASSUME handlers' = <<>>, standing' = {}
        PROVE  /\ DOMAIN handlers' = {}
               /\ \A r \in standing' : FALSE
    BY <2>4, EmptyRegistry
  <2>5. ASSUME NEW t \in Threads, release(t)
        PROVE  Registry'
    <3>1. UNCHANGED <<next_id, id, old, stale>>
      BY <2>5 DEF release
    <3> QED
      BY <2>4, <2>5, <3>1 DEF release, Registry
  <2>6. ASSUME NEW t \in Threads, dispose(t)
        PROVE  Registry'
    <3>1. /\ id' = id
          /\ old' = {r \in Subscriptions : id[r] # 0}
          /\ \A r \in Subscriptions : ~Current(r)'
      BY <2>6 DEF dispose
    <3> QED
      BY <2>4, <2>6, <3>1 DEF dispose, Registry
  <2>7. CASE UNCHANGED vars
    BY <2>1, <2>7 DEF vars, registry
  <2> QED
    BY <2>1, <2>2, <2>3, <2>5, <2>6, <2>7
    DEF Next, Ask, Step, Snapshot, CallHandler, HandlerReturns, HandlerThrows, Return
<1>3. QED
  BY <1>1, <1>2, Typing, PTL DEF Spec

(* No call of the registry removes or displaces somebody else's handler or *)
(* leaves one behind (event_handler.hpp:18-42).                            *)
THEOREM RegistryExactHolds == Spec => []RegistryExact
<1>1. Registry => RegistryExact
  <2> SUFFICES ASSUME Registry, ~stale
               PROVE  Registered = standing
    BY DEF RegistryExact
  <2>1. Registered \subseteq standing
    BY DEF Registry, Registered
  <2>2. ASSUME NEW s \in standing
        PROVE  s \in Registered
    BY <2>2 DEF Registry, Registered
  <2> QED
    BY <2>1, <2>2
<1> QED
  BY <1>1, RegistryHolds, PTL
================================================================================
