---------------------------- MODULE Teardown_proofs ----------------------------
(***************************************************************************)
(* Proofs about Teardown: that ~TPC destroys nothing that is still in use, *)
(* whatever the workers and their handlers are doing.                      *)
(***************************************************************************)
EXTENDS Teardown, TLAPS

Places == {"none", "frame", "handler", "sleep", "wait", "compute", "iterate",
           "close", "finish"}

Jobs == {"nothing", "event", "publish", "announce", "subscribe", "item", "data"}

Named == {"none", "start", "stop", "start_polling", "submit", "read"}

(* Each worker stands in its own loop.                                     *)
Standing ==
    /\ at[Poller] \in {"none", "frame", "handler", "sleep"}
    /\ at[Field] \in {"none", "wait", "compute", "handler"}
    /\ at[Loop] \in {"none", "iterate", "close", "finish"}

(* A worker is gone once its jthread is destroyed.                         *)
Joined ==
    /\ next > 1 => at[Poller] = "none"
    /\ next > 3 => at[Field] = "none"
    /\ next > 6 => at[Loop] = "none"

(* Calls are made from handlers, and none that ~TPC does not wait for.     *)
Calling ==
    /\ stray => Begun
    /\ ~stray =>
        /\ call[App] = "none"
        /\ call[Poller] # "none" => at[Poller] = "handler"
        /\ call[Field] # "none" => at[Field] = "handler"
        /\ call[Loop] # "none" => doing[Loop] \in {"event", "announce"}
        /\ Begun => \A t \in Threads : ~Strays(t, call[t])

(* Who runs the callbacks of the client, and which: one that was at rest   *)
(* when ~TPC began has nothing left to answer but the end of its session.  *)
Serving ==
    /\ doing[Loop] # "nothing" => at[Loop] \in {"iterate", "close", "finish"}
    /\ doing[App] # "nothing" => next = 8
    /\ doing[App] # "data"
    /\ Begun /\ ~client_up =>
           /\ at[Loop] = "none"
           /\ "discovery" \notin requests /\ "item" \notin requests
           /\ doing[App] \in {"nothing", "event"}

--------------------------------------------------------------------------------
(* The members one by one, in the order of their destruction.              *)
LEMMA Order ==
    /\ Len(DestructionOrder) = 12 /\ DOMAIN DestructionOrder = 1..12
    /\ DestructionOrder[1] = "polling_worker_"
    /\ DestructionOrder[2] = "polling_worker_mutex_"
    /\ DestructionOrder[3] = "field_worker_"
    /\ DestructionOrder[4] = "field_worker_mutex_"
    /\ DestructionOrder[5] = "channels_info_"
    /\ DestructionOrder[6] = "opcua_thread_"
    /\ DestructionOrder[7] = "frame_receiver_"
    /\ DestructionOrder[8] = "opcua_client"
    /\ DestructionOrder[9] = "subscription_"
    /\ DestructionOrder[10] = "client_events"
    /\ DestructionOrder[11] = "impl_"
    /\ DestructionOrder[12] = "events"
BY DEF DestructionOrder

(* Every place, job and call has the members it touches.                   *)
LEMMA Domains ==
    /\ DOMAIN TouchedAt = Places
    /\ DOMAIN TouchedDoing = Jobs
    /\ DOMAIN TouchedCalling = Named
    /\ DOMAIN Thread = {"polling_worker_", "field_worker_", "opcua_thread_"}
BY DEF TouchedAt, TouchedDoing, TouchedCalling, Thread, Places, Jobs, Named

(* TypeOK with its domains spelled out.                                    *)
Types ==
    /\ at \in [Workers -> Places]
    /\ doing \in [{Loop, App} -> Jobs]
    /\ call \in [Threads -> Named]
    /\ stopped \subseteq Workers
    /\ pending \in BOOLEAN
    /\ requests \subseteq {"discovery", "item", "session"}
    /\ next \in 0..13
    /\ client_up \in BOOLEAN
    /\ stray \in BOOLEAN

(* The two are the same.                                                   *)
LEMMA TypesIsTypeOK == Types <=> TypeOK
BY Order, Domains DEF Types, TypeOK

--------------------------------------------------------------------------------
(* Every step keeps the types.                                             *)
LEMMA TypesHolds == Spec => []Types
<1>1. Init => Types
  <2> SUFFICES ASSUME Init
               PROVE  Types
    OBVIOUS
  <2>1. /\ at \in [Workers -> Places]
        /\ doing \in [{Loop, App} -> Jobs]
        /\ call \in [Threads -> Named]
    BY DEF Init, Places, Jobs, Named
  <2>2. stopped \subseteq Workers /\ requests \subseteq {"discovery", "item", "session"}
    BY DEF Init
  <2>3. next \in 0..13
    BY DEF Init
  <2>4. pending \in BOOLEAN /\ client_up \in BOOLEAN /\ stray \in BOOLEAN
    BY Zenon DEF Init
  <2> QED
    BY <2>1, <2>2, <2>3, <2>4 DEF Types
<1>2. Types /\ [Next]_vars => Types'
  <2> SUFFICES ASSUME Types, [Next]_vars
               PROVE  Types'
    OBVIOUS
  <2> USE DEF Types, Workers, Threads, history
  <2>1. CASE UNCHANGED vars
    BY <2>1 DEF vars
  <2>2. ASSUME NEW t \in Threads, NEW what \in Named, Call(t, what)
        PROVE  /\ call' \in [Threads -> Named]
               /\ stray' \in BOOLEAN
               /\ UNCHANGED <<doing, requests, next>>
    BY <2>2 DEF Call
  <2>3. ASSUME NEW t \in Threads, Calls(t)
        PROVE  Types'
    <3>1. CASE start_async(t)
      BY <2>2, <3>1 DEF start_async, Named, Places
    <3>2. CASE stop_async(t)
      BY <2>2, <3>2 DEF stop_async, Named
    <3>3. CASE start_polling_async(t)
      BY <2>2, <3>3 DEF start_polling_async, Named, Places
    <3>4. CASE calculate_field_async(t)
      BY <2>2, <3>4 DEF calculate_field_async, Named, Places
    <3>5. CASE Read(t)
      BY <2>2, <3>5 DEF Read, Named
    <3> QED
      BY <2>3, <3>1, <3>2, <3>3, <3>4, <3>5 DEF Calls
  <2>4. ASSUME NEW t \in Threads, Return(t)
        PROVE  Types'
    BY <2>4 DEF Return, Named
  <2>5. ASSUME NEW w \in Workers, NEW from, NEW to \in Places, Moves(w, from, to),
               stopped' \subseteq stopped, pending' \in BOOLEAN
        PROVE  Types'
    BY <2>5 DEF Moves
  <2>6. CASE Loops \/ Timeout
    <3>1. CASE Frame
      BY <2>5, <3>1 DEF Frame, Go, Places
    <3>2. CASE PollerStops
      BY <2>5, <3>2 DEF PollerStops, Stops, Places
    <3>3. CASE Take
      BY <2>5, <3>3 DEF Take, Go, Places
    <3>4. CASE Compute
      BY <2>5, <3>4 DEF Compute, Go, Places
    <3>5. CASE FieldStops
      BY <2>5, <3>5 DEF FieldStops, Stops, Places
    <3>6. CASE Close
      BY <3>6 DEF Close, LoopGoes, Do, Places, Jobs
    <3>7. CASE Finish
      BY <3>7 DEF Finish, Places
    <3>8. CASE Timeout
      BY <2>5, <3>8 DEF Timeout, Go, Places
    <3> QED
      BY <2>6, <3>1, <3>2, <3>3, <3>4, <3>5, <3>6, <3>7, <3>8 DEF Loops
  <2>7. ASSUME NEW w \in {Poller, Field}, HandlerReturns(w)
        PROVE  Types'
    BY <2>5, <2>7 DEF HandlerReturns, Go, Stops, Places
  <2>8. ASSUME NEW t \in {Loop, App}, NEW from, NEW to \in Jobs, Do(t, from, to),
               at' \in [Workers -> Places],
               requests' \subseteq {"discovery", "item", "session"}
        PROVE  Types'
    BY <2>8 DEF Do
  <2>9. ASSUME NEW t \in {Loop, App}, Answer(t) \/ Continue(t) \/ EventEnds(t)
        PROVE  Types'
    <3>1. PICK from, to \in Jobs : Do(t, from, to)
      BY <2>9 DEF Answer, Continue, EventEnds, Jobs
    <3>2. at' = at /\ requests' \subseteq {"discovery", "item", "session"}
      BY <2>9 DEF Answer, Continue, EventEnds
    <3> QED
      BY <2>8, <3>1, <3>2
  <2>10. CASE Activate
    BY <2>8, <2>10 DEF Activate, Jobs
  <2>11. CASE Data
    BY <2>8, <2>11 DEF Data, Jobs
  <2>12. CASE CheckStop
    BY <2>8, <2>12 DEF CheckStop, LoopGoes, Jobs, Places
  <2>13. CASE Dies
    <3>1. at' \in [Workers -> Places] /\ UNCHANGED requests
      BY <2>13 DEF Dies, LoopGoes, Places
    <3>2. Do(Loop, "nothing", "event")
      BY <2>13 DEF Dies
    <3> QED
      BY <2>8, <3>1, <3>2 DEF Jobs
  <2>14. CASE Destroy
    BY <2>14 DEF Destroy
  <2>15. CASE RequestStop
    BY <2>15, Order, Domains DEF RequestStop, Thread
  <2>16. CASE DestroyMember
    BY <2>16, Order DEF DestroyMember
  <2>17. CASE AllGone
    BY <2>17 DEF AllGone, vars
  <2> QED
    BY <2>1, <2>3, <2>4, <2>6, <2>7, <2>9, <2>10, <2>11, <2>12, <2>13, <2>14,
       <2>15, <2>16, <2>17 DEF Next, Destruction
<1>3. QED
  BY <1>1, <1>2, PTL DEF Spec

(* Every variable of the destruction keeps its type.                       *)
THEOREM Typing == Spec => []TypeOK
BY TypesHolds, TypesIsTypeOK, PTL

(* Every step keeps what Standing says of threads and their places.        *)
LEMMA StandingHolds == Spec => []Standing
<1>1. Init => Standing
  <2> SUFFICES ASSUME Init
               PROVE  Standing
    OBVIOUS
  <2>1. \A w \in Workers : at[w] = "none"
    BY DEF Init
  <2> QED
    BY ONLY <2>1 DEF Standing, Workers
<1>2. Types /\ Standing /\ [Next]_vars => Standing'
  <2> SUFFICES ASSUME Types, Standing, [Next]_vars
               PROVE  Standing'
    OBVIOUS
  <2> USE TeardownAssumption DEF Workers
  <2>1. ASSUME UNCHANGED at
        PROVE  Standing'
    BY <2>1 DEF Standing
  <2>2. ASSUME NEW t \in Threads, Calls(t)
        PROVE  Standing'
    <3>1. CASE start_async(t)
      BY <2>1, <3>1 DEF start_async, Types, Standing
    <3>2. CASE start_polling_async(t)
      BY <2>1, <3>2 DEF start_polling_async, Types, Standing
    <3>3. CASE calculate_field_async(t)
      BY <2>1, <3>3 DEF calculate_field_async, Types, Standing
    <3>4. CASE stop_async(t) \/ Read(t)
      BY <2>1, <3>4 DEF stop_async, Read
    <3> QED
      BY <2>2, <3>1, <3>2, <3>3, <3>4 DEF Calls
  <2>3. CASE Frame \/ PollerStops \/ Timeout
    BY <2>3 DEF Frame, PollerStops, Timeout, Go, Stops, Moves, Types, Standing
  <2>4. CASE Take \/ Compute \/ FieldStops
    BY <2>4 DEF Take, Compute, FieldStops, Go, Stops, Moves, Types, Standing
  <2>5. ASSUME NEW w \in {Poller, Field}, HandlerReturns(w)
        PROVE  Standing'
    BY <2>5 DEF HandlerReturns, Go, Stops, Moves, Types, Standing
  <2>6. CASE CheckStop \/ Close \/ Dies
    <3>1. \E place \in {"close", "finish"} : at' = [at EXCEPT ![Loop] = place]
      BY <2>6 DEF CheckStop, Close, Dies, LoopGoes
    <3> QED
      BY <3>1 DEF Types, Standing
  <2>7. CASE Finish
    BY <2>7 DEF Finish, Types, Standing
  <2>8. CASE UNCHANGED vars
    BY <2>1, <2>8 DEF vars
  <2>9. ASSUME NEW t \in Threads, Return(t)
        PROVE  Standing'
    BY <2>1, <2>9 DEF Return
  <2>10. ASSUME NEW t \in {Loop, App}, Answer(t) \/ Continue(t) \/ EventEnds(t)
         PROVE  Standing'
    BY <2>1, <2>10 DEF Answer, Continue, EventEnds
  <2>11. CASE Activate \/ Data \/ Destroy \/ Destruction \/ AllGone
    BY <2>1, <2>11 DEF Activate, Data, Destroy, Destruction, RequestStop,
                       DestroyMember, AllGone, vars
  <2> QED
    BY <2>2, <2>3, <2>4, <2>5, <2>6, <2>7, <2>8, <2>9, <2>10, <2>11 DEF Next, Loops
<1>3. QED
  BY <1>1, <1>2, TypesHolds, PTL DEF Spec

--------------------------------------------------------------------------------
(* While a call is made that is not stray.                                 *)
LEMMA CallKeeps ==
    ASSUME Types, Joined, Calling, Serving, NEW t \in Threads, Calls(t)
    PROVE  Joined' /\ Calling' /\ Serving'
<1> USE TeardownAssumption DEF Types, Workers, Threads
<1>1. PICK what \in Named \ {"none"} :
          /\ Call(t, what)
          /\ \/ what = "start" /\ start_async(t)
             \/ what = "stop" /\ stop_async(t)
             \/ what = "start_polling" /\ start_polling_async(t)
             \/ what = "submit" /\ calculate_field_async(t)
             \/ what = "read" /\ Read(t)
  BY DEF Calls, start_async, stop_async, start_polling_async,
         calculate_field_async, Read, Named
<1>2. /\ InHandler(t) /\ ~stray
      /\ call' = [call EXCEPT ![t] = IF t = App /\ ~Begun THEN @ ELSE what]
      /\ stray' = (Begun /\ Strays(t, what))
      /\ UNCHANGED <<doing, requests, next>>
  BY <1>1 DEF Call, InHandler
<1>3. /\ t = App => ~Begun \/ stray'
      /\ t = Poller => at[Poller] = "handler"
      /\ t = Field => at[Field] = "handler"
      /\ t = Loop => doing[Loop] \in {"event", "announce"} /\ at[Loop] # "none"
  BY <1>2 DEF InHandler, Strays, Named, Serving
<1>4. \/ UNCHANGED <<at, client_up>>
      \/ /\ client_up' = (client_up \/ Begun)
         /\ \/ UNCHANGED at
            \/ /\ at[Loop] = "none" /\ ~(Begun /\ t = App)
               /\ at' = [at EXCEPT ![Loop] = "iterate"]
      \/ /\ UNCHANGED client_up
         /\ at[Poller] = "none" /\ ~Begun
         /\ at' = [at EXCEPT ![Poller] = "frame"]
      \/ /\ UNCHANGED client_up
         /\ ~stray' /\ what = "submit"
         /\ at' = [at EXCEPT ![Field] = IF @ = "none" THEN "wait" ELSE @]
  <2>1. CASE start_async(t)
    BY <2>1 DEF start_async, Alive
  <2>2. CASE stop_async(t)
    BY <2>2 DEF stop_async
  <2>3. CASE start_polling_async(t)
    BY <2>3 DEF start_polling_async, Alive
  <2>4. CASE what = "submit" /\ calculate_field_async(t)
    BY <2>4 DEF calculate_field_async
  <2>5. CASE Read(t)
    BY <2>5 DEF Read
  <2> QED
    BY <1>1, <2>1, <2>2, <2>3, <2>4, <2>5
<1>5. Joined'
  <2>1. next \in Nat /\ next' = next
    BY <1>2
  <2>2. CASE UNCHANGED at
    BY <2>1, <2>2 DEF Joined
  <2>3. CASE at[Loop] = "none" /\ ~(Begun /\ t = App) /\ at' = [at EXCEPT ![Loop] = "iterate"]
    <3>1. next \leq 3
      BY <1>3, <2>1, <2>3 DEF Joined, Begun
    <3> QED
      BY <2>1, <2>3, <3>1 DEF Joined
  <2>4. CASE ~Begun
    BY <2>1, <2>4 DEF Joined, Begun
  <2>5. CASE ~stray' /\ what = "submit"
             /\ at' = [at EXCEPT ![Field] = IF @ = "none" THEN "wait" ELSE @]
    <3>1. Begun => t \in {Poller, Field}
      BY <1>2, <2>5 DEF Strays
    <3>2. next \leq 3
      BY <1>3, <2>1, <3>1 DEF Joined, Begun
    <3> QED
      BY <2>1, <2>5, <3>2 DEF Joined
  <2> QED
    BY <1>4, <2>2, <2>3, <2>4, <2>5
<1>6. Calling'
  BY <1>2, <1>3, <1>4 DEF Calling, Begun, Strays
<1>7. Serving'
  BY <1>2, <1>3, <1>4 DEF Serving, Begun, Strays
<1> QED
  BY <1>5, <1>6, <1>7

(* While a worker moves on in its loop.                                    *)
LEMMA MoveKeeps ==
    ASSUME Types, Joined, Calling, Serving, NEW w \in {Poller, Field},
           NEW from \in Places \ {"none"}, NEW to \in Places, Moves(w, from, to)
    PROVE  Joined' /\ Calling' /\ Serving'
<1> USE TeardownAssumption DEF Types, Workers, Threads, Moves, history
<1>1. Joined'
  BY DEF Joined
<1>2. Calling'
  BY DEF Calling, Begun, Strays
<1>3. Serving'
  BY DEF Serving, Begun
<1> QED
  BY <1>1, <1>2, <1>3

(* While the client runs a callback or its loop.                           *)
LEMMA DoKeeps ==
    ASSUME Types, Joined, Calling, Serving, NEW t \in {Loop, App},
           NEW from, NEW to \in Jobs, Do(t, from, to),
           at' = at \/ (t = Loop /\ to \in {"nothing", "event"} /\ Alive(Loop)
                       /\ \E place \in {"close", "finish"} :
                              at' = [at EXCEPT ![Loop] = place]),
           t = Loop => at[Loop] \in {"iterate", "close", "finish"},
           t = App => next = 8 /\ to # "data",
           requests' # requests => t = Loop \/ client_up \/ requests' \subseteq requests,
           t = App /\ ~client_up => to \in {"nothing", "event"}
    PROVE  Joined' /\ Calling' /\ Serving'
<1> USE TeardownAssumption DEF Types, Workers, Threads, Do, history
<1>1. Joined'
  BY DEF Joined, Alive
<1>2. Calling'
  BY DEF Calling, Begun, Strays
<1>3. Serving'
  BY DEF Serving, Begun, Alive
<1> QED
  BY <1>1, <1>2, <1>3

--------------------------------------------------------------------------------
(* ~TPC waits for each worker before it goes on to what that worker uses.  *)
THEOREM Waiting == Spec => [](Joined /\ Calling /\ Serving)
<1>1. Init => Joined /\ Calling /\ Serving
  <2> SUFFICES ASSUME Init
               PROVE  Joined /\ Calling /\ Serving
    OBVIOUS
  <2>1. next = 0 /\ \A w \in Workers : at[w] = "none"
    BY DEF Init
  <2>2. /\ doing[Loop] = "nothing" /\ doing[App] = "nothing"
        /\ \A t \in Threads : call[t] = "none"
    BY DEF Init
  <2>3. ~stray
    BY DEF Init
  <2>4. Calling
    BY ONLY <2>1, <2>2, <2>3 DEF Calling, Begun, Workers, Threads
  <2> QED
    BY ONLY <2>1, <2>2, <2>4 DEF Joined, Serving, Begun, Workers
<1>2. Types /\ Joined /\ Calling /\ Serving /\ [Next]_vars
          => Joined' /\ Calling' /\ Serving'
  <2> SUFFICES ASSUME Types, Joined, Calling, Serving, [Next]_vars
               PROVE  Joined' /\ Calling' /\ Serving'
    OBVIOUS
  <2> USE TeardownAssumption
  <2>1. CASE UNCHANGED vars
    BY <2>1 DEF vars, Joined, Calling, Serving, Begun, Strays
  <2>2. ASSUME NEW t \in Threads, Calls(t)
        PROVE  Joined' /\ Calling' /\ Serving'
    BY <2>2, CallKeeps
  <2>3. ASSUME NEW t \in Threads, Return(t)
        PROVE  Joined' /\ Calling' /\ Serving'
    BY <2>3 DEF Return, history, Types, Threads, Workers, Joined, Calling,
                Serving, Begun, Strays
  <2>4. CASE Frame \/ PollerStops \/ Timeout
    BY <2>4, MoveKeeps DEF Frame, PollerStops, Timeout, Go, Stops, Places
  <2>5. CASE Take \/ Compute \/ FieldStops
    BY <2>5, MoveKeeps DEF Take, Compute, FieldStops, Go, Stops, Places
  <2>6. ASSUME NEW w \in {Poller, Field}, HandlerReturns(w)
        PROVE  Joined' /\ Calling' /\ Serving'
    BY <2>6, MoveKeeps DEF HandlerReturns, Go, Stops, Places
  <2>7. ASSUME NEW t \in {Loop, App}, Answer(t)
        PROVE  Joined' /\ Calling' /\ Serving'
    <3>1. /\ t = Loop => at[Loop] \in {"iterate", "close", "finish"}
          /\ t = App => next = 8
      BY <2>7, Order DEF Answer, Serves, Destroying, Types
    <3>2. /\ UNCHANGED at /\ requests' \subseteq requests
          /\ \E to \in {"publish", "event", "item"} :
                 /\ Do(t, "nothing", to)
                 /\ to # "event" => "discovery" \in requests \/ "item" \in requests
      BY <2>7 DEF Answer
    <3>3. t = App => Begun
      BY <3>1 DEF Begun
    <3>4. PICK to \in {"publish", "event", "item"} :
              /\ Do(t, "nothing", to)
              /\ t = App /\ ~client_up => to = "event"
      BY <3>2, <3>3 DEF Serving
    <3>5. to \in Jobs /\ to # "data"
      BY DEF Jobs
    <3> QED
      BY <3>1, <3>2, <3>4, <3>5, DoKeeps
  <2>8. ASSUME NEW t \in {Loop, App}, Continue(t)
        PROVE  Joined' /\ Calling' /\ Serving'
    <3>1. /\ doing[t] \in {"publish", "subscribe", "item", "data"}
          /\ UNCHANGED at
          /\ \E to \in {"announce", "nothing"} : Do(t, doing[t], to)
      BY <2>8 DEF Continue, Do
    <3>2. /\ t = Loop => at[Loop] \in {"iterate", "close", "finish"}
          /\ t = App => next = 8 /\ client_up
      BY <3>1 DEF Serving, Begun
    <3>3. PICK to \in {"announce", "nothing"} : Do(t, doing[t], to)
      BY <3>1
    <3>4. to \in Jobs /\ to # "data"
      BY DEF Jobs
    <3> QED
      BY <3>1, <3>2, <3>3, <3>4, DoKeeps
  <2>9. ASSUME NEW t \in {Loop, App}, EventEnds(t)
        PROVE  Joined' /\ Calling' /\ Serving'
    <3>1. PICK to \in {"nothing", "subscribe"} :
              /\ Do(t, doing[t], to)
              /\ doing[t] \in {"event", "announce"}
              /\ to = "subscribe" => doing[t] = "announce"
      BY <2>9 DEF EventEnds, Do
    <3>2. UNCHANGED <<at, requests>>
      BY <2>9 DEF EventEnds
    <3>3. /\ t = Loop => at[Loop] \in {"iterate", "close", "finish"}
          /\ t = App => next = 8
          /\ t = App /\ ~client_up => to = "nothing"
      BY <3>1 DEF Serving, Begun
    <3>4. to \in Jobs /\ to # "data"
      BY DEF Jobs
    <3> QED
      BY <3>1, <3>2, <3>3, <3>4, DoKeeps
  <2>10. CASE Activate \/ Data
    <3>1. /\ at[Loop] = "iterate" /\ UNCHANGED at
          /\ Do(Loop, "nothing", "event") \/ Do(Loop, "nothing", "data")
      BY <2>10 DEF Activate, Data
    <3> QED
      BY <3>1, DoKeeps DEF Jobs
  <2>11. CASE CheckStop \/ Close \/ Dies
    <3>1. /\ at[Loop] \in {"iterate", "close"} /\ UNCHANGED requests
          /\ \E place \in {"close", "finish"} : at' = [at EXCEPT ![Loop] = place]
      BY <2>11 DEF CheckStop, Close, Dies, LoopGoes
    <3>2. Do(Loop, "nothing", "nothing") \/ Do(Loop, "nothing", "event")
      BY <2>11 DEF CheckStop, Close, Dies
    <3> QED
      BY <3>1, <3>2, DoKeeps DEF Jobs, Alive
  <2>12. CASE Finish
    BY <2>12 DEF Finish, history, Types, Workers, Threads, Joined, Calling,
                 Serving, Begun, Strays
  <2>13. CASE Destroy
    <3>1. next = 0 /\ next' = 1 /\ UNCHANGED <<at, doing, call, requests>>
      BY <2>13 DEF Destroy, Begun
    <3>2. /\ client_up' = (at[Loop] # "none" \/ requests \cap {"discovery", "item"} # {})
          /\ stray' = \E t \in Workers : Strays(t, call[t])
      BY <2>13 DEF Destroy, Alive
    <3>3. doing[App] = "nothing"
      BY <3>1 DEF Serving
    <3>4. Joined' /\ Serving'
      <4>1. ~client_up' => /\ at[Loop] = "none"
                           /\ "discovery" \notin requests /\ "item" \notin requests
        BY <3>2
      <4>2. Joined'
        BY <3>1 DEF Joined
      <4> QED
        BY <3>1, <3>3, <4>1, <4>2 DEF Serving
    <3>5. CASE stray'
      BY <3>1, <3>4, <3>5 DEF Calling, Begun
    <3>6. CASE ~stray'
      <4>1. ~stray /\ call[App] = "none"
        BY <2>13 DEF Calling, Destroy
      <4>2. \A t \in Workers : ~Strays(t, call[t])
        BY <3>2, <3>6
      <4>3. \A t \in Threads : ~Strays(t, call'[t])
        BY <3>1, <4>1, <4>2 DEF Threads, Strays
      <4> QED
        BY <3>1, <3>4, <3>6, <4>1, <4>3 DEF Calling, Strays
    <3> QED
      BY <3>5, <3>6
  <2>14. CASE RequestStop
    BY <2>14 DEF RequestStop, history, Joined, Calling, Serving, Begun, Strays
  <2>15. CASE DestroyMember
    <3>1. /\ next \in 1..12 /\ next' = next + 1 /\ doing[App] = "nothing"
          /\ UNCHANGED <<at, doing, call, requests, client_up, stray>>
      BY <2>15, Order DEF DestroyMember, history
    <3>2. /\ next = 1 => at[Poller] = "none"
          /\ next = 3 => at[Field] = "none"
          /\ next = 6 => at[Loop] = "none"
      BY <2>15, <3>1, Order, Domains DEF DestroyMember, Current, Alive, Thread
    <3>3. Joined'
      BY <3>1, <3>2 DEF Joined
    <3>4. Calling'
      BY <3>1 DEF Calling, Begun, Strays
    <3>5. Serving'
      BY <3>1 DEF Serving, Begun
    <3> QED
      BY <3>3, <3>4, <3>5
  <2>16. CASE AllGone
    BY <2>1, <2>16 DEF AllGone
  <2> QED
    BY <2>1, <2>2, <2>3, <2>4, <2>5, <2>6, <2>7, <2>8, <2>9, <2>10, <2>11,
       <2>12, <2>13, <2>14, <2>15, <2>16 DEF Next, Loops, Destruction
<1>3. QED
  BY <1>1, <1>2, TypesHolds, PTL DEF Spec

(* Nobody touches a destroyed member, but for channels_info_ under a       *)
(* client that was not at rest when ~TPC began (client.hpp:111-114).       *)
THEOREM SafeTeardownHolds == Spec => []SafeTeardown
<1>1. Types /\ Standing /\ Joined /\ Calling /\ Serving => SafeTeardown
  <2> SUFFICES ASSUME Types, Standing, Joined, Calling, Serving, ~stray,
                      NEW t \in Threads, NEW member \in Touched(t) \cap Destroyed
               PROVE  /\ member = "channels_info_"
                      /\ client_up /\ t \in {Loop, App}
    BY DEF SafeTeardown
  <2> USE TeardownAssumption
  <2>1. PICK i \in 1..12 : i < next /\ member = DestructionOrder[i]
    BY Order DEF Destroyed, Types
  <2>2. Begun /\ next \in 0..13
    BY <2>1 DEF Begun, Types
  <2>3. ~Strays(t, call[t]) /\ call[App] = "none"
    BY <2>2 DEF Calling
  <2>4. CASE t = Poller
    <3>1. next \leq 1 \/ at[Poller] = "none"
      BY <2>2 DEF Joined
    <3>2. at[Poller] # "none"
      <4>1. SUFFICES ASSUME at[Poller] = "none"
                     PROVE  FALSE
        OBVIOUS
      <4>2. call[Poller] = "none"
        BY <4>1 DEF Calling
      <4>3. Touched(t) = {}
        BY <2>4, <4>1, <4>2 DEF Touched, TouchedAt, TouchedCalling, Workers
      <4> QED
        BY <4>3
    <3> QED
      BY <2>1, <2>2, <3>1, <3>2
  <2>5. CASE t = Field
    <3>1. at[Field] # "none"
      <4>1. SUFFICES ASSUME at[Field] = "none"
                     PROVE  FALSE
        OBVIOUS
      <4>2. call[Field] = "none"
        BY <4>1 DEF Calling
      <4>3. Touched(t) = {}
        BY <2>5, <4>1, <4>2 DEF Touched, TouchedAt, TouchedCalling, Workers
      <4> QED
        BY <4>3
    <3>2. member \in {"polling_worker_", "polling_worker_mutex_"}
      BY <2>1, <2>2, <3>1, Order DEF Joined
    <3>3. call[Field] \in {"none", "start", "submit", "read"}
      BY <2>3, <2>5 DEF Types, Threads, Workers, Named, Strays
    <3>4. TouchedCalling[call[Field]] \cap {"polling_worker_", "polling_worker_mutex_"} = {}
      BY <3>3 DEF TouchedCalling
    <3>5. TouchedAt[at[Field]] \cap {"polling_worker_", "polling_worker_mutex_"} = {}
      BY DEF Standing, TouchedAt
    <3>6. Touched(t) = TouchedCalling[call[Field]] \cup TouchedAt[at[Field]]
      BY <2>5 DEF Touched, Workers
    <3> QED
      BY <3>2, <3>4, <3>5, <3>6
  <2>6. CASE t = Loop
    <3>1. at[Loop] # "none"
      <4>1. SUFFICES ASSUME at[Loop] = "none"
                     PROVE  FALSE
        OBVIOUS
      <4>2. doing[Loop] = "nothing" /\ call[Loop] = "none"
        BY <4>1 DEF Serving, Calling
      <4>3. Touched(t) = {}
        BY <2>6, <4>1, <4>2
        DEF Touched, TouchedAt, TouchedDoing, TouchedCalling, Workers
      <4> QED
        BY <4>3
    <3>2. client_up
      BY <2>2, <3>1 DEF Serving
    <3> DEFINE Gone == {"polling_worker_", "polling_worker_mutex_",
                        "field_worker_", "field_worker_mutex_"}
    <3>3. member \in Gone \cup {"channels_info_"}
      BY <2>1, <2>2, <3>1, Order DEF Joined
    <3>4. call[Loop] \in {"none", "start", "read"}
      BY <2>3, <2>6 DEF Types, Threads, Workers, Named, Strays
    <3>5. TouchedCalling[call[Loop]] \cap Gone = {}
      BY <3>4 DEF TouchedCalling
    <3>6. TouchedAt[at[Loop]] \cap Gone = {}
      BY DEF Standing, TouchedAt
    <3>7. TouchedDoing[doing[Loop]] \cap Gone = {}
      <4>1. doing[Loop] \in Jobs
        BY DEF Types
      <4> QED
        BY <4>1 DEF Jobs, TouchedDoing
    <3>8. Touched(t) = TouchedCalling[call[Loop]] \cup TouchedAt[at[Loop]]
                           \cup TouchedDoing[doing[Loop]]
      BY <2>6 DEF Touched, Workers
    <3>9. member = "channels_info_"
      BY <3>3, <3>5, <3>6, <3>7, <3>8
    <3> QED
      BY <2>6, <3>2, <3>9
  <2>7. CASE t = App
    <3>1. Touched(t) = TouchedDoing[doing[App]]
      BY <2>3, <2>7 DEF Touched, TouchedCalling, Workers
    <3>2. doing[App] # "nothing"
      BY <3>1 DEF TouchedDoing
    <3>3. next = 8
      BY <3>2 DEF Serving
    <3>4. member \in {"polling_worker_", "polling_worker_mutex_", "field_worker_",
                      "field_worker_mutex_", "channels_info_", "opcua_thread_",
                      "frame_receiver_"}
      BY <2>1, <3>3, Order
    <3>5. doing[App] \in Jobs \ {"nothing", "data"}
      BY <3>2 DEF Types, Serving
    <3>6. doing[App] = "publish" /\ member = "channels_info_"
      BY <3>1, <3>4, <3>5 DEF Jobs, TouchedDoing
    <3>7. client_up
      BY <2>2, <3>6 DEF Serving
    <3> QED
      BY <2>7, <3>6, <3>7
  <2> QED
    BY <2>4, <2>5, <2>6, <2>7 DEF Threads, Workers
<1> QED
  BY <1>1, TypesHolds, StandingHolds, Waiting, PTL
================================================================================
