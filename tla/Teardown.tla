-------------------------------- MODULE Teardown --------------------------------
(***************************************************************************)
(* The three workers of a TPC under start_async, stop_async and the other  *)
(* calls, and ~TPC, which destroys the members one by one while workers    *)
(* are still running.  What a worker does is abstracted to the members it  *)
(* touches; ClientLifecycle, PollingWorker and FieldPipeline have the      *)
(* details of each.                                                        *)
(*                                                                         *)
(* Once App has begun the destruction only the workers' handlers can call. *)
(***************************************************************************)
EXTENDS Naturals, Sequences

CONSTANTS App,         \* the application: it destroys the TPC in the end
          Poller,      \* the thread of polling_worker_
          Field,       \* the thread of field_worker_
          Loop         \* the thread of opcua_thread_

ASSUME TeardownAssumption ==
    /\ App \notin {Poller, Field, Loop}
    /\ Poller \notin {Field, Loop}
    /\ Field # Loop

Workers == {Poller, Field, Loop}
Threads == Workers \cup {App}

(* Defect: client_ is declared as the last member of TPC.                  *)
DestructionOrder_ClientFirst ==
    <<"channels_info_", "opcua_thread_", "frame_receiver_", "opcua_client",
      "subscription_", "client_events", "polling_worker_", "polling_worker_mutex_",
      "field_worker_", "field_worker_mutex_", "impl_", "events">>

(* Members are destroyed in the reverse of their declaration, those of     *)
(* client_ after the workers of TPC.  A mutex stands for the condition     *)
(* variable and pending_calculation_data_ beside it, frame_receiver_ for   *)
(* endpoint_.  Scalars are left out, the poller's interval and revision    *)
(* (tpc.hpp:165-166) too, which are declared after polling_worker_: nothing*)
(* destroys them, and they last as long as the storage of the TPC.         *)
DestructionOrder ==
    <<"polling_worker_", "polling_worker_mutex_", "field_worker_",
      "field_worker_mutex_", "channels_info_", "opcua_thread_",
      "frame_receiver_", "opcua_client", "subscription_", "client_events",
      "impl_", "events">>

Thread == [polling_worker_ |-> Poller, field_worker_ |-> Field,
           opcua_thread_ |-> Loop]

VARIABLES
    at,        \* where each worker stands
    doing,     \* what a thread is doing there for the OPC UA client
    call,      \* the call that a thread is making
    stopped,   \* the workers told to stop
    pending,   \* pending_calculation_data_ is set
    requests,  \* what the OPC UA stack has still to answer or to report
    next,      \* the place in the order that ~TPC has come to; 0 before
    client_up, \* history: the client was not at rest when ~TPC began, or not since
    stray      \* history: a handler calls what ~TPC may have destroyed

vars == <<at, doing, call, stopped, pending, requests, next, client_up, stray>>

history == <<client_up, stray>>

Begun == next # 0
Done == next > Len(DestructionOrder)
Destroyed == {DestructionOrder[i] : i \in 1..(next - 1)}
Destroying(member) == next \in DOMAIN DestructionOrder /\ DestructionOrder[next] = member

Init ==
    /\ at = [w \in Workers |-> "none"]
    /\ doing = [t \in {Loop, App} |-> "nothing"]
    /\ call = [t \in Threads |-> "none"]
    /\ stopped = {}
    /\ pending = FALSE
    /\ requests = {}
    /\ next = 0
    /\ client_up = FALSE
    /\ stray = FALSE

Alive(w) == at[w] # "none"

--------------------------------------------------------------------------------
(* The members that a thread touches where it stands.                      *)

TouchedAt ==
    [none    |-> {},
     frame   |-> {"frame_receiver_", "channels_info_"},
     handler |-> {"events"},
     sleep   |-> {"polling_worker_mutex_"},
     wait    |-> {"field_worker_mutex_"},
     compute |-> {"impl_"},
     iterate |-> {"opcua_client", "frame_receiver_"},
     close   |-> {"opcua_client"},
     finish  |-> {"frame_receiver_"}]

TouchedDoing ==
    [nothing   |-> {},
     event     |-> {"client_events", "events"},
     publish   |-> {"channels_info_"},
     announce  |-> {"client_events", "events"},
     subscribe |-> {"subscription_", "opcua_client"},
     item      |-> {"subscription_", "opcua_client", "client_events", "events"},
     data      |-> {"subscription_", "frame_receiver_", "client_events", "events"}]

TouchedCalling ==
    [none          |-> {},
     start         |-> {"opcua_thread_", "opcua_client", "frame_receiver_"},
     stop          |-> {"polling_worker_", "polling_worker_mutex_",
                        "opcua_thread_", "frame_receiver_"},
     start_polling |-> {"polling_worker_", "polling_worker_mutex_"},
     submit        |-> {"field_worker_", "field_worker_mutex_"},
     read          |-> {"frame_receiver_", "channels_info_", "impl_"}]

Touched(t) ==
    TouchedCalling[call[t]]
        \cup (IF t \in Workers THEN TouchedAt[at[t]] ELSE {})
        \cup (IF t \in {Loop, App} THEN TouchedDoing[doing[t]] ELSE {})

--------------------------------------------------------------------------------
(* The calls of TPC, by the application before the destruction and by      *)
(* handlers at any time.                                                   *)

InHandler(t) ==
    /\ ~stray /\ call[t] = "none"
    /\ \/ t = App /\ ~Begun
       \/ t \in {Poller, Field} /\ at[t] = "handler"
       \/ t \in {Loop, App} /\ doing[t] \in {"event", "announce"}

(* Calls that ~TPC does not wait for: those about polling (the poller may  *)
(* still stop itself), a job from the client's thread, and any from what   *)
(* ~Client cancels.                                                        *)
Strays(t, what) ==
    \/ what = "start_polling"
    \/ what = "stop" /\ t # Poller
    \/ what = "submit" /\ t = Loop
    \/ what # "none" /\ t = App

Call(t, what) ==
    /\ InHandler(t)
    /\ call' = [call EXCEPT ![t] = IF t = App /\ ~Begun THEN @ ELSE what]
    /\ stray' = (stray \/ (Begun /\ Strays(t, what)))
    /\ UNCHANGED <<doing, requests, next>>

(* connect_async: a loop that runs is left alone.                          *)
start_async(t) ==
    /\ Call(t, "start")
    /\ IF Alive(Loop) \/ (Begun /\ t = App)
       THEN UNCHANGED <<at, stopped>>
       ELSE /\ at' = [at EXCEPT ![Loop] = "iterate"]
            /\ stopped' = stopped \ {Loop}
    /\ client_up' = (client_up \/ Begun)
    /\ UNCHANGED pending

stop_async(t) ==
    /\ Call(t, "stop")
    /\ stopped' = stopped \cup {w \in {Poller, Loop} : Alive(w)}
    /\ UNCHANGED <<at, pending, client_up>>

(* A poller that was stopped is replaced: here once it has ended, in       *)
(* PollingWorker while the call waits for its end.                         *)
start_polling_async(t) ==
    /\ Call(t, "start_polling")
    /\ IF Alive(Poller) \/ Begun
       THEN /\ Poller \in stopped => Begun
            /\ UNCHANGED <<at, stopped>>
       ELSE /\ at' = [at EXCEPT ![Poller] = "frame"]
            /\ stopped' = stopped \ {Poller}
    /\ UNCHANGED <<pending, client_up>>

(* One job at a time.                                                      *)
calculate_field_async(t) ==
    /\ Call(t, "submit")
    /\ IF pending \/ at[Field] = "compute" \/ stray'
       THEN UNCHANGED <<at, pending>>
       ELSE /\ pending' = TRUE
            /\ at' = [at EXCEPT ![Field] = IF @ = "none" THEN "wait" ELSE @]
    /\ UNCHANGED <<stopped, client_up>>

(* get_frame_request, get_field_slice and export_to_vtk                    *)
Read(t) ==
    /\ Call(t, "read")
    /\ UNCHANGED <<at, stopped, pending, client_up>>

Return(t) ==
    /\ ~stray /\ call[t] # "none"
    /\ call' = [call EXCEPT ![t] = "none"]
    /\ UNCHANGED <<at, doing, stopped, pending, requests, next, history>>

--------------------------------------------------------------------------------
(* polling_worker_loop and field_worker_loop                               *)

Moves(w, from, to) ==
    /\ at[w] = from
    /\ ~stray /\ call[w] = "none"
    /\ at' = [at EXCEPT ![w] = to]
    /\ UNCHANGED <<doing, call, requests, next, history>>

Go(w, from, to) == Moves(w, from, to) /\ UNCHANGED stopped

Stops(w, from) ==
    /\ w \in stopped
    /\ Moves(w, from, "none")
    /\ stopped' = stopped \ {w}

Frame == Go(Poller, "frame", "handler") /\ UNCHANGED pending

Timeout ==
    /\ Poller \notin stopped
    /\ Go(Poller, "sleep", "frame")
    /\ UNCHANGED pending

PollerStops ==
    /\ Stops(Poller, "sleep")
    /\ UNCHANGED pending

(* The predicate wins over the stop.                                       *)
Take == pending /\ Go(Field, "wait", "compute") /\ pending' = FALSE

Compute == Go(Field, "compute", "handler") /\ UNCHANGED pending

(* Defect: the wait ends only when there is work.                          *)
FieldStops_NoToken ==
    /\ pending
    /\ Stops(Field, "wait")
    /\ UNCHANGED pending

FieldStops ==
    /\ ~pending
    /\ Stops(Field, "wait")
    /\ UNCHANGED pending

HandlerReturns(w) ==
    /\ \/ w = Poller /\ Go(w, "handler", "sleep")
       \/ w = Field /\ w \notin stopped /\ Go(w, "handler", "wait")
       \/ w = Field /\ Stops(w, "handler")
    /\ UNCHANGED pending

--------------------------------------------------------------------------------
(* The OPC UA worker, and the callbacks of the client: they run on Loop    *)
(* while it iterates or disconnects, and on App when ~opcua::Client        *)
(* cancels what a loop that died has left.                                 *)

Do(t, from, to) ==
    /\ doing[t] = from
    /\ ~stray /\ call[t] = "none"
    /\ doing' = [doing EXCEPT ![t] = to]
    /\ UNCHANGED <<call, stopped, pending, next, history>>

Serves(t) ==
    \/ t = Loop /\ at[Loop] \in {"iterate", "close"}
    \/ t = App /\ Destroying("opcua_client")

(* The session is activated: the first browse is sent, then the event.     *)
Activate ==
    /\ at[Loop] = "iterate"
    /\ Do(Loop, "nothing", "event")
    /\ requests' = requests \cup {"discovery", "session"}
    /\ UNCHANGED at

Data ==
    /\ at[Loop] = "iterate"
    /\ Do(Loop, "nothing", "data")
    /\ UNCHANGED <<at, requests>>

(* The browse of the last slot publishes even if it was cancelled, an      *)
(* earlier one that brings nothing is an error.  The end of the session is *)
(* reported by onSessionClosed and onDisconnected.                         *)
Answer(t) ==
    /\ Serves(t)
    /\ \/ /\ "discovery" \in requests
          /\ Do(t, "nothing", "publish") \/ Do(t, "nothing", "event")
          /\ requests' = requests \ {"discovery"}
       \/ /\ "item" \in requests
          /\ Do(t, "nothing", "item")
          /\ requests' = requests \ {"item"}
       \/ /\ "session" \in requests
          /\ Do(t, "nothing", "event")
          /\ requests' = requests \ {"session"}
    /\ UNCHANGED at

Continue(t) ==
    /\ \/ Do(t, "publish", "announce") /\ UNCHANGED requests
       \/ Do(t, "subscribe", "nothing") /\ requests' = requests \cup {"item"}
       \/ Do(t, "item", "nothing") /\ UNCHANGED requests
       \/ Do(t, "data", "nothing") /\ UNCHANGED requests
    /\ UNCHANGED at

EventEnds(t) ==
    /\ Do(t, "event", "nothing") \/ Do(t, "announce", "subscribe")
    /\ UNCHANGED <<at, requests>>

LoopGoes(from, to) ==
    /\ at[Loop] = from
    /\ at' = [at EXCEPT ![Loop] = to]
    /\ UNCHANGED requests

CheckStop ==
    /\ Loop \in stopped
    /\ LoopGoes("iterate", "close")
    /\ Do(Loop, "nothing", "nothing")

(* Defect: disconnect() is one more request, and nobody waits for it.      *)
Close_Leaves ==
    /\ requests = {}
    /\ Do(Loop, "nothing", "nothing")
    /\ at[Loop] = "close"
    /\ at' = [at EXCEPT ![Loop] = "finish"]
    /\ requests' = {"disconnect"}

(* disconnect() cancels all requests and reports the end of the session.   *)
Close ==
    /\ requests = {}
    /\ LoopGoes("close", "finish")
    /\ Do(Loop, "nothing", "nothing")

(* An exception: the error event, and no disconnect.                       *)
Dies ==
    /\ LoopGoes("iterate", "finish") \/ LoopGoes("close", "finish")
    /\ Do(Loop, "nothing", "event")

(* running_ = false is the last thing the thread does.                     *)
Finish ==
    /\ at[Loop] = "finish"
    /\ ~stray /\ doing[Loop] = "nothing"
    /\ at' = [at EXCEPT ![Loop] = "none"]
    /\ stopped' = stopped \ {Loop}
    /\ UNCHANGED <<doing, call, pending, requests, next, history>>

--------------------------------------------------------------------------------
(* ~TPC and, within it, ~Client.                                           *)

Destroy ==
    /\ ~Begun
    /\ next' = 1
    /\ client_up' = (Alive(Loop) \/ requests \cap {"discovery", "item"} # {})
    /\ stray' = \E t \in Workers : Strays(t, call[t])
    /\ UNCHANGED <<at, doing, call, stopped, pending, requests>>

Current == DestructionOrder[next]

(* The destructor of a jthread stops its thread and joins it.              *)
RequestStop ==
    /\ ~stray
    /\ next \in DOMAIN DestructionOrder /\ Current \in DOMAIN Thread
    /\ Alive(Thread[Current])
    /\ stopped' = stopped \cup {Thread[Current]}
    /\ UNCHANGED <<at, doing, call, pending, requests, next, history>>

DestroyMember ==
    /\ next \in DOMAIN DestructionOrder
    /\ Current \in DOMAIN Thread => ~Alive(Thread[Current])
    /\ Current = "opcua_client" => requests = {}
    /\ ~stray /\ doing[App] = "nothing" /\ call[App] = "none"
    /\ next' = next + 1
    /\ UNCHANGED <<at, doing, call, stopped, pending, requests, history>>

(* All is gone, or what follows is undefined.                              *)
AllGone == (Done \/ stray) /\ UNCHANGED vars

--------------------------------------------------------------------------------

Calls(t) ==
    \/ start_async(t) \/ stop_async(t) \/ start_polling_async(t)
    \/ calculate_field_async(t) \/ Read(t)

Loops ==
    \/ Frame \/ PollerStops
    \/ Take \/ Compute \/ FieldStops
    \/ Close \/ Finish

Destruction == RequestStop \/ DestroyMember

Next ==
    \/ \E t \in Threads : Calls(t) \/ Return(t)
    \/ Loops \/ Timeout
    \/ \E w \in {Poller, Field} : HandlerReturns(w)
    \/ \E t \in {Loop, App} : Answer(t) \/ Continue(t) \/ EventEnds(t)
    \/ Activate \/ Data \/ CheckStop \/ Dies
    \/ Destroy \/ Destruction \/ AllGone

(* Threads run; handlers return however many calls they make; runIterate   *)
(* returns however many callbacks it runs; cancelled requests are answered.*)
Fairness ==
    /\ WF_vars(Frame) /\ WF_vars(PollerStops)
    /\ WF_vars(Take \/ Compute \/ FieldStops)
    /\ WF_vars(Close) /\ WF_vars(Finish) /\ WF_vars(Destruction)
    /\ SF_vars(CheckStop)
    /\ \A t \in Threads : WF_vars(Return(t))
    /\ \A w \in {Poller, Field} : SF_vars(HandlerReturns(w))
    /\ \A t \in {Loop, App} :
        WF_vars(Answer(t)) /\ WF_vars(Continue(t)) /\ SF_vars(EventEnds(t))

Spec == Init /\ [][Next]_vars /\ Fairness

--------------------------------------------------------------------------------
(* Every variable keeps its type.                                          *)
TypeOK ==
    /\ at \in [Workers -> DOMAIN TouchedAt]
    /\ doing \in [{Loop, App} -> DOMAIN TouchedDoing]
    /\ call \in [Threads -> DOMAIN TouchedCalling]
    /\ stopped \subseteq Workers
    /\ pending \in BOOLEAN
    /\ requests \subseteq {"discovery", "item", "session"}
    /\ next \in 0..(Len(DestructionOrder) + 1)
    /\ client_up \in BOOLEAN
    /\ stray \in BOOLEAN

(* Nobody touches a member that ~TPC has destroyed, as long as no handler  *)
(* makes a stray call; but if the client was not brought to rest before,   *)
(* its channels_info_ is destroyed under it (client.hpp:111-114).          *)
SafeTeardown ==
    ~stray => \A t \in Threads :
        Touched(t) \cap Destroyed \subseteq
            (IF client_up /\ t \in {Loop, App} THEN {"channels_info_"} ELSE {})

(* ~TPC returns, whatever the workers are doing when it begins.            *)
TeardownEnds == Begun ~> (Done \/ stray)

================================================================================
