---------------------------- MODULE ClientLifecycle ----------------------------
(***************************************************************************)
(* The start/stop protocol of tpc::system::client::Client: the CAS on      *)
(* running_, the stop_requested_ flag, the jthread that runs the OPC UA    *)
(* loop, and the API calls that the loop's own handlers make.              *)
(*                                                                         *)
(* A thread inside connect_async() or stop() stands at call[t]; the body   *)
(* of the jthread w stands at worker[w].  One action is one access to the  *)
(* shared state (an atomic, the jthread handle, the OPC UA link).          *)
(***************************************************************************)

CONSTANTS Callers,   \* application threads
          Workers,   \* identities of the jthreads connect_async() creates
          None

ASSUME ThreadsAssumption ==
    /\ Callers \cap Workers = {}
    /\ None \notin Callers \cup Workers

Threads == Callers \cup Workers
Links   == {"down", "up"}

VARIABLES
    running,          \* running_
    stop_requested,   \* stop_requested_
    opcua_thread,     \* opcua_thread_: the jthread the member owns, or None
    token,            \* the stop state each jthread shares with its loop
    worker,           \* where the body of each jthread stands
    call,             \* where each thread stands inside connect_async/stop
    fresh,            \* the jthread created but not yet moved to the member
    stopped,          \* history: the jthread an assignment told to stop
    joining,          \* the jthread an assignment waits for
    link,             \* whether client_ is connected
    halted,           \* history: the last stop() since the last start, and
                      \* whether it met a connect_async() before line 70
    terminated        \* std::terminate has ended the process

assignment == <<opcua_thread, stopped, joining, terminated>>

vars == <<running, stop_requested, assignment, token, worker, call, fresh,
          link, halted>>

--------------------------------------------------------------------------------

In(t, here) == ~terminated /\ call[t] = here

Live(w)   == worker[w] \notin {"unborn", "done", "broken"}
Ended(w)  == worker[w] \in {"done", "broken"}
Claims(t) == call[t] \in {"clear", "spawn"}
Active    == \/ \E t \in Threads : Claims(t)
             \/ \E w \in Workers : Live(w)

(* Handlers run on the worker thread, inside runIterate (l.90), disconnect *)
(* (l.94) and the error events (l.96, l.98); they may use the API.         *)
CanCall(t) ==
    /\ In(t, "idle")
    /\ t \in Workers => worker[t] \in {"iterate", "close", "error"}

Init ==
    /\ running = FALSE
    /\ stop_requested = FALSE
    /\ opcua_thread = None
    /\ token = [w \in Workers |-> FALSE]
    /\ worker = [w \in Workers |-> "unborn"]
    /\ call = [t \in Threads |-> "idle"]
    /\ fresh = [t \in Threads |-> None]
    /\ stopped = [t \in Threads |-> None]
    /\ joining = [t \in Threads |-> None]
    /\ link = "down"
    /\ halted = "none"
    /\ terminated = FALSE

--------------------------------------------------------------------------------
(* connect_async.  A refused call (running_ already TRUE) changes nothing. *)
(* The bound: no start is attempted once every identity has been used.     *)

(* The identity of a new jthread: any unused one will do.                  *)
Unborn    == {w \in Workers : worker[w] = "unborn"}
NewWorker == CHOOSE w \in Unborn : TRUE

(* Defect: the CAS is a plain store.                                       *)
ConnectClaim_NoCas(t) ==
    /\ CanCall(t)
    /\ Unborn # {}
    /\ running' = TRUE
    /\ call' = [call EXCEPT ![t] = "clear"]
    /\ halted' = "none"
    /\ UNCHANGED <<stop_requested, assignment, token, worker, fresh, link>>

ConnectClaim(t) ==
    /\ CanCall(t)
    /\ ~running
    /\ Unborn # {}
    /\ running' = TRUE
    /\ call' = [call EXCEPT ![t] = "clear"]
    /\ halted' = "none"
    /\ UNCHANGED <<stop_requested, assignment, token, worker, fresh, link>>

ConnectClear(t) ==
    /\ In(t, "clear")
    /\ stop_requested' = FALSE
    /\ call' = [call EXCEPT ![t] = "spawn"]
    /\ UNCHANGED <<running, assignment, token, worker, fresh, link, halted>>

(* The new thread runs from here on, before the member owns it.            *)
ConnectSpawn(t) ==
    /\ In(t, "spawn")
    /\ Unborn # {}
    /\ worker' = [worker EXCEPT ![NewWorker] = "start"]
    /\ fresh' = [fresh EXCEPT ![t] = NewWorker]
    /\ call' = [call EXCEPT ![t] = "assign"]
    /\ UNCHANGED <<running, stop_requested, assignment, token, link, halted>>

(* The jthread constructor throws system_error; nothing resets running_.   *)
ConnectSpawnFails(t) ==
    /\ In(t, "spawn")
    /\ call' = [call EXCEPT ![t] = "idle"]
    /\ UNCHANGED <<running, stop_requested, assignment, token, worker, fresh,
                   link, halted>>

(* jthread's move assignment, on a member that no lock protects: another   *)
(* thread that starts late may be in it as well.  Each step reads the      *)
(* handle anew.                                                            *)

(* Defect: the stop goes to the new thread, as after a swap of the two.    *)
ConnectReplace_StopsNew(t) ==
    /\ In(t, "assign")
    /\ token' = [w \in Workers |-> token[w] \/ (opcua_thread # None /\ w = fresh[t])]
    /\ stopped' = [stopped EXCEPT ![t] = opcua_thread]
    /\ call' = [call EXCEPT ![t] = IF opcua_thread = None THEN "take" ELSE "join"]
    /\ UNCHANGED <<running, stop_requested, opcua_thread, joining, terminated,
                   worker, fresh, link, halted>>

(* If the member owns a thread, it is told to stop, ...                    *)
ConnectReplace(t) ==
    /\ In(t, "assign")
    /\ token' = [w \in Workers |-> token[w] \/ w = opcua_thread]
    /\ stopped' = [stopped EXCEPT ![t] = opcua_thread]
    /\ call' = [call EXCEPT ![t] = IF opcua_thread = None THEN "take" ELSE "join"]
    /\ UNCHANGED <<running, stop_requested, opcua_thread, joining, terminated,
                   worker, fresh, link, halted>>

(* ... then whatever the member owns by now is joined, ...                 *)
ConnectJoin(t) ==
    /\ In(t, "join")
    /\ opcua_thread # None
    /\ joining' = [joining EXCEPT ![t] = opcua_thread]
    /\ call' = [call EXCEPT ![t] = "wait"]
    /\ UNCHANGED <<running, stop_requested, opcua_thread, stopped, terminated,
                   token, worker, fresh, link, halted>>

(* ... which leaves the member without one, ...                            *)
ConnectJoined(t) ==
    /\ In(t, "wait")
    /\ Ended(joining[t])
    /\ opcua_thread' = None
    /\ stopped' = [stopped EXCEPT ![t] = None]
    /\ joining' = [joining EXCEPT ![t] = None]
    /\ call' = [call EXCEPT ![t] = "take"]
    /\ UNCHANGED <<running, stop_requested, terminated, token, worker, fresh,
                   link, halted>>

(* ... and the new thread is taken.                                        *)
ConnectTake(t) ==
    /\ In(t, "take")
    /\ opcua_thread = None
    /\ opcua_thread' = fresh[t]
    /\ fresh' = [fresh EXCEPT ![t] = None]
    /\ call' = [call EXCEPT ![t] = "idle"]
    /\ UNCHANGED <<running, stop_requested, stopped, joining, terminated, token,
                   worker, link, halted>>

(* All of it is noexcept.  A join() of no thread throws, one of a thread   *)
(* that is being joined is undefined and may, and a thread is not taken    *)
(* over one that is still owned.                                           *)
ConnectTerminates(t) ==
    /\ \/ /\ In(t, "join")
          /\ opcua_thread = None \/ \E u \in Threads : joining[u] = opcua_thread
       \/ In(t, "take") /\ opcua_thread # None
    /\ terminated' = TRUE
    /\ UNCHANGED <<running, stop_requested, opcua_thread, stopped, joining,
                   token, worker, call, fresh, link, halted>>

--------------------------------------------------------------------------------
(* stop: the flag, then the token of whatever thread the member owns now.  *)

StopFlag(t) ==
    /\ CanCall(t)
    /\ stop_requested' = TRUE
    /\ call' = [call EXCEPT ![t] = "token"]
    /\ halted' = IF \E u \in Threads : call[u] = "clear" THEN "raced"
                                                         ELSE "clean"
    /\ UNCHANGED <<running, assignment, token, worker, fresh, link>>

StopToken(t) ==
    /\ In(t, "token")
    /\ token' = [w \in Workers |-> token[w] \/ w = opcua_thread]
    /\ call' = [call EXCEPT ![t] = "idle"]
    /\ UNCHANGED <<running, stop_requested, assignment, worker, fresh, link,
                   halted>>

--------------------------------------------------------------------------------
(* The jthread body.  A handler still inside an API call holds it back.    *)

(* The body of the try: `after` when the call returns, the catch clauses   *)
(* when it throws.                                                         *)
Step(w, at, after) ==
    /\ worker[w] = at
    /\ In(w, "idle")
    /\ worker' = [worker EXCEPT ![w] = after]

(* Defect: the link takes a state the callbacks of l.155-171 do not know.  *)
Open_UnknownState(w) ==
    /\ \/ Step(w, "start", "loop")  /\ link' \in {"pending", "up"}
       \/ Step(w, "start", "error") /\ UNCHANGED link
    /\ UNCHANGED <<running, stop_requested, assignment, token, call, fresh,
                   halted>>

Open(w) ==
    /\ \/ Step(w, "start", "loop")  /\ link' \in Links
       \/ Step(w, "start", "error") /\ UNCHANGED link
    /\ UNCHANGED <<running, stop_requested, assignment, token, call, fresh,
                   halted>>

(* Defect: the loop tests its stop token only.                             *)
Check_TokenOnly(w) ==
    /\ Step(w, "loop", IF token[w] THEN "close" ELSE "iterate")
    /\ UNCHANGED <<running, stop_requested, assignment, token, call, fresh,
                   link, halted>>

(* Defect: a stopped loop returns without the disconnect.                  *)
Check_NoDisconnect(w) ==
    /\ Step(w, "loop", IF token[w] \/ stop_requested THEN "finish"
                                                     ELSE "iterate")
    /\ UNCHANGED <<running, stop_requested, assignment, token, call, fresh,
                   link, halted>>

Check(w) ==
    /\ Step(w, "loop", IF token[w] \/ stop_requested THEN "close"
                                                     ELSE "iterate")
    /\ UNCHANGED <<running, stop_requested, assignment, token, call, fresh,
                   link, halted>>

(* Defect: running_ is cleared before the error handlers are called.       *)
Iterate_ClearsRunning(w) ==
    /\ \/ Step(w, "iterate", "loop")  /\ UNCHANGED running
       \/ Step(w, "iterate", "error") /\ running' = FALSE
    /\ link' \in Links
    /\ UNCHANGED <<stop_requested, assignment, token, call, fresh, halted>>

Iterate(w) ==
    /\ Step(w, "iterate", "loop") \/ Step(w, "iterate", "error")
    /\ link' \in Links
    /\ UNCHANGED <<running, stop_requested, assignment, token, call, fresh,
                   halted>>

(* disconnect() is skipped while the link is not up.                       *)
Close(w) ==
    /\ \/ Step(w, "close", "finish") /\ link' = (IF link = "up" THEN "down"
                                                               ELSE link)
       \/ Step(w, "close", "error") /\ link = "up" /\ link' \in Links
    /\ UNCHANGED <<running, stop_requested, assignment, token, call, fresh,
                   halted>>

(* The error handlers have returned; the link is left as it is.            *)
Report(w) ==
    /\ Step(w, "error", "failed")
    /\ UNCHANGED <<running, stop_requested, assignment, token, call, fresh,
                   link, halted>>

Finish(w) ==
    /\ Step(w, "finish", "done") \/ Step(w, "failed", "broken")
    /\ running' = FALSE
    /\ UNCHANGED <<stop_requested, assignment, token, call, fresh, link,
                   halted>>

--------------------------------------------------------------------------------

Connect(t) == \/ ConnectClear(t)
              \/ ConnectSpawn(t)
              \/ ConnectSpawnFails(t)
              \/ ConnectReplace(t)
              \/ ConnectJoin(t)
              \/ ConnectJoined(t)
              \/ ConnectTake(t)
              \/ ConnectTerminates(t)

Body(w) == Open(w) \/ Check(w) \/ Finish(w)

Handlers(w) == Iterate(w) \/ Close(w) \/ Report(w)

Aborted == terminated /\ UNCHANGED vars

Next ==
    \/ \E t \in Threads :
        ConnectClaim(t) \/ Connect(t) \/ StopFlag(t) \/ StopToken(t)
    \/ \E w \in Workers : Body(w) \/ Handlers(w)
    \/ Aborted

(* A thread inside connect_async/stop and a running body keep being        *)
(* scheduled.  runIterate, disconnect and the error handlers return: they  *)
(* are strongly fair because an API call made by a handler delays them.    *)
(* Nothing forces an application to start or stop the client.              *)
Fairness ==
    /\ \A t \in Threads : WF_vars(Connect(t)) /\ WF_vars(StopToken(t))
    /\ \A w \in Workers : WF_vars(Body(w)) /\ SF_vars(Handlers(w))

Spec == Init /\ [][Next]_vars /\ Fairness

--------------------------------------------------------------------------------
(* Every variable keeps its type.                                          *)
TypeOK ==
    /\ running \in BOOLEAN
    /\ stop_requested \in BOOLEAN
    /\ opcua_thread \in Workers \cup {None}
    /\ token \in [Workers -> BOOLEAN]
    /\ worker \in [Workers -> {"unborn", "start", "loop", "iterate", "close",
                               "error", "finish", "failed", "done", "broken"}]
    /\ call \in [Threads -> {"idle", "clear", "spawn", "assign", "join", "wait",
                            "take", "token"}]
    /\ fresh \in [Threads -> Workers \cup {None}]
    /\ stopped \in [Threads -> Workers \cup {None}]
    /\ joining \in [Threads -> Workers \cup {None}]
    /\ link \in Links
    /\ halted \in {"none", "clean", "raced"}
    /\ terminated \in BOOLEAN

(* One owner: between the CAS of line 67 and the store of line 101 no two  *)
(* threads are starting or running the loop, so client_, which has no lock *)
(* of its own, is never driven by two of them, and no start resets         *)
(* stop_requested_ under a loop that still reads it.                       *)
OneOwner ==
    /\ \A t, u \in Threads : Claims(t) /\ Claims(u) => t = u
    /\ \A v, w \in Workers : Live(v) /\ Live(w) => v = w
    /\ \A t \in Threads, w \in Workers : ~(Claims(t) /\ Live(w))

(* A handler on the worker thread that calls connect_async() never reaches *)
(* the move assignment of line 79 with its own jthread in the member: that *)
(* would join the calling thread.                                          *)
NoSelfJoin ==
    \A w \in Workers : call[w] \in {"assign", "join", "wait"} => opcua_thread # w

(* Once no start is under way and no loop runs, the session is closed,     *)
(* unless a loop ended by an exception: lines 95-99 skip the disconnect.   *)
SessionClosed ==
    link = "up" /\ ~Active => \E w \in Workers : worker[w] = "broken"

(* A stop() that does not fall between lines 67 and 70 of a start ends the *)
(* start and the loop it finds, unless the client is started again.        *)
StopEnds == (halted = "clean") ~> (halted = "none" \/ ~Active \/ terminated)

(* A call that waits for another thread than the one it told to stop: the  *)
(* assignment of another late starter came in between.                     *)
Overtaken(t) == call[t] = "wait" /\ joining[t] # stopped[t]

(* Every connect_async() and stop() returns, also the one whose move       *)
(* assignment finds a newer loop in the member and has to wait for it.     *)
(* Only where two late assignments meet there are two other ends: the      *)
(* process is terminated, or a call waits for a loop nobody told to stop.  *)
CallsReturn ==
    \A t \in Threads :
        (call[t] # "idle") ~> (call[t] = "idle" \/ terminated \/ Overtaken(t))

(* tpc.hpp:68 promises that stop_async halts the worker, whenever called.  *)
StopHolds == (halted # "none") ~> (halted = "none" \/ ~Active \/ terminated)

================================================================================
