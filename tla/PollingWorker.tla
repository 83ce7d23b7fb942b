----------------------------- MODULE PollingWorker -----------------------------
(***************************************************************************)
(* The frame poller of tpc::system::TPC: start_polling_async starts it or  *)
(* changes its interval, stop_async stops it, and polling_worker_loop asks *)
(* for a frame, hands it to frame_received_ and waits.  The handlers run   *)
(* on the poller's thread and may call the same API.                       *)
(*                                                                         *)
(* A critical section of polling_worker_mutex_ is one action.              *)
(***************************************************************************)
EXTENDS Naturals

CONSTANTS Callers,      \* application threads
          Pollers,      \* identities of the jthreads start_polling creates
          Intervals,    \* non-zero polling intervals
          MaxRevision,  \* bound on the calls that set an interval
          None

ASSUME PollingAssumption ==
    /\ Callers \cap Pollers = {}
    /\ None \notin Callers \cup Pollers \cup Intervals
    /\ MaxRevision \in Nat

Threads   == Callers \cup Pollers
Settings  == [interval : Intervals \cup {None}, revision : 0..MaxRevision]

VARIABLES
    polling_worker,   \* polling_worker_: the jthread the member owns, or None
    stop,             \* the stop state each jthread shares with its loop
    setting,          \* polling_interval_ms_ and polling_interval_revision_
    poller,           \* where the loop of each jthread stands
    seen,             \* the setting each loop read before its wait
    call,             \* where each thread stands inside an API call
    old,              \* stopped_worker: the jthread a call has moved out
    terminated        \* std::terminate has ended the process

vars == <<polling_worker, stop, setting, poller, seen, call, old, terminated>>

--------------------------------------------------------------------------------

Live(w)     == poller[w] \notin {"unborn", "done"}
At(w, here) == ~terminated /\ poller[w] = here
In(t, here) == ~terminated /\ call[t] = here

CanCall(t) ==
    /\ In(t, "idle")
    /\ t \in Pollers => poller[t] \in {"frame", "error"}

(* notify_all and the stop callback of wait_for; those awake test the      *)
(* predicate again.                                                        *)
Woken(W) ==
    [w \in Pollers |-> IF w \in W /\ poller[w] = "asleep" THEN "awake"
                                                          ELSE poller[w]]

Init ==
    /\ polling_worker = None
    /\ stop = [w \in Pollers |-> FALSE]
    /\ setting = [interval |-> None, revision |-> 0]
    /\ poller = [w \in Pollers |-> "unborn"]
    /\ seen = [w \in Pollers |-> setting]
    /\ call = [t \in Threads |-> "idle"]
    /\ old = [t \in Threads |-> None]
    /\ terminated = FALSE

--------------------------------------------------------------------------------
(* start_polling_async                                                     *)

(* The identity of a new jthread: any unused one will do.                  *)
Unborn    == {w \in Pollers : poller[w] = "unborn"}
NewPoller == CHOOSE w \in Unborn : TRUE

(* Defect: the running poller is moved out too.                            *)
Stale_AnyPoller == polling_worker # None

Stale == polling_worker # None /\ stop[polling_worker]

NewSetting(i) ==
    /\ setting.revision < MaxRevision
    /\ setting' = [interval |-> i, revision |-> setting.revision + 1]

(* Lines 171-184: the running poller is kept, a stopped one is moved out   *)
(* and a new one takes its place.                                          *)
StartPolling(t) ==
    /\ CanCall(t)
    /\ \E i \in Intervals : NewSetting(i)
    /\ call' = [call EXCEPT ![t] = "notify"]
    /\ \/ /\ polling_worker # None /\ ~Stale
          /\ UNCHANGED <<polling_worker, poller, old>>
       \/ /\ polling_worker = None \/ Stale
          /\ Unborn # {}
          /\ polling_worker' = NewPoller
          /\ poller' = [poller EXCEPT ![NewPoller] = "check"]
          /\ old' = [old EXCEPT ![t] = polling_worker]
    /\ UNCHANGED <<stop, seen, terminated>>

(* The jthread constructor of line 180 throws: the setting stays changed,  *)
(* nobody is notified, and unwinding still joins the poller moved out.     *)
StartPollingFails(t) ==
    /\ CanCall(t)
    /\ polling_worker = None \/ Stale
    /\ \E i \in Intervals : NewSetting(i)
    /\ polling_worker' = None
    /\ old' = [old EXCEPT ![t] = polling_worker]
    /\ call' = [call EXCEPT ![t] = IF polling_worker = None THEN "idle"
                                                            ELSE "join"]
    /\ UNCHANGED <<stop, poller, seen, terminated>>

(* Defect: the poller moved out is detached.                               *)
Notify_Detaches(t) ==
    /\ In(t, "notify")
    /\ poller' = Woken(Pollers)
    /\ call' = [call EXCEPT ![t] = "idle"]
    /\ UNCHANGED <<polling_worker, stop, setting, seen, old, terminated>>

Notify(t) ==
    /\ In(t, "notify")
    /\ poller' = Woken(Pollers)
    /\ call' = [call EXCEPT ![t] = IF old[t] = None THEN "idle" ELSE "join"]
    /\ UNCHANGED <<polling_worker, stop, setting, seen, old, terminated>>

(* Defect: the call joins the poller it has just started.                  *)
Join_NewPoller(t) ==
    /\ In(t, "join")
    /\ \E w \in Pollers : w = polling_worker /\ poller[w] = "done"
    /\ old' = [old EXCEPT ![t] = None]
    /\ call' = [call EXCEPT ![t] = "idle"]
    /\ UNCHANGED <<polling_worker, stop, setting, poller, seen, terminated>>

(* The destructor of stopped_worker.                                       *)
Join(t) ==
    /\ In(t, "join")
    /\ poller[old[t]] = "done"
    /\ old' = [old EXCEPT ![t] = None]
    /\ call' = [call EXCEPT ![t] = "idle"]
    /\ UNCHANGED <<polling_worker, stop, setting, poller, seen, terminated>>

(* join() on the calling thread throws inside the noexcept destructor.     *)
SelfJoin(t) ==
    /\ In(t, "join")
    /\ old[t] = t
    /\ terminated' = TRUE
    /\ UNCHANGED <<polling_worker, stop, setting, poller, seen, call, old>>

--------------------------------------------------------------------------------
(* stop_async, up to client_->stop(), which is ClientLifecycle's StopFlag. *)

StopPolling(t) ==
    /\ CanCall(t)
    /\ stop' = [w \in Pollers |-> stop[w] \/ w = polling_worker]
    /\ poller' = Woken({polling_worker})
    /\ call' = [call EXCEPT ![t] = "notify"]
    /\ UNCHANGED <<polling_worker, setting, seen, old, terminated>>

--------------------------------------------------------------------------------
(* polling_worker_loop.  A handler inside an API call holds it back.       *)

Step(w, here, next) ==
    /\ At(w, here)
    /\ call[w] = "idle"
    /\ poller' = [poller EXCEPT ![w] = next]

Check(w) ==
    /\ Step(w, "check", IF stop[w] THEN "done" ELSE "request")
    /\ UNCHANGED <<polling_worker, stop, setting, seen, call, old, terminated>>

(* value() of an empty optional throws: no frame is an error event.        *)
Request(w) ==
    /\ Step(w, "request", "frame") \/ Step(w, "request", "error")
    /\ UNCHANGED <<polling_worker, stop, setting, seen, call, old, terminated>>

(* A frame handler that throws is reported; an error handler's exception   *)
(* is swallowed.                                                           *)
HandlerReturns(w) ==
    /\ \/ Step(w, "frame", "lock")
       \/ Step(w, "frame", "error")
       \/ Step(w, "error", "lock")
    /\ UNCHANGED <<polling_worker, stop, setting, seen, call, old, terminated>>

(* Defect: the wait does not take the stop token.                          *)
WaitBegin_NoStopToken(w) ==
    /\ Step(w, "lock", "asleep")
    /\ seen' = [seen EXCEPT ![w] = setting]
    /\ UNCHANGED <<polling_worker, stop, setting, call, old, terminated>>

(* Defect: the loop keeps the interval and forgets the revision.           *)
WaitBegin_IntervalOnly(w) ==
    /\ Step(w, "lock", IF stop[w] THEN "check" ELSE "asleep")
    /\ seen' = [seen EXCEPT ![w] = [interval |-> setting.interval]]
    /\ UNCHANGED <<polling_worker, stop, setting, call, old, terminated>>

(* Lines 358-362: under the lock the loop reads the setting and either     *)
(* finds the stop or releases the lock and sleeps, in one step.            *)
WaitBegin(w) ==
    /\ Step(w, "lock", IF stop[w] THEN "check" ELSE "asleep")
    /\ seen' = [seen EXCEPT ![w] = setting]
    /\ UNCHANGED <<polling_worker, stop, setting, call, old, terminated>>

Timeout(w) ==
    /\ Step(w, "asleep", "check")
    /\ UNCHANGED <<polling_worker, stop, setting, seen, call, old, terminated>>

(* Defect: the predicate of the wait compares the intervals.               *)
Wake_ComparesIntervals(w) ==
    /\ Step(w, "awake", IF stop[w] \/ setting.interval # seen[w].interval
                          THEN "check" ELSE "asleep")
    /\ UNCHANGED <<polling_worker, stop, setting, seen, call, old, terminated>>

Wake(w) ==
    /\ Step(w, "awake", IF stop[w] \/ setting.revision # seen[w].revision
                          THEN "check" ELSE "asleep")
    /\ UNCHANGED <<polling_worker, stop, setting, seen, call, old, terminated>>

--------------------------------------------------------------------------------

Return(t) == Notify(t) \/ Join(t) \/ SelfJoin(t)

Loop(w) == Check(w) \/ Request(w) \/ WaitBegin(w) \/ Wake(w)

Aborted == terminated /\ UNCHANGED vars

Next ==
    \/ \E t \in Threads :
        StartPolling(t) \/ StartPollingFails(t) \/ StopPolling(t) \/ Return(t)
    \/ \E w \in Pollers : Loop(w) \/ HandlerReturns(w) \/ Timeout(w)
    \/ Aborted

(* Threads inside the API and the loop keep being scheduled and handlers   *)
(* return (strongly fair: a call made by the handler delays its return).   *)
(* No fairness for Timeout: no property may wait for an interval to pass.  *)
Fairness ==
    /\ \A t \in Threads : WF_vars(Return(t))
    /\ \A w \in Pollers : WF_vars(Loop(w)) /\ SF_vars(HandlerReturns(w))

Spec == Init /\ [][Next]_vars /\ Fairness

--------------------------------------------------------------------------------
(* Every variable keeps its type.                                          *)
TypeOK ==
    /\ polling_worker \in Pollers \cup {None}
    /\ stop \in [Pollers -> BOOLEAN]
    /\ setting \in Settings
    /\ poller \in [Pollers -> {"unborn", "check", "request", "frame", "error",
                               "lock", "asleep", "awake", "done"}]
    /\ seen \in [Pollers -> Settings]
    /\ call \in [Threads -> {"idle", "notify", "join"}]
    /\ old \in [Threads -> Pollers \cup {None}]
    /\ terminated \in BOOLEAN

(* The only poller that has not been told to stop is the one the member    *)
(* owns: however start and stop calls interleave, frames are not polled    *)
(* twice, and no poller is out of reach of stop_async.                     *)
OnePoller == \A w \in Pollers : Live(w) /\ ~stop[w] => w = polling_worker

(* A poller that still runs is owned by the member or by exactly one       *)
(* start_polling_async call, which will not return before it has ended.    *)
NoOrphan ==
    \A w \in Pollers : Live(w) /\ w # polling_worker =>
        \E t \in Threads : /\ old[t] = w /\ call[t] # "idle"
                           /\ \A u \in Threads : old[u] = w => u = t

(* No lost wakeup: a poller sleeps on the setting in force, or a call that *)
(* changed it is on its way to notify_all; a stopped poller never sleeps.  *)
NoStaleSleep ==
    \A w \in Pollers : poller[w] = "asleep" =>
        /\ ~stop[w]
        /\ seen[w] = setting \/ \E t \in Threads : call[t] = "notify"

(* A stopped poller ends without waiting for its interval.                 *)
StopEndsPoller ==
    \A w \in Pollers : (stop[w] /\ Live(w)) ~> (poller[w] = "done" \/ terminated)

(* Each start_polling_async and stop_async returns, the calls that join an *)
(* old poller whose handler is itself inside a call included.              *)
StartPollingReturns ==
    \A t \in Threads : (call[t] # "idle") ~> (call[t] = "idle" \/ terminated)

(* tpc.hpp:94: "Starts polling frames or changes the interval of the       *)
(* running poller" holds for whoever calls: the call never has to join the *)
(* thread it runs on.                                                      *)
NoPollerJoinsItself == \A t \in Threads : old[t] # t

================================================================================
