------------------------------ MODULE EventHandler ------------------------------
(***************************************************************************)
(* utilities::event_handler: a registry of handlers, and the events that   *)
(* are raised to them.  An event runs its handlers on the thread that      *)
(* raises it, over a copy of the registry; a handler may itself subscribe, *)
(* unsubscribe, empty the registry or raise the event again, or throw.     *)
(* Each use of mutex_ is one action.                                       *)
(***************************************************************************)
EXTENDS Naturals, Sequences, FiniteSets

CONSTANTS Threads,
          Subscriptions,  \* the calls of subscribe ever made: a bound
          MaxDepth,       \* how deep events nest on a thread: a bound
          None

ASSUME EventAssumption ==
    /\ None \notin Subscriptions
    /\ MaxDepth \in Nat \ {0}

VARIABLES
    handlers,   \* handlers_: the subscription under each id in use
    next_id,    \* next_id_
    id,         \* the id that each subscription was given, or 0
    stack,      \* the events each thread is delivering, innermost last
    ask,        \* the call of the registry each thread is waiting to make
    standing,   \* history: subscriptions that were not ended since
    old,        \* history: subscriptions made before the last dispose
    stale       \* history: one of these was unsubscribed after that

vars == <<handlers, next_id, id, stack, ask, standing, old, stale>>

registry == <<handlers, next_id, id, standing, old, stale>>

(* An event in delivery: the handlers still to call, and whether one runs. *)
Events == [todo : SUBSET Subscriptions, running : BOOLEAN]

Requests == [what : {"unsubscribe"}, of : Subscriptions]
                \cup [what : {"subscribe", "release", "dispose", "raise"}, of : {None}]

New == {s \in Subscriptions : id[s] = 0}

Registered == {handlers[i] : i \in DOMAIN handlers}

Init ==
    /\ handlers = <<>>
    /\ next_id = 1
    /\ id = [s \in Subscriptions |-> 0]
    /\ stack = [t \in Threads |-> <<>>]
    /\ ask = [t \in Threads |-> None]
    /\ standing = {}
    /\ old = {}
    /\ stale = FALSE

--------------------------------------------------------------------------------

Top(t) == stack[t][Len(stack[t])]

(* A thread that is in a handler, or in none.                              *)
Free(t) ==
    /\ ask[t] = None
    /\ stack[t] # <<>> => Top(t).running

(* Defect: invoke calls the handlers under the lock.                       *)
Holds_WhileDelivering(t) == stack[t] # <<>>

(* Whether t holds mutex_ between two steps.                               *)
Holds(t) == FALSE

Ask(t) ==
    /\ Free(t)
    /\ \E r \in Requests :
        /\ r.what = "subscribe" =>
               Cardinality({u \in Threads : ask[u] = r}) < Cardinality(New)
        /\ r.what = "unsubscribe" => id[r.of] # 0
        /\ r.what = "raise" => Len(stack[t]) < MaxDepth
        /\ ask' = [ask EXCEPT ![t] = r]
    /\ UNCHANGED <<registry, stack>>

(* The lock is free: the call of t is made.                                *)
Call(t, what) ==
    /\ ask[t] # None
    /\ ask[t].what = what
    /\ \A u \in Threads : ~Holds(u)
    /\ ask' = [ask EXCEPT ![t] = None]

(* emplace leaves an entry that is there as it is.                         *)
subscribe(t) ==
    /\ Call(t, "subscribe")
    /\ \E s \in New :
        /\ id' = [id EXCEPT ![s] = next_id]
        /\ handlers' = [i \in DOMAIN handlers \cup {next_id} |->
                           IF i \in DOMAIN handlers THEN handlers[i] ELSE s]
        /\ standing' = standing \cup {s}
    /\ next_id' = next_id + 1
    /\ UNCHANGED <<stack, old, stale>>

unsubscribe(t) ==
    LET s == ask[t].of
    IN  /\ Call(t, "unsubscribe")
        /\ handlers' = [i \in DOMAIN handlers \ {id[s]} |-> handlers[i]]
        /\ standing' = standing \ {s}
        /\ stale' = (stale \/ s \in old)
        /\ UNCHANGED <<next_id, id, stack, old>>

(* Defect: the ids begin anew, as if nobody held one any more.             *)
release_ResetsIds(t) ==
    /\ Call(t, "release")
    /\ handlers' = <<>>
    /\ next_id' = 1
    /\ standing' = {}
    /\ UNCHANGED <<id, stack, old, stale>>

release(t) ==
    /\ Call(t, "release")
    /\ handlers' = <<>>
    /\ standing' = {}
    /\ UNCHANGED <<next_id, id, stack, old, stale>>

(* Defect: the first id is 0.                                              *)
dispose_Zero(t) ==
    /\ Call(t, "dispose")
    /\ handlers' = <<>>
    /\ next_id' = 0
    /\ standing' = {}
    /\ old' = {s \in Subscriptions : id[s] # 0}
    /\ UNCHANGED <<id, stack, stale>>

(* The ids begin anew.                                                     *)
dispose(t) ==
    /\ Call(t, "dispose")
    /\ handlers' = <<>>
    /\ next_id' = 1
    /\ standing' = {}
    /\ old' = {s \in Subscriptions : id[s] # 0}
    /\ UNCHANGED <<id, stack, stale>>

--------------------------------------------------------------------------------
(* invoke: a copy of the registry, then one handler after another.         *)

Snapshot(t) ==
    /\ Call(t, "raise")
    /\ stack' = [stack EXCEPT ![t] =
           Append(@, [todo |-> Registered, running |-> FALSE])]
    /\ UNCHANGED registry

Replace(t, event) == stack' = [stack EXCEPT ![t][Len(stack[t])] = event]
Pop(t) == stack' = [stack EXCEPT ![t] = SubSeq(@, 1, Len(@) - 1)]

CallHandler(t) ==
    /\ stack[t] # <<>> /\ ~Top(t).running
    /\ \E s \in Top(t).todo :
           Replace(t, [todo |-> Top(t).todo \ {s}, running |-> TRUE])
    /\ UNCHANGED <<registry, ask>>

(* The handler at this depth returns, its own calls made.                  *)
HandlerReturns(t, depth) ==
    /\ Len(stack[t]) = depth /\ stack[t] # <<>>
    /\ ask[t] = None
    /\ Top(t).running
    /\ Replace(t, [Top(t) EXCEPT !.running = FALSE])
    /\ UNCHANGED <<registry, ask>>

(* An exception ends the event; where this one was raised by a handler,    *)
(* that handler goes on or throws in its turn.                             *)
HandlerThrows(t) ==
    /\ stack[t] # <<>> /\ Top(t).running
    /\ ask[t] = None
    /\ Pop(t)
    /\ UNCHANGED <<registry, ask>>

Return(t) ==
    /\ stack[t] # <<>> /\ ~Top(t).running
    /\ Top(t).todo = {}
    /\ Pop(t)
    /\ UNCHANGED <<registry, ask>>

--------------------------------------------------------------------------------

Step(t) ==
    \/ subscribe(t) \/ unsubscribe(t) \/ release(t) \/ dispose(t)
    \/ Snapshot(t) \/ CallHandler(t) \/ Return(t)

Next ==
    \E t \in Threads :
        \/ Ask(t) \/ Step(t) \/ HandlerThrows(t)
        \/ \E depth \in 1..MaxDepth : HandlerReturns(t, depth)

(* Threads run, and each handler returns or throws, however many calls it  *)
(* makes before.                                                           *)
Fairness ==
    \A t \in Threads :
        /\ WF_vars(Step(t))
        /\ \A depth \in 1..MaxDepth : SF_vars(HandlerReturns(t, depth))

Spec == Init /\ [][Next]_vars /\ Fairness

--------------------------------------------------------------------------------
(* Every variable keeps its type.                                          *)
TypeOK ==
    /\ DOMAIN handlers \subseteq Nat \ {0}
    /\ Registered \subseteq Subscriptions
    /\ next_id \in Nat \ {0}
    /\ id \in [Subscriptions -> Nat]
    /\ stack \in [Threads -> Seq(Events)]
    /\ ask \in [Threads -> Requests \cup {None}]
    /\ standing \subseteq Subscriptions
    /\ old \subseteq Subscriptions
    /\ stale \in BOOLEAN

(* Exactly the subscriptions that nobody ended are registered: no call     *)
(* removes or displaces somebody else's handler or leaves one behind, as   *)
(* long as no id from before a dispose is used after it (lines 18-42).     *)
RegistryExact == ~stale => Registered = standing

(* Every handler that an event was raised to is called, unless an earlier  *)
(* one throws, whatever the handlers call meanwhile (lines 44-58).         *)
Owes(t, s) == \E k \in 1..Len(stack[t]) : s \in stack[t][k].todo

EventReachesAll ==
    \A t \in Threads, s \in Subscriptions : Owes(t, s) ~> ~Owes(t, s)
================================================================================
