----------------------------- MODULE SensorSession -----------------------------
(***************************************************************************)
(* What tpc::system::client::Client does with an OPC UA session: each      *)
(* activation starts a discovery, a coroutine that browses the server for  *)
(* channels, publishes the channel table and subscribes to its nodes; the  *)
(* values then arrive in FrameReceiver, and get_frame hands them out under *)
(* their names.                                                            *)
(*                                                                         *)
(* A callback of the client is one action: they all run on its one thread. *)
(* get_frame runs on any thread, under two locks one after the other.  A   *)
(* discovery has the number of the session that started it.  A request is  *)
(* answered well only within the session it was sent in, and badly at any  *)
(* time: the stack answers it so when it times out or the session ends.    *)
(* Every activation is that of a new session, which has none of the        *)
(* subscriptions before it; a session that is activated once more and      *)
(* keeps its subscription is left out.                                     *)
(***************************************************************************)
EXTENDS Naturals, FiniteSets

CONSTANTS Slots,        \* the "Slot ..." objects of the server
          Nodes,        \* the channels, each with a name of its own
          Topologies,   \* address spaces: the channels below each slot
          Capacity,     \* FrameReceiver's capacity_
          MaxSession,   \* bounds the activations
          Readers,      \* threads that call get_frame
          None

ASSUME SessionAssumption ==
    /\ Topologies \subseteq [Slots -> SUBSET Nodes]
    /\ Capacity \in Nat
    /\ MaxSession \in Nat
    /\ None \notin [Nodes -> 0..MaxSession]

Discoveries == 1..MaxSession
Values      == [Nodes -> 0..MaxSession]

VARIABLES
    session,             \* number of the last session activated
    up,                  \* whether it still is
    space,               \* the address space of each session
    stage,               \* what each discovery waits for
    sent,                \* the session its last request went to, 0 for none
    todo,                \* the slots it still has to browse
    found,               \* its result: the channels appended so far
    missed,              \* history: the discoveries with a bad slot answer
    overlapped,          \* history: two discoveries were under way at once
    channels_info,       \* its nodes, and the discovery they are from
    node_ids,            \* node_ids_ of the Subscription
    subscription_id,     \* subscription_id_, named by its discovery, or None
    monitored_item_ids,  \* monitored_item_ids_: <<discovery, node>> pairs
    item,                \* the monitored items of each subscription
    received,            \* received_: the session of each node's value, or 0
    reading              \* the values a get_frame has copied, or None

discovery == <<stage, sent, todo, found, missed>>
link      == <<session, up, space, overlapped>>
table     == <<channels_info, node_ids>>
items     == <<subscription_id, monitored_item_ids, item>>
vars      == <<discovery, link, table, items, received, reading>>

--------------------------------------------------------------------------------

InFlight(d) == stage[d] \in {"root", "channels", "slots", "subscribe"}

(* The channels of the server in session d, and the end of a request sent  *)
(* in the present session that the server answers well.                    *)
Channels(d) == UNION {space[d][s] : s \in Slots}
Good(d)     == up /\ sent[d] = session

Init ==
    /\ session = 0
    /\ up = FALSE
    /\ space \in [Discoveries -> Topologies]
    /\ stage = [d \in Discoveries |-> "none"]
    /\ sent = [d \in Discoveries |-> 0]
    /\ todo = [d \in Discoveries |-> {}]
    /\ found = [d \in Discoveries |-> {}]
    /\ missed = {}
    /\ overlapped = FALSE
    /\ channels_info = [nodes |-> {}, of |-> 0]
    /\ node_ids = {}
    /\ subscription_id = None
    /\ monitored_item_ids = {}
    /\ item = [d \in Discoveries |-> [n \in Nodes |-> "none"]]
    /\ received = [n \in Nodes |-> 0]
    /\ reading = [r \in Readers |-> None]

--------------------------------------------------------------------------------
(* The session.  An activation browses the root folder at once.            *)

Activate ==
    /\ ~up
    /\ session < MaxSession
    /\ session' = session + 1
    /\ up' = TRUE
    /\ overlapped' = (overlapped \/ \E d \in Discoveries : InFlight(d))
    /\ stage' = [stage EXCEPT ![session'] = "root"]
    /\ sent' = [sent EXCEPT ![session'] = session']
    /\ UNCHANGED <<space, todo, found, missed, table, items, received, reading>>

Lose ==
    /\ up
    /\ up' = FALSE
    /\ UNCHANGED <<session, space, overlapped, discovery, table, items, received, reading>>

--------------------------------------------------------------------------------
(* discover_folders.  The status of a browse result is not looked at: a    *)
(* bad answer is a folder without references.                              *)

(* Discovery d goes on to stage st with a request, if the client is up to  *)
(* send it.                                                                *)
Ask(d, st) ==
    /\ stage' = [stage EXCEPT ![d] = st]
    /\ sent' = [sent EXCEPT ![d] = IF up THEN session ELSE 0]

RootAnswered(d) ==
    /\ stage[d] = "root"
    /\ Good(d)
    /\ Ask(d, "channels")
    /\ UNCHANGED <<todo, found, missed, link, table, items, received, reading>>

ChannelsAnswered(d) ==
    /\ stage[d] = "channels"
    /\ Good(d)
    /\ Ask(d, "slots")
    /\ todo' = [todo EXCEPT ![d] = Slots]
    /\ UNCHANGED <<found, missed, link, table, items, received, reading>>

(* Defect: each slot's channels replace those of the slots before.         *)
Append_Replaces(d, s) ==
    /\ todo' = [todo EXCEPT ![d] = @ \ {s}]
    /\ \/ /\ Good(d)
          /\ found' = [found EXCEPT ![d] = space[session][s]]
          /\ UNCHANGED missed
       \/ /\ missed' = missed \cup {d}
          /\ UNCHANGED found

(* A slot's answer appends its channels; a bad one appends nothing.        *)
Append(d, s) ==
    /\ todo' = [todo EXCEPT ![d] = @ \ {s}]
    /\ \/ /\ Good(d)
          /\ found' = [found EXCEPT ![d] = @ \cup space[session][s]]
          /\ UNCHANGED missed
       \/ /\ missed' = missed \cup {d}
          /\ UNCHANGED found

SlotAnswered(d) ==
    /\ stage[d] = "slots"
    /\ \E s \in todo[d] :
        /\ todo[d] # {s}
        /\ Append(d, s)
    /\ Ask(d, "slots")
    /\ UNCHANGED <<link, table, items, received, reading>>

(* Defect: a failed discovery begins again.                                *)
DiscoveryFails_Retries(d) ==
    /\ stage[d] \in {"root", "channels", "slots"}
    /\ stage[d] = "slots" => Cardinality(todo[d]) > 1
    /\ Ask(d, "root")
    /\ UNCHANGED <<todo, found, missed, link, table, items, received, reading>>

(* The target folder is not found, there are no slots, or the next browse  *)
(* throws: upon_error reports it and the discovery ends.                   *)
DiscoveryFails(d) ==
    /\ stage[d] \in {"root", "channels", "slots"}
    /\ stage[d] = "slots" => Cardinality(todo[d]) > 1
    /\ stage' = [stage EXCEPT ![d] = "ended"]
    /\ UNCHANGED <<sent, todo, found, missed, link, table, items, received, reading>>

(* Defect: the nodes of earlier discoveries stay in node_ids_.             *)
Publish_KeepsNodes(d) ==
    /\ stage[d] = "slots"
    /\ \E s \in todo[d] :
        /\ todo[d] = {s}
        /\ Append(d, s)
    /\ channels_info' = [nodes |-> found'[d], of |-> d]
    /\ node_ids' = node_ids \cup found'[d]
    /\ Ask(d, "subscribe")
    /\ UNCHANGED <<link, items, received, reading>>

(* The last slot: in the same callback the table is published and the      *)
(* subscription requested, unless an event handler or the request throws.  *)
Publish(d) ==
    /\ stage[d] = "slots"
    /\ \E s \in todo[d] :
        /\ todo[d] = {s}
        /\ Append(d, s)
    /\ channels_info' = [nodes |-> found'[d], of |-> d]
    /\ \/ /\ node_ids' = found'[d]
          /\ Ask(d, "subscribe")
       \/ /\ node_ids' \in {node_ids, found'[d]}
          /\ stage' = [stage EXCEPT ![d] = "ended"]
          /\ UNCHANGED sent
    /\ UNCHANGED <<link, items, received, reading>>

--------------------------------------------------------------------------------
(* Subscription.  A subscription has the name of its discovery; its        *)
(* session is the one its request was sent in.                             *)

(* create_monitored_items reads node_ids_ as it is now.  It stops at the   *)
(* first node whose request throws: the rest is refused.                   *)
SubscriptionCreated(d) ==
    /\ stage[d] = "subscribe"
    /\ Good(d)
    /\ stage' = [stage EXCEPT ![d] = "subscribed"]
    /\ subscription_id' = d
    /\ \E asked \in SUBSET node_ids :
        item' = [item EXCEPT ![d] =
                    [n \in Nodes |-> CASE n \in asked               -> "asked"
                                     [] n \in node_ids \ asked    -> "refused"
                                     [] OTHER                     -> "none"]]
    /\ UNCHANGED <<sent, todo, found, missed, link, table, monitored_item_ids,
                   received, reading>>

SubscriptionFails(d) ==
    /\ stage[d] = "subscribe"
    /\ stage' = [stage EXCEPT ![d] = "ended"]
    /\ UNCHANGED <<sent, todo, found, missed, link, table, items, received, reading>>

ItemCreated(d, n) ==
    /\ stage[d] = "subscribed"
    /\ item[d][n] = "asked"
    /\ Good(d)
    /\ n \in Channels(session)
    /\ item' = [item EXCEPT ![d][n] = "live"]
    /\ monitored_item_ids' = monitored_item_ids \cup {<<d, n>>}
    /\ UNCHANGED <<discovery, link, table, subscription_id, received, reading>>

ItemFails(d, n) ==
    /\ item[d][n] = "asked"
    /\ item' = [item EXCEPT ![d][n] = "refused"]
    /\ UNCHANGED <<discovery, link, table, subscription_id, monitored_item_ids,
                   received, reading>>

(* Defect: a stage that does not exist.                                    *)
SubscriptionDeleted_UnknownStage(d) ==
    /\ stage[d] = "subscribed"
    /\ stage' = [stage EXCEPT ![d] = "deleted"]
    /\ UNCHANGED <<sent, todo, found, missed, link, table, items, received, reading>>

(* The server or the stack deletes a subscription and its items; release   *)
(* forgets it if it is the one remembered.                                 *)
SubscriptionDeleted(d) ==
    /\ stage[d] = "subscribed"
    /\ stage' = [stage EXCEPT ![d] = "ended"]
    /\ item' = [item EXCEPT ![d] =
                   [n \in Nodes |-> IF @[n] = "live" THEN "none" ELSE @[n]]]
    /\ IF subscription_id = d
       THEN subscription_id' = None /\ monitored_item_ids' = {}
       ELSE UNCHANGED <<subscription_id, monitored_item_ids>>
    /\ UNCHANGED <<sent, todo, found, missed, link, table, received, reading>>

--------------------------------------------------------------------------------
(* FrameReceiver and get_frame.                                            *)

Full == Cardinality({n \in Nodes : received[n] # 0}) \geq Capacity

(* Defect: a full receiver also refuses the nodes that it holds.           *)
DataReceived_NoContains(d, n) ==
    /\ stage[d] = "subscribed"
    /\ item[d][n] = "live"
    /\ Good(d)
    /\ ~Full
    /\ received' = [received EXCEPT ![n] = session]
    /\ UNCHANGED <<discovery, link, table, items, reading>>

(* A value of node n for add_back.  A refused one, and an empty sample,    *)
(* change nothing (a warning).                                             *)
DataReceived(d, n) ==
    /\ stage[d] = "subscribed"
    /\ item[d][n] = "live"
    /\ Good(d)
    /\ received[n] # 0 \/ ~Full
    /\ received' = [received EXCEPT ![n] = session]
    /\ UNCHANGED <<discovery, link, table, items, reading>>

(* get_frame first copies the values; with none there is no frame.         *)
CopyValues(r) ==
    /\ reading[r] = None
    /\ \E n \in Nodes : received[n] # 0
    /\ reading' = [reading EXCEPT ![r] = received]
    /\ UNCHANGED <<discovery, link, table, items, received>>

(* Then it names them after the table of that moment and returns those the *)
(* table has a name for: a frame without values, perhaps.                  *)
NameValues(r) ==
    /\ reading[r] # None
    /\ reading' = [reading EXCEPT ![r] = None]
    /\ UNCHANGED <<discovery, link, table, items, received>>

--------------------------------------------------------------------------------

Discover(d) ==
    \/ RootAnswered(d) \/ ChannelsAnswered(d) \/ SlotAnswered(d)
    \/ DiscoveryFails(d) \/ Publish(d)
    \/ SubscriptionCreated(d) \/ SubscriptionFails(d)

ItemAnswered(d, n) == ItemCreated(d, n) \/ ItemFails(d, n)

Next ==
    \/ Activate \/ Lose
    \/ \E d \in Discoveries :
        \/ Discover(d) \/ SubscriptionDeleted(d)
        \/ \E n \in Nodes : ItemAnswered(d, n) \/ DataReceived(d, n)
    \/ \E r \in Readers : CopyValues(r) \/ NameValues(r)

(* Every request is answered in the end, well or badly, while the client   *)
(* iterates, and a live item reports at least once in a session that lasts.*)
Fairness ==
    \A d \in Discoveries :
        /\ WF_vars(Discover(d))
        /\ \A n \in Nodes :
            WF_vars(ItemAnswered(d, n)) /\ WF_vars(DataReceived(d, n))

Spec == Init /\ [][Next]_vars /\ Fairness

--------------------------------------------------------------------------------

TypeOK ==
    /\ session \in 0..MaxSession
    /\ up \in BOOLEAN
    /\ space \in [Discoveries -> Topologies]
    /\ stage \in [Discoveries -> {"none", "root", "channels", "slots",
                                  "subscribe", "subscribed", "ended"}]
    /\ sent \in [Discoveries -> 0..MaxSession]
    /\ todo \in [Discoveries -> SUBSET Slots]
    /\ found \in [Discoveries -> SUBSET Nodes]
    /\ missed \subseteq Discoveries
    /\ overlapped \in BOOLEAN
    /\ channels_info \in [nodes : SUBSET Nodes, of : 0..MaxSession]
    /\ node_ids \subseteq Nodes
    /\ subscription_id \in Discoveries \cup {None}
    /\ monitored_item_ids \subseteq Discoveries \X Nodes
    /\ item \in [Discoveries -> [Nodes -> {"none", "asked", "live", "refused"}]]
    /\ received \in Values
    /\ reading \in [Readers -> Values \cup {None}]

(* A table whose discovery had every slot answered well holds exactly the  *)
(* channels of the server in the session the discovery began in, whatever  *)
(* reconnections fell into it (client.hpp:165-187).                        *)
TableComplete ==
    LET d == channels_info.of
    IN  d # 0 /\ d \notin missed => channels_info.nodes = Channels(d)

(* Each of these values has its name in the table, or is older than it.    *)
Named(values) ==
    \A n \in Nodes : values[n] # 0 =>
        \/ values[n] = channels_info.of /\ n \in channels_info.nodes
        \/ values[n] < channels_info.of

(* Unless two discoveries were ever under way at once, the table can name  *)
(* every value but those of sessions before it, across any reconnections,  *)
(* in the receiver and in a copy that get_frame has yet to name: all that  *)
(* a frame may lack is what an earlier session has left                    *)
(* (client.hpp:127-132, subscription.cpp:72, client.cpp:127-142).          *)
ValuesNamed ==
    ~overlapped =>
        /\ Named(received)
        /\ \A r \in Readers : reading[r] # None => Named(reading[r])

(* Every discovery comes to an end: it fails, or it has a subscription     *)
(* (client.hpp:165-187, subscription.cpp:53-55).                           *)
DiscoveryEnds == \A d \in Discoveries : InFlight(d) ~> ~InFlight(d)

(* In a session that stays up, each channel whose discovery and item are   *)
(* spared failures is at last shown with a value of that session, unless   *)
(* it is new to a receiver that is full (frame_receiver.cpp:38).           *)
Spared(d, n) ==
    /\ up /\ session = d
    /\ ~overlapped
    /\ d \notin missed
    /\ stage[d] # "ended"
    /\ item[d][n] # "refused"

Shown(d, n) == received[n] = d \/ (received[n] = 0 /\ Full)

SensorsFlow ==
    \A d \in Discoveries, n \in Nodes :
        <>[](Spared(d, n) /\ n \in Channels(d)) => <>Shown(d, n)

================================================================================
