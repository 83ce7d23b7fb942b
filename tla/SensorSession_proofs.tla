-------------------------- MODULE SensorSession_proofs --------------------------
(***************************************************************************)
(* Proofs about SensorSession, for any number of slots, nodes, readers and *)
(* sessions, any capacity and any address spaces.                          *)
(***************************************************************************)
EXTENDS SensorSession, TLAPS

(* A discovery that no slot answered badly has only talked to the session  *)
(* it began in, and has appended the channels of the slots it browsed.     *)
TableInv ==
    /\ \A d \in Discoveries : d > session => stage[d] = "none"
    /\ \A d \in Discoveries :
           stage[d] \in {"none", "root", "channels"} => found[d] = {}
    /\ \A d \in Discoveries : stage[d] # "none" /\ d \notin missed => sent[d] = d
    /\ \A d \in Discoveries : stage[d] = "slots" /\ d \notin missed =>
           found[d] = UNION {space[d][s] : s \in Slots \ todo[d]}
    /\ TableComplete

(* Where values can come from: items of a subscription that was answered.  *)
SourceInv ==
    /\ \A d \in Discoveries : d > session => stage[d] = "none"
    /\ \A d \in Discoveries, n \in Nodes :
           stage[d] \notin {"subscribed", "ended"} => item[d][n] = "none"
    /\ \A n \in Nodes : received[n] \leq session
    /\ \A r \in Readers, n \in Nodes : reading[r] # None => reading[r][n] \leq session
    /\ channels_info.of # 0 =>
           stage[channels_info.of] \in {"subscribe", "subscribed", "ended"}

(* Without an overlap the discovery under way is the present session's,    *)
(* and its items are those of the table it has published.                  *)
OneDiscovery ==
    \A d \in Discoveries :
        /\ InFlight(d) => d = session
        /\ sent[d] \in {0, d}
        /\ stage[d] = "subscribe" =>
               channels_info.of = d /\ node_ids \subseteq channels_info.nodes
        /\ d = session => \A n \in Nodes : item[d][n] \in {"asked", "live"} =>
               channels_info.of = d /\ n \in channels_info.nodes

--------------------------------------------------------------------------------
(* A slot's answer leaves the results of the discoveries well typed.       *)
LEMMA AppendTyped ==
    ASSUME TypeOK, up => session # 0,
           NEW d \in Discoveries, NEW s \in todo[d], Append(d, s)
    PROVE  /\ todo' \in [Discoveries -> SUBSET Slots]
           /\ found' \in [Discoveries -> SUBSET Nodes]
           /\ missed' \subseteq Discoveries
<1> USE DEF Append
<1>1. /\ todo \in [Discoveries -> SUBSET Slots]
      /\ found \in [Discoveries -> SUBSET Nodes]
      /\ missed \subseteq Discoveries
      /\ space \in [Discoveries -> Topologies]
      /\ session \in 0..MaxSession
  BY DEF TypeOK
<1>2. Good(d) => space[session][s] \subseteq Nodes
  <2> SUFFICES ASSUME Good(d)
               PROVE  space[session][s] \subseteq Nodes
    OBVIOUS
  <2>1. session \in Discoveries
    BY <1>1, SessionAssumption DEF Good, Discoveries
  <2>2. space[session] \in [Slots -> SUBSET Nodes]
    BY <2>1, <1>1, SessionAssumption
  <2>3. s \in Slots
    BY <1>1
  <2>4. QED
    BY <2>2, <2>3
<1>3. todo' \in [Discoveries -> SUBSET Slots]
  BY <1>1
<1>4. missed' \subseteq Discoveries
  BY <1>1
<1>5. found' \in [Discoveries -> SUBSET Nodes]
  <2>1. CASE Good(d) /\ found' = [found EXCEPT ![d] = @ \cup space[session][s]]
    BY <2>1, <1>1, <1>2
  <2>2. CASE UNCHANGED found
    BY <2>2, <1>1
  <2>3. QED
    BY <2>1, <2>2
<1>6. QED
  BY <1>3, <1>4, <1>5

(* Every variable of the session, the frame and the readers keeps its type.*)
THEOREM Typing == Spec => []TypeOK
<1> DEFINE Inv == TypeOK /\ (up => session # 0)
<1>1. Init => Inv
  <2> SUFFICES ASSUME Init
               PROVE  Inv
    OBVIOUS
  <2> USE SessionAssumption DEF Init, Discoveries, Values
  <2>1. channels_info \in [nodes : SUBSET Nodes, of : 0..MaxSession]
    OBVIOUS
  <2>2. received \in Values
    OBVIOUS
  <2>3. QED
    BY <2>1, <2>2 DEF TypeOK
<1>2. Inv /\ [Next]_vars => Inv'
  <2> SUFFICES ASSUME Inv, [Next]_vars
               PROVE  Inv'
    OBVIOUS
  <2> USE SessionAssumption DEF TypeOK, Discoveries, Values
  <2>1. CASE UNCHANGED vars
    BY <2>1 DEF vars, discovery, link, table, items
  <2>2. CASE Activate
    <3>1. /\ session \in Nat /\ session' = session + 1
          /\ session' \in Discoveries /\ session' \in 0..MaxSession
      BY <2>2 DEF Activate
    <3>2. /\ stage' = [stage EXCEPT ![session'] = "root"]
          /\ sent' = [sent EXCEPT ![session'] = session']
          /\ up' = TRUE /\ overlapped' \in BOOLEAN
          /\ UNCHANGED <<space, todo, found, missed, table, items, received, reading>>
      BY <2>2 DEF Activate
    <3>3. QED
      BY <3>1, <3>2 DEF table, items
  <2>3. CASE Lose
    BY <2>3 DEF Lose, discovery, link, table, items
  <2>4. ASSUME NEW d \in Discoveries, RootAnswered(d)
        PROVE  Inv'
    BY <2>4 DEF RootAnswered, Good, Ask, discovery, link, table, items
  <2>5. ASSUME NEW d \in Discoveries, ChannelsAnswered(d)
        PROVE  Inv'
    BY <2>5 DEF ChannelsAnswered, Good, Ask, discovery, link, table, items
  <2>6. ASSUME NEW d \in Discoveries, SlotAnswered(d)
        PROVE  Inv'
    <3>1. PICK s \in todo[d] : Append(d, s)
      BY <2>6 DEF SlotAnswered
    <3>2. /\ todo' \in [Discoveries -> SUBSET Slots]
          /\ found' \in [Discoveries -> SUBSET Nodes]
          /\ missed' \subseteq Discoveries
      BY <3>1, AppendTyped
    <3>3. /\ stage' = [stage EXCEPT ![d] = "slots"]
          /\ sent' \in [Discoveries -> 0..MaxSession]
          /\ UNCHANGED <<link, table, items, received, reading>>
      BY <2>6 DEF SlotAnswered, Ask
    <3>4. QED
      BY <3>2, <3>3 DEF link, table, items
  <2>7. ASSUME NEW d \in Discoveries, DiscoveryFails(d)
        PROVE  Inv'
    BY <2>7 DEF DiscoveryFails, discovery, link, table, items
  <2>8. ASSUME NEW d \in Discoveries, Publish(d)
        PROVE  Inv'
    <3>1. PICK s \in todo[d] : Append(d, s)
      BY <2>8 DEF Publish
    <3>2. /\ todo' \in [Discoveries -> SUBSET Slots]
          /\ found' \in [Discoveries -> SUBSET Nodes]
          /\ missed' \subseteq Discoveries
      BY <3>1, AppendTyped
    <3>3. /\ \/ stage' = [stage EXCEPT ![d] = "subscribe"]
             \/ stage' = [stage EXCEPT ![d] = "ended"]
          /\ \/ sent' = [sent EXCEPT ![d] = IF up THEN session ELSE 0]
             \/ UNCHANGED sent
          /\ UNCHANGED <<link, items, received, reading>>
      BY ONLY <2>8 DEF Publish, Ask
    <3>4. found'[d] \subseteq Nodes
      BY <3>2
    <3>5. /\ channels_info' \in [nodes : SUBSET Nodes, of : 0..MaxSession]
          /\ node_ids' \subseteq Nodes
      BY <2>8, <3>4 DEF Publish
    <3>6. stage' \in [Discoveries -> {"none", "root", "channels", "slots",
                                   "subscribe", "subscribed", "ended"}]
      <4>1. stage \in [Discoveries -> {"none", "root", "channels", "slots",
                                     "subscribe", "subscribed", "ended"}]
        OBVIOUS
      <4>2. QED
        BY ONLY <4>1, <3>3
    <3>7. sent' \in [Discoveries -> 0..MaxSession]
      <4>1. sent \in [Discoveries -> 0..MaxSession] /\ session \in 0..MaxSession
        OBVIOUS
      <4>2. QED
        BY ONLY <4>1, <3>3, SessionAssumption
    <3>8. UNCHANGED <<link, items, received, reading>>
      BY ONLY <3>3
    <3>9. QED
      BY <3>2, <3>5, <3>6, <3>7, <3>8 DEF link, items
  <2>9. ASSUME NEW d \in Discoveries, SubscriptionCreated(d)
        PROVE  Inv'
    BY <2>9 DEF SubscriptionCreated, Good, discovery, link, table, items
  <2>10. ASSUME NEW d \in Discoveries, SubscriptionFails(d)
        PROVE  Inv'
    BY <2>10 DEF SubscriptionFails, discovery, link, table, items
  <2>11. ASSUME NEW d \in Discoveries, SubscriptionDeleted(d)
        PROVE  Inv'
    BY <2>11 DEF SubscriptionDeleted, discovery, link, table, items
  <2>12. ASSUME NEW d \in Discoveries, NEW n \in Nodes, ItemCreated(d, n)
        PROVE  Inv'
    BY <2>12 DEF ItemCreated, Good, discovery, link, table, items
  <2>13. ASSUME NEW d \in Discoveries, NEW n \in Nodes, ItemFails(d, n)
        PROVE  Inv'
    BY <2>13 DEF ItemFails, discovery, link, table, items
  <2>14. ASSUME NEW d \in Discoveries, NEW n \in Nodes, DataReceived(d, n)
        PROVE  Inv'
    BY <2>14 DEF DataReceived, Good, discovery, link, table, items
  <2>15. ASSUME NEW r \in Readers, CopyValues(r)
        PROVE  Inv'
    BY <2>15 DEF CopyValues, discovery, link, table, items
  <2>16. ASSUME NEW r \in Readers, NameValues(r)
        PROVE  Inv'
    BY <2>16 DEF NameValues, discovery, link, table, items
  <2> QED
    BY <2>1, <2>2, <2>3, <2>4, <2>5, <2>6, <2>7, <2>8, <2>9, <2>10,
       <2>11, <2>12, <2>13, <2>14, <2>15, <2>16
    DEF Next, Discover, ItemAnswered
<1>3. QED
  BY <1>1, <1>2, PTL DEF Spec

(* A complete discovery's table is complete (client.hpp:165-187), whatever *)
(* the number of slots and of reconnections.                               *)
THEOREM TableCompleteHolds == Spec => []TableComplete
<1>1. Init => TableInv
  BY SessionAssumption DEF Init, TableInv, TableComplete, Discoveries
<1>2. TypeOK /\ TableInv /\ [Next]_vars => TableInv'
  <2> SUFFICES ASSUME TypeOK, TableInv, [Next]_vars
               PROVE  TableInv'
    OBVIOUS
  <2> USE SessionAssumption DEF TypeOK, TableInv, TableComplete, Discoveries, Channels
  <2>1. CASE UNCHANGED vars
    BY <2>1 DEF vars, discovery, link, table, items
  <2>2. CASE Activate
    BY <2>2 DEF Activate, discovery, link, table, items
  <2>3. CASE Lose
    BY <2>3 DEF Lose, discovery, link, table, items
  <2>4. ASSUME NEW d \in Discoveries, RootAnswered(d)
        PROVE  TableInv'
    BY <2>4 DEF RootAnswered, Good, Ask, discovery, link, table, items
  <2>5. ASSUME NEW d \in Discoveries, ChannelsAnswered(d)
        PROVE  TableInv'
    BY <2>5 DEF ChannelsAnswered, Good, Ask, discovery, link, table, items
  <2>6. ASSUME NEW d \in Discoveries, SlotAnswered(d)
        PROVE  TableInv'
    <3>1. PICK s \in todo[d] : Append(d, s)
      BY <2>6 DEF SlotAnswered
    <3>2. stage[d] = "slots" /\ stage' = stage
      BY <2>6 DEF SlotAnswered, Ask
    <3>3. /\ session' = session /\ space' = space /\ channels_info' = channels_info
          /\ missed \subseteq missed'
      BY <2>6, <3>1 DEF SlotAnswered, Append, link, table
    <3>4. \A e \in Discoveries \ {d} :
              /\ sent'[e] = sent[e]
              /\ todo'[e] = todo[e] /\ found'[e] = found[e]
      BY <2>6, <3>1 DEF SlotAnswered, Append, Ask
    <3>5. ASSUME d \notin missed'
          PROVE  /\ sent'[d] = d
                 /\ found'[d] = UNION {space[d][x] : x \in Slots \ todo'[d]}
      <4>1. session = d /\ Good(d)
        BY <3>1, <3>2, <3>5 DEF Append, Good
      <4>2. sent'[d] = d
        BY <2>6, <4>1 DEF SlotAnswered, Ask, Good
      <4>3. found'[d] = found[d] \cup space[d][s] /\ todo'[d] = todo[d] \ {s}
        BY <3>1, <3>5, <4>1 DEF Append
      <4>4. found[d] = UNION {space[d][x] : x \in Slots \ todo[d]} /\ s \in Slots
        BY <3>2, <3>3, <3>5
      <4>5. QED
        BY <4>2, <4>3, <4>4
    <3>6. TableComplete'
      BY <3>3
    <3>7. /\ \A e \in Discoveries : e > session' => stage'[e] = "none"
          /\ \A e \in Discoveries :
                 stage'[e] \in {"none", "root", "channels"} => found'[e] = {}
          /\ \A e \in Discoveries :
                 stage'[e] # "none" /\ e \notin missed' => sent'[e] = e
      BY <3>2, <3>3, <3>4, <3>5
    <3>8. ASSUME NEW e \in Discoveries, stage'[e] = "slots", e \notin missed'
          PROVE  found'[e] = UNION {space'[e][x] : x \in Slots \ todo'[e]}
      <4>1. CASE e = d
        BY <4>1, <3>3, <3>5, <3>8
      <4>2. CASE e # d
        BY <4>2, <3>2, <3>3, <3>4, <3>8
      <4>3. QED
        BY <4>1, <4>2
    <3>9. QED
      BY <3>6, <3>7, <3>8
  <2>7. ASSUME NEW d \in Discoveries, DiscoveryFails(d)
        PROVE  TableInv'
    BY <2>7 DEF DiscoveryFails, discovery, link, table, items
  <2>8. ASSUME NEW d \in Discoveries, Publish(d)
        PROVE  TableInv'
    <3>1. PICK s \in todo[d] : todo[d] = {s} /\ Append(d, s)
      BY <2>8 DEF Publish
    <3>2. stage[d] = "slots" /\ d \leq session
      <4>1. stage[d] = "slots"
        BY <2>8 DEF Publish
      <4>2. d \in Nat /\ session \in Nat /\ ~(d > session)
        BY <4>1
      <4>3. QED
        BY <4>1, <4>2
    <3>3. d \notin missed' => found'[d] = Channels(d)
      <4> SUFFICES ASSUME d \notin missed'
                   PROVE  found'[d] = Channels(d)
        OBVIOUS
      <4>1. session = d /\ found'[d] = found[d] \cup space[d][s]
        BY <3>1, <3>2 DEF Append, Good
      <4>2. found[d] = UNION {space[d][x] : x \in Slots \ {s}}
        BY <3>1, <3>2 DEF Append
      <4>3. QED
        BY <4>1, <4>2
    <3>4. TableComplete'
      BY <2>8, <3>3 DEF Publish, link
    <3>5. stage'[d] \in {"subscribe", "ended"} /\ missed \subseteq missed'
      BY <2>8 DEF Publish, Append, Ask
    <3>6. d \notin missed' => sent'[d] = d
      BY <2>8, <3>1, <3>2 DEF Publish, Append, Ask, Good
    <3>7. \A e \in Discoveries \ {d} :
              /\ stage'[e] = stage[e] /\ sent'[e] = sent[e]
              /\ todo'[e] = todo[e] /\ found'[e] = found[e]
      BY <2>8, <3>1 DEF Publish, Append, Ask
    <3>8. session' = session /\ space' = space
      BY <2>8 DEF Publish, link
    <3>9. /\ \A e \in Discoveries : e > session' => stage'[e] = "none"
          /\ \A e \in Discoveries :
                 stage'[e] \in {"none", "root", "channels"} => found'[e] = {}
          /\ \A e \in Discoveries :
                 stage'[e] # "none" /\ e \notin missed' => sent'[e] = e
      BY <3>2, <3>5, <3>6, <3>7, <3>8
    <3>10. ASSUME NEW e \in Discoveries, stage'[e] = "slots", e \notin missed'
           PROVE  found'[e] = UNION {space'[e][x] : x \in Slots \ todo'[e]}
      <4>1. e # d /\ e \notin missed /\ stage[e] = "slots"
        BY <3>5, <3>7, <3>10
      <4>2. QED
        BY <4>1, <3>7, <3>8
    <3>11. QED
      BY <3>4, <3>9, <3>10
  <2>9. ASSUME NEW d \in Discoveries, SubscriptionCreated(d)
        PROVE  TableInv'
    BY <2>9 DEF SubscriptionCreated, Good, discovery, link, table, items
  <2>10. ASSUME NEW d \in Discoveries, SubscriptionFails(d)
        PROVE  TableInv'
    BY <2>10 DEF SubscriptionFails, discovery, link, table, items
  <2>11. ASSUME NEW d \in Discoveries, SubscriptionDeleted(d)
        PROVE  TableInv'
    BY <2>11 DEF SubscriptionDeleted, discovery, link, table, items
  <2>12. ASSUME NEW d \in Discoveries, NEW n \in Nodes, ItemCreated(d, n)
        PROVE  TableInv'
    BY <2>12 DEF ItemCreated, Good, discovery, link, table, items
  <2>13. ASSUME NEW d \in Discoveries, NEW n \in Nodes, ItemFails(d, n)
        PROVE  TableInv'
    BY <2>13 DEF ItemFails, discovery, link, table, items
  <2>14. ASSUME NEW d \in Discoveries, NEW n \in Nodes, DataReceived(d, n)
        PROVE  TableInv'
    BY <2>14 DEF DataReceived, Good, discovery, link, table, items
  <2>15. ASSUME NEW r \in Readers, CopyValues(r)
        PROVE  TableInv'
    BY <2>15 DEF CopyValues, discovery, link, table, items
  <2>16. ASSUME NEW r \in Readers, NameValues(r)
        PROVE  TableInv'
    BY <2>16 DEF NameValues, discovery, link, table, items
  <2> QED
    BY <2>1, <2>2, <2>3, <2>4, <2>5, <2>6, <2>7, <2>8, <2>9, <2>10,
       <2>11, <2>12, <2>13, <2>14, <2>15, <2>16
    DEF Next, Discover, ItemAnswered
<1>3. QED
  BY Typing, <1>1, <1>2, PTL DEF Spec, TableInv

(* What can be shown of where values come from, whether discoveries        *)
(* overlap or not.                                                         *)
LEMMA Sources == Spec => []SourceInv
<1>1. Init => SourceInv
  BY SessionAssumption DEF Init, SourceInv, Discoveries
<1>2. TypeOK /\ SourceInv /\ [Next]_vars => SourceInv'
  <2> SUFFICES ASSUME TypeOK, SourceInv, [Next]_vars
               PROVE  SourceInv'
    OBVIOUS
  <2> USE SessionAssumption DEF TypeOK, SourceInv, Discoveries, Values
  <2>1. CASE UNCHANGED vars
    BY <2>1 DEF vars, discovery, link, table, items
  <2>2. CASE Activate
    BY <2>2 DEF Activate, discovery, link, table, items
  <2>3. CASE Lose
    BY <2>3 DEF Lose, discovery, link, table, items
  <2>4. ASSUME NEW d \in Discoveries, RootAnswered(d)
        PROVE  SourceInv'
    BY <2>4 DEF RootAnswered, Good, Ask, discovery, link, table, items
  <2>5. ASSUME NEW d \in Discoveries, ChannelsAnswered(d)
        PROVE  SourceInv'
    BY <2>5 DEF ChannelsAnswered, Good, Ask, discovery, link, table, items
  <2>6. ASSUME NEW d \in Discoveries, SlotAnswered(d)
        PROVE  SourceInv'
    BY <2>6 DEF SlotAnswered, Append, Good, Ask, discovery, link, table, items
  <2>7. ASSUME NEW d \in Discoveries, DiscoveryFails(d)
        PROVE  SourceInv'
    BY <2>7 DEF DiscoveryFails, discovery, link, table, items
  <2>8. ASSUME NEW d \in Discoveries, Publish(d)
        PROVE  SourceInv'
    <3>1. /\ stage[d] = "slots"
          /\ \/ stage' = [stage EXCEPT ![d] = "subscribe"]
             \/ stage' = [stage EXCEPT ![d] = "ended"]
          /\ channels_info'.of = d
          /\ UNCHANGED <<link, items, received, reading>>
      BY ONLY <2>8 DEF Publish, Ask
    <3>2. \A e \in Discoveries : IF e = d THEN stage'[e] \in {"subscribe", "ended"}
                                         ELSE stage'[e] = stage[e]
      BY <3>1
    <3>3. UNCHANGED <<session, item, received, reading>>
      BY <3>1 DEF link, items
    <3>4. \A e \in Discoveries : e > session' => stage'[e] = "none"
      BY <3>1, <3>2, <3>3
    <3>5. \A e \in Discoveries, n \in Nodes :
              stage'[e] \notin {"subscribed", "ended"} => item'[e][n] = "none"
      <4>1. stage[d] \notin {"subscribed", "ended"}
        BY <3>1
      <4>2. \A e \in Discoveries : stage'[e] \notin {"subscribed", "ended"} =>
                stage[e] \notin {"subscribed", "ended"}
        BY ONLY <3>2, <4>1
      <4>3. QED
        BY <4>2, <3>3
    <3>6. QED
      BY <3>1, <3>2, <3>3, <3>4, <3>5
  <2>9. ASSUME NEW d \in Discoveries, SubscriptionCreated(d)
        PROVE  SourceInv'
    BY <2>9 DEF SubscriptionCreated, Good, discovery, link, table, items
  <2>10. ASSUME NEW d \in Discoveries, SubscriptionFails(d)
        PROVE  SourceInv'
    BY <2>10 DEF SubscriptionFails, discovery, link, table, items
  <2>11. ASSUME NEW d \in Discoveries, SubscriptionDeleted(d)
        PROVE  SourceInv'
    BY <2>11 DEF SubscriptionDeleted, discovery, link, table, items
  <2>12. ASSUME NEW d \in Discoveries, NEW n \in Nodes, ItemCreated(d, n)
        PROVE  SourceInv'
    BY <2>12 DEF ItemCreated, Good, discovery, link, table, items
  <2>13. ASSUME NEW d \in Discoveries, NEW n \in Nodes, ItemFails(d, n)
        PROVE  SourceInv'
    BY <2>13 DEF ItemFails, discovery, link, table, items
  <2>14. ASSUME NEW d \in Discoveries, NEW n \in Nodes, DataReceived(d, n)
        PROVE  SourceInv'
    BY <2>14 DEF DataReceived, Good, discovery, link, table, items
  <2>15. ASSUME NEW r \in Readers, CopyValues(r)
        PROVE  SourceInv'
    BY <2>15 DEF CopyValues, discovery, link, table, items
  <2>16. ASSUME NEW r \in Readers, NameValues(r)
        PROVE  SourceInv'
    BY <2>16 DEF NameValues, discovery, link, table, items
  <2> QED
    BY <2>1, <2>2, <2>3, <2>4, <2>5, <2>6, <2>7, <2>8, <2>9, <2>10,
       <2>11, <2>12, <2>13, <2>14, <2>15, <2>16
    DEF Next, Discover, ItemAnswered
<1>3. QED
  BY Typing, <1>1, <1>2, PTL DEF Spec

(* While no two discoveries overlap there is one, the present session's.   *)
LEMMA Alone == Spec => [](~overlapped => OneDiscovery)
<1>1. Init => (~overlapped => OneDiscovery)
  BY SessionAssumption DEF Init, OneDiscovery, InFlight, Discoveries
<1>2. /\ TypeOK /\ SourceInv /\ (~overlapped => OneDiscovery) /\ [Next]_vars
      => (~overlapped => OneDiscovery)'
  <2> SUFFICES ASSUME TypeOK, SourceInv, ~overlapped => OneDiscovery, [Next]_vars,
                      ~overlapped'
               PROVE  OneDiscovery'
    OBVIOUS
  <2> USE SessionAssumption DEF TypeOK, SourceInv, OneDiscovery, InFlight, Discoveries
  <2>1. CASE UNCHANGED vars
    BY <2>1 DEF vars, discovery, link, table, items
  <2>2. CASE Activate
    <3>1. session' = session + 1 /\ session' \in Discoveries
      BY <2>2 DEF Activate
    <3>2. /\ ~overlapped
          /\ \A d \in Discoveries : ~InFlight(d)
      BY <2>2 DEF Activate
    <3>3. \A d \in Discoveries :
              d # session' => stage'[d] = stage[d] /\ sent'[d] = sent[d]
      BY <2>2 DEF Activate
    <3>4. stage'[session'] = "root" /\ sent'[session'] = session'
      BY <2>2, <3>1 DEF Activate
    <3>5. \A n \in Nodes : item'[session'][n] = "none"
      BY <2>2, <3>1 DEF Activate, items
    <3>6. QED
      BY <3>1, <3>2, <3>3, <3>4, <3>5
  <2>3. CASE Lose
    BY <2>3 DEF Lose, discovery, link, table, items
  <2>4. ASSUME NEW d \in Discoveries, RootAnswered(d)
        PROVE  OneDiscovery'
    BY <2>4 DEF RootAnswered, Good, Ask, discovery, link, table, items
  <2>5. ASSUME NEW d \in Discoveries, ChannelsAnswered(d)
        PROVE  OneDiscovery'
    BY <2>5 DEF ChannelsAnswered, Good, Ask, discovery, link, table, items
  <2>6. ASSUME NEW d \in Discoveries, SlotAnswered(d)
        PROVE  OneDiscovery'
    BY <2>6 DEF SlotAnswered, Append, Good, Ask, discovery, link, table, items
  <2>7. ASSUME NEW d \in Discoveries, DiscoveryFails(d)
        PROVE  OneDiscovery'
    BY <2>7 DEF DiscoveryFails, discovery, link, table, items
  <2>8. ASSUME NEW d \in Discoveries, Publish(d)
        PROVE  OneDiscovery'
    BY <2>8 DEF Publish, Append, Good, Ask, discovery, link, table, items
  <2>9. ASSUME NEW d \in Discoveries, SubscriptionCreated(d)
        PROVE  OneDiscovery'
    BY <2>9 DEF SubscriptionCreated, Good, discovery, link, table, items
  <2>10. ASSUME NEW d \in Discoveries, SubscriptionFails(d)
        PROVE  OneDiscovery'
    BY <2>10 DEF SubscriptionFails, discovery, link, table, items
  <2>11. ASSUME NEW d \in Discoveries, SubscriptionDeleted(d)
        PROVE  OneDiscovery'
    BY <2>11 DEF SubscriptionDeleted, discovery, link, table, items
  <2>12. ASSUME NEW d \in Discoveries, NEW n \in Nodes, ItemCreated(d, n)
        PROVE  OneDiscovery'
    BY <2>12 DEF ItemCreated, Good, discovery, link, table, items
  <2>13. ASSUME NEW d \in Discoveries, NEW n \in Nodes, ItemFails(d, n)
        PROVE  OneDiscovery'
    BY <2>13 DEF ItemFails, discovery, link, table, items
  <2>14. ASSUME NEW d \in Discoveries, NEW n \in Nodes, DataReceived(d, n)
        PROVE  OneDiscovery'
    BY <2>14 DEF DataReceived, Good, discovery, link, table, items
  <2>15. ASSUME NEW r \in Readers, CopyValues(r)
        PROVE  OneDiscovery'
    BY <2>15 DEF CopyValues, discovery, link, table, items
  <2>16. ASSUME NEW r \in Readers, NameValues(r)
        PROVE  OneDiscovery'
    BY <2>16 DEF NameValues, discovery, link, table, items
  <2> QED
    BY <2>1, <2>2, <2>3, <2>4, <2>5, <2>6, <2>7, <2>8, <2>9, <2>10,
       <2>11, <2>12, <2>13, <2>14, <2>15, <2>16
    DEF Next, Discover, ItemAnswered
<1>3. QED
  BY Typing, Sources, <1>1, <1>2, PTL DEF Spec

(* Without an overlap every value is named by the table, or older than it  *)
(* (client.cpp:127-142), for any readers and any capacity.                 *)
THEOREM ValuesNamedHolds == Spec => []ValuesNamed
<1>1. Init => ValuesNamed
  BY DEF Init, ValuesNamed, Named
<1>2. /\ TypeOK /\ SourceInv /\ (~overlapped => OneDiscovery) /\ ValuesNamed
      /\ [Next]_vars
      => ValuesNamed'
  <2> SUFFICES ASSUME TypeOK, SourceInv, ~overlapped => OneDiscovery, ValuesNamed,
                      [Next]_vars, ~overlapped'
               PROVE  /\ Named(received)'
                      /\ \A r \in Readers : (reading[r] # None => Named(reading[r]))'
    BY DEF ValuesNamed
  <2> DEFINE AllNamed == /\ Named(received)'
                         /\ \A r \in Readers : (reading[r] # None => Named(reading[r]))'
  <2> USE SessionAssumption DEF TypeOK, SourceInv, ValuesNamed, Named, Discoveries, Values
  <2>1. CASE UNCHANGED vars
    BY <2>1 DEF vars, discovery, link, table, items
  <2>2. CASE Activate
    BY <2>2 DEF Activate, discovery, link, table, items
  <2>3. CASE Lose
    BY <2>3 DEF Lose, discovery, link, table, items
  <2>4. ASSUME NEW d \in Discoveries, RootAnswered(d)
        PROVE  AllNamed
    BY <2>4 DEF RootAnswered, Good, Ask, discovery, link, table, items
  <2>5. ASSUME NEW d \in Discoveries, ChannelsAnswered(d)
        PROVE  AllNamed
    BY <2>5 DEF ChannelsAnswered, Good, Ask, discovery, link, table, items
  <2>6. ASSUME NEW d \in Discoveries, SlotAnswered(d)
        PROVE  AllNamed
    BY <2>6 DEF SlotAnswered, Append, Good, Ask, discovery, link, table, items
  <2>7. ASSUME NEW d \in Discoveries, DiscoveryFails(d)
        PROVE  AllNamed
    BY <2>7 DEF DiscoveryFails, discovery, link, table, items
  <2>8. ASSUME NEW d \in Discoveries, Publish(d)
        PROVE  AllNamed
    BY <2>8 DEF Publish, Append, Good, Ask, discovery, link, table, items, OneDiscovery, InFlight
  <2>9. ASSUME NEW d \in Discoveries, SubscriptionCreated(d)
        PROVE  AllNamed
    BY <2>9 DEF SubscriptionCreated, Good, discovery, link, table, items
  <2>10. ASSUME NEW d \in Discoveries, SubscriptionFails(d)
        PROVE  AllNamed
    BY <2>10 DEF SubscriptionFails, discovery, link, table, items
  <2>11. ASSUME NEW d \in Discoveries, SubscriptionDeleted(d)
        PROVE  AllNamed
    BY <2>11 DEF SubscriptionDeleted, discovery, link, table, items
  <2>12. ASSUME NEW d \in Discoveries, NEW n \in Nodes, ItemCreated(d, n)
        PROVE  AllNamed
    BY <2>12 DEF ItemCreated, Good, discovery, link, table, items
  <2>13. ASSUME NEW d \in Discoveries, NEW n \in Nodes, ItemFails(d, n)
        PROVE  AllNamed
    BY <2>13 DEF ItemFails, discovery, link, table, items
  <2>14. ASSUME NEW d \in Discoveries, NEW n \in Nodes, DataReceived(d, n)
        PROVE  AllNamed
    <3>1. /\ received' = [received EXCEPT ![n] = session]
          /\ UNCHANGED <<channels_info, reading>> /\ ~overlapped
          /\ stage[d] = "subscribed" /\ item[d][n] = "live" /\ sent[d] = session
      BY <2>14 DEF DataReceived, Good, discovery, link, table, items
    <3>2. d \in 1..MaxSession /\ session \in 0..MaxSession /\ ~(d > session)
      BY <3>1
    <3>3. d = session
      <4>1. sent[d] \in {0, d}
        BY <3>1 DEF OneDiscovery
      <4> QED
        BY ONLY <3>1, <3>2, <4>1, SessionAssumption
    <3>4. channels_info.of = session /\ n \in channels_info.nodes
      BY <3>1, <3>3 DEF OneDiscovery
    <3>5. received'[n] = session /\ \A m \in Nodes \ {n} : received'[m] = received[m]
      BY <3>1
    <3>6. Named(received)'
      BY <3>1, <3>4, <3>5
    <3> QED
      BY <3>1, <3>6
  <2>15. ASSUME NEW r \in Readers, CopyValues(r)
        PROVE  AllNamed
    BY <2>15 DEF CopyValues, discovery, link, table, items
  <2>16. ASSUME NEW r \in Readers, NameValues(r)
        PROVE  AllNamed
    BY <2>16 DEF NameValues, discovery, link, table, items
  <2> QED
    BY <2>1, <2>2, <2>3, <2>4, <2>5, <2>6, <2>7, <2>8, <2>9, <2>10,
       <2>11, <2>12, <2>13, <2>14, <2>15, <2>16
    DEF Next, Discover, ItemAnswered
<1>3. QED
  BY Typing, Sources, Alone, <1>1, <1>2, PTL DEF Spec

================================================================================
