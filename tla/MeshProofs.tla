----------------------------- MODULE MeshProofs -----------------------------
(***************************************************************************)
(* Proofs about Mesh, for any layers, parents and number of events.        *)
(*                                                                         *)
(* SettledAgrees speaks of an empty event loop only.  What holds at all    *)
(* times is that the newest waiting event that touches a variable will set *)
(* it to what the mesh is now, or, when no such event is waiting, that the *)
(* variable is right already: one invariant for each variable.             *)
(***************************************************************************)
EXTENDS Mesh, SequenceTheorems, TLAPS

FlagEvents   == {"STARTED", "STOPPED", "PARENT_CONNECTED", "PARENT_DISCONNECTED"}
LayerEvents  == FlagEvents \cup {"LAYER_CHANGE"}
ParentEvents == {"PARENT_CONNECTED"}

(* Event i is the newest of its kind.                                      *)
Newest(i, types) ==
  /\ i \in 1 .. Len(events)
  /\ events[i].type \in types
  /\ \A j \in 1 .. Len(events) : j > i => events[j].type \notin types

NoneWaits(types) == \A i \in 1 .. Len(events) : events[i].type \notin types

FlagInv ==
  \/ NoneWaits(FlagEvents) /\ is_mesh_connected = stack.connected
  \/ \E i \in 1 .. Len(events) :
       /\ Newest(i, FlagEvents)
       /\ stack.connected = (events[i].type = "PARENT_CONNECTED")

LayerInv ==
  \/ NoneWaits(LayerEvents) /\ mesh_layer = stack.layer
  \/ \E i \in 1 .. Len(events) :
       /\ Newest(i, LayerEvents)
       /\ events[i].type \in {"PARENT_CONNECTED", "LAYER_CHANGE"} =>
            events[i].layer = stack.layer

ParentInv ==
  stack.connected =>
    \/ NoneWaits(ParentEvents) /\ mesh_parent_addr = stack.parent
    \/ \E i \in 1 .. Len(events) :
         Newest(i, ParentEvents) /\ events[i].parent = stack.parent

BootInv == boot # "mesh" => ~stack.connected

MeshInv == TypeOK /\ BootInv /\ FlagInv /\ LayerInv /\ ParentInv /\ RootHasFreshLease

----------------------------------------------------------------------------
EventRecord ==
  [type : EventTypes, layer : Layers \cup {NoLayer}, parent : Parents \cup {NoParent}]

(* A posted event is the last, the others stay where they are.             *)
LEMMA Posted ==
  ASSUME events \in Seq(EventRecord), NEW e \in EventRecord, Post(e)
  PROVE  /\ events' \in Seq(EventRecord)
         /\ Len(events') = Len(events) + 1
         /\ events'[Len(events) + 1] = e
         /\ \A i \in 1 .. Len(events) : events'[i] = events[i]
BY DEF Post

(* When the first event is taken, the others move up.                      *)
LEMMA Taken ==
  ASSUME events \in Seq(EventRecord), events # <<>>, events' = Tail(events)
  PROVE  /\ events' \in Seq(EventRecord)
         /\ Len(events) \in Nat /\ Len(events) >= 1
         /\ Len(events') = Len(events) - 1
         /\ Head(events) = events[1] /\ events[1] \in EventRecord
         /\ \A i \in 1 .. Len(events') : events'[i] = events[i + 1]
BY HeadTailProperties, EmptySeq, LenProperties

(* An event of these types that is posted is the newest of them.           *)
LEMMA PostedNewest ==
  ASSUME events \in Seq(EventRecord), NEW e \in EventRecord, Post(e),
         NEW types, e.type \in types, NEW n, n = Len(events) + 1
  PROVE  Newest(n, types)' /\ n \in 1 .. Len(events') /\ events'[n] = e
<1>1. Len(events) \in Nat
  BY LenProperties
<1>2. Len(events') = n /\ events'[n] = e
  BY <1>1, Posted
<1> QED
  BY <1>1, <1>2 DEF Newest

(* An event of other types changes nothing about these.                    *)
LEMMA PostedOther ==
  ASSUME events \in Seq(EventRecord), NEW e \in EventRecord, Post(e),
         NEW types, e.type \notin types
  PROVE  /\ NoneWaits(types) => NoneWaits(types)'
         /\ \A i \in 1 .. Len(events) :
              Newest(i, types) => Newest(i, types)' /\ events'[i] = events[i]
         /\ 1 .. Len(events) \subseteq 1 .. Len(events')
<1>1. Len(events) \in Nat /\ Len(events') = Len(events) + 1
  BY LenProperties, Posted
<1>2. /\ events'[Len(events) + 1] = e
      /\ \A i \in 1 .. Len(events) : events'[i] = events[i]
  BY Posted
<1>3. \A i \in 1 .. Len(events') : i \in 1 .. Len(events) \/ i = Len(events) + 1
  BY <1>1
<1>4. NoneWaits(types) => NoneWaits(types)'
  BY <1>2, <1>3 DEF NoneWaits
<1>5. ASSUME NEW i \in 1 .. Len(events), Newest(i, types)
      PROVE  Newest(i, types)'
  BY <1>1, <1>2, <1>3, <1>5 DEF Newest
<1> QED
  BY <1>1, <1>2, <1>4, <1>5

(* When the event that is taken is not the newest of its kind, that one    *)
(* moves up; when it is, none of the kind is left.                         *)
LEMMA TakenNewest ==
  ASSUME events \in Seq(EventRecord), events # <<>>, events' = Tail(events),
         NEW types, NEW i \in 1 .. Len(events), Newest(i, types)
  PROVE  /\ i = 1 => NoneWaits(types)'
         /\ i # 1 => /\ i - 1 \in 1 .. Len(events')
                     /\ Newest(i - 1, types)'
                     /\ events'[i - 1] = events[i]
<1>1. /\ Len(events) \in Nat /\ Len(events') = Len(events) - 1
      /\ \A j \in 1 .. Len(events') : events'[j] = events[j + 1]
  BY Taken
<1>2. i = 1 => NoneWaits(types)'
  BY <1>1 DEF Newest, NoneWaits
<1>3. ASSUME i # 1
      PROVE  /\ i - 1 \in 1 .. Len(events')
             /\ Newest(i - 1, types)'
             /\ events'[i - 1] = events[i]
  <2>1. i - 1 \in 1 .. Len(events') /\ events'[i - 1] = events[i]
    BY <1>1, <1>3
  <2>2. ASSUME NEW j \in 1 .. Len(events'), j > i - 1
        PROVE  events'[j].type \notin types
    BY <1>1, <2>2 DEF Newest
  <2> QED
    BY <2>1, <2>2 DEF Newest
<1> QED
  BY <1>2, <1>3

(* None of a kind before, none after.                                      *)
LEMMA TakenNone ==
  ASSUME events \in Seq(EventRecord), events # <<>>, events' = Tail(events),
         NEW types, NoneWaits(types)
  PROVE  NoneWaits(types)' /\ events[1].type \notin types
<1>1. /\ Len(events) \in Nat /\ Len(events') = Len(events) - 1 /\ Len(events) >= 1
      /\ \A j \in 1 .. Len(events') : events'[j] = events[j + 1]
  BY Taken
<1> QED
  BY <1>1 DEF NoneWaits

----------------------------------------------------------------------------
(* The invariant at the start, when nothing waits and nothing is linked.   *)
LEMMA InitMeshInv == Init => MeshInv
<1> SUFFICES ASSUME Init PROVE MeshInv
  OBVIOUS
<1> USE DEF Init
<1>1. TypeOK
  <2>1. events \in Seq(EventRecord)
    BY EmptySeq
  <2>2. dhcp \in 0 .. links /\ links \in Nat
    OBVIOUS
  <2>3. stack \in [connected : BOOLEAN, layer : Layers \cup {NoLayer},
                   parent : Parents \cup {NoParent}]
    OBVIOUS
  <2> QED
    BY <2>1, <2>2, <2>3 DEF TypeOK, EventRecord
<1>2. 1 .. Len(events) = {}
  BY EmptySeq
<1>3. FlagInv /\ LayerInv
  <2>1. NoneWaits(FlagEvents) /\ NoneWaits(LayerEvents)
    BY <1>2 DEF NoneWaits
  <2>2. is_mesh_connected = stack.connected /\ mesh_layer = stack.layer
    OBVIOUS
  <2> QED
    BY <2>1, <2>2 DEF FlagInv, LayerInv
<1>4. BootInv /\ ParentInv /\ RootHasFreshLease
  BY DEF BootInv, ParentInv, RootHasFreshLease
<1> QED
  BY <1>1, <1>3, <1>4 DEF MeshInv

(* What the handlers make of an event, the queue left aside                *)
(* (mesh_event_handler).                                                   *)
LEMMA Handled ==
  ASSUME TypeOK, HandleEvent, NEW e, e = events[1]
  PROVE  /\ e \in EventRecord
         /\ is_mesh_connected' = IF e.type \in FlagEvents
                                   THEN e.type = "PARENT_CONNECTED"
                                   ELSE is_mesh_connected
         /\ e.type \in {"PARENT_CONNECTED", "LAYER_CHANGE"} => mesh_layer' = e.layer
         /\ e.type \in LayerEvents \ {"PARENT_CONNECTED", "LAYER_CHANGE"} =>
              mesh_layer' = stack.layer
         /\ e.type \notin LayerEvents => mesh_layer' \in {mesh_layer, stack.layer}
         /\ mesh_parent_addr' \in IF e.type = "PARENT_CONNECTED" THEN {e.parent}
                                     ELSE {mesh_parent_addr, stack.parent}
         /\ dhcp' = IF e.type = "PARENT_CONNECTED" /\ IsRoot THEN links ELSE dhcp
<1>1. Head(events) = e /\ e \in EventRecord
  BY Taken DEF TypeOK, EventRecord, HandleEvent
<1>2. MeshEventHandler(e) \/ WifiEventHandler(e)
  BY <1>1 DEF HandleEvent
<1> USE DEF FlagEvents, LayerEvents
<1>3. CASE MeshStartedOrStopped(e)
  BY <1>1, <1>3 DEF MeshStartedOrStopped
<1>4. CASE ParentConnected(e)
  BY <1>1, <1>4 DEF ParentConnected
<1>5. CASE ParentDisconnected(e)
  BY <1>1, <1>5 DEF ParentDisconnected
<1>6. CASE LayerChange(e)
  BY <1>1, <1>6 DEF LayerChange
<1>7. CASE RootSwitchAck(e)
  BY <1>1, <1>7 DEF RootSwitchAck
<1>8. CASE Logged(e)
  <2>1. e.type \notin LayerEvents
    BY <1>8 DEF Logged, ChildEvents, RootEvents, NetworkEvents
  <2> QED
    BY <1>1, <1>8, <2>1 DEF Logged, nodeVars
<1>9. CASE WifiEventHandler(e)
  BY <1>1, <1>9 DEF WifiEventHandler, nodeVars
<1> QED
  BY <1>2, <1>3, <1>4, <1>5, <1>6, <1>7, <1>8, <1>9 DEF MeshEventHandler

(* Handling an event preserves the invariant.                              *)
LEMMA HandleKeeps == ASSUME MeshInv, HandleEvent PROVE MeshInv'
<1> DEFINE e == events[1]
<1> USE DEF MeshInv
<1>1. /\ events \in Seq(EventRecord) /\ events # <<>> /\ events' = Tail(events)
      /\ boot' = boot /\ stack' = stack /\ links' = links
  BY DEF TypeOK, EventRecord, HandleEvent, stackVars
<1>2. events' \in Seq(EventRecord) /\ e \in EventRecord /\ Len(events) >= 1
  BY <1>1, Taken
<1>3. TypeOK'
  <2>1. stack.layer \in Layers \cup {NoLayer} /\ stack.parent \in Parents \cup {NoParent}
    BY DEF TypeOK
  <2>2. e.layer \in Layers \cup {NoLayer} /\ e.parent \in Parents \cup {NoParent}
    BY <1>2 DEF EventRecord
  <2>3. is_mesh_connected' \in BOOLEAN
    BY Handled DEF TypeOK
  <2>4. mesh_layer' \in Layers \cup {NoLayer}
    BY <2>1, <2>2, Handled DEF TypeOK, LayerEvents
  <2>5. mesh_parent_addr' \in Parents \cup {NoParent}
    BY <2>1, <2>2, Handled DEF TypeOK
  <2>6. dhcp' \in 0 .. links'
    BY <1>1, Handled DEF TypeOK
  <2> QED
    BY <1>1, <1>2, <2>3, <2>4, <2>5, <2>6 DEF TypeOK, EventRecord
<1>4. BootInv'
  BY <1>1 DEF BootInv
<1>5. FlagInv'
  <2>1. CASE NoneWaits(FlagEvents) /\ is_mesh_connected = stack.connected
    BY <1>1, <2>1, TakenNone, Handled DEF FlagInv
  <2>2. ASSUME NEW i \in 1 .. Len(events), Newest(i, FlagEvents),
               stack.connected = (events[i].type = "PARENT_CONNECTED")
        PROVE  FlagInv'
    <3>1. CASE i = 1
      <4>1. e.type \in FlagEvents
        BY <2>2, <3>1 DEF Newest
      <4> QED
        BY <1>1, <2>2, <3>1, <4>1, TakenNewest, Handled DEF FlagInv
    <3>2. CASE i # 1
      BY <1>1, <2>2, <3>2, TakenNewest DEF FlagInv
    <3> QED
      BY <3>1, <3>2
  <2> QED
    BY <2>1, <2>2 DEF FlagInv
<1>6. LayerInv'
  <2>1. CASE NoneWaits(LayerEvents) /\ mesh_layer = stack.layer
    BY <1>1, <2>1, TakenNone, Handled DEF LayerInv
  <2>2. ASSUME NEW i \in 1 .. Len(events), Newest(i, LayerEvents),
               events[i].type \in {"PARENT_CONNECTED", "LAYER_CHANGE"} =>
                 events[i].layer = stack.layer
        PROVE  LayerInv'
    <3>1. CASE i = 1
      <4>1. e.type \in LayerEvents
        BY <2>2, <3>1 DEF Newest
      <4> QED
        BY <1>1, <2>2, <3>1, <4>1, TakenNewest, Handled DEF LayerInv
    <3>2. CASE i # 1
      BY <1>1, <2>2, <3>2, TakenNewest DEF LayerInv
    <3> QED
      BY <3>1, <3>2
  <2> QED
    BY <2>1, <2>2 DEF LayerInv
<1>7. ParentInv'
  <2> SUFFICES ASSUME stack.connected
               PROVE  \/ NoneWaits(ParentEvents)' /\ mesh_parent_addr' = stack.parent
                      \/ \E i \in 1 .. Len(events') :
                           Newest(i, ParentEvents)' /\ events'[i].parent = stack.parent
    BY <1>1 DEF ParentInv
  <2>1. CASE NoneWaits(ParentEvents) /\ mesh_parent_addr = stack.parent
    BY <1>1, <2>1, TakenNone, Handled DEF ParentEvents
  <2>2. ASSUME NEW i \in 1 .. Len(events), Newest(i, ParentEvents),
               events[i].parent = stack.parent
        PROVE  \/ NoneWaits(ParentEvents)' /\ mesh_parent_addr' = stack.parent
               \/ \E k \in 1 .. Len(events') :
                    Newest(k, ParentEvents)' /\ events'[k].parent = stack.parent
    <3>1. CASE i = 1
      <4>1. e.type = "PARENT_CONNECTED"
        BY <2>2, <3>1 DEF Newest, ParentEvents
      <4> QED
        BY <1>1, <2>2, <3>1, <4>1, TakenNewest, Handled
    <3>2. CASE i # 1
      BY <1>1, <2>2, <3>2, TakenNewest
    <3> QED
      BY <3>1, <3>2
  <2> QED
    BY <2>1, <2>2 DEF ParentInv
<1>8. RootHasFreshLease'
  <2> SUFFICES ASSUME stack.connected, IsRoot,
                      \A i \in 1 .. Len(events') : events'[i].type # "PARENT_CONNECTED"
               PROVE  dhcp' = links
    BY <1>1 DEF RootHasFreshLease, IsRoot
  <2>1. CASE e.type = "PARENT_CONNECTED"
    BY <2>1, Handled
  <2>2. CASE e.type # "PARENT_CONNECTED"
    <3>1. ASSUME NEW i \in 1 .. Len(events), i # 1
          PROVE  i - 1 \in 1 .. Len(events') /\ events'[i - 1] = events[i]
      BY <1>1, <3>1, Taken
    <3>2. \A i \in 1 .. Len(events) : events[i].type # "PARENT_CONNECTED"
      BY <2>2, <3>1
    <3> QED
      BY <2>2, <3>2, Handled DEF RootHasFreshLease
  <2> QED
    BY <2>1, <2>2
<1> QED
  BY <1>3, <1>4, <1>5, <1>6, <1>7, <1>8

----------------------------------------------------------------------------
(* A change of the mesh that is posted with it: whatever the event does    *)
(* not report is as it was.                                                *)
LEMMA PostKeeps ==
  ASSUME MeshInv, NEW e \in EventRecord, Post(e), UNCHANGED nodeVars,
         \/ /\ e.type \in FlagEvents
            /\ stack'.connected = (e.type = "PARENT_CONNECTED")
         \/ /\ e.type \notin FlagEvents
            /\ stack'.connected = stack.connected,
         \/ /\ e.type \in LayerEvents
            /\ e.type \in {"PARENT_CONNECTED", "LAYER_CHANGE"} => e.layer = stack'.layer
         \/ /\ e.type \notin LayerEvents
            /\ stack'.layer = stack.layer,
         \/ e.type = "PARENT_CONNECTED" /\ e.parent = stack'.parent
         \/ e.type # "PARENT_CONNECTED" /\ stack'.parent = stack.parent,
         stack'.connected /\ stack'.layer = 1 =>
           \/ e.type = "PARENT_CONNECTED"
           \/ stack.connected /\ stack.layer = 1 /\ links' = links
  PROVE  FlagInv' /\ LayerInv' /\ ParentInv' /\ RootHasFreshLease'
<1> USE DEF MeshInv
<1> DEFINE n == Len(events) + 1
<1>1. events \in Seq(EventRecord)
  BY DEF TypeOK, EventRecord
<1>2. /\ is_mesh_connected' = is_mesh_connected /\ mesh_layer' = mesh_layer
      /\ mesh_parent_addr' = mesh_parent_addr /\ dhcp' = dhcp
  BY DEF nodeVars
<1>3. FlagInv'
  <2>1. CASE e.type \in FlagEvents
    <3>1. PICK k : k = n
      OBVIOUS
    <3>2. Newest(k, FlagEvents)' /\ k \in 1 .. Len(events') /\ events'[k] = e
      BY <1>1, <2>1, <3>1, PostedNewest
    <3> QED
      BY <2>1, <3>2 DEF FlagInv
  <2>2. CASE e.type \notin FlagEvents
    <3>1. stack'.connected = stack.connected
      BY <2>2
    <3>2. CASE NoneWaits(FlagEvents) /\ is_mesh_connected = stack.connected
      BY <1>1, <1>2, <2>2, <3>1, <3>2, PostedOther DEF FlagInv
    <3>3. CASE \E i \in 1 .. Len(events) :
                 /\ Newest(i, FlagEvents)
                 /\ stack.connected = (events[i].type = "PARENT_CONNECTED")
      BY <1>1, <2>2, <3>1, <3>3, PostedOther DEF FlagInv
    <3> QED
      BY <3>2, <3>3 DEF FlagInv
  <2> QED
    BY <2>1, <2>2
<1>4. LayerInv'
  <2>1. CASE e.type \in LayerEvents
    <3>1. PICK k : k = n
      OBVIOUS
    <3>2. Newest(k, LayerEvents)' /\ k \in 1 .. Len(events') /\ events'[k] = e
      BY <1>1, <2>1, <3>1, PostedNewest
    <3> QED
      BY <2>1, <3>2 DEF LayerInv
  <2>2. CASE e.type \notin LayerEvents
    <3>1. stack'.layer = stack.layer
      BY <2>2
    <3>2. CASE NoneWaits(LayerEvents) /\ mesh_layer = stack.layer
      BY <1>1, <1>2, <2>2, <3>1, <3>2, PostedOther DEF LayerInv
    <3>3. CASE \E i \in 1 .. Len(events) :
                 /\ Newest(i, LayerEvents)
                 /\ events[i].type \in {"PARENT_CONNECTED", "LAYER_CHANGE"} =>
                      events[i].layer = stack.layer
      BY <1>1, <2>2, <3>1, <3>3, PostedOther DEF LayerInv
    <3> QED
      BY <3>2, <3>3 DEF LayerInv
  <2> QED
    BY <2>1, <2>2
<1>5. ParentInv'
  <2>1. CASE e.type = "PARENT_CONNECTED"
    <3>1. PICK k : k = n
      OBVIOUS
    <3>2. Newest(k, ParentEvents)' /\ k \in 1 .. Len(events') /\ events'[k] = e
      BY <1>1, <2>1, <3>1, PostedNewest DEF ParentEvents
    <3> QED
      BY <2>1, <3>2 DEF ParentInv
  <2>2. CASE e.type # "PARENT_CONNECTED"
    <3>1. /\ stack'.parent = stack.parent
          /\ stack'.connected => stack.connected
          /\ e.type \notin ParentEvents
      BY <2>2 DEF ParentEvents
    <3>2. CASE ~stack.connected
      BY <3>1, <3>2 DEF ParentInv
    <3>3. CASE NoneWaits(ParentEvents) /\ mesh_parent_addr = stack.parent
      BY <1>1, <1>2, <3>1, <3>3, PostedOther DEF ParentInv
    <3>4. CASE \E i \in 1 .. Len(events) :
                 Newest(i, ParentEvents) /\ events[i].parent = stack.parent
      BY <1>1, <3>1, <3>4, PostedOther DEF ParentInv
    <3> QED
      BY <3>2, <3>3, <3>4 DEF ParentInv
  <2> QED
    BY <2>1, <2>2
<1>6. RootHasFreshLease'
  <2> SUFFICES ASSUME stack'.connected, stack'.layer = 1,
                      \A i \in 1 .. Len(events') : events'[i].type # "PARENT_CONNECTED"
               PROVE  dhcp' = links'
    BY DEF RootHasFreshLease, IsRoot
  <2>1. /\ Len(events) \in Nat /\ Len(events') = Len(events) + 1
        /\ events'[Len(events) + 1] = e
        /\ \A i \in 1 .. Len(events) : events'[i] = events[i]
    BY <1>1, Posted, LenProperties
  <2>2. e.type # "PARENT_CONNECTED"
    BY <2>1
  <2>3. \A i \in 1 .. Len(events) : events[i].type # "PARENT_CONNECTED"
    BY <2>1
  <2> QED
    BY <1>2, <2>2, <2>3 DEF RootHasFreshLease, IsRoot
<1> QED
  BY <1>3, <1>4, <1>5, <1>6

(* Every step of wifi_manager_task, of the mesh and of the event loop      *)
(* preserves the invariant.                                                *)
LEMMA NextMeshInv == MeshInv /\ [Next]_vars => MeshInv'
<1> SUFFICES ASSUME MeshInv, [Next]_vars PROVE MeshInv'
  OBVIOUS
<1> USE DEF MeshInv
<1>1. /\ events \in Seq(EventRecord) /\ links \in Nat /\ dhcp \in 0 .. links
      /\ stack \in [connected : BOOLEAN, layer : Layers \cup {NoLayer},
                    parent : Parents \cup {NoParent}]
      /\ is_mesh_connected \in BOOLEAN
      /\ mesh_layer \in Layers \cup {NoLayer}
      /\ mesh_parent_addr \in Parents \cup {NoParent}
      /\ boot \in {"netif", "handlers", "mesh", "stopped"}
  BY DEF TypeOK, EventRecord
<1>2. \A type \in EventTypes : Notice(type) \in EventRecord /\ Notice(type).type = type
  BY DEF Notice, Event, EventRecord
<1>3. /\ {"STARTED", "STOPPED", "PARENT_CONNECTED", "PARENT_DISCONNECTED", "LAYER_CHANGE",
          "ROOT_SWITCH_ACK", "GOT_IP"} \subseteq EventTypes
      /\ OtherEvents \subseteq EventTypes
  BY DEF EventTypes
<1>4. \A e \in EventRecord : Post(e) => events' \in Seq(EventRecord)
  BY <1>1, Posted
<1>5. UNCHANGED nodeVars => /\ is_mesh_connected' = is_mesh_connected
                            /\ mesh_layer' = mesh_layer
                            /\ mesh_parent_addr' = mesh_parent_addr /\ dhcp' = dhcp
  BY DEF nodeVars
<1>6. ASSUME UNCHANGED <<events, stackVars, nodeVars>>,
             (boot' = "handlers" /\ boot = "netif") \/ boot' = boot
      PROVE  MeshInv'
  <2> USE DEF Newest, NoneWaits, stackVars, nodeVars
  <2>1. TypeOK' /\ BootInv'
    BY <1>6 DEF TypeOK, BootInv
  <2>2. FlagInv'
    BY <1>6 DEF FlagInv
  <2>3. LayerInv'
    BY <1>6 DEF LayerInv
  <2>4. ParentInv' /\ RootHasFreshLease'
    BY <1>6 DEF ParentInv, RootHasFreshLease, IsRoot
  <2> QED
    BY <2>1, <2>2, <2>3, <2>4
<1>7. ASSUME MeshStart PROVE MeshInv'
  <2>1. /\ Post(Notice("STARTED")) /\ UNCHANGED nodeVars
        /\ stack' = stack /\ links' = links /\ boot = "handlers" /\ boot' = "mesh"
    BY <1>7 DEF MeshStart, stackVars
  <2>2. ~stack.connected
    BY <2>1 DEF BootInv
  <2>3. TypeOK' /\ BootInv'
    BY <1>1, <1>2, <1>3, <1>4, <1>5, <2>1 DEF TypeOK, EventRecord, BootInv
  <2> QED
    BY <1>1, <1>2, <1>3, <2>1, <2>2, <2>3, PostKeeps DEF FlagEvents, LayerEvents
<1>8. ASSUME Linked PROVE MeshInv'
  <2>1. PICK layer \in Layers, parent \in Parents :
          /\ stack' = [connected |-> TRUE, layer |-> layer, parent |-> parent]
          /\ StackStep(Event("PARENT_CONNECTED", layer, parent))
    BY <1>8 DEF Linked
  <2> DEFINE e == Event("PARENT_CONNECTED", layer, parent)
  <2>2. e \in EventRecord /\ e.type = "PARENT_CONNECTED"
        /\ e.layer = layer /\ e.parent = parent
    BY <1>3 DEF EventRecord, Event
  <2>3. Post(e) /\ UNCHANGED nodeVars /\ boot = "mesh" /\ boot' = boot /\ links' = links + 1
    BY <1>8, <2>1 DEF Linked, StackStep
  <2>4. TypeOK' /\ BootInv'
    <3>1. dhcp' \in 0 .. links' /\ links' \in Nat
      BY <1>1, <1>5, <2>3
    <3> QED
      BY <1>1, <1>4, <1>5, <2>1, <2>2, <2>3, <3>1 DEF TypeOK, EventRecord, BootInv
  <2> HIDE DEF e
  <2>5. stack'.connected = TRUE /\ stack'.layer = layer /\ stack'.parent = parent
    BY <2>1
  <2> QED
    BY <2>2, <2>3, <2>4, <2>5, PostKeeps DEF FlagEvents, LayerEvents
<1>9. ASSUME LinkLost PROVE MeshInv'
  <2>1. PICK layer \in {stack.layer, NoLayer} :
          stack' = [stack EXCEPT !.connected = FALSE, !.layer = layer]
    BY <1>9 DEF LinkLost
  <2>2. /\ Post(Notice("PARENT_DISCONNECTED")) /\ UNCHANGED nodeVars
        /\ boot = "mesh" /\ boot' = boot /\ links' = links
    BY <1>9 DEF LinkLost, StackStep
  <2>3. stack'.connected = FALSE /\ stack'.parent = stack.parent
    BY <1>1, <2>1
  <2>4. TypeOK' /\ BootInv'
    BY <1>1, <1>2, <1>3, <1>4, <1>5, <2>1, <2>2 DEF TypeOK, EventRecord, BootInv
  <2> QED
    BY <1>2, <1>3, <2>2, <2>3, <2>4, PostKeeps DEF FlagEvents, LayerEvents
<1>10. ASSUME Moved PROVE MeshInv'
  <2>1. PICK layer \in Layers \ {1, stack.layer} :
          /\ stack' = [stack EXCEPT !.layer = layer]
          /\ StackStep(Event("LAYER_CHANGE", layer, NoParent))
    BY <1>10 DEF Moved
  <2> DEFINE e == Event("LAYER_CHANGE", layer, NoParent)
  <2>2. e \in EventRecord /\ e.type = "LAYER_CHANGE" /\ e.layer = layer
    BY <1>3 DEF EventRecord, Event
  <2>3. Post(e) /\ UNCHANGED nodeVars /\ boot = "mesh" /\ boot' = boot /\ links' = links
    BY <1>10, <2>1 DEF Moved, StackStep
  <2>4. /\ stack'.connected = stack.connected /\ stack'.parent = stack.parent
        /\ stack'.layer = layer /\ layer # 1
    BY <1>1, <2>1
  <2>5. TypeOK' /\ BootInv'
    BY <1>1, <1>4, <1>5, <2>1, <2>2, <2>3 DEF TypeOK, EventRecord, BootInv
  <2> HIDE DEF e
  <2> QED
    BY <2>2, <2>3, <2>4, <2>5, PostKeeps DEF FlagEvents, LayerEvents
<1>11. ASSUME MeshStop PROVE MeshInv'
  <2>1. /\ Post(Notice("STOPPED")) /\ UNCHANGED nodeVars
        /\ boot' = "stopped" /\ links' = links
        /\ stack' = [stack EXCEPT !.connected = FALSE, !.layer = NoLayer]
    BY <1>11 DEF MeshStop, StackStep
  <2>2. stack'.connected = FALSE /\ stack'.parent = stack.parent
    BY <1>1, <2>1
  <2>3. TypeOK' /\ BootInv'
    BY <1>1, <1>2, <1>3, <1>4, <1>5, <2>1 DEF TypeOK, EventRecord, BootInv
  <2> QED
    BY <1>2, <1>3, <2>1, <2>2, <2>3, PostKeeps DEF FlagEvents, LayerEvents
<1>12. ASSUME Noticed PROVE MeshInv'
  <2>1. PICK type \in OtherEvents \cup {"ROOT_SWITCH_ACK", "GOT_IP"} :
          Post(Notice(type)) /\ UNCHANGED nodeVars /\ boot = "mesh"
    BY <1>12 DEF Noticed, StackStep
  <2>2. stack' = stack /\ links' = links /\ boot' = boot
    BY <1>12 DEF Noticed, stackVars
  <2>3. type \in EventTypes
    BY <1>3
  <2>4. type \notin LayerEvents /\ type \notin FlagEvents /\ type # "PARENT_CONNECTED"
    BY MeshAssumption
    DEF FlagEvents, LayerEvents, ChildEvents, RootEvents, NetworkEvents
  <2>5. TypeOK' /\ BootInv'
    BY <1>1, <1>2, <1>4, <1>5, <2>1, <2>2, <2>3 DEF TypeOK, EventRecord, BootInv
  <2> QED
    BY <1>2, <2>1, <2>2, <2>3, <2>4, <2>5, PostKeeps
<1> QED
  BY <1>6, <1>7, <1>8, <1>9, <1>10, <1>11, <1>12, HandleKeeps
  DEF Next, RegisterHandlers, StackNext, vars

(* The invariant holds throughout.                                         *)
LEMMA MeshInvariant == Spec => []MeshInv
BY InitMeshInv, NextMeshInv, PTL DEF Spec

(* Layers and addresses are those of the mesh, or none: mesh_event_handler *)
(* stores nothing else.                                                    *)
THEOREM TypeCorrect == Spec => []TypeOK
<1>1. MeshInv => TypeOK
  BY DEF MeshInv
<1> QED
  BY <1>1, MeshInvariant, PTL

(* Whenever no event waits, mesh_event_handler has left the flag, the      *)
(* layer and the parent as they are in the mesh, for any number of events  *)
(* that waited and whatever they were.                                     *)
THEOREM SettledAlwaysAgrees == Spec => []SettledAgrees
<1>1. MeshInv => SettledAgrees
  <2> SUFFICES ASSUME MeshInv, events = <<>>
               PROVE  /\ is_mesh_connected = stack.connected
                      /\ mesh_layer = stack.layer
                      /\ stack.connected => mesh_parent_addr = stack.parent
    BY DEF SettledAgrees
  <2>1. 1 .. Len(events) = {}
    BY EmptySeq
  <2> QED
    BY <2>1 DEF MeshInv, FlagInv, LayerInv, ParentInv
<1> QED
  BY <1>1, MeshInvariant, PTL

(* A linked root whose links were all reported has started its DHCP client *)
(* for this link (MESH_EVENT_PARENT_CONNECTED).                            *)
THEOREM RootAlwaysHasFreshLease == Spec => []RootHasFreshLease
<1>1. MeshInv => RootHasFreshLease
  BY DEF MeshInv
<1> QED
  BY <1>1, MeshInvariant, PTL
=============================================================================
