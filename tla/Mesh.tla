-------------------------------- MODULE Mesh --------------------------------
(***************************************************************************)
(* What main/wifi_manager.c knows of the mesh it is part of: the parent,   *)
(* the layer and whether there is a link, kept by mesh_event_handler, and  *)
(* the DHCP client of the station interface, which the root runs.          *)
(*                                                                         *)
(* The mesh stack (esp_mesh) changes and posts an event for each change to *)
(* the default event loop, whose task calls the handler later, one event   *)
(* after the other.  An event holds data of the moment it was posted; what *)
(* the handler asks the stack for is of the moment it runs.                *)
(***************************************************************************)
EXTENDS Integers, Sequences

CONSTANTS
  Parents,      \* BSSIDs of routers and nodes
  NoParent,     \* the address before the first link, all zero
  MaxLayer,     \* CONFIG_MESH_MAX_LAYER
  OtherEvents,  \* events the stack posts that the handler only logs
  MaxEvents,    \* bound: events waiting in the loop
  MaxLinks      \* bound: links to a parent, one after the other

(* Children and the routing table.                                         *)
ChildEvents ==
  {"CHILD_CONNECTED", "CHILD_DISCONNECTED",
   "ROUTING_TABLE_ADD", "ROUTING_TABLE_REMOVE", "NO_PARENT_FOUND"}

(* The election of the root.                                               *)
RootEvents == {"ROOT_ADDRESS", "VOTE_STARTED", "VOTE_STOPPED", "ROOT_SWITCH_REQ"}

(* State of the network around; "UNKNOWN" is the default branch.           *)
NetworkEvents ==
  {"TODS_STATE", "ROOT_FIXED", "ROOT_ASKED_YIELD", "CHANNEL_SWITCH", "SCAN_DONE",
   "NETWORK_STATE", "STOP_RECONNECTION", "FIND_NETWORK", "ROUTER_SWITCH",
   "PS_PARENT_DUTY", "PS_CHILD_DUTY", "UNKNOWN"}

ASSUME MeshAssumption ==
  /\ MaxLayer \in Nat \ {0}
  /\ OtherEvents \subseteq ChildEvents \cup RootEvents \cup NetworkEvents
  /\ {MaxEvents, MaxLinks} \subseteq Nat

VARIABLES
  boot,               \* the step wifi_manager_task has come to
  events,             \* the event loop, oldest first
  stack,              \* the mesh stack
  links,              \* number of links so far, the last of them included
  is_mesh_connected,
  mesh_layer,
  mesh_parent_addr,
  dhcp                \* the link for which the DHCP client was last started

stackVars == <<stack, links>>
nodeVars  == <<is_mesh_connected, mesh_layer, mesh_parent_addr, dhcp>>
vars      == <<boot, events, stackVars, nodeVars>>

NoLayer == -1
Layers  == 1 .. MaxLayer

(* esp_mesh_is_root                                                        *)
IsRoot == stack.layer = 1

Event(type, layer, parent) == [type |-> type, layer |-> layer, parent |-> parent]
Notice(type) == Event(type, NoLayer, NoParent)

Init ==
  /\ boot = "netif"
  /\ events = <<>>
  /\ stack = [connected |-> FALSE, layer |-> NoLayer, parent |-> NoParent]
  /\ links = 0
  /\ is_mesh_connected = FALSE
  /\ mesh_layer = NoLayer
  /\ mesh_parent_addr = NoParent
  /\ dhcp = 0

----------------------------------------------------------------------------
(* wifi_manager_task.                                                      *)

(* The interfaces, with the DHCP client stopped, and the handlers.         *)
RegisterHandlers ==
  /\ boot = "netif"
  /\ boot' = "handlers"
  /\ UNCHANGED <<events, stackVars, nodeVars>>

Post(e) ==
  /\ Len(events) < MaxEvents
  /\ events' = Append(events, e)

(* esp_mesh_start                                                          *)
MeshStart ==
  /\ boot = "handlers"
  /\ boot' = "mesh"
  /\ Post(Notice("STARTED"))
  /\ UNCHANGED <<stackVars, nodeVars>>

----------------------------------------------------------------------------
(* The mesh stack.                                                         *)

StackStep(e) ==
  /\ boot = "mesh"
  /\ Post(e)
  /\ UNCHANGED nodeVars

(* The link to a parent; in layer 1 the parent is the router and this node *)
(* the root.                                                               *)
Linked ==
  /\ ~stack.connected
  /\ links < MaxLinks
  /\ links' = links + 1
  /\ \E layer \in Layers, parent \in Parents :
       /\ stack' = [connected |-> TRUE, layer |-> layer, parent |-> parent]
       /\ StackStep(Event("PARENT_CONNECTED", layer, parent))
  /\ UNCHANGED boot

(* The link is lost; a root may stay root while it looks for the router.   *)
LinkLost ==
  /\ stack.connected
  /\ \E layer \in {stack.layer, NoLayer} :
       stack' = [stack EXCEPT !.connected = FALSE, !.layer = layer]
  /\ StackStep(Notice("PARENT_DISCONNECTED"))
  /\ UNCHANGED <<boot, links>>

(* The parent moved to another layer, and this node with it.               *)
Moved ==
  /\ stack.connected /\ ~IsRoot
  /\ \E layer \in Layers \ {1, stack.layer} :
       /\ stack' = [stack EXCEPT !.layer = layer]
       /\ StackStep(Event("LAYER_CHANGE", layer, NoParent))
  /\ UNCHANGED <<boot, links>>

(* esp_mesh_stop, which nothing in main/ calls yet.                        *)
MeshStop ==
  /\ stack' = [stack EXCEPT !.connected = FALSE, !.layer = NoLayer]
  /\ StackStep(Notice("STOPPED"))
  /\ boot' = "stopped"
  /\ UNCHANGED links

(* What changes neither parent nor layer: the current root agreed to hand  *)
(* over, an address was leased, or anything else.                          *)
Noticed ==
  /\ \E type \in OtherEvents \cup {"ROOT_SWITCH_ACK", "GOT_IP"} :
       /\ type = "GOT_IP" => stack.connected /\ dhcp # 0
       /\ StackStep(Notice(type))
  /\ UNCHANGED <<boot, stackVars>>

StackNext == Linked \/ LinkLost \/ Moved \/ MeshStop \/ Noticed

----------------------------------------------------------------------------
(* The event loop: mesh_event_handler and wifi_event_handler.              *)

MeshStartedOrStopped(e) ==
  /\ e.type \in {"STARTED", "STOPPED"}
  /\ is_mesh_connected' = FALSE
  /\ mesh_layer' = stack.layer
  /\ UNCHANGED <<mesh_parent_addr, dhcp>>

(* Mutant: the flag is set for the root only.                              *)
ParentConnectedRootOnly(e) ==
  /\ e.type = "PARENT_CONNECTED"
  /\ mesh_layer' = e.layer
  /\ mesh_parent_addr' = e.parent
  /\ is_mesh_connected' = IF IsRoot THEN TRUE ELSE is_mesh_connected
  /\ dhcp' = IF IsRoot THEN links ELSE dhcp

(* Mutant: a node that was root before keeps the lease it has.             *)
ParentConnectedKeepsLease(e) ==
  /\ e.type = "PARENT_CONNECTED"
  /\ mesh_layer' = e.layer
  /\ mesh_parent_addr' = e.parent
  /\ is_mesh_connected' = TRUE
  /\ dhcp' = IF IsRoot /\ mesh_layer # 1 THEN links ELSE dhcp

(* The root starts its DHCP client anew with every link.                   *)
ParentConnected(e) ==
  /\ e.type = "PARENT_CONNECTED"
  /\ mesh_layer' = e.layer
  /\ mesh_parent_addr' = e.parent
  /\ is_mesh_connected' = TRUE
  /\ dhcp' = IF IsRoot THEN links ELSE dhcp

(* Mutant: the layer is not asked for again.                               *)
ParentDisconnectedKeepsLayer(e) ==
  /\ e.type = "PARENT_DISCONNECTED"
  /\ is_mesh_connected' = FALSE
  /\ UNCHANGED <<mesh_layer, mesh_parent_addr, dhcp>>

ParentDisconnected(e) ==
  /\ e.type = "PARENT_DISCONNECTED"
  /\ is_mesh_connected' = FALSE
  /\ mesh_layer' = stack.layer
  /\ UNCHANGED <<mesh_parent_addr, dhcp>>

(* Mutant: each change is taken for one layer down.                        *)
LayerChangeDown(e) ==
  /\ e.type = "LAYER_CHANGE"
  /\ mesh_layer' = mesh_layer + 1
  /\ UNCHANGED <<is_mesh_connected, mesh_parent_addr, dhcp>>

LayerChange(e) ==
  /\ e.type = "LAYER_CHANGE"
  /\ mesh_layer' = e.layer
  /\ UNCHANGED <<is_mesh_connected, mesh_parent_addr, dhcp>>

RootSwitchAck(e) ==
  /\ e.type = "ROOT_SWITCH_ACK"
  /\ mesh_layer' = stack.layer
  /\ mesh_parent_addr' = stack.parent
  /\ UNCHANGED <<is_mesh_connected, dhcp>>

(* The branches that only log.                                             *)
Logged(e) ==
  /\ e.type \in ChildEvents \cup RootEvents \cup NetworkEvents
  /\ UNCHANGED nodeVars

(* wifi_event_handler: it logs the address and the signal and resets a     *)
(* counter that nothing counts up.                                         *)
WifiEventHandler(e) ==
  /\ e.type = "GOT_IP"
  /\ UNCHANGED nodeVars

MeshEventHandler(e) ==
  \/ MeshStartedOrStopped(e)
  \/ ParentConnected(e)
  \/ ParentDisconnected(e)
  \/ LayerChange(e)
  \/ RootSwitchAck(e)
  \/ Logged(e)

HandleEvent ==
  /\ events # <<>>
  /\ MeshEventHandler(Head(events)) \/ WifiEventHandler(Head(events))
  /\ events' = Tail(events)
  /\ UNCHANGED <<boot, stackVars>>

Next ==
  \/ RegisterHandlers
  \/ MeshStart
  \/ StackNext
  \/ HandleEvent

Spec == Init /\ [][Next]_vars

(* The task of the event loop runs and the handlers return; the mesh may   *)
(* do as it likes.                                                         *)
FairSpec == Spec /\ WF_vars(HandleEvent)

----------------------------------------------------------------------------
EventTypes ==
  {"STARTED", "STOPPED", "PARENT_CONNECTED", "PARENT_DISCONNECTED", "LAYER_CHANGE",
   "ROOT_SWITCH_ACK", "GOT_IP"} \cup OtherEvents

(* Layers and addresses are those of the mesh, or none.                    *)
TypeOK ==
  /\ boot \in {"netif", "handlers", "mesh", "stopped"}
  /\ events \in Seq([type : EventTypes, layer : Layers \cup {NoLayer},
                     parent : Parents \cup {NoParent}])
  /\ stack \in [connected : BOOLEAN, layer : Layers \cup {NoLayer},
                parent : Parents \cup {NoParent}]
  /\ links \in Nat
  /\ is_mesh_connected \in BOOLEAN
  /\ mesh_layer \in Layers \cup {NoLayer}
  /\ mesh_parent_addr \in Parents \cup {NoParent}
  /\ dhcp \in 0..links

(* Whenever no event is waiting, the program knows the mesh as it is: the  *)
(* values that came with the events and those that were asked for when     *)
(* they were handled, long after the mesh had moved on, never leave a      *)
(* mixture behind.                                                         *)
SettledAgrees ==
  events = <<>> =>
    /\ is_mesh_connected = stack.connected
    /\ mesh_layer = stack.layer
    /\ stack.connected => mesh_parent_addr = stack.parent

(* A root that is linked to the router has started its DHCP client for     *)
(* this link, not for one before, when the link has been reported, though  *)
(* the handler asks whether the node is root only when it runs.            *)
RootHasFreshLease ==
  /\ stack.connected /\ IsRoot
  /\ \A i \in 1 .. Len(events) : events[i].type # "PARENT_CONNECTED"
  => dhcp = links

(* A link that lasts is known to the program in the end, whatever else the *)
(* mesh reports.                                                           *)
LinkIsReported ==
  \A n \in 1 .. MaxLinks :
    stack.connected /\ links = n
      ~> \/ is_mesh_connected /\ mesh_parent_addr = stack.parent
         \/ ~(stack.connected /\ links = n)
============================================================================
