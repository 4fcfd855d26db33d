------------------------------ MODULE GraphOps ------------------------------
(***************************************************************************)
(* The data structure of hgraph/src/graph.c.  A graph is a record with the *)
(* fields of hgraph_s; the functions that change one are operators from    *)
(* graph to graph, so that modules holding several graphs can share them.  *)
(* A node lives in a slot and keeps one edge id per input pin and, per     *)
(* output pin, the head of a circular doubly linked list of edges; links   *)
(* are edge ids, and any id that is not live stands for the pin itself.    *)
(* Names, attributes and byte offsets are left out: they are payload that  *)
(* moves with the slot.                                                    *)
(***************************************************************************)
EXTENDS SlotMap, Sequences, FiniteSets

CONSTANTS MaxNodes,       \* config->max_nodes
          DataTypes,      \* the registered data types
          NodeTypes,      \* the registered node types
          InputTypes,     \* for each type, the data types of its input pins
          OutputTypes     \* for each type, the data types of its output pins

(* HGRAPH_MAX_PINS: a pin set is an int16_t bit set. *)
MaxPins == 16

ASSUME GraphAssumption ==
    /\ MaxNodes \in Nat
    /\ InputTypes \in [NodeTypes -> Seq(DataTypes)]
    /\ OutputTypes \in [NodeTypes -> Seq(DataTypes)]
    /\ \A t \in NodeTypes :
          Len(InputTypes[t]) <= MaxPins /\ Len(OutputTypes[t]) <= MaxPins

NumInputs(type) == Len(InputTypes[type])
NumOutputs(type) == Len(OutputTypes[type])

(* registry->max_edges_per_node is the largest number of input pins.       *)
MaxEdgesPerNode ==
    IF NodeTypes = {} THEN 0
    ELSE CHOOSE n \in {NumInputs(t) : t \in NodeTypes} :
             \A t \in NodeTypes : NumInputs(t) <= n

(* Mutant: a node cannot be connected to itself, so one node less counts.  *)
MaxEdgesShort == (MaxNodes - 1) * MaxEdgesPerNode

MaxEdges == MaxNodes * MaxEdgesPerNode

(* hgraph_encode_pin_id and hgraph_decode_pin_id: the node above bit 8,    *)
(* the pin index below it, the direction in bit 0.                         *)
PinId(node, index, isOutput) ==
    256 * node + 2 * index + (IF isOutput THEN 1 ELSE 0)

PinNode(pin) == pin \div 256
PinIndex(pin) == (pin % 256) \div 2
IsOutput(pin) == pin % 2 = 1

(* hgraph_init.  Node and edge memory is not cleared: the values below     *)
(* stand for memory that nothing reads before it is written.               *)
NoNode == [type |-> "none"]
NoEdge == [from |-> Invalid, to |-> Invalid, prev |-> Invalid, next |-> Invalid]

EmptyGraph ==
    [version       |-> 0,
     node_slot_map |-> EmptyMap(MaxNodes),
     node_versions |-> [id \in Indices(MaxNodes) |-> 0],
     nodes         |-> [slot \in Indices(MaxNodes) |-> NoNode],
     edge_slot_map |-> EmptyMap(MaxEdges),
     edges         |-> [slot \in Indices(MaxEdges) |-> NoEdge]]

(* hgraph_find_node_by_id, and the same for edges. *)
NodeSlot(g, id) == SlotForId(g.node_slot_map, id)
EdgeSlot(g, id) == SlotForId(g.edge_slot_map, id)
Node(g, id) == g.nodes[NodeSlot(g, id)]
Edge(g, id) == g.edges[EdgeSlot(g, id)]
HasNode(g, id) == IsLive(g.node_slot_map, id)
HasEdge(g, id) == IsLive(g.edge_slot_map, id)

-----------------------------------------------------------------------------
(* Mutant: the loop over the input pins counts to the output pins. *)
FreshNodeOneCount(type) ==
    [type   |-> type,
     input  |-> [i \in 0 .. NumOutputs(type) - 1 |-> Invalid],
     output |-> [i \in 0 .. NumOutputs(type) - 1 |->
                    [prev |-> Invalid, next |-> Invalid]]]

(* hgraph_create_node, for a registered type.                              *)
FreshNode(type) ==
    [type   |-> type,
     input  |-> [i \in 0 .. NumInputs(type) - 1 |-> Invalid],
     output |-> [i \in 0 .. NumOutputs(type) - 1 |->
                    [prev |-> Invalid, next |-> Invalid]]]

(* Mutant: a recycled id keeps its version. *)
CreateNodeSameVersion(g, type) ==
    IF IsFull(g.node_slot_map)
    THEN g
    ELSE [g EXCEPT !.node_slot_map = Allocate(@),
                   !.nodes[AllocatedSlot(g.node_slot_map)] = FreshNode(type),
                   !.version = @ + 1]

CreateNode(g, type) ==
    IF IsFull(g.node_slot_map)
    THEN g
    ELSE [g EXCEPT !.node_slot_map = Allocate(@),
                   !.node_versions[AllocatedId(g.node_slot_map)] = @ + 1,
                   !.nodes[AllocatedSlot(g.node_slot_map)] = FreshNode(type),
                   !.version = @ + 1]

(* Mutant: a destroyed node does not count as a new version. *)
FreeNodeSameVersion(g, id) ==
    [g EXCEPT !.node_slot_map = Free(@, id),
              !.nodes[FreeDst(g.node_slot_map, id)] =
                  g.nodes[FreeSrc(g.node_slot_map, id)]]

(* The end of hgraph_destroy_node, once the edges of the node are gone.    *)
FreeNode(g, id) ==
    [g EXCEPT !.node_slot_map = Free(@, id),
              !.nodes[FreeDst(g.node_slot_map, id)] =
                  g.nodes[FreeSrc(g.node_slot_map, id)],
              !.version = @ + 1]

-----------------------------------------------------------------------------
(* The checks of hgraph_connect, in its order. *)
Directed(from, to) ==
    /\ IsValid(from) /\ IsValid(to)
    /\ IsOutput(from) /\ ~IsOutput(to)

JoinsNodes(g, from, to) ==
    /\ HasNode(g, PinNode(from)) /\ HasNode(g, PinNode(to))
    /\ PinNode(from) # PinNode(to)

TypesMatch(fromType, from, toType, to) ==
    /\ PinIndex(from) < NumOutputs(fromType)
    /\ PinIndex(to) < NumInputs(toType)
    /\ OutputTypes[fromType][PinIndex(from) + 1] = InputTypes[toType][PinIndex(to) + 1]

PinsMatch(g, from, to) ==
    TypesMatch(Node(g, PinNode(from)).type, from, Node(g, PinNode(to)).type, to)

InputIsFree(g, to) == ~IsValid(Node(g, PinNode(to)).input[PinIndex(to)])

(* hgraph_can_connect. *)
CanConnect(g, from, to) ==
    /\ Directed(from, to)
    /\ JoinsNodes(g, from, to)
    /\ PinsMatch(g, from, to)
    /\ InputIsFree(g, to)

(* What hgraph_connect returns.  A missing node or a loop returns `false`, *)
(* which is the index 0.                                                   *)
ConnectResult(g, from, to) ==
    CASE ~Directed(from, to)           -> Invalid
      [] Directed(from, to)
         /\ ~JoinsNodes(g, from, to)   -> 0
      [] Directed(from, to)
         /\ JoinsNodes(g, from, to)
         /\ ~CanConnect(g, from, to)   -> Invalid
      [] CanConnect(g, from, to)       -> AllocatedId(g.edge_slot_map)

(* hgraph_resolve_edge: the link of a live edge or else the pin's own.  It  *)
(* returns a pointer, here the slot it points into, of an edge or a node;  *)
(* SetNext and SetPrev write one side of the link.                         *)
Resolve(g, pin, link) ==
    IF HasEdge(g, link)
    THEN [inEdge |-> TRUE, slot |-> EdgeSlot(g, link)]
    ELSE [inEdge |-> FALSE, slot |-> NodeSlot(g, PinNode(pin)), pin |-> PinIndex(pin)]

SetNext(g, at, value) ==
    IF at.inEdge
    THEN [g EXCEPT !.edges[at.slot].next = value]
    ELSE [g EXCEPT !.nodes[at.slot].output[at.pin].next = value]

SetPrev(g, at, value) ==
    IF at.inEdge
    THEN [g EXCEPT !.edges[at.slot].prev = value]
    ELSE [g EXCEPT !.nodes[at.slot].output[at.pin].prev = value]

SetInput(g, pin, value) ==
    [g EXCEPT !.nodes[NodeSlot(g, PinNode(pin))].input[PinIndex(pin)] = value]

OutputPin(g, pin) == Node(g, PinNode(pin)).output[PinIndex(pin)]

(* hgraph_connect: the new edge goes to the tail of its output pin's list. *)
(* The edge that was the tail is resolved when the new one is in use.      *)
Connect(g, from, to) ==
    IF ~CanConnect(g, from, to) \/ IsFull(g.edge_slot_map)
    THEN g
    ELSE LET edge  == AllocatedId(g.edge_slot_map)
             tail  == OutputPin(g, from).prev
             added == [g EXCEPT
                          !.edge_slot_map = Allocate(@),
                          !.edges[AllocatedSlot(g.edge_slot_map)] =
                              [from |-> from, to |-> to, prev |-> tail, next |-> Invalid]]
         IN  SetPrev(SetNext(SetInput(added, to, edge), Resolve(added, from, tail), edge),
                     Resolve(g, from, Invalid), edge)

(* Mutants: the input pin keeps the edge; the link back is not mended.     *)
UnlinkKeepingInput(g, edge) ==
    LET prev == Resolve(g, edge.from, edge.prev)
        next == Resolve(g, edge.from, edge.next)
    IN  SetPrev(SetNext(g, prev, edge.next), next, edge.prev)

UnlinkOneWay(g, edge) ==
    LET prev == Resolve(g, edge.from, edge.prev)
    IN  SetNext(SetInput(g, edge.to, Invalid), prev, edge.next)

(* hgraph_disconnect: take the edge from its input pin and out of the list *)
(* of its output pin.                                                      *)
Unlink(g, edge) ==
    LET prev == Resolve(g, edge.from, edge.prev)
        next == Resolve(g, edge.from, edge.next)
    IN  SetPrev(SetNext(SetInput(g, edge.to, Invalid), prev, edge.next), next, edge.prev)

(* Mutant: the copy goes the wrong way. *)
FreeEdgeCopyingBack(g, id) ==
    [g EXCEPT !.edge_slot_map = Free(@, id),
              !.edges[FreeSrc(g.edge_slot_map, id)] = g.edges[FreeDst(g.edge_slot_map, id)]]

(* Then free its slot and move the last edge into the hole. *)
FreeEdge(g, id) ==
    [g EXCEPT !.edge_slot_map = Free(@, id),
              !.edges[FreeDst(g.edge_slot_map, id)] = g.edges[FreeSrc(g.edge_slot_map, id)]]

Disconnect(g, id) ==
    IF HasEdge(g, id) THEN FreeEdge(Unlink(g, Edge(g, id)), id) ELSE g
=============================================================================
