---------------------------- MODULE GraphProofs -----------------------------
(***************************************************************************)
(* Graph for any registry and any number of nodes.  First the slots: every *)
(* operation keeps the graph well formed, and a node's id and version name *)
(* it for good.  Then the edges: an edge and its two pins agree, the list  *)
(* of an output pin holds its edges and no other, there is room for every  *)
(* edge that can be connected, and the graph implements Multigraph.        *)
(***************************************************************************)
EXTENDS GraphShape, SlotMapProofs, FiniteSetTheorems, WellFoundedInduction

GraphInv ==
    /\ IsGraph(graph)
    /\ VersionsInRange(graph)
    /\ destroying = [node |-> destroying.node, pin |-> destroying.pin]
    /\ destroying # Idle => HasNode(graph, destroying.node) /\ graph.version < MaxVersion

(* What the functions that only touch pins and links leave alone.          *)
SameSlots(g, h) ==
    /\ h.version = g.version
    /\ h.node_versions = g.node_versions
    /\ h.node_slot_map = g.node_slot_map
    /\ h.edge_slot_map = g.edge_slot_map

-----------------------------------------------------------------------------
(* The pin counts, and the edge capacity computed from them.               *)
LEMMA PinCounts ==
    ASSUME NEW type \in NodeTypes
    PROVE  NumInputs(type) \in 0 .. MaxPins /\ NumOutputs(type) \in 0 .. MaxPins
<1>1. InputTypes[type] \in Seq(DataTypes) /\ OutputTypes[type] \in Seq(DataTypes)
  BY GraphAssumption
<1>2. Len(InputTypes[type]) \in Nat /\ Len(OutputTypes[type]) \in Nat
  BY <1>1
<1>3. Len(InputTypes[type]) <= 16 /\ Len(OutputTypes[type]) <= 16
  BY GraphAssumption DEF MaxPins
<1>4. /\ NumInputs(type) \in Nat /\ NumInputs(type) <= 16
      /\ NumOutputs(type) \in Nat /\ NumOutputs(type) <= 16
  BY <1>2, <1>3, Zenon DEF NumInputs, NumOutputs
<1> QED
  BY <1>4 DEF MaxPins

LEMMA PinIndexesAreSmall == PinIndexes \subseteq 0 .. 16
<1>1. \A t \in NodeTypes : 0 .. NumInputs(t) \union 0 .. NumOutputs(t) \subseteq 0 .. 16
  BY PinCounts DEF MaxPins
<1> QED
  BY <1>1, Zenon DEF PinIndexes

LEMMA LargestExists ==
    ASSUME NEW S, S \subseteq 0 .. 16, NEW x \in S
    PROVE  \E n \in S : \A m \in S : m <= n
BY SMTT(30)

LEMMA MaxEdgesIsNat == MaxEdgesPerNode \in Nat /\ MaxEdges \in Nat
<1>1. CASE NodeTypes = {}
  BY <1>1, GraphAssumption DEF MaxEdgesPerNode, MaxEdges
<1>2. CASE NodeTypes # {}
  <2> DEFINE counts == {NumInputs(t) : t \in NodeTypes}
  <2>1. PICK t \in NodeTypes : TRUE
    BY <1>2
  <2>2. counts \subseteq 0 .. 16 /\ NumInputs(t) \in counts
    BY PinCounts DEF MaxPins
  <2>3. \E n \in counts : \A m \in counts : m <= n
    <3> HIDE DEF counts
    <3> QED
      BY <2>2, LargestExists
  <2>4. \E n \in counts : \A u \in NodeTypes : NumInputs(u) <= n
    BY <2>3
  <2>5. MaxEdgesPerNode \in counts
    <3>1. MaxEdgesPerNode = CHOOSE n \in counts : \A u \in NodeTypes : NumInputs(u) <= n
      BY <1>2 DEF MaxEdgesPerNode
    <3> HIDE DEF counts
    <3> QED
      BY <2>4, <3>1
  <2>6. MaxEdgesPerNode \in Nat
    BY <2>2, <2>5
  <2> QED
    BY <2>6, GraphAssumption DEF MaxEdges
<1> QED
  BY <1>1, <1>2

(* A live node or edge lies in a slot that is in use. *)
LEMMA NodeInSlot ==
    ASSUME NEW g, IsGraph(g), NEW id, HasNode(g, id)
    PROVE  /\ id \in Indices(MaxNodes)
           /\ NodeSlot(g, id) \in Indices(g.node_slot_map.num_items)
           /\ NodeSlot(g, id) \in Indices(MaxNodes)
           /\ IsNode(Node(g, id))
BY LookupRange, GraphAssumption DEF IsGraph, HasNode, NodeSlot, Node

LEMMA EdgeInSlot ==
    ASSUME NEW g, IsGraph(g), NEW id, HasEdge(g, id)
    PROVE  /\ id \in EdgeIds
           /\ EdgeSlot(g, id) \in Indices(g.edge_slot_map.num_items)
           /\ EdgeSlot(g, id) \in Indices(MaxEdges)
           /\ Edge(g, id) \in EdgeType
BY LookupRange, MaxEdgesIsNat DEF IsGraph, HasEdge, EdgeSlot, Edge, EdgeIds

(* Writing an item to a slot keeps the graph well formed. *)
LEMMA WriteNode ==
    ASSUME NEW g, IsGraph(g), NEW slot, NEW r,
           slot \in Indices(g.node_slot_map.num_items) => IsNode(r)
    PROVE  /\ IsGraph([g EXCEPT !.nodes = [@ EXCEPT ![slot] = r]])
           /\ SameSlots(g, [g EXCEPT !.nodes = [@ EXCEPT ![slot] = r]])
<1> DEFINE nodes == [g.nodes EXCEPT ![slot] = r]
           h == [g EXCEPT !.nodes = nodes]
<1>1. /\ nodes = [s \in Indices(MaxNodes) |-> IF s = slot THEN r ELSE g.nodes[s]]
  BY DEF IsGraph
<1>2. h = [version |-> g.version, node_slot_map |-> g.node_slot_map,
           node_versions |-> g.node_versions, nodes |-> nodes,
           edge_slot_map |-> g.edge_slot_map, edges |-> g.edges]
  <2> HIDE DEF nodes
  <2> QED
    BY DEF IsGraph
<1>3. Indices(g.node_slot_map.num_items) \subseteq Indices(MaxNodes)
  BY MapFields, GraphAssumption DEF IsGraph, IsSlotMap, Indices
<1>4. \A s \in Indices(g.node_slot_map.num_items) : IsNode(nodes[s])
  BY <1>1, <1>3 DEF IsGraph
<1>5. nodes = [s \in Indices(MaxNodes) |-> nodes[s]]
  BY <1>1
<1> HIDE DEF nodes
<1> QED
  BY <1>2, <1>4, <1>5 DEF IsGraph, SameSlots, nodes

LEMMA WriteEdge ==
    ASSUME NEW g, IsGraph(g), NEW slot, NEW r,
           slot \in Indices(g.edge_slot_map.num_items) => r \in EdgeType
    PROVE  /\ IsGraph([g EXCEPT !.edges = [@ EXCEPT ![slot] = r]])
           /\ SameSlots(g, [g EXCEPT !.edges = [@ EXCEPT ![slot] = r]])
<1> DEFINE edges == [g.edges EXCEPT ![slot] = r]
           h == [g EXCEPT !.edges = edges]
<1>1. /\ edges = [s \in Indices(MaxEdges) |-> IF s = slot THEN r ELSE g.edges[s]]
  BY DEF IsGraph
<1>2. h = [version |-> g.version, node_slot_map |-> g.node_slot_map,
           node_versions |-> g.node_versions, nodes |-> g.nodes,
           edge_slot_map |-> g.edge_slot_map, edges |-> edges]
  <2> HIDE DEF edges
  <2> QED
    BY DEF IsGraph
<1>3. Indices(g.edge_slot_map.num_items) \subseteq Indices(MaxEdges)
  BY MapFields, MaxEdgesIsNat DEF IsGraph, IsSlotMap, Indices
<1>4. \A s \in Indices(g.edge_slot_map.num_items) : edges[s] \in EdgeType
  BY <1>1, <1>3 DEF IsGraph
<1>5. edges = [s \in Indices(MaxEdges) |-> edges[s]]
  BY <1>1
<1> HIDE DEF edges
<1> QED
  BY <1>2, <1>4, <1>5 DEF IsGraph, SameSlots, edges

-----------------------------------------------------------------------------
(* Wherever a link points, writing one side of it keeps the graph.         *)
LEMMA LinkAndPinWrites ==
    ASSUME NEW g, IsGraph(g), NEW at, NEW value \in LinkIds
    PROVE  /\ IsGraph(SetNext(g, at, value)) /\ SameSlots(g, SetNext(g, at, value))
           /\ IsGraph(SetPrev(g, at, value)) /\ SameSlots(g, SetPrev(g, at, value))
<1>1. CASE at.inEdge
  <2> DEFINE old  == g.edges[at.slot]
             next == [old EXCEPT !.next = value]
             prev == [old EXCEPT !.prev = value]
  <2>1. at.slot \in Indices(g.edge_slot_map.num_items) => next \in EdgeType /\ prev \in EdgeType
    BY DEF IsGraph, EdgeType
  <2>2. SetNext(g, at, value) = [g EXCEPT !.edges = [@ EXCEPT ![at.slot] = next]]
    BY <1>1 DEF SetNext
  <2>3. SetPrev(g, at, value) = [g EXCEPT !.edges = [@ EXCEPT ![at.slot] = prev]]
    BY <1>1 DEF SetPrev
  <2> HIDE DEF old, next, prev
  <2>4. IsGraph(SetNext(g, at, value)) /\ SameSlots(g, SetNext(g, at, value))
    BY <2>1, <2>2, WriteEdge
  <2>5. IsGraph(SetPrev(g, at, value)) /\ SameSlots(g, SetPrev(g, at, value))
    BY <2>1, <2>3, WriteEdge
  <2> QED
    BY <2>4, <2>5
<1>2. CASE ~at.inEdge
  <2> DEFINE old  == g.nodes[at.slot]
             next == [old EXCEPT !.output[at.pin].next = value]
             prev == [old EXCEPT !.output[at.pin].prev = value]
  <2>1. ASSUME at.slot \in Indices(g.node_slot_map.num_items)
        PROVE  IsNode(next) /\ IsNode(prev)
    <3>1. IsNode(old)
      BY <2>1 DEF IsGraph
    <3> DEFINE pins  == 0 .. NumOutputs(old.type) - 1
               nexts == [old.output EXCEPT ![at.pin].next = value]
               prevs == [old.output EXCEPT ![at.pin].prev = value]
    <3>2. old.output \in [pins -> [prev : LinkIds, next : LinkIds]]
      BY <3>1 DEF IsNode
    <3>3. /\ nexts \in [pins -> [prev : LinkIds, next : LinkIds]]
          /\ prevs \in [pins -> [prev : LinkIds, next : LinkIds]]
      <4> HIDE DEF old, pins
      <4> QED
        BY <3>2
    <3>4. /\ next = [type |-> old.type, input |-> old.input, output |-> nexts]
          /\ prev = [type |-> old.type, input |-> old.input, output |-> prevs]
      <4> HIDE DEF old
      <4> QED
        BY <3>1 DEF IsNode
    <3> HIDE DEF nexts, prevs, old, next, prev
    <3> QED
      BY <3>1, <3>3, <3>4 DEF IsNode
  <2>2. SetNext(g, at, value) = [g EXCEPT !.nodes = [@ EXCEPT ![at.slot] = next]]
    BY <1>2 DEF SetNext
  <2>3. SetPrev(g, at, value) = [g EXCEPT !.nodes = [@ EXCEPT ![at.slot] = prev]]
    BY <1>2 DEF SetPrev
  <2> HIDE DEF old, next, prev
  <2>4. IsGraph(SetNext(g, at, value)) /\ SameSlots(g, SetNext(g, at, value))
    BY <2>1, <2>2, WriteNode
  <2>5. IsGraph(SetPrev(g, at, value)) /\ SameSlots(g, SetPrev(g, at, value))
    BY <2>1, <2>3, WriteNode
  <2> QED
    BY <2>4, <2>5
<1> QED
  BY <1>1, <1>2

LEMMA InputWrite ==
    ASSUME NEW g, IsGraph(g), NEW pin, NEW value \in LinkIds
    PROVE  IsGraph(SetInput(g, pin, value)) /\ SameSlots(g, SetInput(g, pin, value))
<1> DEFINE slot == NodeSlot(g, PinNode(pin))
           old  == g.nodes[slot]
           new  == [old EXCEPT !.input[PinIndex(pin)] = value]
<1>1. ASSUME slot \in Indices(g.node_slot_map.num_items)
      PROVE  IsNode(new)
  <2>1. IsNode(old)
    BY <1>1 DEF IsGraph
  <2> DEFINE inputs == [old.input EXCEPT ![PinIndex(pin)] = value]
  <2>2. inputs \in [0 .. NumInputs(old.type) - 1 -> LinkIds]
    BY <2>1 DEF IsNode
  <2>3. new = [type |-> old.type, input |-> inputs, output |-> old.output]
    <3> HIDE DEF old
    <3> QED
      BY <2>1 DEF IsNode
  <2> HIDE DEF inputs, old, new
  <2> QED
    BY <2>1, <2>2, <2>3 DEF IsNode
<1>2. SetInput(g, pin, value) = [g EXCEPT !.nodes = [@ EXCEPT ![slot] = new]]
  BY DEF SetInput
<1> HIDE DEF slot, new
<1> QED
  BY <1>1, <1>2, WriteNode

-----------------------------------------------------------------------------
(* hgraph_init. *)
LEMMA EmptyIsGraph == IsGraph(EmptyGraph)
<1>1. /\ IsSlotMap(EmptyMap(MaxNodes), MaxNodes)
      /\ IsSlotMap(EmptyMap(MaxEdges), MaxEdges)
  BY EmptyIsSlotMap, MaxEdgesIsNat, GraphAssumption
<1>2. EmptyMap(MaxNodes).num_items = 0 /\ EmptyMap(MaxEdges).num_items = 0
  BY DEF EmptyMap
<1> HIDE DEF EmptyMap
<1> QED
  BY <1>1, <1>2 DEF EmptyGraph, IsGraph, Indices

(* hgraph_create_node. *)
LEMMA FreshIsNode ==
    ASSUME NEW type \in NodeTypes
    PROVE  IsNode(FreshNode(type))
BY DEF FreshNode, IsNode, LinkIds

LEMMA CreateKeepsGraph ==
    ASSUME NEW g, IsGraph(g), NEW type \in NodeTypes
    PROVE  IsGraph(CreateNode(g, type))
<1>1. CASE IsFull(g.node_slot_map)
  BY <1>1 DEF CreateNode
<1>2. CASE ~IsFull(g.node_slot_map)
  <2> DEFINE map   == Allocate(g.node_slot_map)
             slot  == AllocatedSlot(g.node_slot_map)
             nodes == [g.nodes EXCEPT ![slot] = FreshNode(type)]
  <2>1. /\ IsSlotMap(map, MaxNodes)
        /\ slot = g.node_slot_map.num_items /\ slot \in Indices(MaxNodes)
    BY <1>2, AllocateIsSlotMap, AllocateMakesLive, GraphAssumption DEF IsGraph
  <2>2. /\ map.num_items = g.node_slot_map.num_items + 1
        /\ g.node_slot_map.num_items \in 0 .. MaxNodes /\ MaxNodes \in Nat
    BY <1>2, MapFields, GraphAssumption DEF IsGraph, IsSlotMap, Allocate, MapType
  <2>3. nodes = [s \in Indices(MaxNodes) |-> IF s = slot THEN FreshNode(type) ELSE g.nodes[s]]
    BY DEF IsGraph
  <2> DEFINE new == CreateNode(g, type)
  <2>4. /\ new = [version |-> g.version + 1, node_slot_map |-> map,
                  node_versions |-> new.node_versions, nodes |-> nodes,
                  edge_slot_map |-> g.edge_slot_map, edges |-> g.edges]
    <3>1. new = [[[[g EXCEPT !.node_slot_map = map]
                       EXCEPT !.node_versions[AllocatedId(g.node_slot_map)] = @ + 1]
                       EXCEPT !.nodes = nodes]
                       EXCEPT !.version = @ + 1]
      BY <1>2 DEF CreateNode
    <3> HIDE DEF map, nodes, new
    <3> QED
      BY <3>1 DEF IsGraph
  <2> HIDE DEF map, slot, nodes, new
  <2>5. \A s \in Indices(map.num_items) : IsNode(nodes[s])
    <3> TAKE s \in Indices(map.num_items)
    <3>1. s \in Indices(MaxNodes) /\ (s = slot \/ s \in Indices(g.node_slot_map.num_items))
      BY <2>1, <2>2 DEF Indices
    <3> QED
      BY <2>3, <3>1, FreshIsNode DEF IsGraph
  <2>6. nodes = [s \in Indices(MaxNodes) |-> nodes[s]]
    BY <2>3
  <2> QED
    BY <2>1, <2>4, <2>5, <2>6 DEF IsGraph, new
<1> QED
  BY <1>1, <1>2

(* hgraph_connect. *)
LEMMA PinParts ==
    ASSUME NEW pin \in Pins
    PROVE  pin \in Int /\ (IsValid(pin) => PinIndex(pin) \in Nat)
<1>1. pin \in Int
  <2>1. MaxNodes \in Nat /\ PinIndexes \subseteq Int
    BY PinIndexesAreSmall, GraphAssumption
  <2>2. CASE pin = Invalid
    BY <2>2 DEF Invalid
  <2>3. CASE pin # Invalid
    <3>1. PICK n \in Indices(MaxNodes), o \in BOOLEAN, i \in PinIndexes :
              pin = PinId(n, i, o)
      BY <2>3 DEF Pins
    <3>2. n \in Int /\ i \in Int
      BY <2>1 DEF Indices
    <3> QED
      BY <3>1, <3>2 DEF PinId
  <2> QED
    BY <2>2, <2>3
<1>2. ASSUME pin >= 0 PROVE PinIndex(pin) \in Nat
  BY <1>1, <1>2 DEF PinIndex
<1> QED
  BY <1>1, <1>2 DEF IsValid

LEMMA ConnectKeepsGraph ==
    ASSUME NEW g, IsGraph(g), NEW from \in Pins, NEW to \in Pins
    PROVE  /\ IsGraph(Connect(g, from, to))
           /\ Connect(g, from, to).version = g.version
           /\ Connect(g, from, to).node_versions = g.node_versions
           /\ Connect(g, from, to).node_slot_map = g.node_slot_map
<1>1. CASE ~CanConnect(g, from, to) \/ IsFull(g.edge_slot_map)
  BY <1>1 DEF Connect
<1>2. CASE CanConnect(g, from, to) /\ ~IsFull(g.edge_slot_map)
  <2> DEFINE edge  == AllocatedId(g.edge_slot_map)
             slot  == AllocatedSlot(g.edge_slot_map)
             map   == Allocate(g.edge_slot_map)
             tail  == OutputPin(g, from).prev
             item  == [from |-> from, to |-> to, prev |-> tail, next |-> Invalid]
             edges == [g.edges EXCEPT ![slot] = item]
             added == [g EXCEPT !.edge_slot_map = map, !.edges = edges]
  <2>1. tail \in LinkIds
    <3>1. HasNode(g, PinNode(from)) /\ IsValid(from)
      BY <1>2 DEF CanConnect, Directed, JoinsNodes
    <3> DEFINE node == Node(g, PinNode(from))
    <3>2. IsNode(node)
      BY <3>1, NodeInSlot
    <3>3. PinIndex(from) < NumOutputs(node.type)
      BY <1>2 DEF CanConnect, PinsMatch, TypesMatch
    <3>4. PinIndex(from) \in Nat
      BY <3>1, PinParts
    <3>5. NumOutputs(node.type) \in Nat
      BY <3>2, PinCounts DEF IsNode, MaxPins
    <3> HIDE DEF node
    <3>6. PinIndex(from) \in 0 .. NumOutputs(node.type) - 1
      BY <3>3, <3>4, <3>5
    <3>7. node.output[PinIndex(from)] \in [prev : LinkIds, next : LinkIds]
      BY <3>2, <3>6 DEF IsNode
    <3>8. node.output[PinIndex(from)].prev \in LinkIds
      BY <3>7
    <3> QED
      BY <3>8 DEF OutputPin, node
  <2>2. item \in EdgeType
    BY <2>1 DEF EdgeType, LinkIds
  <2>3. /\ IsSlotMap(map, MaxEdges)
        /\ slot = g.edge_slot_map.num_items /\ slot \in Indices(MaxEdges)
        /\ edge \in Indices(MaxEdges)
    BY <1>2, AllocateIsSlotMap, AllocateMakesLive, MaxEdgesIsNat DEF IsGraph
  <2>4. /\ map.num_items = g.edge_slot_map.num_items + 1
        /\ g.edge_slot_map.num_items \in 0 .. MaxEdges /\ MaxEdges \in Nat
    BY <1>2, MapFields, MaxEdgesIsNat DEF IsGraph, IsSlotMap, Allocate, MapType
  <2>5. edges = [s \in Indices(MaxEdges) |-> IF s = slot THEN item ELSE g.edges[s]]
    BY DEF IsGraph
  <2>6. added = [version |-> g.version, node_slot_map |-> g.node_slot_map,
                 node_versions |-> g.node_versions, nodes |-> g.nodes,
                 edge_slot_map |-> map, edges |-> edges]
    <3>1. added = [[g EXCEPT !.edge_slot_map = map] EXCEPT !.edges = edges]
      OBVIOUS
    <3> HIDE DEF map, edges, added
    <3> QED
      BY <3>1 DEF IsGraph
  <2>7. Connect(g, from, to) =
            SetPrev(SetNext(SetInput(added, to, edge), Resolve(added, from, tail), edge),
                    Resolve(g, from, Invalid), edge)
    BY <1>2 DEF Connect
  <2> HIDE DEF edge, slot, map, tail, item, edges, added
  <2>8. \A s \in Indices(map.num_items) : edges[s] \in EdgeType
    <3> TAKE s \in Indices(map.num_items)
    <3>1. s \in Indices(MaxEdges) /\ (s = slot \/ s \in Indices(g.edge_slot_map.num_items))
      BY <2>3, <2>4 DEF Indices
    <3> QED
      BY <2>2, <2>5, <3>1 DEF IsGraph
  <2>9. edges = [s \in Indices(MaxEdges) |-> edges[s]]
    BY <2>5
  <2>10. IsGraph(added)
    BY <2>3, <2>6, <2>8, <2>9 DEF IsGraph
  <2>11. edge \in LinkIds
    BY <2>3 DEF LinkIds, EdgeIds
  <2> DEFINE g1 == SetInput(added, to, edge)
             g2 == SetNext(g1, Resolve(added, from, tail), edge)
             g3 == SetPrev(g2, Resolve(g, from, Invalid), edge)
  <2>12. IsGraph(g1) /\ SameSlots(added, g1)
    BY <2>10, <2>11, InputWrite
  <2> HIDE DEF g1
  <2>13. IsGraph(g2) /\ SameSlots(g1, g2)
    BY <2>11, <2>12, LinkAndPinWrites
  <2> HIDE DEF g2
  <2>14. IsGraph(g3) /\ SameSlots(g2, g3)
    BY <2>11, <2>13, LinkAndPinWrites
  <2>15. g3 = Connect(g, from, to)
    BY <2>7 DEF g1, g2
  <2> HIDE DEF g3
  <2> QED
    BY <2>6, <2>12, <2>13, <2>14, <2>15 DEF SameSlots
<1> QED
  BY <1>1, <1>2

-----------------------------------------------------------------------------
(* hgraph_disconnect: the pins first, then the slot. *)
LEMMA UnlinkKeepsGraph ==
    ASSUME NEW g, IsGraph(g), NEW edge \in EdgeType
    PROVE  IsGraph(Unlink(g, edge)) /\ SameSlots(g, Unlink(g, edge))
<1> DEFINE g1 == SetInput(g, edge.to, Invalid)
           g2 == SetNext(g1, Resolve(g, edge.from, edge.prev), edge.next)
           g3 == SetPrev(g2, Resolve(g, edge.from, edge.next), edge.prev)
<1>1. edge.next \in LinkIds /\ edge.prev \in LinkIds /\ Invalid \in LinkIds
  BY DEF EdgeType, LinkIds
<1>2. IsGraph(g1) /\ SameSlots(g, g1)
  BY <1>1, InputWrite
<1>3. g3 = Unlink(g, edge)
  BY DEF Unlink
<1> HIDE DEF g1
<1>4. IsGraph(g2) /\ SameSlots(g1, g2)
  BY <1>1, <1>2, LinkAndPinWrites
<1> HIDE DEF g2
<1>5. IsGraph(g3) /\ SameSlots(g2, g3)
  BY <1>1, <1>4, LinkAndPinWrites
<1> HIDE DEF g3
<1> QED
  BY <1>2, <1>3, <1>4, <1>5 DEF SameSlots

(* After a removal the slots in use are one fewer, and were in use before. *)
LEMMA FreeShrinks ==
    ASSUME NEW max \in Nat, NEW m, IsSlotMap(m, max), NEW id, IsLive(m, id)
    PROVE  /\ FreeSrc(m, id) \in Indices(m.num_items)
           /\ FreeDst(m, id) \in Indices(m.num_items)
           /\ Indices(Free(m, id).num_items) \subseteq Indices(m.num_items)
           /\ Indices(m.num_items) \subseteq Indices(max)
<1>1. m.num_items \in 0 .. max
  BY MapFields DEF IsSlotMap
<1>2. Free(m, id).num_items = m.num_items - 1
  BY DEF Free, IsSlotMap, MapType
<1>3. SlotForId(m, id) \in Indices(m.num_items)
  BY LookupRange
<1>4. FreeSrc(m, id) = m.num_items - 1 /\ FreeDst(m, id) = SlotForId(m, id)
  BY DEF FreeSrc, FreeDst, LastSlot
<1> QED
  BY <1>1, <1>2, <1>3, <1>4 DEF Indices

LEMMA FreeEdgeKeepsGraph ==
    ASSUME NEW g, IsGraph(g), NEW id, HasEdge(g, id)
    PROVE  /\ IsGraph(FreeEdge(g, id))
           /\ FreeEdge(g, id).version = g.version
           /\ FreeEdge(g, id).node_versions = g.node_versions
           /\ FreeEdge(g, id).node_slot_map = g.node_slot_map
<1> DEFINE map   == Free(g.edge_slot_map, id)
           dst   == FreeDst(g.edge_slot_map, id)
           src   == FreeSrc(g.edge_slot_map, id)
           edges == [g.edges EXCEPT ![dst] = g.edges[src]]
           new   == FreeEdge(g, id)
<1>1. new = [version |-> g.version, node_slot_map |-> g.node_slot_map,
             node_versions |-> g.node_versions, nodes |-> g.nodes,
             edge_slot_map |-> map, edges |-> edges]
  <2>1. new = [[g EXCEPT !.edge_slot_map = map] EXCEPT !.edges = edges]
    BY DEF FreeEdge
  <2> HIDE DEF map, edges, new
  <2> QED
    BY <2>1 DEF IsGraph
<1>2. IsSlotMap(map, MaxEdges)
  BY FreeIsSlotMap, MaxEdgesIsNat DEF IsGraph
<1>3. /\ src \in Indices(g.edge_slot_map.num_items)
      /\ Indices(map.num_items) \subseteq Indices(g.edge_slot_map.num_items)
      /\ Indices(g.edge_slot_map.num_items) \subseteq Indices(MaxEdges)
  BY FreeShrinks, MaxEdgesIsNat DEF IsGraph, HasEdge
<1>4. edges = [s \in Indices(MaxEdges) |-> IF s = dst THEN g.edges[src] ELSE g.edges[s]]
  BY DEF IsGraph
<1> HIDE DEF map, dst, src, edges, new
<1>5. \A s \in Indices(map.num_items) : edges[s] \in EdgeType
  BY <1>3, <1>4 DEF IsGraph
<1>6. edges = [s \in Indices(MaxEdges) |-> edges[s]]
  BY <1>4
<1> QED
  BY <1>1, <1>2, <1>5, <1>6 DEF IsGraph, new

LEMMA DisconnectKeepsGraph ==
    ASSUME NEW g, IsGraph(g), NEW id
    PROVE  /\ IsGraph(Disconnect(g, id))
           /\ Disconnect(g, id).version = g.version
           /\ Disconnect(g, id).node_versions = g.node_versions
           /\ Disconnect(g, id).node_slot_map = g.node_slot_map
<1>1. CASE ~HasEdge(g, id)
  BY <1>1 DEF Disconnect
<1>2. CASE HasEdge(g, id)
  <2> DEFINE unlinked == Unlink(g, Edge(g, id))
  <2>1. IsGraph(unlinked) /\ SameSlots(g, unlinked)
    BY <1>2, EdgeInSlot, UnlinkKeepsGraph
  <2>2. HasEdge(unlinked, id)
    BY <1>2, <2>1 DEF SameSlots, HasEdge
  <2>3. Disconnect(g, id) = FreeEdge(unlinked, id)
    BY <1>2 DEF Disconnect
  <2> HIDE DEF unlinked
  <2> QED
    BY <2>1, <2>2, <2>3, FreeEdgeKeepsGraph DEF SameSlots
<1> QED
  BY <1>1, <1>2

(* The end of hgraph_destroy_node. *)
LEMMA FreeNodeKeepsGraph ==
    ASSUME NEW g, IsGraph(g), NEW id, HasNode(g, id)
    PROVE  /\ IsGraph(FreeNode(g, id))
           /\ FreeNode(g, id).version = g.version + 1
           /\ FreeNode(g, id).node_versions = g.node_versions
           /\ FreeNode(g, id).node_slot_map = Free(g.node_slot_map, id)
<1> DEFINE map   == Free(g.node_slot_map, id)
           dst   == FreeDst(g.node_slot_map, id)
           src   == FreeSrc(g.node_slot_map, id)
           nodes == [g.nodes EXCEPT ![dst] = g.nodes[src]]
           new   == FreeNode(g, id)
<1>1. new = [version |-> g.version + 1, node_slot_map |-> map,
             node_versions |-> g.node_versions, nodes |-> nodes,
             edge_slot_map |-> g.edge_slot_map, edges |-> g.edges]
  <2>1. new = [[[g EXCEPT !.node_slot_map = map] EXCEPT !.nodes = nodes]
                   EXCEPT !.version = @ + 1]
    BY DEF FreeNode
  <2> HIDE DEF map, nodes, new
  <2> QED
    BY <2>1 DEF IsGraph
<1>2. IsSlotMap(map, MaxNodes)
  BY FreeIsSlotMap, GraphAssumption DEF IsGraph
<1>3. /\ src \in Indices(g.node_slot_map.num_items)
      /\ Indices(map.num_items) \subseteq Indices(g.node_slot_map.num_items)
      /\ Indices(g.node_slot_map.num_items) \subseteq Indices(MaxNodes)
  BY FreeShrinks, GraphAssumption DEF IsGraph, HasNode
<1>4. nodes = [s \in Indices(MaxNodes) |-> IF s = dst THEN g.nodes[src] ELSE g.nodes[s]]
  BY DEF IsGraph
<1>5. map = Free(g.node_slot_map, id)
  OBVIOUS
<1> HIDE DEF map, dst, src, nodes, new
<1>6. \A s \in Indices(map.num_items) : IsNode(nodes[s])
  BY <1>3, <1>4 DEF IsGraph
<1>7. nodes = [s \in Indices(MaxNodes) |-> nodes[s]]
  BY <1>4
<1> QED
  BY <1>1, <1>2, <1>5, <1>6, <1>7 DEF IsGraph, new

-----------------------------------------------------------------------------
(* One lemma per action. *)
LEMMA InitGraph == Init => GraphInv
<1> SUFFICES ASSUME Init PROVE GraphInv
  OBVIOUS
<1>1. IsGraph(graph) /\ destroying = Idle
  BY EmptyIsGraph DEF Init
<1>2. graph.version = 0 /\ graph.node_versions = [id \in Indices(MaxNodes) |-> 0]
  BY DEF Init, EmptyGraph
<1>3. VersionsInRange(graph)
  BY <1>2, MaxVersionAssumption DEF VersionsInRange
<1> QED
  BY <1>1, <1>3 DEF GraphInv, Idle

LEMMA AddNodeKeepsInv ==
    ASSUME GraphInv, NEW type \in NodeTypes, AddNode(type)
    PROVE  GraphInv'
<1>1. IsGraph(graph')
  BY CreateKeepsGraph DEF GraphInv, AddNode
<1>2. VersionsInRange(graph')
  <2>1. CASE IsFull(graph.node_slot_map)
    BY <2>1 DEF GraphInv, AddNode, CreateNode
  <2>2. CASE ~IsFull(graph.node_slot_map)
    <3> DEFINE id == AllocatedId(graph.node_slot_map)
    <3>1. id \in Indices(MaxNodes)
      BY <2>2, AllocateMakesLive, GraphAssumption DEF GraphInv, IsGraph
    <3>2. /\ graph'.version = graph.version + 1
          /\ graph'.node_versions = [graph.node_versions EXCEPT ![id] = @ + 1]
      BY <2>2 DEF AddNode, CreateNode, GraphInv, IsGraph
    <3>3. /\ graph.version \in 0 .. MaxVersion /\ graph.version < MaxVersion
          /\ graph.node_versions \in [Indices(MaxNodes) -> 0 .. graph.version]
      BY DEF GraphInv, VersionsInRange, AddNode
    <3> HIDE DEF id
    <3> QED
      BY <3>1, <3>2, <3>3, MaxVersionAssumption DEF VersionsInRange
  <2> QED
    BY <2>1, <2>2
<1>3. destroying' = Idle
  BY DEF AddNode
<1> QED
  BY <1>1, <1>2, <1>3 DEF GraphInv, Idle

(* Connecting and disconnecting, with a destruction under way or without.  *)
LEMMA EdgesKeepInv ==
    ASSUME GraphInv, IsGraph(graph'),
           graph'.version = graph.version,
           graph'.node_versions = graph.node_versions,
           graph'.node_slot_map = graph.node_slot_map,
           \/ UNCHANGED destroying
           \/ destroying # Idle /\ destroying' = [destroying EXCEPT !.pin = @ + 1]
    PROVE  GraphInv'
<1>1. VersionsInRange(graph')
  BY DEF GraphInv, VersionsInRange
<1>2. \A id : HasNode(graph', id) <=> HasNode(graph, id)
  BY DEF HasNode
<1>3. /\ destroying' = [node |-> destroying'.node, pin |-> destroying'.pin]
      /\ destroying'.node = destroying.node
      /\ destroying = Idle => destroying' = Idle
  BY DEF GraphInv
<1> QED
  BY <1>1, <1>2, <1>3 DEF GraphInv

LEMMA DestroyNodeKeepsInv ==
    ASSUME GraphInv, NEW id, DestroyNode(id)
    PROVE  GraphInv'
<1>1. destroying'.node = id
  BY DEF DestroyNode
<1> QED
  BY <1>1 DEF GraphInv, DestroyNode

LEMMA FinishKeepsInv ==
    ASSUME GraphInv, FinishDestroy
    PROVE  GraphInv'
<1>1. HasNode(graph, destroying.node) /\ graph.version < MaxVersion
  BY DEF GraphInv, FinishDestroy
<1>2. /\ IsGraph(graph')
      /\ graph'.version = graph.version + 1
      /\ graph'.node_versions = graph.node_versions
  BY <1>1, FreeNodeKeepsGraph DEF GraphInv, FinishDestroy
<1>3. /\ graph.version \in 0 .. MaxVersion
      /\ graph.node_versions \in [Indices(MaxNodes) -> 0 .. graph.version]
  BY DEF GraphInv, VersionsInRange
<1>4. VersionsInRange(graph')
  BY <1>1, <1>2, <1>3, MaxVersionAssumption DEF VersionsInRange
<1> QED
  BY <1>2, <1>4 DEF GraphInv, FinishDestroy, Idle

LEMMA GraphIsInductive == GraphInv /\ [Next]_vars => GraphInv'
<1> SUFFICES ASSUME GraphInv, [Next]_vars
             PROVE  GraphInv'
  OBVIOUS
<1>0. IsGraph(graph)
  BY DEF GraphInv
<1>1. ASSUME NEW type \in NodeTypes, AddNode(type)
      PROVE  GraphInv'
  BY <1>1, AddNodeKeepsInv
<1>2. ASSUME NEW from \in Pins, NEW to \in Pins, AddEdge(from, to)
      PROVE  GraphInv'
  BY <1>0, <1>2, ConnectKeepsGraph, EdgesKeepInv DEF AddEdge
<1>3. ASSUME NEW id \in EdgeIds, RemoveEdge(id)
      PROVE  GraphInv'
  BY <1>0, <1>3, DisconnectKeepsGraph, EdgesKeepInv DEF RemoveEdge
<1>4. ASSUME NEW id \in Indices(MaxNodes), DestroyNode(id)
      PROVE  GraphInv'
  BY <1>4, DestroyNodeKeepsInv
<1>5. CASE DestroyInput
  BY <1>0, <1>5, DisconnectKeepsGraph, EdgesKeepInv DEF DestroyInput
<1>6. CASE DestroyOutput
  BY <1>0, <1>6, DisconnectKeepsGraph, EdgesKeepInv DEF DestroyOutput
<1>7. CASE LeaveOutput
  BY <1>0, <1>7, EdgesKeepInv DEF LeaveOutput
<1>8. CASE FinishDestroy
  BY <1>8, FinishKeepsInv
<1>9. CASE UNCHANGED vars
  BY <1>9 DEF vars, GraphInv
<1> QED
  BY <1>1, <1>2, <1>3, <1>4, <1>5, <1>6, <1>7, <1>8, <1>9 DEF Next, DestroyStep

-----------------------------------------------------------------------------
LEMMA GraphInvIsTyped == GraphInv => TypeOK
<1> SUFFICES ASSUME GraphInv PROVE TypeOK
  OBVIOUS
<1>1. IsGraph(graph)
  BY DEF GraphInv
<1>2. graph.node_versions \in [Indices(MaxNodes) -> 0 .. MaxVersion]
  <2>1. /\ graph.version \in 0 .. MaxVersion
        /\ graph.node_versions \in [Indices(MaxNodes) -> 0 .. graph.version]
    BY DEF GraphInv, VersionsInRange
  <2> QED
    BY <2>1, MaxVersionAssumption
<1>3. ASSUME NEW n \in LiveNodes
      PROVE  /\ Node(graph, n).type \in NodeTypes
             /\ Node(graph, n).input \in [InputPins(n) -> EdgeIds \union {Invalid}]
             /\ Node(graph, n).output \in [OutputPins(n) ->
                    [prev : EdgeIds \union {Invalid}, next : EdgeIds \union {Invalid}]]
  <2>1. HasNode(graph, n)
    BY <1>3 DEF LiveNodes, LiveIds, HasNode
  <2>2. IsNode(Node(graph, n))
    BY <1>1, <2>1, NodeInSlot
  <2> QED
    BY <2>2 DEF IsNode, InputPins, OutputPins, LinkIds
<1>4. ASSUME NEW e \in LiveEdges
      PROVE  Edge(graph, e) \in EdgeType
  <2>1. HasEdge(graph, e)
    BY <1>4 DEF LiveEdges, LiveIds, HasEdge
  <2> QED
    BY <1>1, <2>1, EdgeInSlot
<1> QED
  BY <1>1, <1>2, <1>3, <1>4 DEF TypeOK, GraphInv, IsGraph, VersionsInRange, EdgeType, LinkIds

(* For every registry and number of nodes, hgraph's slot maps stay inverse *)
(* permutations, and a live node or edge holds ids and pins of its ranges, *)
(* through any order of creations, connections and interrupted removals.   *)
THEOREM GraphIsTyped == Spec => []TypeOK
BY InitGraph, GraphIsInductive, GraphInvIsTyped, PTL DEF Spec

-----------------------------------------------------------------------------
(* The ids that live after a step, and their versions. *)
FreshStep ==
    \A n \in Indices(MaxNodes) :
        /\ graph.node_versions'[n] >= graph.node_versions[n]
        /\ n \in LiveNodes' \ LiveNodes =>
              graph.node_versions'[n] > graph.node_versions[n]

LEMMA AddNodeIsFresh ==
    ASSUME GraphInv, NEW type \in NodeTypes, AddNode(type)
    PROVE  FreshStep
<1>1. \A n \in Indices(MaxNodes) : graph.node_versions[n] \in Int
  BY DEF GraphInv, VersionsInRange
<1>2. CASE IsFull(graph.node_slot_map)
  <2>1. graph' = graph
    BY <1>2 DEF AddNode, CreateNode
  <2> QED
    BY <1>1, <2>1 DEF FreshStep, LiveNodes
<1>3. CASE ~IsFull(graph.node_slot_map)
  <2> DEFINE id == AllocatedId(graph.node_slot_map)
  <2>1. /\ id \in Indices(MaxNodes)
        /\ LiveIds(Allocate(graph.node_slot_map)) = LiveIds(graph.node_slot_map) \union {id}
    BY <1>3, AllocateMakesLive, GraphAssumption DEF GraphInv, IsGraph
  <2>2. /\ graph'.node_slot_map = Allocate(graph.node_slot_map)
        /\ graph'.node_versions = [graph.node_versions EXCEPT ![id] = @ + 1]
    BY <1>3 DEF AddNode, CreateNode, GraphInv, IsGraph
  <2>3. graph.node_versions \in [Indices(MaxNodes) -> 0 .. graph.version]
    BY DEF GraphInv, VersionsInRange
  <2> HIDE DEF id
  <2> QED
    BY <1>1, <2>1, <2>2, <2>3 DEF FreshStep, LiveNodes
<1> QED
  BY <1>2, <1>3

LEMMA OthersAreFresh ==
    ASSUME GraphInv,
           graph'.node_versions = graph.node_versions,
           LiveIds(graph'.node_slot_map) \subseteq LiveIds(graph.node_slot_map)
    PROVE  FreshStep
<1>1. \A n \in Indices(MaxNodes) : graph.node_versions[n] \in Int
  BY DEF GraphInv, VersionsInRange
<1> QED
  BY <1>1 DEF FreshStep, LiveNodes

LEMMA StepsAreFresh ==
    ASSUME GraphInv, Next
    PROVE  FreshStep
<1>0. IsGraph(graph)
  BY DEF GraphInv
<1>1. ASSUME NEW type \in NodeTypes, AddNode(type)
      PROVE  FreshStep
  BY <1>1, AddNodeIsFresh
<1>2. ASSUME NEW from \in Pins, NEW to \in Pins, AddEdge(from, to)
      PROVE  FreshStep
  BY <1>0, <1>2, ConnectKeepsGraph, OthersAreFresh DEF AddEdge
<1>3. ASSUME NEW id, graph' = Disconnect(graph, id)
      PROVE  FreshStep
  BY <1>0, <1>3, DisconnectKeepsGraph, OthersAreFresh
<1>4. ASSUME UNCHANGED graph
      PROVE  FreshStep
  BY <1>4, OthersAreFresh
<1>5. CASE FinishDestroy
  <2>1. HasNode(graph, destroying.node)
    BY <1>5 DEF GraphInv, FinishDestroy
  <2>2. /\ graph'.node_versions = graph.node_versions
        /\ graph'.node_slot_map = Free(graph.node_slot_map, destroying.node)
    BY <1>0, <1>5, <2>1, FreeNodeKeepsGraph DEF FinishDestroy
  <2>3. LiveIds(Free(graph.node_slot_map, destroying.node)) \subseteq LiveIds(graph.node_slot_map)
    BY <1>0, <2>1, FreeMovesLast, GraphAssumption DEF IsGraph, HasNode
  <2> QED
    BY <2>2, <2>3, OthersAreFresh
<1> QED
  BY <1>1, <1>2, <1>3, <1>4, <1>5
  DEF Next, RemoveEdge, DestroyNode, DestroyStep, DestroyInput, DestroyOutput, LeaveOutput

(* An id and a version name one node for good, which is what               *)
(* hgraph_pipeline_init compares to keep a node's data: no version ever    *)
(* falls, and an id that comes to life has a version it never had.         *)
THEOREM GraphVersionsAreFresh == Spec => VersionsAreFresh
<1>1. GraphInv /\ [Next]_vars => [FreshStep]_vars
  BY StepsAreFresh
<1> QED
  BY <1>1, InitGraph, GraphIsInductive, PTL DEF Spec, VersionsAreFresh, FreshStep

-----------------------------------------------------------------------------

(* hgraph_destroy_node leaves no edge at the pins it is done with. *)
NoEdgeFrom(g, pin) == \A e \in EdgeIds : HasEdge(g, e) => Edge(g, e).from # pin

DoneSoFar(g, n, pin) ==
    /\ pin \in 0 .. NumInputs(Node(g, n).type) + NumOutputs(Node(g, n).type)
    /\ \A i \in Inputs(g, n) : i < pin => ~IsValid(Node(g, n).input[i])
    /\ \A i \in Outputs(g, n) :
          i < pin - NumInputs(Node(g, n).type) => NoEdgeFrom(g, PinId(n, i, TRUE))

EdgeInv ==
    /\ GraphInv
    /\ IsLinked(graph)
    /\ destroying # Idle => DoneSoFar(graph, destroying.node, destroying.pin)

-----------------------------------------------------------------------------
(* A list holds no edge twice, so it is never longer than there are edges. *)
LEMMA HasListIs ==
    ASSUME NEW g, NEW n, NEW i
    PROVE  HasList(g, n, i) <=>
               \E count \in Nat : \E list \in [0 .. count - 1 -> EdgeIds] :
                   IsListOf(g, n, i, count, list)
<1>1. \A count \in 0 .. MaxEdges : count \in Nat
  BY MaxEdgesIsNat
<1>2. ASSUME NEW count \in Nat, NEW list \in [0 .. count - 1 -> EdgeIds],
             IsListOf(g, n, i, count, list)
      PROVE  count \in 0 .. MaxEdges
  <2>1. \A j, k \in 0 .. count - 1 : list[j] = list[k] => j = k
    BY <1>2 DEF IsListOf
  <2>2. list \in Injection(0 .. count - 1, EdgeIds)
    BY <2>1 DEF Injection, IsInjective
  <2>3. IsFiniteSet(EdgeIds) /\ Cardinality(EdgeIds) = MaxEdges
    <3>1. 0 \in Int /\ MaxEdges - 1 \in Int
      BY MaxEdgesIsNat
    <3>2. /\ IsFiniteSet(0 .. MaxEdges - 1)
          /\ Cardinality(0 .. MaxEdges - 1) = IF 0 > MaxEdges - 1 THEN 0 ELSE MaxEdges - 1 - 0 + 1
      BY <3>1, FS_Interval
    <3> QED
      BY <3>2, MaxEdgesIsNat DEF EdgeIds, Indices
  <2>4. Cardinality(0 .. count - 1) = count
    <3>1. 0 \in Int /\ count - 1 \in Int
      OBVIOUS
    <3>2. Cardinality(0 .. count - 1) = IF 0 > count - 1 THEN 0 ELSE count - 1 - 0 + 1
      BY <3>1, FS_Interval
    <3> QED
      BY <3>2
  <2>5. count <= MaxEdges
    BY <2>2, <2>3, <2>4, FS_Injection
  <2> QED
    BY <2>5, MaxEdgesIsNat
<1> QED
  BY <1>1, <1>2 DEF HasList

-----------------------------------------------------------------------------
(* Pins and their ids. *)
LEMMA EdgesPerNode ==
    /\ MaxEdgesPerNode \in 0 .. 16
    /\ \A t \in NodeTypes : NumInputs(t) <= MaxEdgesPerNode
<1>1. CASE NodeTypes = {}
  BY <1>1 DEF MaxEdgesPerNode
<1>2. CASE NodeTypes # {}
  <2> DEFINE counts == {NumInputs(t) : t \in NodeTypes}
  <2>1. PICK t \in NodeTypes : TRUE
    BY <1>2
  <2>2. counts \subseteq 0 .. 16 /\ NumInputs(t) \in counts
    BY PinCounts DEF MaxPins
  <2>3. MaxEdgesPerNode = CHOOSE n \in counts : \A u \in NodeTypes : NumInputs(u) <= n
    BY <1>2 DEF MaxEdgesPerNode
  <2>4. \E n \in counts : \A m \in counts : m <= n
    <3> HIDE DEF counts
    <3> QED
      BY <2>2, LargestExists
  <2>5. \E n \in counts : \A u \in NodeTypes : NumInputs(u) <= n
    BY <2>4
  <2> HIDE DEF counts
  <2> QED
    BY <2>2, <2>3, <2>5
<1> QED
  BY <1>1, <1>2

LEMMA PinDecodes ==
    ASSUME NEW n \in Nat, NEW i \in 0 .. 16, NEW o \in BOOLEAN
    PROVE  /\ PinId(n, i, o) \in Nat /\ IsValid(PinId(n, i, o))
           /\ PinNode(PinId(n, i, o)) = n /\ PinIndex(PinId(n, i, o)) = i
           /\ IsOutput(PinId(n, i, o)) = o
<1> DEFINE low == 2 * i + (IF o THEN 1 ELSE 0)
<1>1. low \in 0 .. 255 /\ low \div 2 = i /\ (low % 2 = 1) = o
  OBVIOUS
<1>2. PinId(n, i, o) = 256 * n + low
  BY DEF PinId
<1> HIDE DEF low
<1>3. (256 * n + low) \div 256 = n /\ (256 * n + low) % 256 = low
  BY <1>1
<1>4. (256 * n + low) % 2 = low % 2
  BY <1>1
<1>5. 256 * n + low \in Nat
  BY <1>1
<1> QED
  BY <1>1, <1>2, <1>3, <1>4, <1>5 DEF PinNode, PinIndex, IsOutput, IsValid

LEMMA PinEncodes ==
    ASSUME NEW pin \in Pins, IsValid(pin)
    PROVE  /\ PinNode(pin) \in Indices(MaxNodes)
           /\ PinIndex(pin) \in 0 .. 16
           /\ pin = PinId(PinNode(pin), PinIndex(pin), IsOutput(pin))
<1>1. PICK n \in Indices(MaxNodes), o \in BOOLEAN, i \in PinIndexes :
         pin = PinId(n, i, o)
  BY DEF Pins, IsValid, Invalid
<1>2. n \in Nat /\ i \in 0 .. 16
  BY PinIndexesAreSmall, GraphAssumption DEF Indices
<1> QED
  BY <1>1, <1>2, PinDecodes

(* An item has a slot of its own. *)
LEMMA OwnSlot ==
    ASSUME NEW max \in Nat, NEW m, IsSlotMap(m, max), NEW id, NEW other,
           IsLive(m, id), IsLive(m, other), SlotForId(m, id) = SlotForId(m, other)
    PROVE  id = other
BY LookupRange

LEMMA OwnNodeSlot ==
    ASSUME NEW g, IsGraph(g), NEW n, NEW m, HasNode(g, n), HasNode(g, m), n # m
    PROVE  NodeSlot(g, n) # NodeSlot(g, m)
BY OwnSlot, GraphAssumption DEF IsGraph, HasNode, NodeSlot

LEMMA OwnEdgeSlot ==
    ASSUME NEW g, IsGraph(g), NEW e, NEW f, HasEdge(g, e), HasEdge(g, f), e # f
    PROVE  EdgeSlot(g, e) # EdgeSlot(g, f)
BY OwnSlot, MaxEdgesIsNat DEF IsGraph, HasEdge, EdgeSlot

(* The same lookups lead to the same slots. *)
LEMMA SameLookups ==
    ASSUME NEW g, NEW h, SameSlots(g, h)
    PROVE  /\ \A n : HasNode(h, n) = HasNode(g, n) /\ NodeSlot(h, n) = NodeSlot(g, n)
           /\ \A e : HasEdge(h, e) = HasEdge(g, e) /\ EdgeSlot(h, e) = EdgeSlot(g, e)
BY DEF SameSlots, HasNode, HasEdge, NodeSlot, EdgeSlot

-----------------------------------------------------------------------------
(* What the edges and nodes read after one write, field by field. *)
SameEdges(g, h) == \A e \in EdgeIds : HasEdge(g, e) => Edge(h, e) = Edge(g, e)
SameNodes(g, h) == \A n \in Indices(MaxNodes) : HasNode(g, n) => Node(h, n) = Node(g, n)

SetsNext(g, h, e, value) ==
    \A f \in EdgeIds : HasEdge(g, f) =>
        /\ Edge(h, f).from = Edge(g, f).from /\ Edge(h, f).to = Edge(g, f).to
        /\ Edge(h, f).prev = Edge(g, f).prev
        /\ Edge(h, f).next = IF f = e THEN value ELSE Edge(g, f).next

SetsPrev(g, h, e, value) ==
    \A f \in EdgeIds : HasEdge(g, f) =>
        /\ Edge(h, f).from = Edge(g, f).from /\ Edge(h, f).to = Edge(g, f).to
        /\ Edge(h, f).next = Edge(g, f).next
        /\ Edge(h, f).prev = IF f = e THEN value ELSE Edge(g, f).prev

SetsHeadAt(g, h, m, j, value, n) ==
    /\ Node(h, n).type = Node(g, n).type /\ Node(h, n).input = Node(g, n).input
    /\ \A i \in Outputs(g, n) :
          /\ Node(h, n).output[i].prev = Node(g, n).output[i].prev
          /\ Node(h, n).output[i].next =
                IF n = m /\ i = j THEN value ELSE Node(g, n).output[i].next

SetsHead(g, h, m, j, value) ==
    \A n \in Indices(MaxNodes) : HasNode(g, n) => SetsHeadAt(g, h, m, j, value, n)

SetsTailAt(g, h, m, j, value, n) ==
    /\ Node(h, n).type = Node(g, n).type /\ Node(h, n).input = Node(g, n).input
    /\ \A i \in Outputs(g, n) :
          /\ Node(h, n).output[i].next = Node(g, n).output[i].next
          /\ Node(h, n).output[i].prev =
                IF n = m /\ i = j THEN value ELSE Node(g, n).output[i].prev

SetsTail(g, h, m, j, value) ==
    \A n \in Indices(MaxNodes) : HasNode(g, n) => SetsTailAt(g, h, m, j, value, n)

SetsInputAt(g, h, m, j, value, n) ==
    /\ Node(h, n).type = Node(g, n).type /\ Node(h, n).output = Node(g, n).output
    /\ \A i \in Inputs(g, n) :
          Node(h, n).input[i] = IF n = m /\ i = j THEN value ELSE Node(g, n).input[i]

SetsInput(g, h, m, j, value) ==
    \A n \in Indices(MaxNodes) : HasNode(g, n) => SetsInputAt(g, h, m, j, value, n)

(* One slot of the edges or of the nodes is written. *)
LEMMA EdgeWritten ==
    ASSUME NEW g, IsGraph(g), NEW e, HasEdge(g, e), NEW r,
           NEW h, h = [g EXCEPT !.edges = [@ EXCEPT ![EdgeSlot(g, e)] = r]]
    PROVE  /\ SameNodes(g, h) /\ SameSlots(g, h)
           /\ Edge(h, e) = r
           /\ \A f \in EdgeIds \ {e} : HasEdge(g, f) => Edge(h, f) = Edge(g, f)
<1>1. /\ SameSlots(g, h) /\ h.nodes = g.nodes
      /\ h.edges = [s \in Indices(MaxEdges) |-> IF s = EdgeSlot(g, e) THEN r ELSE g.edges[s]]
  BY DEF IsGraph, SameSlots
<1>2. \A f : HasEdge(g, f) => EdgeSlot(g, f) \in Indices(MaxEdges)
  BY EdgeInSlot
<1>3. \A f : HasEdge(g, f) /\ f # e => EdgeSlot(g, f) # EdgeSlot(g, e)
  BY OwnEdgeSlot
<1> QED
  BY <1>1, <1>2, <1>3, SameLookups DEF SameNodes, Edge, Node

LEMMA NodeWritten ==
    ASSUME NEW g, IsGraph(g), NEW m, HasNode(g, m), NEW r,
           NEW h, h = [g EXCEPT !.nodes = [@ EXCEPT ![NodeSlot(g, m)] = r]]
    PROVE  /\ SameEdges(g, h) /\ SameSlots(g, h)
           /\ Node(h, m) = r
           /\ \A n \in Indices(MaxNodes) \ {m} : HasNode(g, n) => Node(h, n) = Node(g, n)
<1>1. /\ SameSlots(g, h) /\ h.edges = g.edges
      /\ h.nodes = [s \in Indices(MaxNodes) |-> IF s = NodeSlot(g, m) THEN r ELSE g.nodes[s]]
  BY DEF IsGraph, SameSlots
<1>2. \A n : HasNode(g, n) => NodeSlot(g, n) \in Indices(MaxNodes)
  BY NodeInSlot
<1>3. \A n : HasNode(g, n) /\ n # m => NodeSlot(g, n) # NodeSlot(g, m)
  BY OwnNodeSlot
<1> QED
  BY <1>1, <1>2, <1>3, SameLookups DEF SameEdges, Edge, Node

(* hgraph_resolve_edge at work: the link of a live edge, or of the pin.    *)
LEMMA NextOfEdge ==
    ASSUME NEW g, NEW h, IsGraph(h), SameSlots(g, h), NEW pin, NEW link, HasEdge(g, link),
           NEW value, NEW t, t = SetNext(h, Resolve(g, pin, link), value)
    PROVE  SetsNext(h, t, link, value) /\ SameNodes(h, t) /\ SameSlots(h, t)
<1> DEFINE r == [Edge(h, link) EXCEPT !.next = value]
<1>1. HasEdge(h, link) /\ EdgeSlot(h, link) = EdgeSlot(g, link)
  BY SameLookups
<1>2. t = [h EXCEPT !.edges = [@ EXCEPT ![EdgeSlot(h, link)] = r]]
  BY <1>1 DEF SetNext, Resolve, Edge
<1>3. Edge(h, link) \in EdgeType
  BY <1>1, EdgeInSlot
<1>4. /\ r.from = Edge(h, link).from /\ r.to = Edge(h, link).to
      /\ r.prev = Edge(h, link).prev /\ r.next = value
  BY <1>3 DEF EdgeType
<1> HIDE DEF r
<1> QED
  BY <1>1, <1>2, <1>4, EdgeWritten DEF SetsNext

LEMMA PrevOfEdge ==
    ASSUME NEW g, NEW h, IsGraph(h), SameSlots(g, h), NEW pin, NEW link, HasEdge(g, link),
           NEW value, NEW t, t = SetPrev(h, Resolve(g, pin, link), value)
    PROVE  SetsPrev(h, t, link, value) /\ SameNodes(h, t) /\ SameSlots(h, t)
<1> DEFINE r == [Edge(h, link) EXCEPT !.prev = value]
<1>1. HasEdge(h, link) /\ EdgeSlot(h, link) = EdgeSlot(g, link)
  BY SameLookups
<1>2. t = [h EXCEPT !.edges = [@ EXCEPT ![EdgeSlot(h, link)] = r]]
  BY <1>1 DEF SetPrev, Resolve, Edge
<1>3. Edge(h, link) \in EdgeType
  BY <1>1, EdgeInSlot
<1>4. /\ r.from = Edge(h, link).from /\ r.to = Edge(h, link).to
      /\ r.next = Edge(h, link).next /\ r.prev = value
  BY <1>3 DEF EdgeType
<1> HIDE DEF r
<1> QED
  BY <1>1, <1>2, <1>4, EdgeWritten DEF SetsPrev

LEMMA NextOfPin ==
    ASSUME NEW g, NEW h, IsGraph(h), SameSlots(g, h), NEW pin, NEW link, ~HasEdge(g, link),
           HasNode(g, PinNode(pin)), NEW value,
           NEW t, t = SetNext(h, Resolve(g, pin, link), value)
    PROVE  SetsHead(h, t, PinNode(pin), PinIndex(pin), value) /\ SameEdges(h, t) /\ SameSlots(h, t)
<1> DEFINE m   == PinNode(pin)
           j   == PinIndex(pin)
           old == Node(h, m)
           r   == [old EXCEPT !.output[j].next = value]
<1>1. HasNode(h, m) /\ NodeSlot(h, m) = NodeSlot(g, m)
  BY SameLookups
<1>2. t = [h EXCEPT !.nodes = [@ EXCEPT ![NodeSlot(h, m)] = r]]
  BY <1>1 DEF SetNext, Resolve, Node
<1>3. IsNode(old)
  BY <1>1, NodeInSlot
<1> HIDE DEF m, j, old
<1>4. /\ r.type = old.type /\ r.input = old.input
      /\ \A i \in 0 .. NumOutputs(old.type) - 1 :
            /\ r.output[i].prev = old.output[i].prev
            /\ r.output[i].next = IF i = j THEN value ELSE old.output[i].next
  BY <1>3 DEF IsNode
<1> HIDE DEF r
<1>5. /\ SameEdges(h, t) /\ SameSlots(h, t)
      /\ Node(t, m) = r
      /\ \A n \in Indices(MaxNodes) \ {m} : HasNode(h, n) => Node(t, n) = Node(h, n)
  <2>1. PICK id, item : id = m /\ item = r
    OBVIOUS
  <2>2. HasNode(h, id) /\ t = [h EXCEPT !.nodes = [@ EXCEPT ![NodeSlot(h, id)] = item]]
    BY <1>1, <1>2, <2>1
  <2> QED
    BY <2>1, <2>2, NodeWritten, SMTT(30)
<1>6. old = Node(h, m) /\ m = PinNode(pin) /\ j = PinIndex(pin)
  BY DEF old, m, j
<1> SUFFICES SetsHead(h, t, m, j, value)
  BY <1>5, <1>6
<1> SUFFICES ASSUME NEW n \in Indices(MaxNodes), HasNode(h, n)
             PROVE  SetsHeadAt(h, t, m, j, value, n)
  BY DEF SetsHead
<1>7. CASE n = m
  BY <1>4, <1>5, <1>6, <1>7 DEF SetsHeadAt, Outputs
<1>8. CASE n # m
  <2>1. Node(t, n) = Node(h, n)
    BY <1>5, <1>8
  <2> QED
    BY <1>8, <2>1 DEF SetsHeadAt
<1> QED
  BY <1>7, <1>8

LEMMA PrevOfPin ==
    ASSUME NEW g, NEW h, IsGraph(h), SameSlots(g, h), NEW pin, NEW link, ~HasEdge(g, link),
           HasNode(g, PinNode(pin)), NEW value,
           NEW t, t = SetPrev(h, Resolve(g, pin, link), value)
    PROVE  SetsTail(h, t, PinNode(pin), PinIndex(pin), value) /\ SameEdges(h, t) /\ SameSlots(h, t)
<1> DEFINE m   == PinNode(pin)
           j   == PinIndex(pin)
           old == Node(h, m)
           r   == [old EXCEPT !.output[j].prev = value]
<1>1. HasNode(h, m) /\ NodeSlot(h, m) = NodeSlot(g, m)
  BY SameLookups
<1>2. t = [h EXCEPT !.nodes = [@ EXCEPT ![NodeSlot(h, m)] = r]]
  BY <1>1 DEF SetPrev, Resolve, Node
<1>3. IsNode(old)
  BY <1>1, NodeInSlot
<1> HIDE DEF m, j, old
<1>4. /\ r.type = old.type /\ r.input = old.input
      /\ \A i \in 0 .. NumOutputs(old.type) - 1 :
            /\ r.output[i].next = old.output[i].next
            /\ r.output[i].prev = IF i = j THEN value ELSE old.output[i].prev
  BY <1>3 DEF IsNode
<1> HIDE DEF r
<1>5. /\ SameEdges(h, t) /\ SameSlots(h, t)
      /\ Node(t, m) = r
      /\ \A n \in Indices(MaxNodes) \ {m} : HasNode(h, n) => Node(t, n) = Node(h, n)
  <2>1. PICK id, item : id = m /\ item = r
    OBVIOUS
  <2>2. HasNode(h, id) /\ t = [h EXCEPT !.nodes = [@ EXCEPT ![NodeSlot(h, id)] = item]]
    BY <1>1, <1>2, <2>1
  <2> QED
    BY <2>1, <2>2, NodeWritten, SMTT(30)
<1>6. old = Node(h, m) /\ m = PinNode(pin) /\ j = PinIndex(pin)
  BY DEF old, m, j
<1> SUFFICES SetsTail(h, t, m, j, value)
  BY <1>5, <1>6
<1> SUFFICES ASSUME NEW n \in Indices(MaxNodes), HasNode(h, n)
             PROVE  SetsTailAt(h, t, m, j, value, n)
  BY DEF SetsTail
<1>7. CASE n = m
  BY <1>4, <1>5, <1>6, <1>7 DEF SetsTailAt, Outputs
<1>8. CASE n # m
  <2>1. Node(t, n) = Node(h, n)
    BY <1>5, <1>8
  <2> QED
    BY <1>8, <2>1 DEF SetsTailAt
<1> QED
  BY <1>7, <1>8

LEMMA InputOfPin ==
    ASSUME NEW h, IsGraph(h), NEW pin, HasNode(h, PinNode(pin)), NEW value,
           NEW t, t = SetInput(h, pin, value)
    PROVE  SetsInput(h, t, PinNode(pin), PinIndex(pin), value) /\ SameEdges(h, t) /\ SameSlots(h, t)
<1> DEFINE m   == PinNode(pin)
           j   == PinIndex(pin)
           old == Node(h, m)
           r   == [old EXCEPT !.input[j] = value]
<1>1. t = [h EXCEPT !.nodes = [@ EXCEPT ![NodeSlot(h, m)] = r]]
  BY DEF SetInput, Node
<1>2. IsNode(old)
  BY NodeInSlot
<1> HIDE DEF m, j, old
<1>3. /\ r.type = old.type /\ r.output = old.output
      /\ \A i \in 0 .. NumInputs(old.type) - 1 :
            r.input[i] = IF i = j THEN value ELSE old.input[i]
  BY <1>2 DEF IsNode
<1> HIDE DEF r
<1>4. /\ SameEdges(h, t) /\ SameSlots(h, t)
      /\ Node(t, m) = r
      /\ \A n \in Indices(MaxNodes) \ {m} : HasNode(h, n) => Node(t, n) = Node(h, n)
  <2>1. PICK id, item : id = m /\ item = r
    OBVIOUS
  <2>2. HasNode(h, m)
    BY DEF m
  <2>3. HasNode(h, id) /\ t = [h EXCEPT !.nodes = [@ EXCEPT ![NodeSlot(h, id)] = item]]
    BY <1>1, <2>1, <2>2
  <2>4. SameEdges(h, t) /\ SameSlots(h, t)
    BY <2>3, NodeWritten
  <2>5. Node(t, id) = item
    <3>1. \A u : u = [h EXCEPT !.nodes = [@ EXCEPT ![NodeSlot(h, id)] = item]] => Node(u, id) = item
      BY <2>3, NodeWritten, SMTT(20)
    <3> QED
      BY <2>3, <3>1
  <2>6. \A n \in Indices(MaxNodes) \ {id} : HasNode(h, n) => Node(t, n) = Node(h, n)
    BY <2>3, NodeWritten
  <2> QED
    BY <2>1, <2>4, <2>5, <2>6
<1>5. old = Node(h, m) /\ m = PinNode(pin) /\ j = PinIndex(pin)
  BY DEF old, m, j
<1> SUFFICES SetsInput(h, t, m, j, value)
  BY <1>4, <1>5
<1> SUFFICES ASSUME NEW n \in Indices(MaxNodes), HasNode(h, n)
             PROVE  SetsInputAt(h, t, m, j, value, n)
  BY DEF SetsInput
<1>6. CASE n = m
  BY <1>3, <1>4, <1>5, <1>6 DEF SetsInputAt, Inputs
<1>7. CASE n # m
  <2>1. Node(t, n) = Node(h, n)
    BY <1>4, <1>7
  <2> QED
    BY <1>7, <2>1 DEF SetsInputAt
<1> QED
  BY <1>6, <1>7


(* Both cases of hgraph_resolve_edge at once. *)
WritesNextAt(g, h, pin, link, value, n) ==
    /\ Node(h, n).type = Node(g, n).type /\ Node(h, n).input = Node(g, n).input
    /\ \A i \in Outputs(g, n) :
          /\ Node(h, n).output[i].prev = Node(g, n).output[i].prev
          /\ Node(h, n).output[i].next =
                IF ~HasEdge(g, link) /\ n = PinNode(pin) /\ i = PinIndex(pin)
                THEN value ELSE Node(g, n).output[i].next

WritesNext(g, h, pin, link, value) ==
    /\ SameSlots(g, h)
    /\ SetsNext(g, h, link, value)
    /\ \A n \in Indices(MaxNodes) : HasNode(g, n) => WritesNextAt(g, h, pin, link, value, n)

WritesPrevAt(g, h, pin, link, value, n) ==
    /\ Node(h, n).type = Node(g, n).type /\ Node(h, n).input = Node(g, n).input
    /\ \A i \in Outputs(g, n) :
          /\ Node(h, n).output[i].next = Node(g, n).output[i].next
          /\ Node(h, n).output[i].prev =
                IF ~HasEdge(g, link) /\ n = PinNode(pin) /\ i = PinIndex(pin)
                THEN value ELSE Node(g, n).output[i].prev

WritesPrev(g, h, pin, link, value) ==
    /\ SameSlots(g, h)
    /\ SetsPrev(g, h, link, value)
    /\ \A n \in Indices(MaxNodes) : HasNode(g, n) => WritesPrevAt(g, h, pin, link, value, n)

LEMMA NextWritten ==
    ASSUME NEW g, NEW h, IsGraph(h), SameSlots(g, h), NEW pin, NEW link,
           HasNode(g, PinNode(pin)), NEW value,
           NEW t, t = SetNext(h, Resolve(g, pin, link), value)
    PROVE  WritesNext(h, t, pin, link, value)
<1>1. HasEdge(h, link) = HasEdge(g, link)
  BY SameLookups
<1>2. CASE HasEdge(g, link)
  <2>1. SetsNext(h, t, link, value) /\ SameNodes(h, t) /\ SameSlots(h, t)
    BY <1>2, NextOfEdge
  <2> QED
    BY <1>1, <1>2, <2>1 DEF WritesNext, WritesNextAt, SameNodes
<1>3. CASE ~HasEdge(g, link)
  <2>1. SetsHead(h, t, PinNode(pin), PinIndex(pin), value) /\ SameEdges(h, t) /\ SameSlots(h, t)
    BY <1>3, NextOfPin
  <2>2. SetsNext(h, t, link, value)
    BY <1>1, <1>3, <2>1 DEF SameEdges, SetsNext
  <2>3. \A n \in Indices(MaxNodes) : HasNode(h, n) => WritesNextAt(h, t, pin, link, value, n)
    BY <1>1, <1>3, <2>1 DEF SetsHead, SetsHeadAt, WritesNextAt
  <2> QED
    BY <2>1, <2>2, <2>3 DEF WritesNext
<1> QED
  BY <1>2, <1>3

LEMMA PrevWritten ==
    ASSUME NEW g, NEW h, IsGraph(h), SameSlots(g, h), NEW pin, NEW link,
           HasNode(g, PinNode(pin)), NEW value,
           NEW t, t = SetPrev(h, Resolve(g, pin, link), value)
    PROVE  WritesPrev(h, t, pin, link, value)
<1>1. HasEdge(h, link) = HasEdge(g, link)
  BY SameLookups
<1>2. CASE HasEdge(g, link)
  <2>1. SetsPrev(h, t, link, value) /\ SameNodes(h, t) /\ SameSlots(h, t)
    BY <1>2, PrevOfEdge
  <2> QED
    BY <1>1, <1>2, <2>1 DEF WritesPrev, WritesPrevAt, SameNodes
<1>3. CASE ~HasEdge(g, link)
  <2>1. SetsTail(h, t, PinNode(pin), PinIndex(pin), value) /\ SameEdges(h, t) /\ SameSlots(h, t)
    BY <1>3, PrevOfPin
  <2>2. SetsPrev(h, t, link, value)
    BY <1>1, <1>3, <2>1 DEF SameEdges, SetsPrev
  <2>3. \A n \in Indices(MaxNodes) : HasNode(h, n) => WritesPrevAt(h, t, pin, link, value, n)
    BY <1>1, <1>3, <2>1 DEF SetsTail, SetsTailAt, WritesPrevAt
  <2> QED
    BY <2>1, <2>2, <2>3 DEF WritesPrev
<1> QED
  BY <1>2, <1>3

-----------------------------------------------------------------------------
(* hgraph_disconnect, field by field: f is another edge, n a node. *)
UnlinksEdge(g, h, x, f) ==
    /\ Edge(h, f).from = Edge(g, f).from /\ Edge(h, f).to = Edge(g, f).to
    /\ Edge(h, f).next = IF f = x.prev THEN x.next ELSE Edge(g, f).next
    /\ Edge(h, f).prev = IF f = x.next THEN x.prev ELSE Edge(g, f).prev

UnlinksNode(g, h, x, n) ==
    /\ Node(h, n).type = Node(g, n).type
    /\ \A i \in Inputs(g, n) :
          Node(h, n).input[i] =
             IF n = PinNode(x.to) /\ i = PinIndex(x.to) THEN Invalid ELSE Node(g, n).input[i]
    /\ \A i \in Outputs(g, n) :
          /\ Node(h, n).output[i].next =
                IF ~HasEdge(g, x.prev) /\ n = PinNode(x.from) /\ i = PinIndex(x.from)
                THEN x.next ELSE Node(g, n).output[i].next
          /\ Node(h, n).output[i].prev =
                IF ~HasEdge(g, x.next) /\ n = PinNode(x.from) /\ i = PinIndex(x.from)
                THEN x.prev ELSE Node(g, n).output[i].prev

LEMMA UnlinkWrites ==
    ASSUME NEW g, IsGraph(g), NEW x \in EdgeType,
           HasNode(g, PinNode(x.from)), HasNode(g, PinNode(x.to)),
           NEW h, h = Unlink(g, x)
    PROVE  /\ SameSlots(g, h)
           /\ \A f \in EdgeIds : HasEdge(g, f) => UnlinksEdge(g, h, x, f)
           /\ \A n \in Indices(MaxNodes) : HasNode(g, n) => UnlinksNode(g, h, x, n)
<1>1. PICK g1 : g1 = SetInput(g, x.to, Invalid)
  OBVIOUS
<1>2. PICK g2 : g2 = SetNext(g1, Resolve(g, x.from, x.prev), x.next)
  OBVIOUS
<1>3. h = SetPrev(g2, Resolve(g, x.from, x.next), x.prev)
  BY <1>1, <1>2 DEF Unlink
<1>4. x.next \in LinkIds /\ x.prev \in LinkIds /\ Invalid \in LinkIds
  BY DEF EdgeType, LinkIds
<1>5. IsGraph(g1) /\ SameSlots(g, g1)
  BY <1>1, <1>4, InputWrite
<1>6. SetsInput(g, g1, PinNode(x.to), PinIndex(x.to), Invalid) /\ SameEdges(g, g1)
  BY <1>1, InputOfPin
<1>7. IsGraph(g2) /\ SameSlots(g1, g2)
  BY <1>2, <1>4, <1>5, LinkAndPinWrites
<1>8. WritesNext(g1, g2, x.from, x.prev, x.next)
  BY <1>2, <1>5, NextWritten
<1>9. SameSlots(g, g2)
  BY <1>5, <1>7 DEF SameSlots
<1>10. WritesPrev(g2, h, x.from, x.next, x.prev)
  BY <1>3, <1>7, <1>9, PrevWritten
<1>11. SameSlots(g, h)
  BY <1>9, <1>10 DEF SameSlots, WritesPrev
<1>12. /\ \A n : HasNode(g1, n) = HasNode(g, n) /\ HasNode(g2, n) = HasNode(g, n)
       /\ \A f : HasEdge(g1, f) = HasEdge(g, f) /\ HasEdge(g2, f) = HasEdge(g, f)
  BY <1>5, <1>9, SameLookups
<1>13. ASSUME NEW f \in EdgeIds, HasEdge(g, f) PROVE UnlinksEdge(g, h, x, f)
  <2>1. Edge(g1, f) = Edge(g, f)
    BY <1>6, <1>13 DEF SameEdges
  <2>2. /\ Edge(g2, f).from = Edge(g1, f).from /\ Edge(g2, f).to = Edge(g1, f).to
        /\ Edge(g2, f).prev = Edge(g1, f).prev
        /\ Edge(g2, f).next = IF f = x.prev THEN x.next ELSE Edge(g1, f).next
    BY <1>8, <1>12, <1>13 DEF WritesNext, SetsNext
  <2>3. /\ Edge(h, f).from = Edge(g2, f).from /\ Edge(h, f).to = Edge(g2, f).to
        /\ Edge(h, f).next = Edge(g2, f).next
        /\ Edge(h, f).prev = IF f = x.next THEN x.prev ELSE Edge(g2, f).prev
    BY <1>10, <1>12, <1>13 DEF WritesPrev, SetsPrev
  <2> QED
    BY <2>1, <2>2, <2>3 DEF UnlinksEdge
<1>14. ASSUME NEW n \in Indices(MaxNodes), HasNode(g, n) PROVE UnlinksNode(g, h, x, n)
  <2>1. SetsInputAt(g, g1, PinNode(x.to), PinIndex(x.to), Invalid, n)
    BY <1>6, <1>14 DEF SetsInput
  <2>2. WritesNextAt(g1, g2, x.from, x.prev, x.next, n)
    BY <1>8, <1>12, <1>14 DEF WritesNext
  <2>3. WritesPrevAt(g2, h, x.from, x.next, x.prev, n)
    BY <1>10, <1>12, <1>14 DEF WritesPrev
  <2>4. /\ Node(g1, n).type = Node(g, n).type /\ Node(g2, n).type = Node(g, n).type
        /\ Node(h, n).type = Node(g, n).type
    BY <2>1, <2>2, <2>3 DEF SetsInputAt, WritesNextAt, WritesPrevAt
  <2>5. /\ Inputs(g1, n) = Inputs(g, n) /\ Outputs(g1, n) = Outputs(g, n)
        /\ Outputs(g2, n) = Outputs(g, n)
    BY <2>4 DEF Inputs, Outputs
  <2>6. \A i \in Inputs(g, n) :
          Node(h, n).input[i] =
             IF n = PinNode(x.to) /\ i = PinIndex(x.to) THEN Invalid ELSE Node(g, n).input[i]
    BY <2>1, <2>2, <2>3 DEF SetsInputAt, WritesNextAt, WritesPrevAt
  <2>7. ASSUME NEW i \in Outputs(g, n)
        PROVE  /\ Node(h, n).output[i].next =
                     IF ~HasEdge(g, x.prev) /\ n = PinNode(x.from) /\ i = PinIndex(x.from)
                     THEN x.next ELSE Node(g, n).output[i].next
               /\ Node(h, n).output[i].prev =
                     IF ~HasEdge(g, x.next) /\ n = PinNode(x.from) /\ i = PinIndex(x.from)
                     THEN x.prev ELSE Node(g, n).output[i].prev
    <3>1. Node(g1, n).output = Node(g, n).output
      BY <2>1 DEF SetsInputAt
    <3>2. /\ Node(g2, n).output[i].prev = Node(g1, n).output[i].prev
          /\ Node(g2, n).output[i].next =
                IF ~HasEdge(g, x.prev) /\ n = PinNode(x.from) /\ i = PinIndex(x.from)
                THEN x.next ELSE Node(g1, n).output[i].next
      BY <1>12, <2>2, <2>5 DEF WritesNextAt
    <3>3. /\ Node(h, n).output[i].next = Node(g2, n).output[i].next
          /\ Node(h, n).output[i].prev =
                IF ~HasEdge(g, x.next) /\ n = PinNode(x.from) /\ i = PinIndex(x.from)
                THEN x.prev ELSE Node(g2, n).output[i].prev
      BY <1>12, <2>3, <2>5 DEF WritesPrevAt
    <3> QED
      BY <3>1, <3>2, <3>3
  <2> QED
    BY <2>4, <2>6, <2>7 DEF UnlinksNode
<1> QED
  BY <1>11, <1>13, <1>14

(* The freed slot takes the last edge, and every other id still finds its  *)
(* own.                                                                    *)
LEMMA EdgeFreed ==
    ASSUME NEW g, IsGraph(g), NEW id, HasEdge(g, id), NEW h, h = FreeEdge(g, id)
    PROVE  /\ \A f : HasEdge(h, f) <=> HasEdge(g, f) /\ f # id
           /\ \A f : HasEdge(g, f) /\ f # id => Edge(h, f) = Edge(g, f)
           /\ h.node_slot_map = g.node_slot_map /\ h.nodes = g.nodes
<1> DEFINE old == g.edge_slot_map
           map == Free(old, id)
           dst == FreeDst(old, id)
           src == FreeSrc(old, id)
<1>1. /\ h.edge_slot_map = map /\ h.node_slot_map = g.node_slot_map /\ h.nodes = g.nodes
      /\ h.edges = [s \in Indices(MaxEdges) |-> IF s = dst THEN g.edges[src] ELSE g.edges[s]]
  BY DEF IsGraph, FreeEdge
<1>2. IsSlotMap(old, MaxEdges) /\ IsLive(old, id)
  BY DEF IsGraph, HasEdge
<1> HIDE DEF old
<1>3. IsSlotMap(map, MaxEdges)
  BY <1>2, FreeIsSlotMap, MaxEdgesIsNat
<1>4. /\ dst \in Indices(MaxEdges)
      /\ LiveIds(map) = LiveIds(old) \ {id}
      /\ \A f \in LiveIds(old) \ {id} :
            IF SlotForId(old, f) = src
            THEN SlotForId(map, f) = dst
            ELSE SlotForId(map, f) = SlotForId(old, f) /\ SlotForId(old, f) # dst
  BY <1>2, FreeMovesLast, MaxEdgesIsNat
<1> HIDE DEF map, dst, src
<1>5. /\ \A f : f \in LiveIds(old) <=> IsLive(old, f)
      /\ \A f : f \in LiveIds(map) <=> IsLive(map, f)
  BY <1>2, <1>3, LiveIdsAre, MaxEdgesIsNat
<1>6. \A f : IsLive(map, f) <=> IsLive(old, f) /\ f # id
  BY <1>4, <1>5
<1>7. \A f : IsLive(old, f) => SlotForId(old, f) \in Indices(MaxEdges)
  BY <1>2, LookupRange, MaxEdgesIsNat
<1>8. ASSUME NEW f, IsLive(old, f), f # id
      PROVE  h.edges[SlotForId(map, f)] = g.edges[SlotForId(old, f)]
  BY <1>1, <1>4, <1>5, <1>7, <1>8
<1>9. g.edge_slot_map = old
  BY DEF old
<1> QED
  BY <1>1, <1>6, <1>8, <1>9 DEF HasEdge, Edge, EdgeSlot

LEMMA NodeFreed ==
    ASSUME NEW g, IsGraph(g), NEW id, HasNode(g, id), NEW h, h = FreeNode(g, id)
    PROVE  /\ \A n : HasNode(h, n) <=> HasNode(g, n) /\ n # id
           /\ \A n : HasNode(g, n) /\ n # id => Node(h, n) = Node(g, n)
           /\ h.edge_slot_map = g.edge_slot_map /\ h.edges = g.edges
<1> DEFINE old == g.node_slot_map
           map == Free(old, id)
           dst == FreeDst(old, id)
           src == FreeSrc(old, id)
<1>1. /\ h.node_slot_map = map /\ h.edge_slot_map = g.edge_slot_map /\ h.edges = g.edges
      /\ h.nodes = [s \in Indices(MaxNodes) |-> IF s = dst THEN g.nodes[src] ELSE g.nodes[s]]
  BY DEF IsGraph, FreeNode
<1>2. IsSlotMap(old, MaxNodes) /\ IsLive(old, id)
  BY DEF IsGraph, HasNode
<1> HIDE DEF old
<1>3. IsSlotMap(map, MaxNodes)
  BY <1>2, FreeIsSlotMap, GraphAssumption
<1>4. /\ dst \in Indices(MaxNodes)
      /\ LiveIds(map) = LiveIds(old) \ {id}
      /\ \A n \in LiveIds(old) \ {id} :
            IF SlotForId(old, n) = src
            THEN SlotForId(map, n) = dst
            ELSE SlotForId(map, n) = SlotForId(old, n) /\ SlotForId(old, n) # dst
  BY <1>2, FreeMovesLast, GraphAssumption
<1> HIDE DEF map, dst, src
<1>5. /\ \A n : n \in LiveIds(old) <=> IsLive(old, n)
      /\ \A n : n \in LiveIds(map) <=> IsLive(map, n)
  BY <1>2, <1>3, LiveIdsAre, GraphAssumption
<1>6. \A n : IsLive(map, n) <=> IsLive(old, n) /\ n # id
  BY <1>4, <1>5
<1>7. \A n : IsLive(old, n) => SlotForId(old, n) \in Indices(MaxNodes)
  BY <1>2, LookupRange, GraphAssumption
<1>8. ASSUME NEW n, IsLive(old, n), n # id
      PROVE  h.nodes[SlotForId(map, n)] = g.nodes[SlotForId(old, n)]
  BY <1>1, <1>4, <1>5, <1>7, <1>8
<1>9. g.node_slot_map = old
  BY DEF old
<1> QED
  BY <1>1, <1>6, <1>8, <1>9 DEF HasNode, Node, NodeSlot

(* hgraph_create_node: an id that was not in use, with a fresh node. *)
LEMMA NodeCreated ==
    ASSUME NEW g, IsGraph(g), NEW type \in NodeTypes, ~IsFull(g.node_slot_map),
           NEW h, h = CreateNode(g, type)
    PROVE  LET id == AllocatedId(g.node_slot_map) IN
           /\ id \in Indices(MaxNodes) /\ ~HasNode(g, id)
           /\ \A n : HasNode(h, n) <=> HasNode(g, n) \/ n = id
           /\ \A n : HasNode(g, n) => Node(h, n) = Node(g, n)
           /\ Node(h, id) = FreshNode(type)
           /\ h.edge_slot_map = g.edge_slot_map /\ h.edges = g.edges
<1> DEFINE old  == g.node_slot_map
           map  == Allocate(old)
           slot == AllocatedSlot(old)
           id   == AllocatedId(old)
           new  == FreshNode(type)
<1>1. /\ h.node_slot_map = map /\ h.edge_slot_map = g.edge_slot_map /\ h.edges = g.edges
      /\ h.nodes = [s \in Indices(MaxNodes) |-> IF s = slot THEN new ELSE g.nodes[s]]
  BY DEF IsGraph, CreateNode
<1>2. IsSlotMap(old, MaxNodes) /\ ~IsFull(old)
  BY DEF IsGraph
<1> HIDE DEF old, new
<1>3. IsSlotMap(map, MaxNodes)
  BY <1>2, AllocateIsSlotMap, GraphAssumption
<1>4. /\ id \in Indices(MaxNodes) /\ id \notin LiveIds(old)
      /\ slot \in Indices(MaxNodes)
      /\ LiveIds(map) = LiveIds(old) \union {id}
      /\ SlotForId(map, id) = slot
      /\ \A n \in LiveIds(old) : SlotForId(map, n) = SlotForId(old, n) /\ SlotForId(old, n) # slot
  BY <1>2, AllocateMakesLive, GraphAssumption
<1> HIDE DEF map, slot, id
<1>5. /\ \A n : n \in LiveIds(old) <=> IsLive(old, n)
      /\ \A n : n \in LiveIds(map) <=> IsLive(map, n)
  BY <1>2, <1>3, LiveIdsAre, GraphAssumption
<1>6. /\ \A n : IsLive(map, n) <=> IsLive(old, n) \/ n = id
      /\ ~IsLive(old, id)
  BY <1>4, <1>5
<1>7. \A n : IsLive(old, n) => SlotForId(old, n) \in Indices(MaxNodes)
  BY <1>2, LookupRange, GraphAssumption
<1>8. \A n : IsLive(old, n) => h.nodes[SlotForId(map, n)] = g.nodes[SlotForId(old, n)]
  BY <1>1, <1>4, <1>5, <1>7
<1>9. h.nodes[SlotForId(map, id)] = new
  BY <1>1, <1>4
<1>10. g.node_slot_map = old /\ id = AllocatedId(g.node_slot_map) /\ new = FreshNode(type)
  BY DEF old, id, new
<1> QED
  BY <1>1, <1>4, <1>6, <1>8, <1>9, <1>10 DEF HasNode, Node, NodeSlot

(* The edges or the nodes of two graphs with the same slots and items. *)
LEMMA SameNodeMaps ==
    ASSUME NEW g, NEW h, h.node_slot_map = g.node_slot_map, h.nodes = g.nodes
    PROVE  \A n : HasNode(h, n) = HasNode(g, n) /\ Node(h, n) = Node(g, n)
BY DEF HasNode, Node, NodeSlot

LEMMA SameEdgeMaps ==
    ASSUME NEW g, NEW h, h.edge_slot_map = g.edge_slot_map, h.edges = g.edges
    PROVE  \A e : HasEdge(h, e) = HasEdge(g, e) /\ Edge(h, e) = Edge(g, e)
BY DEF HasEdge, Edge, EdgeSlot

(* hgraph_disconnect. *)
Disconnects(g, h, id) ==
    /\ \A f : HasEdge(h, f) <=> HasEdge(g, f) /\ f # id
    /\ \A n : HasNode(h, n) <=> HasNode(g, n)
    /\ \A f \in EdgeIds : HasEdge(h, f) => UnlinksEdge(g, h, Edge(g, id), f)
    /\ \A n \in Indices(MaxNodes) : HasNode(g, n) => UnlinksNode(g, h, Edge(g, id), n)

LEMMA Disconnected ==
    ASSUME NEW g, IsGraph(g), NEW id, HasEdge(g, id),
           HasNode(g, PinNode(Edge(g, id).from)), HasNode(g, PinNode(Edge(g, id).to)),
           NEW h, h = Disconnect(g, id)
    PROVE  Disconnects(g, h, id)
<1>1. PICK x : x = Edge(g, id)
  OBVIOUS
<1>2. PICK u : u = Unlink(g, x)
  OBVIOUS
<1>3. x \in EdgeType
  BY <1>1, EdgeInSlot
<1>4. /\ SameSlots(g, u)
      /\ \A f \in EdgeIds : HasEdge(g, f) => UnlinksEdge(g, u, x, f)
      /\ \A n \in Indices(MaxNodes) : HasNode(g, n) => UnlinksNode(g, u, x, n)
  BY <1>1, <1>2, <1>3, UnlinkWrites
<1>5. IsGraph(u)
  BY <1>2, <1>3, UnlinkKeepsGraph
<1>6. /\ \A n : HasNode(u, n) = HasNode(g, n)
      /\ \A f : HasEdge(u, f) = HasEdge(g, f)
  BY <1>4, SameLookups
<1>7. h = FreeEdge(u, id)
  BY <1>1, <1>2 DEF Disconnect
<1>8. /\ \A f : HasEdge(h, f) <=> HasEdge(u, f) /\ f # id
      /\ \A f : HasEdge(u, f) /\ f # id => Edge(h, f) = Edge(u, f)
      /\ h.node_slot_map = u.node_slot_map /\ h.nodes = u.nodes
  BY <1>5, <1>6, <1>7, EdgeFreed
<1>9. \A n : HasNode(h, n) = HasNode(u, n) /\ Node(h, n) = Node(u, n)
  BY <1>8, SameNodeMaps
<1>10. ASSUME NEW f \in EdgeIds, HasEdge(h, f) PROVE UnlinksEdge(g, h, x, f)
  <2>1. Edge(h, f) = Edge(u, f) /\ UnlinksEdge(g, u, x, f)
    BY <1>4, <1>6, <1>8, <1>10
  <2> QED
    BY <2>1 DEF UnlinksEdge
<1>11. ASSUME NEW n \in Indices(MaxNodes), HasNode(g, n) PROVE UnlinksNode(g, h, x, n)
  <2>1. Node(h, n) = Node(u, n) /\ UnlinksNode(g, u, x, n)
    BY <1>4, <1>9, <1>11
  <2> QED
    BY <2>1 DEF UnlinksNode
<1> QED
  BY <1>1, <1>6, <1>8, <1>9, <1>10, <1>11 DEF Disconnects

-----------------------------------------------------------------------------
(* hgraph_connect: first the new edge gets a slot. *)
WithEdge(g, r) ==
    [g EXCEPT !.edge_slot_map = Allocate(@),
              !.edges[AllocatedSlot(g.edge_slot_map)] = r]

LEMMA EdgeAdded ==
    ASSUME NEW g, IsGraph(g), ~IsFull(g.edge_slot_map), NEW r \in EdgeType,
           NEW h, h = WithEdge(g, r)
    PROVE  LET id == AllocatedId(g.edge_slot_map) IN
           /\ IsGraph(h)
           /\ id \in EdgeIds /\ ~HasEdge(g, id)
           /\ \A f : HasEdge(h, f) <=> HasEdge(g, f) \/ f = id
           /\ \A f : HasEdge(g, f) => Edge(h, f) = Edge(g, f)
           /\ Edge(h, id) = r
           /\ h.node_slot_map = g.node_slot_map /\ h.nodes = g.nodes
<1> DEFINE old   == g.edge_slot_map
           map   == Allocate(old)
           slot  == AllocatedSlot(old)
           id    == AllocatedId(old)
           edges == [g.edges EXCEPT ![slot] = r]
<1>1. h = [version |-> g.version, node_slot_map |-> g.node_slot_map,
           node_versions |-> g.node_versions, nodes |-> g.nodes,
           edge_slot_map |-> map, edges |-> edges]
  <2>1. h = [[g EXCEPT !.edge_slot_map = map] EXCEPT !.edges = edges]
    BY DEF WithEdge
  <2> HIDE DEF map, edges
  <2> QED
    BY <2>1 DEF IsGraph
<1>2. edges = [s \in Indices(MaxEdges) |-> IF s = slot THEN r ELSE g.edges[s]]
  BY DEF IsGraph
<1>3. IsSlotMap(old, MaxEdges) /\ ~IsFull(old)
  BY DEF IsGraph
<1>4. /\ map.num_items = old.num_items + 1 /\ slot = old.num_items
      /\ old.num_items \in 0 .. MaxEdges /\ MaxEdges \in Nat
  BY <1>3, MapFields, AllocateMakesLive, MaxEdgesIsNat DEF IsSlotMap, Allocate, MapType
<1>5. g.edge_slot_map = old /\ id = AllocatedId(g.edge_slot_map)
  OBVIOUS
<1> HIDE DEF old
<1>6. IsSlotMap(map, MaxEdges)
  BY <1>3, AllocateIsSlotMap, MaxEdgesIsNat
<1>7. /\ id \in Indices(MaxEdges) /\ id \notin LiveIds(old)
      /\ slot \in Indices(MaxEdges)
      /\ LiveIds(map) = LiveIds(old) \union {id}
      /\ SlotForId(map, id) = slot
      /\ \A n \in LiveIds(old) : SlotForId(map, n) = SlotForId(old, n) /\ SlotForId(old, n) # slot
  BY <1>3, AllocateMakesLive, MaxEdgesIsNat
<1> HIDE DEF map, slot, id, edges
<1>8. /\ \A n : n \in LiveIds(old) <=> IsLive(old, n)
      /\ \A n : n \in LiveIds(map) <=> IsLive(map, n)
  BY <1>3, <1>6, LiveIdsAre, MaxEdgesIsNat
<1>9. /\ \A n : IsLive(map, n) <=> IsLive(old, n) \/ n = id
      /\ ~IsLive(old, id)
  BY <1>7, <1>8
<1>10. \A n : IsLive(old, n) => SlotForId(old, n) \in Indices(MaxEdges)
  BY <1>3, LookupRange, MaxEdgesIsNat
<1>11. \A n : IsLive(old, n) => edges[SlotForId(map, n)] = g.edges[SlotForId(old, n)]
  BY <1>2, <1>7, <1>8, <1>10
<1>12. edges[SlotForId(map, id)] = r
  BY <1>2, <1>7
<1>13. IsGraph(h)
  <2>1. \A s \in Indices(map.num_items) : edges[s] \in EdgeType
    <3> TAKE s \in Indices(map.num_items)
    <3>1. s \in Indices(MaxEdges) /\ (s = slot \/ s \in Indices(old.num_items))
      BY <1>4, <1>7 DEF Indices
    <3> QED
      BY <1>2, <1>5, <3>1 DEF IsGraph
  <2>2. edges = [s \in Indices(MaxEdges) |-> edges[s]]
    BY <1>2
  <2> QED
    BY <1>1, <1>6, <2>1, <2>2 DEF IsGraph
<1>14. h.edge_slot_map = map /\ h.edges = edges /\ h.node_slot_map = g.node_slot_map /\ h.nodes = g.nodes
  BY <1>1
<1> QED
  BY <1>5, <1>7, <1>9, <1>11, <1>12, <1>13, <1>14 DEF HasEdge, Edge, EdgeSlot, EdgeIds

LEMMA ValidEdgeIds ==
    /\ \A e \in EdgeIds : IsValid(e) /\ e # Invalid
    /\ \A e \in LinkIds : IsValid(e) <=> e \in EdgeIds
BY MaxEdgesIsNat DEF EdgeIds, LinkIds, Indices, IsValid, Invalid

(* hgraph_connect, field by field. *)
LinksEdge(g, h, tail, id, f) ==
    /\ Edge(h, f).from = Edge(g, f).from /\ Edge(h, f).to = Edge(g, f).to
    /\ Edge(h, f).prev = Edge(g, f).prev
    /\ Edge(h, f).next = IF f = tail THEN id ELSE Edge(g, f).next

LinksNode(g, h, from, to, tail, id, n) ==
    /\ Node(h, n).type = Node(g, n).type
    /\ \A i \in Inputs(g, n) :
          Node(h, n).input[i] =
             IF n = PinNode(to) /\ i = PinIndex(to) THEN id ELSE Node(g, n).input[i]
    /\ \A i \in Outputs(g, n) :
          /\ Node(h, n).output[i].next =
                IF ~HasEdge(g, tail) /\ n = PinNode(from) /\ i = PinIndex(from)
                THEN id ELSE Node(g, n).output[i].next
          /\ Node(h, n).output[i].prev =
                IF n = PinNode(from) /\ i = PinIndex(from)
                THEN id ELSE Node(g, n).output[i].prev

Connects(g, h, from, to, tail, id) ==
    /\ id \in EdgeIds /\ ~HasEdge(g, id)
    /\ \A f : HasEdge(h, f) <=> HasEdge(g, f) \/ f = id
    /\ \A n : HasNode(h, n) <=> HasNode(g, n)
    /\ Edge(h, id).from = from /\ Edge(h, id).to = to
    /\ Edge(h, id).prev = tail /\ Edge(h, id).next = Invalid
    /\ \A f \in EdgeIds : HasEdge(g, f) => LinksEdge(g, h, tail, id, f)
    /\ \A n \in Indices(MaxNodes) : HasNode(g, n) => LinksNode(g, h, from, to, tail, id, n)

LEMMA Connected ==
    ASSUME NEW g, IsGraph(g), NEW from \in Pins, NEW to \in Pins,
           CanConnect(g, from, to), ~IsFull(g.edge_slot_map),
           NEW tail \in LinkIds, tail = OutputPin(g, from).prev,
           IsValid(tail) => HasEdge(g, tail),
           NEW h, h = Connect(g, from, to)
    PROVE  Connects(g, h, from, to, tail, AllocatedId(g.edge_slot_map))
<1>1. PICK id : id = AllocatedId(g.edge_slot_map)
  OBVIOUS
<1>2. PICK r : r = [from |-> from, to |-> to, prev |-> tail, next |-> Invalid]
  OBVIOUS
<1>3. PICK added : added = WithEdge(g, r)
  OBVIOUS
<1>4. PICK g1 : g1 = SetInput(added, to, id)
  OBVIOUS
<1>5. PICK g2 : g2 = SetNext(g1, Resolve(added, from, tail), id)
  OBVIOUS
<1>6. h = SetPrev(g2, Resolve(g, from, Invalid), id)
  BY <1>1, <1>2, <1>3, <1>4, <1>5 DEF Connect, WithEdge
<1>7. r \in EdgeType
  BY <1>2 DEF EdgeType, LinkIds
<1>8. /\ IsGraph(added)
      /\ id \in EdgeIds /\ ~HasEdge(g, id)
      /\ \A f : HasEdge(added, f) <=> HasEdge(g, f) \/ f = id
      /\ \A f : HasEdge(g, f) => Edge(added, f) = Edge(g, f)
      /\ Edge(added, id) = r
      /\ added.node_slot_map = g.node_slot_map /\ added.nodes = g.nodes
  BY <1>1, <1>3, <1>7, EdgeAdded
<1>9. \A n : HasNode(added, n) = HasNode(g, n) /\ Node(added, n) = Node(g, n)
  BY <1>8, SameNodeMaps
<1>10. HasNode(g, PinNode(from)) /\ HasNode(g, PinNode(to))
  BY DEF CanConnect, JoinsNodes
<1>11. id \in LinkIds
  BY <1>8 DEF LinkIds
<1>12. IsGraph(g1) /\ SameSlots(added, g1)
  BY <1>4, <1>8, <1>11, InputWrite
<1>13. SetsInput(added, g1, PinNode(to), PinIndex(to), id) /\ SameEdges(added, g1)
  BY <1>4, <1>8, <1>9, <1>10, InputOfPin
<1>14. IsGraph(g2) /\ SameSlots(g1, g2)
  BY <1>5, <1>11, <1>12, LinkAndPinWrites
<1>15. WritesNext(g1, g2, from, tail, id)
  BY <1>5, <1>9, <1>10, <1>12, NextWritten
<1>16. SameSlots(added, g2)
  BY <1>12, <1>14 DEF SameSlots
<1>17. ~HasEdge(g, Invalid) /\ ~HasEdge(added, Invalid)
  BY <1>8, EdgeInSlot, MaxEdgesIsNat DEF EdgeIds, Indices, Invalid
<1>18. Resolve(g, from, Invalid) = Resolve(added, from, Invalid)
  BY <1>8, <1>17 DEF Resolve, NodeSlot
<1>19. WritesPrev(g2, h, from, Invalid, id)
  BY <1>6, <1>9, <1>10, <1>14, <1>16, <1>18, PrevWritten
<1>20. /\ \A n : /\ HasNode(g1, n) = HasNode(g, n) /\ HasNode(g2, n) = HasNode(g, n)
                 /\ HasNode(h, n) = HasNode(g, n)
       /\ \A f : /\ HasEdge(g1, f) = HasEdge(added, f) /\ HasEdge(g2, f) = HasEdge(added, f)
                 /\ HasEdge(h, f) = HasEdge(added, f)
  <2>1. SameSlots(added, h)
    BY <1>16, <1>19 DEF WritesPrev, SameSlots
  <2> QED
    BY <1>9, <1>12, <1>16, <2>1, SameLookups
<1>21. tail # id
  <2>1. IsValid(id)
    BY <1>8, ValidEdgeIds
  <2> QED
    BY <1>8, <2>1
<1>22. HasEdge(added, tail) <=> HasEdge(g, tail)
  BY <1>8, <1>21
<1>23. ASSUME NEW f \in EdgeIds, HasEdge(added, f)
       PROVE  /\ Edge(h, f).from = Edge(added, f).from /\ Edge(h, f).to = Edge(added, f).to
              /\ Edge(h, f).prev = Edge(added, f).prev
              /\ Edge(h, f).next = IF f = tail THEN id ELSE Edge(added, f).next
  <2>1. Edge(g1, f) = Edge(added, f)
    BY <1>13, <1>23 DEF SameEdges
  <2>2. /\ Edge(g2, f).from = Edge(g1, f).from /\ Edge(g2, f).to = Edge(g1, f).to
        /\ Edge(g2, f).prev = Edge(g1, f).prev
        /\ Edge(g2, f).next = IF f = tail THEN id ELSE Edge(g1, f).next
    BY <1>15, <1>20, <1>23 DEF WritesNext, SetsNext
  <2>3. f # Invalid
    BY <1>17, <1>23
  <2>4. /\ Edge(h, f).from = Edge(g2, f).from /\ Edge(h, f).to = Edge(g2, f).to
        /\ Edge(h, f).next = Edge(g2, f).next /\ Edge(h, f).prev = Edge(g2, f).prev
    BY <1>19, <1>20, <1>23, <2>3 DEF WritesPrev, SetsPrev
  <2> QED
    BY <2>1, <2>2, <2>4
<1>24. \A f \in EdgeIds : HasEdge(g, f) => LinksEdge(g, h, tail, id, f)
  BY <1>8, <1>23 DEF LinksEdge
<1>25. /\ Edge(h, id).from = from /\ Edge(h, id).to = to
       /\ Edge(h, id).prev = tail /\ Edge(h, id).next = Invalid
  BY <1>2, <1>8, <1>21, <1>23
<1>26. ASSUME NEW n \in Indices(MaxNodes), HasNode(g, n)
       PROVE  LinksNode(g, h, from, to, tail, id, n)
  <2>1. SetsInputAt(added, g1, PinNode(to), PinIndex(to), id, n)
    BY <1>9, <1>13, <1>26 DEF SetsInput
  <2>2. WritesNextAt(g1, g2, from, tail, id, n)
    BY <1>15, <1>20, <1>26 DEF WritesNext
  <2>3. WritesPrevAt(g2, h, from, Invalid, id, n)
    BY <1>19, <1>20, <1>26 DEF WritesPrev
  <2>4. Node(added, n) = Node(g, n)
    BY <1>9
  <2>5. /\ Node(g1, n).type = Node(g, n).type /\ Node(g2, n).type = Node(g, n).type
        /\ Node(h, n).type = Node(g, n).type
    BY <2>1, <2>2, <2>3, <2>4 DEF SetsInputAt, WritesNextAt, WritesPrevAt
  <2>6. /\ Inputs(added, n) = Inputs(g, n) /\ Outputs(added, n) = Outputs(g, n)
        /\ Outputs(g1, n) = Outputs(g, n) /\ Outputs(g2, n) = Outputs(g, n)
    BY <2>4, <2>5 DEF Inputs, Outputs
  <2>7. \A i \in Inputs(g, n) :
          Node(h, n).input[i] =
             IF n = PinNode(to) /\ i = PinIndex(to) THEN id ELSE Node(g, n).input[i]
    BY <2>1, <2>2, <2>3, <2>4, <2>6 DEF SetsInputAt, WritesNextAt, WritesPrevAt
  <2>8. ASSUME NEW i \in Outputs(g, n)
        PROVE  /\ Node(h, n).output[i].next =
                     IF ~HasEdge(g, tail) /\ n = PinNode(from) /\ i = PinIndex(from)
                     THEN id ELSE Node(g, n).output[i].next
               /\ Node(h, n).output[i].prev =
                     IF n = PinNode(from) /\ i = PinIndex(from)
                     THEN id ELSE Node(g, n).output[i].prev
    <3>1. Node(g1, n).output = Node(g, n).output
      BY <2>1, <2>4 DEF SetsInputAt
    <3>2. (HasEdge(g1, tail) <=> HasEdge(g, tail)) /\ ~HasEdge(g2, Invalid)
      BY <1>17, <1>20, <1>22
    <3>3. /\ Node(g2, n).output[i].prev = Node(g1, n).output[i].prev
          /\ Node(g2, n).output[i].next =
                IF ~HasEdge(g, tail) /\ n = PinNode(from) /\ i = PinIndex(from)
                THEN id ELSE Node(g1, n).output[i].next
      BY <2>2, <2>6, <3>2 DEF WritesNextAt
    <3>4. /\ Node(h, n).output[i].next = Node(g2, n).output[i].next
          /\ Node(h, n).output[i].prev =
                IF n = PinNode(from) /\ i = PinIndex(from)
                THEN id ELSE Node(g2, n).output[i].prev
      BY <2>3, <2>6, <3>2 DEF WritesPrevAt
    <3> QED
      BY <3>1, <3>3, <3>4
  <2> QED
    BY <2>5, <2>7, <2>8 DEF LinksNode
<1> QED
  BY <1>1, <1>8, <1>20, <1>24, <1>25, <1>26 DEF Connects

-----------------------------------------------------------------------------
(* The pins of an edge that fits are pins of their nodes. *)
LEMMA PinsInRange ==
    ASSUME NEW g, IsGraph(g), NEW from \in Pins, NEW to \in Pins,
           Directed(from, to), JoinsNodes(g, from, to), PinsMatch(g, from, to)
    PROVE  /\ PinNode(from) \in Indices(MaxNodes) /\ PinIndex(from) \in Outputs(g, PinNode(from))
           /\ PinNode(to) \in Indices(MaxNodes) /\ PinIndex(to) \in Inputs(g, PinNode(to))
           /\ from = PinId(PinNode(from), PinIndex(from), TRUE)
           /\ to = PinId(PinNode(to), PinIndex(to), FALSE)
<1>1. IsValid(from) /\ IsValid(to) /\ IsOutput(from) /\ ~IsOutput(to)
  BY DEF Directed
<1>2. /\ PinNode(from) \in Indices(MaxNodes) /\ PinIndex(from) \in 0 .. 16
      /\ PinNode(to) \in Indices(MaxNodes) /\ PinIndex(to) \in 0 .. 16
      /\ from = PinId(PinNode(from), PinIndex(from), IsOutput(from))
      /\ to = PinId(PinNode(to), PinIndex(to), IsOutput(to))
  BY <1>1, PinEncodes
<1>3. IsOutput(from) = TRUE /\ IsOutput(to) = FALSE
  BY <1>1 DEF IsOutput
<1>4. /\ PinIndex(from) < NumOutputs(Node(g, PinNode(from)).type)
      /\ PinIndex(to) < NumInputs(Node(g, PinNode(to)).type)
  BY DEF PinsMatch, TypesMatch
<1>5. /\ Node(g, PinNode(from)).type \in NodeTypes
      /\ Node(g, PinNode(to)).type \in NodeTypes
  BY NodeInSlot DEF JoinsNodes, IsNode
<1>6. /\ NumOutputs(Node(g, PinNode(from)).type) \in 0 .. 16
      /\ NumInputs(Node(g, PinNode(to)).type) \in 0 .. 16
  BY <1>5, PinCounts DEF MaxPins
<1>7. /\ PinIndex(from) \in Outputs(g, PinNode(from))
      /\ PinIndex(to) \in Inputs(g, PinNode(to))
  BY <1>2, <1>4, <1>6 DEF Outputs, Inputs
<1> QED
  BY <1>2, <1>3, <1>7

LEMMA EdgePins ==
    ASSUME NEW g, IsGraph(g), EdgesFit(g), NEW e, HasEdge(g, e)
    PROVE  LET from == Edge(g, e).from
               to   == Edge(g, e).to
           IN  /\ e \in EdgeIds /\ EdgeFits(g, e)
               /\ HasNode(g, PinNode(from)) /\ HasNode(g, PinNode(to))
               /\ PinNode(from) # PinNode(to)
               /\ PinNode(from) \in Indices(MaxNodes) /\ PinIndex(from) \in Outputs(g, PinNode(from))
               /\ PinNode(to) \in Indices(MaxNodes) /\ PinIndex(to) \in Inputs(g, PinNode(to))
               /\ from = PinId(PinNode(from), PinIndex(from), TRUE)
               /\ to = PinId(PinNode(to), PinIndex(to), FALSE)
               /\ Node(g, PinNode(to)).input[PinIndex(to)] = e
<1>1. e \in EdgeIds /\ Edge(g, e).from \in Pins /\ Edge(g, e).to \in Pins
  BY EdgeInSlot DEF EdgeType
<1>2. EdgeFits(g, e)
  BY <1>1 DEF EdgesFit
<1>3. /\ Directed(Edge(g, e).from, Edge(g, e).to)
      /\ JoinsNodes(g, Edge(g, e).from, Edge(g, e).to)
      /\ PinsMatch(g, Edge(g, e).from, Edge(g, e).to)
      /\ Node(g, PinNode(Edge(g, e).to)).input[PinIndex(Edge(g, e).to)] = e
  BY <1>2 DEF EdgeFits
<1> QED
  BY <1>1, <1>2, <1>3, PinsInRange DEF JoinsNodes

(* A node's pin ids decode to the pin. *)
LEMMA OwnInput ==
    ASSUME NEW g, IsGraph(g), NEW n, HasNode(g, n), NEW i \in Inputs(g, n)
    PROVE  /\ n \in Indices(MaxNodes) /\ n \in Nat /\ i \in 0 .. 16 /\ i \in Nat
           /\ PinNode(PinId(n, i, FALSE)) = n /\ PinIndex(PinId(n, i, FALSE)) = i
<1>1. n \in Indices(MaxNodes) /\ Node(g, n).type \in NodeTypes
  BY NodeInSlot DEF IsNode
<1>2. n \in Nat
  BY <1>1, GraphAssumption DEF Indices
<1>3. NumInputs(Node(g, n).type) \in 0 .. 16
  BY <1>1, PinCounts DEF MaxPins
<1>4. i \in 0 .. 16 /\ i \in Nat
  BY <1>3 DEF Inputs
<1>5. PinNode(PinId(n, i, FALSE)) = n /\ PinIndex(PinId(n, i, FALSE)) = i
  BY <1>2, <1>4, PinDecodes
<1> QED
  BY <1>1, <1>2, <1>4, <1>5

LEMMA OwnOutput ==
    ASSUME NEW g, IsGraph(g), NEW n, HasNode(g, n), NEW i \in Outputs(g, n)
    PROVE  /\ n \in Indices(MaxNodes) /\ n \in Nat /\ i \in 0 .. 16 /\ i \in Nat
           /\ PinNode(PinId(n, i, TRUE)) = n /\ PinIndex(PinId(n, i, TRUE)) = i
<1>1. n \in Indices(MaxNodes) /\ Node(g, n).type \in NodeTypes
  BY NodeInSlot DEF IsNode
<1>2. n \in Nat
  BY <1>1, GraphAssumption DEF Indices
<1>3. NumOutputs(Node(g, n).type) \in 0 .. 16
  BY <1>1, PinCounts DEF MaxPins
<1>4. i \in 0 .. 16 /\ i \in Nat
  BY <1>3 DEF Outputs
<1>5. PinNode(PinId(n, i, TRUE)) = n /\ PinIndex(PinId(n, i, TRUE)) = i
  BY <1>2, <1>4, PinDecodes
<1> QED
  BY <1>1, <1>2, <1>4, <1>5

(* What an edge needs of the types of its nodes. *)
SameTypes(g, h) ==
    \A n : HasNode(g, n) => HasNode(h, n) /\ Node(h, n).type = Node(g, n).type

LEMMA SameTypesFit ==
    ASSUME NEW g, NEW h, SameTypes(g, h), NEW from, NEW to,
           JoinsNodes(g, from, to), PinsMatch(g, from, to)
    PROVE  JoinsNodes(h, from, to) /\ PinsMatch(h, from, to)
BY DEF SameTypes, JoinsNodes, PinsMatch

LEMMA DisconnectKeepsTypes ==
    ASSUME NEW g, IsGraph(g), NEW id, NEW h, Disconnects(g, h, id)
    PROVE  SameTypes(g, h)
<1> SUFFICES ASSUME NEW n, HasNode(g, n)
             PROVE  HasNode(h, n) /\ Node(h, n).type = Node(g, n).type
  BY DEF SameTypes
<1>1. n \in Indices(MaxNodes)
  BY NodeInSlot
<1> QED
  BY <1>1 DEF Disconnects, UnlinksNode

LEMMA ConnectKeepsTypes ==
    ASSUME NEW g, IsGraph(g), NEW from, NEW to, NEW tail, NEW id,
           NEW h, Connects(g, h, from, to, tail, id)
    PROVE  SameTypes(g, h)
<1> SUFFICES ASSUME NEW n, HasNode(g, n)
             PROVE  HasNode(h, n) /\ Node(h, n).type = Node(g, n).type
  BY DEF SameTypes
<1>1. n \in Indices(MaxNodes)
  BY NodeInSlot
<1> QED
  BY <1>1 DEF Connects, LinksNode

-----------------------------------------------------------------------------
(* Edges and their input pins, after hgraph_disconnect and hgraph_connect. *)
LEMMA DisconnectKeepsFits ==
    ASSUME NEW g, IsGraph(g), EdgesFit(g), InputsFit(g), NEW id, HasEdge(g, id),
           NEW h, Disconnects(g, h, id)
    PROVE  EdgesFit(h) /\ InputsFit(h)
<1>1. PICK x : x = Edge(g, id)
  OBVIOUS
<1>2. /\ \A f : HasEdge(h, f) <=> HasEdge(g, f) /\ f # id
      /\ \A n : HasNode(h, n) <=> HasNode(g, n)
      /\ \A f \in EdgeIds : HasEdge(h, f) => UnlinksEdge(g, h, x, f)
      /\ \A n \in Indices(MaxNodes) : HasNode(g, n) => UnlinksNode(g, h, x, n)
  BY <1>1 DEF Disconnects
<1>3. SameTypes(g, h)
  BY DisconnectKeepsTypes
<1>4. ASSUME NEW e \in EdgeIds, HasEdge(h, e) PROVE EdgeFits(h, e)
  <2>1. PICK from, to : from = Edge(g, e).from /\ to = Edge(g, e).to
    OBVIOUS
  <2>2. HasEdge(g, e) /\ e # id
    BY <1>2, <1>4
  <2>3. Edge(h, e).from = from /\ Edge(h, e).to = to
    BY <1>2, <1>4, <2>1 DEF UnlinksEdge
  <2>4. /\ Directed(from, to) /\ JoinsNodes(g, from, to) /\ PinsMatch(g, from, to)
        /\ Node(g, PinNode(to)).input[PinIndex(to)] = e
    BY <2>1, <2>2 DEF EdgesFit, EdgeFits
  <2>5. /\ PinNode(to) \in Indices(MaxNodes) /\ PinIndex(to) \in Inputs(g, PinNode(to))
        /\ HasNode(g, PinNode(to))
    BY <2>1, <2>2, EdgePins
  <2>6. Node(g, PinNode(x.to)).input[PinIndex(x.to)] = id
    BY <1>1, EdgePins
  <2>7. UnlinksNode(g, h, x, PinNode(to))
    BY <1>2, <2>5
  <2>8. ~(PinNode(to) = PinNode(x.to) /\ PinIndex(to) = PinIndex(x.to))
    BY <2>2, <2>4, <2>6
  <2>9. Node(h, PinNode(to)).input[PinIndex(to)] = e
    BY <2>4, <2>5, <2>7, <2>8 DEF UnlinksNode
  <2>10. JoinsNodes(h, from, to) /\ PinsMatch(h, from, to)
    BY <1>3, <2>4, SameTypesFit
  <2> QED
    BY <2>3, <2>4, <2>9, <2>10 DEF EdgeFits
<1>5. ASSUME NEW n \in Indices(MaxNodes), HasNode(h, n), NEW i \in Inputs(h, n),
             IsValid(Node(h, n).input[i])
      PROVE  /\ HasEdge(h, Node(h, n).input[i])
             /\ Edge(h, Node(h, n).input[i]).to = PinId(n, i, FALSE)
  <2>1. HasNode(g, n) /\ UnlinksNode(g, h, x, n)
    BY <1>2, <1>5
  <2>2. i \in Inputs(g, n)
    BY <2>1 DEF UnlinksNode, Inputs
  <2>3. Node(h, n).input[i] =
             IF n = PinNode(x.to) /\ i = PinIndex(x.to) THEN Invalid ELSE Node(g, n).input[i]
    BY <2>1, <2>2 DEF UnlinksNode
  <2>4. PICK e : e = Node(h, n).input[i]
    OBVIOUS
  <2>5. e = Node(g, n).input[i] /\ ~(n = PinNode(x.to) /\ i = PinIndex(x.to))
    BY <1>5, <2>3, <2>4 DEF IsValid, Invalid
  <2>6. HasEdge(g, e) /\ Edge(g, e).to = PinId(n, i, FALSE)
    <3>1. InputFits(g, n, i)
      BY <2>1, <2>2 DEF InputsFit
    <3>2. IsValid(Node(g, n).input[i])
      BY <1>5, <2>4, <2>5
    <3> QED
      BY <2>5, <3>1, <3>2 DEF InputFits
  <2>7. PinNode(PinId(n, i, FALSE)) = n /\ PinIndex(PinId(n, i, FALSE)) = i
    BY <2>1, <2>2, OwnInput
  <2>8. e # id
    BY <1>1, <2>5, <2>6, <2>7
  <2>9. HasEdge(h, e) /\ e \in EdgeIds
    BY <1>2, <2>6, <2>8, EdgeInSlot
  <2>10. Edge(h, e).to = Edge(g, e).to
    BY <1>2, <2>9 DEF UnlinksEdge
  <2> QED
    BY <2>4, <2>6, <2>9, <2>10
<1>6. InputsFit(h)
  BY <1>5 DEF InputsFit, InputFits
<1> QED
  BY <1>4, <1>6 DEF EdgesFit

LEMMA ConnectKeepsFits ==
    ASSUME NEW g, IsGraph(g), EdgesFit(g), InputsFit(g),
           NEW from \in Pins, NEW to \in Pins, CanConnect(g, from, to),
           NEW tail, NEW id, NEW h, Connects(g, h, from, to, tail, id)
    PROVE  EdgesFit(h) /\ InputsFit(h)
<1>1. /\ Directed(from, to) /\ JoinsNodes(g, from, to) /\ PinsMatch(g, from, to)
      /\ ~IsValid(Node(g, PinNode(to)).input[PinIndex(to)])
  BY DEF CanConnect, InputIsFree
<1>2. /\ \A f : HasEdge(h, f) <=> HasEdge(g, f) \/ f = id
      /\ \A n : HasNode(h, n) <=> HasNode(g, n)
      /\ Edge(h, id).from = from /\ Edge(h, id).to = to
      /\ \A f \in EdgeIds : HasEdge(g, f) => LinksEdge(g, h, tail, id, f)
      /\ \A n \in Indices(MaxNodes) : HasNode(g, n) => LinksNode(g, h, from, to, tail, id, n)
  BY DEF Connects
<1>3. SameTypes(g, h)
  BY ConnectKeepsTypes
<1>4. /\ PinNode(to) \in Indices(MaxNodes) /\ PinIndex(to) \in Inputs(g, PinNode(to))
      /\ HasNode(g, PinNode(to)) /\ to = PinId(PinNode(to), PinIndex(to), FALSE)
  BY <1>1, PinsInRange DEF JoinsNodes
<1>5. ASSUME NEW e \in EdgeIds, HasEdge(h, e), e # id PROVE EdgeFits(h, e)
  <2>1. PICK p, q : p = Edge(g, e).from /\ q = Edge(g, e).to
    OBVIOUS
  <2>2. HasEdge(g, e) /\ LinksEdge(g, h, tail, id, e)
    BY <1>2, <1>5
  <2>3. Edge(h, e).from = p /\ Edge(h, e).to = q
    BY <2>1, <2>2 DEF LinksEdge
  <2>4. /\ Directed(p, q) /\ JoinsNodes(g, p, q) /\ PinsMatch(g, p, q)
        /\ Node(g, PinNode(q)).input[PinIndex(q)] = e
    BY <2>1, <2>2 DEF EdgesFit, EdgeFits
  <2>5. /\ PinNode(q) \in Indices(MaxNodes) /\ PinIndex(q) \in Inputs(g, PinNode(q))
        /\ HasNode(g, PinNode(q))
    BY <2>1, <2>2, EdgePins
  <2>6. IsValid(e)
    BY ValidEdgeIds
  <2>7. ~(PinNode(q) = PinNode(to) /\ PinIndex(q) = PinIndex(to))
    BY <1>1, <2>4, <2>6
  <2>8. LinksNode(g, h, from, to, tail, id, PinNode(q))
    BY <1>2, <2>5
  <2>9. Node(h, PinNode(q)).input[PinIndex(q)] = e
    BY <2>4, <2>5, <2>7, <2>8 DEF LinksNode
  <2>10. JoinsNodes(h, p, q) /\ PinsMatch(h, p, q)
    BY <1>3, <2>4, SameTypesFit
  <2> QED
    BY <2>3, <2>4, <2>9, <2>10 DEF EdgeFits
<1>6. EdgeFits(h, id)
  <2>1. JoinsNodes(h, from, to) /\ PinsMatch(h, from, to)
    BY <1>1, <1>3, SameTypesFit
  <2>2. LinksNode(g, h, from, to, tail, id, PinNode(to))
    BY <1>2, <1>4
  <2>3. Node(h, PinNode(to)).input[PinIndex(to)] = id
    BY <1>4, <2>2 DEF LinksNode
  <2> QED
    BY <1>1, <1>2, <2>1, <2>3 DEF EdgeFits
<1>7. ASSUME NEW n \in Indices(MaxNodes), HasNode(h, n), NEW i \in Inputs(h, n),
             IsValid(Node(h, n).input[i])
      PROVE  /\ HasEdge(h, Node(h, n).input[i])
             /\ Edge(h, Node(h, n).input[i]).to = PinId(n, i, FALSE)
  <2>1. HasNode(g, n) /\ LinksNode(g, h, from, to, tail, id, n)
    BY <1>2, <1>7
  <2>2. i \in Inputs(g, n)
    BY <2>1 DEF LinksNode, Inputs
  <2>3. Node(h, n).input[i] =
             IF n = PinNode(to) /\ i = PinIndex(to) THEN id ELSE Node(g, n).input[i]
    BY <2>1, <2>2 DEF LinksNode
  <2>4. CASE n = PinNode(to) /\ i = PinIndex(to)
    BY <1>2, <1>4, <2>3, <2>4
  <2>5. CASE ~(n = PinNode(to) /\ i = PinIndex(to))
    <3>1. PICK e : e = Node(h, n).input[i]
      OBVIOUS
    <3>2. e = Node(g, n).input[i] /\ IsValid(e)
      BY <1>7, <2>3, <2>5, <3>1
    <3>3. HasEdge(g, e) /\ Edge(g, e).to = PinId(n, i, FALSE)
      BY <2>1, <2>2, <3>2 DEF InputsFit, InputFits
    <3>4. LinksEdge(g, h, tail, id, e)
      BY <1>2, <3>3, EdgeInSlot
    <3> QED
      BY <1>2, <3>1, <3>3, <3>4 DEF LinksEdge
  <2> QED
    BY <2>4, <2>5
<1>8. InputsFit(h)
  BY <1>7 DEF InputsFit, InputFits
<1> QED
  BY <1>5, <1>6, <1>8 DEF EdgesFit

-----------------------------------------------------------------------------
(* A list that a step leaves alone is still the list of its pin. *)
LEMMA SameList ==
    ASSUME NEW g, NEW h, NEW n, NEW i, NEW count \in Nat, NEW list,
           IsListOf(g, n, i, count, list),
           \A k \in 0 .. count - 1 :
               /\ HasEdge(h, list[k]) /\ Edge(h, list[k]).from = Edge(g, list[k]).from
               /\ Edge(h, list[k]).next = Edge(g, list[k]).next
               /\ Edge(h, list[k]).prev = Edge(g, list[k]).prev,
           \A e \in EdgeIds : HasEdge(h, e) /\ Edge(h, e).from = PinId(n, i, TRUE) =>
               HasEdge(g, e) /\ Edge(g, e).from = PinId(n, i, TRUE),
           Node(h, n).output[i].next = Node(g, n).output[i].next,
           Node(h, n).output[i].prev = Node(g, n).output[i].prev
    PROVE  IsListOf(h, n, i, count, list)
BY ZenonT(60) DEF IsListOf

(* An edge stands in the list of its output pin, next to live edges. *)
LEMMA EdgeInList ==
    ASSUME NEW g, IsLinked(g), NEW e, HasEdge(g, e)
    PROVE  LET pin == Edge(g, e).from IN
           \E count \in Nat : \E list \in [0 .. count - 1 -> EdgeIds] :
               /\ IsListOf(g, PinNode(pin), PinIndex(pin), count, list)
               /\ \E j \in 0 .. count - 1 : list[j] = e
<1>1. PICK n, i : n = PinNode(Edge(g, e).from) /\ i = PinIndex(Edge(g, e).from)
  OBVIOUS
<1>2. /\ e \in EdgeIds /\ n \in Indices(MaxNodes) /\ HasNode(g, n) /\ i \in Outputs(g, n)
      /\ Edge(g, e).from = PinId(n, i, TRUE)
  BY <1>1, EdgePins, ZenonT(60) DEF IsLinked
<1>3. HasList(g, n, i)
  BY <1>2 DEF IsLinked, HaveLists
<1>4. PICK count \in Nat : \E list \in [0 .. count - 1 -> EdgeIds] : IsListOf(g, n, i, count, list)
  BY <1>3, HasListIs
<1>5. PICK list \in [0 .. count - 1 -> EdgeIds] : IsListOf(g, n, i, count, list)
  BY <1>4
<1>6. PICK j \in 0 .. count - 1 : list[j] = e
  BY <1>2, <1>5 DEF IsListOf
<1> QED
  BY <1>1, <1>5, <1>6

LEMMA InvalidIsNoEdge ==
    ASSUME NEW g, IsGraph(g)
    PROVE  ~HasEdge(g, Invalid)
BY EdgeInSlot, ValidEdgeIds

LEMMA LinksOfEdge ==
    ASSUME NEW g, IsLinked(g), NEW e, HasEdge(g, e)
    PROVE  LET x == Edge(g, e) IN
           /\ x.prev # Invalid => HasEdge(g, x.prev) /\ Edge(g, x.prev).from = x.from
           /\ x.next # Invalid => HasEdge(g, x.next) /\ Edge(g, x.next).from = x.from
<1>1. PICK n, i : n = PinNode(Edge(g, e).from) /\ i = PinIndex(Edge(g, e).from)
  OBVIOUS
<1>2. Edge(g, e).from = PinId(n, i, TRUE)
  <2>1. IsGraph(g) /\ EdgesFit(g)
    BY DEF IsLinked
  <2>2. Edge(g, e).from = PinId(PinNode(Edge(g, e).from), PinIndex(Edge(g, e).from), TRUE)
    BY <2>1, EdgePins, ZenonT(60)
  <2> QED
    BY <1>1, <2>2
<1>3. PICK count \in Nat : \E list \in [0 .. count - 1 -> EdgeIds] :
               /\ IsListOf(g, n, i, count, list)
               /\ \E j \in 0 .. count - 1 : list[j] = e
  BY <1>1, EdgeInList
<1>4. PICK list \in [0 .. count - 1 -> EdgeIds], j \in 0 .. count - 1 :
          IsListOf(g, n, i, count, list) /\ list[j] = e
  BY <1>3
<1>5. /\ Edge(g, e).next = IF j = count - 1 THEN Invalid ELSE list[j + 1]
      /\ Edge(g, e).prev = IF j = 0 THEN Invalid ELSE list[j - 1]
  BY <1>4 DEF IsListOf
<1>6. j # count - 1 => j + 1 \in 0 .. count - 1
  OBVIOUS
<1>7. j # 0 => j - 1 \in 0 .. count - 1
  OBVIOUS
<1>8. \A k \in 0 .. count - 1 : HasEdge(g, list[k]) /\ Edge(g, list[k]).from = PinId(n, i, TRUE)
  BY <1>4 DEF IsListOf
<1> QED
  BY <1>2, <1>5, <1>6, <1>7, <1>8

(* The list of the edge that hgraph_disconnect takes out: the j-th goes,   *)
(* and those behind it move up.                                            *)
LEMMA ListWithout ==
    ASSUME NEW g, IsGraph(g), NEW h, NEW n, NEW i, NEW count \in Nat,
           NEW list \in [0 .. count - 1 -> EdgeIds], IsListOf(g, n, i, count, list),
           NEW j \in 0 .. count - 1, NEW x, x = Edge(g, list[j]),
           \A f : HasEdge(h, f) <=> HasEdge(g, f) /\ f # list[j],
           \A f \in EdgeIds : HasEdge(h, f) => UnlinksEdge(g, h, x, f),
           Node(h, n).output[i].next =
               IF ~HasEdge(g, x.prev) THEN x.next ELSE Node(g, n).output[i].next,
           Node(h, n).output[i].prev =
               IF ~HasEdge(g, x.next) THEN x.prev ELSE Node(g, n).output[i].prev
    PROVE  HasList(h, n, i)
<1> DEFINE size == count - 1
           rest == [k \in 0 .. size - 1 |-> IF k < j THEN list[k] ELSE list[k + 1]]
           pin  == PinId(n, i, TRUE)
<1>1. size \in Nat /\ count = size + 1 /\ j \in 0 .. size
  OBVIOUS
<1>2. rest \in [0 .. size - 1 -> EdgeIds]
  <2> SUFFICES ASSUME NEW k \in 0 .. size - 1
               PROVE  (IF k < j THEN list[k] ELSE list[k + 1]) \in EdgeIds
    OBVIOUS
  <2>1. k \in 0 .. count - 1 /\ k + 1 \in 0 .. count - 1
    BY <1>1
  <2> QED
    BY <2>1
<1>3. /\ \A k \in 0 .. size :
            /\ HasEdge(g, list[k]) /\ Edge(g, list[k]).from = pin
            /\ Edge(g, list[k]).next = IF k = size THEN Invalid ELSE list[k + 1]
            /\ Edge(g, list[k]).prev = IF k = 0 THEN Invalid ELSE list[k - 1]
      /\ \A k, l \in 0 .. size : list[k] = list[l] => k = l
      /\ \A e \in EdgeIds : HasEdge(g, e) /\ Edge(g, e).from = pin => \E k \in 0 .. size : list[k] = e
      /\ Node(g, n).output[i].next = list[0]
      /\ Node(g, n).output[i].prev = list[size]
  <2>1. count - 1 = size /\ count # 0
    BY <1>1
  <2> QED
    BY <2>1 DEF IsListOf
<1>4. \A k \in 0 .. size : list[k] \in EdgeIds
  BY <1>1
<1>5. /\ x.next = IF j = size THEN Invalid ELSE list[j + 1]
      /\ x.prev = IF j = 0 THEN Invalid ELSE list[j - 1]
  BY <1>1, <1>3
<1>6. \A k \in 0 .. size : list[k] # Invalid
  BY <1>4, ValidEdgeIds
<1>7. /\ ~HasEdge(g, x.prev) <=> j = 0
      /\ ~HasEdge(g, x.next) <=> j = size
  <2>1. j # 0 => j - 1 \in 0 .. size
    BY <1>1
  <2>2. j # size => j + 1 \in 0 .. size
    BY <1>1
  <2>3. \A k \in 0 .. size : HasEdge(g, list[k])
    BY <1>3
  <2>4. ~HasEdge(g, Invalid)
    BY InvalidIsNoEdge
  <2>5. (j = 0 => ~HasEdge(g, x.prev)) /\ (j = size => ~HasEdge(g, x.next))
    BY <1>5, <2>4
  <2>6. (j # 0 => HasEdge(g, x.prev)) /\ (j # size => HasEdge(g, x.next))
    BY <1>5, <2>1, <2>2, <2>3
  <2> QED
    BY <2>5, <2>6
<1>8. \A k \in 0 .. size - 1 : rest[k] = IF k < j THEN list[k] ELSE list[k + 1]
  OBVIOUS
<1> HIDE DEF size, rest, pin
<1>9. \A k \in 0 .. size \ {j} :
         /\ HasEdge(h, list[k]) /\ Edge(h, list[k]).from = pin
         /\ Edge(h, list[k]).next = IF list[k] = x.prev THEN x.next ELSE Edge(g, list[k]).next
         /\ Edge(h, list[k]).prev = IF list[k] = x.next THEN x.prev ELSE Edge(g, list[k]).prev
  <2> TAKE k \in 0 .. size \ {j}
  <2>1. HasEdge(h, list[k]) /\ list[k] \in EdgeIds
    BY <1>1, <1>3, <1>4
  <2> QED
    BY <1>3, <2>1 DEF UnlinksEdge
<1>10. ASSUME NEW k \in 0 .. size - 1, k < j
       PROVE  /\ HasEdge(h, rest[k]) /\ Edge(h, rest[k]).from = pin
              /\ Edge(h, rest[k]).next = IF k = size - 1 THEN Invalid ELSE rest[k + 1]
              /\ Edge(h, rest[k]).prev = IF k = 0 THEN Invalid ELSE rest[k - 1]
  <2>1. rest[k] = list[k] /\ k \in 0 .. size \ {j} /\ k # size
    BY <1>1, <1>8, <1>10
  <2>2. k # 0 => rest[k - 1] = list[k - 1]
    BY <1>1, <1>8, <1>10
  <2>3. k + 1 < j => k # size - 1 /\ rest[k + 1] = list[k + 1]
    BY <1>1, <1>8, <1>10
  <2>4. k + 1 = j /\ k + 1 # size => k # size - 1 /\ rest[k + 1] = list[j + 1]
    BY <1>1, <1>8, <1>10
  <2>5. list[k] = x.prev <=> k + 1 = j
    <3>1. j - 1 \in 0 .. size /\ j # 0
      BY <1>1, <1>10
    <3>2. list[k] = list[j - 1] <=> k = j - 1
      BY <1>3, <2>1, <3>1
    <3> QED
      BY <1>1, <1>5, <3>1, <3>2
  <2>6. list[k] # x.next
    <3>1. j # size => j + 1 \in 0 .. size
      BY <1>1
    <3>2. j # size => list[k] # list[j + 1]
      BY <1>1, <1>3, <1>10, <2>1, <3>1
    <3> QED
      BY <1>5, <1>6, <2>1, <3>2
  <2>7. /\ Edge(h, list[k]).prev = IF k = 0 THEN Invalid ELSE list[k - 1]
        /\ Edge(h, list[k]).next = IF k + 1 = j THEN x.next ELSE list[k + 1]
    BY <1>3, <1>9, <2>1, <2>5, <2>6
  <2>8. Edge(h, rest[k]).next = IF k = size - 1 THEN Invalid ELSE rest[k + 1]
    <3>1. CASE k + 1 < j
      BY <1>1, <2>1, <2>3, <2>7, <3>1
    <3>2. CASE k + 1 = j /\ j = size
      BY <1>1, <1>5, <2>1, <2>7, <3>2
    <3>3. CASE k + 1 = j /\ j # size
      BY <1>1, <1>5, <2>1, <2>4, <2>7, <3>3
    <3> QED
      BY <1>1, <1>10, <3>1, <3>2, <3>3
  <2> QED
    BY <1>9, <2>1, <2>2, <2>7, <2>8
<1>11. ASSUME NEW k \in 0 .. size - 1, ~(k < j)
       PROVE  /\ HasEdge(h, rest[k]) /\ Edge(h, rest[k]).from = pin
              /\ Edge(h, rest[k]).next = IF k = size - 1 THEN Invalid ELSE rest[k + 1]
              /\ Edge(h, rest[k]).prev = IF k = 0 THEN Invalid ELSE rest[k - 1]
  <2>1. rest[k] = list[k + 1] /\ k + 1 \in 0 .. size \ {j} /\ k + 1 # 0
    BY <1>1, <1>8, <1>11
  <2>2. k # size - 1 => k + 1 # size /\ rest[k + 1] = list[k + 1 + 1]
    BY <1>1, <1>8, <1>11
  <2>3. k > j => k # 0 /\ rest[k - 1] = list[k]
    BY <1>1, <1>8, <1>11
  <2>4. k = j /\ k # 0 => rest[k - 1] = list[j - 1]
    BY <1>1, <1>8, <1>11
  <2>5. list[k + 1] = x.next <=> k = j
    <3>1. j + 1 \in 0 .. size /\ j # size
      BY <1>1, <1>11
    <3>2. list[k + 1] = list[j + 1] <=> k + 1 = j + 1
      BY <1>3, <2>1, <3>1
    <3> QED
      BY <1>1, <1>5, <3>1, <3>2
  <2>6. list[k + 1] # x.prev
    <3>1. j # 0 => j - 1 \in 0 .. size
      BY <1>1
    <3>2. j # 0 => list[k + 1] # list[j - 1]
      BY <1>1, <1>3, <1>11, <2>1, <3>1
    <3> QED
      BY <1>5, <1>6, <2>1, <3>2
  <2>7. /\ Edge(h, list[k + 1]).next = IF k + 1 = size THEN Invalid ELSE list[k + 1 + 1]
        /\ Edge(h, list[k + 1]).prev = IF k = j THEN x.prev ELSE list[k]
    <3>1. k + 1 - 1 = k
      BY <1>1
    <3> QED
      BY <1>3, <1>9, <2>1, <2>5, <2>6, <3>1
  <2>8. Edge(h, rest[k]).prev = IF k = 0 THEN Invalid ELSE rest[k - 1]
    <3>1. CASE k > j
      BY <1>1, <2>1, <2>3, <2>7, <3>1
    <3>2. CASE k = j
      BY <1>1, <1>5, <2>1, <2>4, <2>7, <3>2
    <3> QED
      BY <1>1, <1>11, <3>1, <3>2
  <2>9. Edge(h, rest[k]).next = IF k = size - 1 THEN Invalid ELSE rest[k + 1]
    BY <1>1, <2>1, <2>2, <2>7
  <2> QED
    BY <1>9, <2>1, <2>8, <2>9
<1>12. ASSUME NEW k \in 0 .. size - 1, NEW l \in 0 .. size - 1, rest[k] = rest[l] PROVE k = l
  <2>1. PICK p \in 0 .. size : p = (IF k < j THEN k ELSE k + 1) /\ rest[k] = list[p]
    BY <1>1, <1>8
  <2>2. PICK q \in 0 .. size : q = (IF l < j THEN l ELSE l + 1) /\ rest[l] = list[q]
    BY <1>1, <1>8
  <2>3. p = q
    <3>1. \A a, b \in 0 .. size : list[a] = list[b] => a = b
      BY <1>3
    <3>2. list[p] = list[q]
      BY <1>12, <2>1, <2>2
    <3> QED
      BY <3>1, <3>2
  <2> QED
    BY <1>1, <2>1, <2>2, <2>3
<1>13. ASSUME NEW e \in EdgeIds, HasEdge(h, e), Edge(h, e).from = pin
       PROVE  \E k \in 0 .. size - 1 : rest[k] = e
  <2>1. HasEdge(g, e) /\ e # list[j] /\ Edge(g, e).from = pin
    BY <1>13 DEF UnlinksEdge
  <2>2. PICK k \in 0 .. size : list[k] = e
    BY <1>3, <2>1
  <2>3. CASE k < j
    <3>1. k \in 0 .. size - 1 /\ rest[k] = e
      BY <1>1, <1>8, <2>2, <2>3
    <3> QED
      BY <3>1
  <2>4. CASE k > j
    <3>1. k - 1 \in 0 .. size - 1 /\ rest[k - 1] = e
      <4>1. k - 1 \in 0 .. size - 1 /\ ~(k - 1 < j) /\ k - 1 + 1 = k
        BY <1>1, <2>4
      <4> QED
        BY <1>8, <2>2, <4>1
    <3> QED
      BY <3>1
  <2> QED
    BY <1>1, <2>1, <2>2, <2>3, <2>4
<1>14. Node(h, n).output[i].next = IF size = 0 THEN Invalid ELSE rest[0]
  <2>1. CASE j = 0
    <3>1. Node(h, n).output[i].next = x.next
      BY <1>7, <2>1
    <3>2. size # 0 => rest[0] = list[j + 1]
      BY <1>1, <1>8, <2>1
    <3> QED
      BY <1>5, <2>1, <3>1, <3>2
  <2>2. CASE j # 0
    <3>1. size # 0 /\ rest[0] = list[0]
      BY <1>1, <1>8, <2>2
    <3> QED
      BY <1>3, <1>7, <2>2, <3>1
  <2> QED
    BY <2>1, <2>2
<1>15. Node(h, n).output[i].prev = IF size = 0 THEN Invalid ELSE rest[size - 1]
  <2>1. CASE j = size
    <3>1. Node(h, n).output[i].prev = x.prev
      BY <1>7, <2>1
    <3>2. size # 0 => rest[size - 1] = list[j - 1]
      BY <1>1, <1>8, <2>1
    <3> QED
      BY <1>5, <2>1, <3>1, <3>2
  <2>2. CASE j # size
    <3>1. size # 0 /\ rest[size - 1] = list[size]
      <4>1. size - 1 \in 0 .. size - 1 /\ ~(size - 1 < j) /\ size - 1 + 1 = size
        BY <1>1, <2>2
      <4> QED
        BY <1>1, <1>8, <2>2, <4>1
    <3> QED
      BY <1>3, <1>7, <2>2, <3>1
  <2> QED
    BY <2>1, <2>2
<1>16. IsListOf(h, n, i, size, rest)
  <2>1. \A k \in 0 .. size - 1 :
              /\ HasEdge(h, rest[k]) /\ Edge(h, rest[k]).from = pin
              /\ Edge(h, rest[k]).next = IF k = size - 1 THEN Invalid ELSE rest[k + 1]
              /\ Edge(h, rest[k]).prev = IF k = 0 THEN Invalid ELSE rest[k - 1]
    BY <1>10, <1>11
  <2> QED
    BY <1>12, <1>13, <1>14, <1>15, <2>1 DEF IsListOf, pin
<1> QED
  BY <1>1, <1>2, <1>16, HasListIs

(* The list that hgraph_connect appends to. *)
LEMMA ListWith ==
    ASSUME NEW g, IsGraph(g), NEW h, NEW n, NEW i, NEW count \in Nat,
           NEW list \in [0 .. count - 1 -> EdgeIds], IsListOf(g, n, i, count, list),
           NEW tail, tail = Node(g, n).output[i].prev,
           NEW id \in EdgeIds, ~HasEdge(g, id),
           \A f : HasEdge(h, f) <=> HasEdge(g, f) \/ f = id,
           Edge(h, id).from = PinId(n, i, TRUE),
           Edge(h, id).prev = tail, Edge(h, id).next = Invalid,
           \A f \in EdgeIds : HasEdge(g, f) => LinksEdge(g, h, tail, id, f),
           Node(h, n).output[i].next =
               IF ~HasEdge(g, tail) THEN id ELSE Node(g, n).output[i].next,
           Node(h, n).output[i].prev = id
    PROVE  HasList(h, n, i)
<1> DEFINE pin  == PinId(n, i, TRUE)
           more == [k \in 0 .. count |-> IF k = count THEN id ELSE list[k]]
<1>1. /\ \A k \in 0 .. count - 1 :
            /\ HasEdge(g, list[k]) /\ Edge(g, list[k]).from = pin
            /\ Edge(g, list[k]).next = IF k = count - 1 THEN Invalid ELSE list[k + 1]
            /\ Edge(g, list[k]).prev = IF k = 0 THEN Invalid ELSE list[k - 1]
      /\ \A k, l \in 0 .. count - 1 : list[k] = list[l] => k = l
      /\ \A e \in EdgeIds : HasEdge(g, e) /\ Edge(g, e).from = pin =>
            \E k \in 0 .. count - 1 : list[k] = e
      /\ Node(g, n).output[i].next = IF count = 0 THEN Invalid ELSE list[0]
      /\ tail = IF count = 0 THEN Invalid ELSE list[count - 1]
  BY DEF IsListOf
<1>2. \A k \in 0 .. count - 1 : list[k] \in EdgeIds /\ list[k] # id
  BY <1>1
<1>3. ~HasEdge(g, tail) <=> count = 0
  <2>1. count # 0 => count - 1 \in 0 .. count - 1
    OBVIOUS
  <2> QED
    BY <1>1, <2>1, InvalidIsNoEdge, ZenonT(60)
<1>4. more[count] = id /\ \A k \in 0 .. count - 1 : more[k] = list[k]
  OBVIOUS
<1>5. more \in [0 .. count -> EdgeIds]
  BY <1>2
<1>6. id # Invalid
  BY ValidEdgeIds
<1> HIDE DEF more, pin
<1>7. ASSUME NEW k \in 0 .. count - 1
      PROVE  /\ HasEdge(h, more[k]) /\ Edge(h, more[k]).from = pin
             /\ Edge(h, more[k]).next = IF k = count THEN Invalid ELSE more[k + 1]
             /\ Edge(h, more[k]).prev = IF k = 0 THEN Invalid ELSE more[k - 1]
  <2>1. more[k] = list[k] /\ LinksEdge(g, h, tail, id, list[k]) /\ HasEdge(h, list[k])
    BY <1>1, <1>2, <1>4
  <2>2. k # 0 => k - 1 \in 0 .. count - 1
    OBVIOUS
  <2>3. k # 0 => more[k - 1] = list[k - 1]
    BY <1>4, <2>2
  <2>4. k # count /\ count # 0 /\ count - 1 \in 0 .. count - 1
    OBVIOUS
  <2>5. list[k] = tail <=> k = count - 1
    BY <1>1, <2>4
  <2>6. CASE k = count - 1
    <3>1. more[k + 1] = id
      BY <1>4, <2>6
    <3>2. Edge(h, list[k]).next = id
      BY <2>1, <2>5, <2>6 DEF LinksEdge
    <3> QED
      BY <1>1, <2>1, <2>3, <2>4, <3>1, <3>2 DEF LinksEdge
  <2>7. CASE k # count - 1
    <3>1. k + 1 \in 0 .. count - 1
      BY <2>7
    <3>2. more[k + 1] = list[k + 1]
      BY <1>4, <3>1
    <3>3. Edge(h, list[k]).next = list[k + 1]
      BY <1>1, <2>1, <2>5, <2>7 DEF LinksEdge
    <3> QED
      BY <1>1, <2>1, <2>3, <2>4, <3>2, <3>3 DEF LinksEdge
  <2> QED
    BY <2>6, <2>7
<1>8. /\ HasEdge(h, more[count]) /\ Edge(h, more[count]).from = pin
      /\ Edge(h, more[count]).next = Invalid
      /\ Edge(h, more[count]).prev = IF count = 0 THEN Invalid ELSE more[count - 1]
  <2>1. count # 0 => more[count - 1] = list[count - 1]
    BY <1>4
  <2> QED
    BY <1>1, <1>4, <2>1 DEF pin
<1>9. ASSUME NEW k \in 0 .. count, NEW l \in 0 .. count, more[k] = more[l] PROVE k = l
  <2>1. (k = count \/ k \in 0 .. count - 1) /\ (l = count \/ l \in 0 .. count - 1)
    OBVIOUS
  <2>2. \A a, b \in 0 .. count - 1 : list[a] = list[b] => a = b
    BY <1>1
  <2> QED
    BY <1>2, <1>4, <1>9, <2>1, <2>2
<1>10. ASSUME NEW e \in EdgeIds, HasEdge(h, e), Edge(h, e).from = pin
       PROVE  \E k \in 0 .. count : more[k] = e
  <2>1. CASE e = id
    BY <1>4, <2>1
  <2>2. CASE e # id
    <3>1. HasEdge(g, e) /\ Edge(g, e).from = pin
      BY <1>10, <2>2 DEF LinksEdge
    <3>2. PICK k \in 0 .. count - 1 : list[k] = e
      BY <1>1, <3>1
    <3> QED
      BY <1>4, <3>2
  <2> QED
    BY <2>1, <2>2
<1>11. Node(h, n).output[i].next = more[0]
  <2>1. CASE count = 0
    BY <1>3, <1>4, <2>1
  <2>2. CASE count # 0
    <3>1. more[0] = list[0]
      BY <1>4, <2>2
    <3> QED
      BY <1>1, <1>3, <2>2, <3>1
  <2> QED
    BY <2>1, <2>2
<1>12. IsListOf(h, n, i, count + 1, more)
  <2> DEFINE size == count + 1
  <2>1. size - 1 = count /\ size # 0
    OBVIOUS
  <2>2. \A k \in 0 .. count :
            /\ HasEdge(h, more[k]) /\ Edge(h, more[k]).from = pin
            /\ Edge(h, more[k]).next = IF k = count THEN Invalid ELSE more[k + 1]
            /\ Edge(h, more[k]).prev = IF k = 0 THEN Invalid ELSE more[k - 1]
    <3> TAKE k \in 0 .. count
    <3>1. k = count \/ k \in 0 .. count - 1
      OBVIOUS
    <3> QED
      BY <1>7, <1>8, <3>1
  <2> HIDE DEF size
  <2>3. IsListOf(h, n, i, size, more)
    BY <1>4, <1>9, <1>10, <1>11, <2>1, <2>2 DEF IsListOf, pin
  <2> QED
    BY <2>3 DEF size
<1>13. count + 1 \in Nat /\ more \in [0 .. (count + 1) - 1 -> EdgeIds]
  <2>1. (count + 1) - 1 = count
    OBVIOUS
  <2> QED
    BY <1>5, <2>1
<1> QED
  BY <1>12, <1>13, HasListIs

-----------------------------------------------------------------------------
(* Every call keeps the lists. *)
LEMMA DisconnectKeepsLists ==
    ASSUME NEW g, IsLinked(g), NEW id, HasEdge(g, id), NEW h, Disconnects(g, h, id)
    PROVE  HaveLists(h)
<1>1. PICK x : x = Edge(g, id)
  OBVIOUS
<1>2. IsGraph(g) /\ EdgesFit(g) /\ HaveLists(g)
  BY DEF IsLinked
<1>3. /\ \A f : HasEdge(h, f) <=> HasEdge(g, f) /\ f # id
      /\ \A n : HasNode(h, n) <=> HasNode(g, n)
      /\ \A f \in EdgeIds : HasEdge(h, f) => UnlinksEdge(g, h, x, f)
      /\ \A n \in Indices(MaxNodes) : HasNode(g, n) => UnlinksNode(g, h, x, n)
  BY <1>1 DEF Disconnects
<1>4. /\ x.from = PinId(PinNode(x.from), PinIndex(x.from), TRUE)
      /\ id \in EdgeIds
  <2>1. /\ Edge(g, id).from =
              PinId(PinNode(Edge(g, id).from), PinIndex(Edge(g, id).from), TRUE)
        /\ id \in EdgeIds
    BY <1>2, EdgePins
  <2> QED
    BY <1>1, <2>1
<1>5. /\ x.prev # Invalid => HasEdge(g, x.prev) /\ Edge(g, x.prev).from = x.from
      /\ x.next # Invalid => HasEdge(g, x.next) /\ Edge(g, x.next).from = x.from
  BY <1>1, LinksOfEdge
<1> SUFFICES ASSUME NEW n \in Indices(MaxNodes), HasNode(h, n), NEW i \in Outputs(h, n)
             PROVE  HasList(h, n, i)
  BY DEF HaveLists
<1>6. HasNode(g, n) /\ UnlinksNode(g, h, x, n)
  BY <1>3
<1>7. i \in Outputs(g, n)
  BY <1>6 DEF UnlinksNode, Outputs
<1>8. PICK count \in Nat : \E list \in [0 .. count - 1 -> EdgeIds] : IsListOf(g, n, i, count, list)
  BY <1>2, <1>6, <1>7, HasListIs DEF HaveLists
<1>9. PICK list \in [0 .. count - 1 -> EdgeIds] : IsListOf(g, n, i, count, list)
  BY <1>8
<1>10. PinNode(PinId(n, i, TRUE)) = n /\ PinIndex(PinId(n, i, TRUE)) = i
  BY <1>2, <1>6, <1>7, OwnOutput
<1>11. /\ Node(h, n).output[i].next =
             IF ~HasEdge(g, x.prev) /\ n = PinNode(x.from) /\ i = PinIndex(x.from)
             THEN x.next ELSE Node(g, n).output[i].next
       /\ Node(h, n).output[i].prev =
             IF ~HasEdge(g, x.next) /\ n = PinNode(x.from) /\ i = PinIndex(x.from)
             THEN x.prev ELSE Node(g, n).output[i].prev
  BY <1>6, <1>7 DEF UnlinksNode
<1>12. CASE x.from = PinId(n, i, TRUE)
  <2>1. PICK j \in 0 .. count - 1 : list[j] = id
    BY <1>1, <1>4, <1>9, <1>12 DEF IsListOf
  <2>2. /\ Node(h, n).output[i].next =
              IF ~HasEdge(g, x.prev) THEN x.next ELSE Node(g, n).output[i].next
        /\ Node(h, n).output[i].prev =
              IF ~HasEdge(g, x.next) THEN x.prev ELSE Node(g, n).output[i].prev
    BY <1>10, <1>11, <1>12
  <2>3. /\ x = Edge(g, list[j])
        /\ \A f : HasEdge(h, f) <=> HasEdge(g, f) /\ f # list[j]
    BY <1>1, <1>3, <2>1
  <2> QED
    BY <1>2, <1>3, <1>9, <2>2, <2>3, ListWithout
<1>13. CASE x.from # PinId(n, i, TRUE)
  <2>1. ~(n = PinNode(x.from) /\ i = PinIndex(x.from))
    BY <1>4, <1>13
  <2>2. /\ Node(h, n).output[i].next = Node(g, n).output[i].next
        /\ Node(h, n).output[i].prev = Node(g, n).output[i].prev
    BY <1>11, <2>1
  <2>3. ASSUME NEW k \in 0 .. count - 1
        PROVE  /\ HasEdge(h, list[k]) /\ Edge(h, list[k]).from = Edge(g, list[k]).from
               /\ Edge(h, list[k]).next = Edge(g, list[k]).next
               /\ Edge(h, list[k]).prev = Edge(g, list[k]).prev
    <3>1. HasEdge(g, list[k]) /\ Edge(g, list[k]).from = PinId(n, i, TRUE) /\ list[k] \in EdgeIds
      BY <1>9 DEF IsListOf
    <3>2. list[k] # id /\ list[k] # x.prev /\ list[k] # x.next
      BY <1>1, <1>5, <1>13, <3>1, ValidEdgeIds
    <3>3. HasEdge(h, list[k]) /\ UnlinksEdge(g, h, x, list[k])
      BY <1>3, <3>1, <3>2
    <3> QED
      BY <3>2, <3>3 DEF UnlinksEdge
  <2>4. \A e \in EdgeIds : HasEdge(h, e) /\ Edge(h, e).from = PinId(n, i, TRUE) =>
            HasEdge(g, e) /\ Edge(g, e).from = PinId(n, i, TRUE)
    BY <1>3 DEF UnlinksEdge
  <2>5. IsListOf(h, n, i, count, list)
    BY <1>9, <2>2, <2>3, <2>4, SameList
  <2> QED
    BY <2>5, HasListIs
<1> QED
  BY <1>12, <1>13

LEMMA ConnectKeepsLists ==
    ASSUME NEW g, IsLinked(g), NEW from \in Pins, NEW to \in Pins, CanConnect(g, from, to),
           NEW tail, tail = OutputPin(g, from).prev,
           NEW id, NEW h, Connects(g, h, from, to, tail, id)
    PROVE  HaveLists(h)
<1>1. IsGraph(g) /\ HaveLists(g)
  BY DEF IsLinked
<1>2. /\ id \in EdgeIds /\ ~HasEdge(g, id)
      /\ \A f : HasEdge(h, f) <=> HasEdge(g, f) \/ f = id
      /\ \A n : HasNode(h, n) <=> HasNode(g, n)
      /\ Edge(h, id).from = from
      /\ Edge(h, id).prev = tail /\ Edge(h, id).next = Invalid
      /\ \A f \in EdgeIds : HasEdge(g, f) => LinksEdge(g, h, tail, id, f)
      /\ \A n \in Indices(MaxNodes) : HasNode(g, n) => LinksNode(g, h, from, to, tail, id, n)
  BY DEF Connects
<1>3. /\ from = PinId(PinNode(from), PinIndex(from), TRUE)
      /\ PinNode(from) \in Indices(MaxNodes) /\ HasNode(g, PinNode(from))
      /\ PinIndex(from) \in Outputs(g, PinNode(from))
  BY <1>1, PinsInRange DEF CanConnect, JoinsNodes
<1>4. IsValid(tail) => HasEdge(g, tail) /\ Edge(g, tail).from = from
  <2>1. PICK p, q : p = PinNode(from) /\ q = PinIndex(from)
    OBVIOUS
  <2>2. HasList(g, p, q)
    BY <1>1, <1>3, <2>1 DEF HaveLists
  <2>3. PICK count \in Nat : \E list \in [0 .. count - 1 -> EdgeIds] : IsListOf(g, p, q, count, list)
    BY <2>2, HasListIs
  <2>4. PICK list \in [0 .. count - 1 -> EdgeIds] : IsListOf(g, p, q, count, list)
    BY <2>3
  <2>5. tail = IF count = 0 THEN Invalid ELSE list[count - 1]
    BY <2>1, <2>4 DEF IsListOf, OutputPin
  <2>6. count # 0 => HasEdge(g, list[count - 1]) /\ Edge(g, list[count - 1]).from = from
    <3>1. count # 0 => count - 1 \in 0 .. count - 1
      OBVIOUS
    <3> QED
      BY <1>3, <2>1, <2>4, <3>1 DEF IsListOf
  <2> QED
    BY <2>5, <2>6 DEF IsValid, Invalid
<1> SUFFICES ASSUME NEW n \in Indices(MaxNodes), HasNode(h, n), NEW i \in Outputs(h, n)
             PROVE  HasList(h, n, i)
  BY DEF HaveLists
<1>5. HasNode(g, n) /\ LinksNode(g, h, from, to, tail, id, n)
  BY <1>2
<1>6. i \in Outputs(g, n)
  BY <1>5 DEF LinksNode, Outputs
<1>7. PICK count \in Nat : \E list \in [0 .. count - 1 -> EdgeIds] : IsListOf(g, n, i, count, list)
  BY <1>1, <1>5, <1>6, HasListIs DEF HaveLists
<1>8. PICK list \in [0 .. count - 1 -> EdgeIds] : IsListOf(g, n, i, count, list)
  BY <1>7
<1>9. PinNode(PinId(n, i, TRUE)) = n /\ PinIndex(PinId(n, i, TRUE)) = i
  BY <1>1, <1>5, <1>6, OwnOutput
<1>10. /\ Node(h, n).output[i].next =
             IF ~HasEdge(g, tail) /\ n = PinNode(from) /\ i = PinIndex(from)
             THEN id ELSE Node(g, n).output[i].next
       /\ Node(h, n).output[i].prev =
             IF n = PinNode(from) /\ i = PinIndex(from)
             THEN id ELSE Node(g, n).output[i].prev
  BY <1>5, <1>6 DEF LinksNode
<1>11. CASE from = PinId(n, i, TRUE)
  <2>1. n = PinNode(from) /\ i = PinIndex(from)
    BY <1>9, <1>11
  <2>2. tail = Node(g, n).output[i].prev
    BY <2>1 DEF OutputPin
  <2>3. /\ Node(h, n).output[i].next =
             IF ~HasEdge(g, tail) THEN id ELSE Node(g, n).output[i].next
        /\ Node(h, n).output[i].prev = id
    BY <1>10, <2>1
  <2> QED
    BY <1>1, <1>2, <1>8, <1>11, <2>2, <2>3, ListWith
<1>12. CASE from # PinId(n, i, TRUE)
  <2>1. ~(n = PinNode(from) /\ i = PinIndex(from))
    BY <1>3, <1>12
  <2>2. /\ Node(h, n).output[i].next = Node(g, n).output[i].next
        /\ Node(h, n).output[i].prev = Node(g, n).output[i].prev
    BY <1>10, <2>1
  <2>3. ASSUME NEW k \in 0 .. count - 1
        PROVE  /\ HasEdge(h, list[k]) /\ Edge(h, list[k]).from = Edge(g, list[k]).from
               /\ Edge(h, list[k]).next = Edge(g, list[k]).next
               /\ Edge(h, list[k]).prev = Edge(g, list[k]).prev
    <3>1. HasEdge(g, list[k]) /\ Edge(g, list[k]).from = PinId(n, i, TRUE) /\ list[k] \in EdgeIds
      BY <1>8 DEF IsListOf
    <3>2. list[k] # tail
      BY <1>4, <1>12, <3>1, ValidEdgeIds
    <3>3. HasEdge(h, list[k]) /\ LinksEdge(g, h, tail, id, list[k])
      BY <1>2, <3>1
    <3> QED
      BY <3>2, <3>3 DEF LinksEdge
  <2>4. \A e \in EdgeIds : HasEdge(h, e) /\ Edge(h, e).from = PinId(n, i, TRUE) =>
            HasEdge(g, e) /\ Edge(g, e).from = PinId(n, i, TRUE)
    BY <1>2, <1>12 DEF LinksEdge
  <2>5. IsListOf(h, n, i, count, list)
    BY <1>8, <2>2, <2>3, <2>4, SameList
  <2> QED
    BY <2>5, HasListIs
<1> QED
  BY <1>11, <1>12

-----------------------------------------------------------------------------
(* The calls keep the graph linked. *)
LEMMA DisconnectKeepsLinked ==
    ASSUME NEW g, IsLinked(g), NEW id, HasEdge(g, id), NEW h, h = Disconnect(g, id)
    PROVE  IsLinked(h) /\ Disconnects(g, h, id)
<1>1. IsGraph(g) /\ EdgesFit(g) /\ InputsFit(g)
  BY DEF IsLinked
<1>2. HasNode(g, PinNode(Edge(g, id).from)) /\ HasNode(g, PinNode(Edge(g, id).to))
  BY <1>1, EdgePins
<1>3. Disconnects(g, h, id)
  BY <1>1, <1>2, Disconnected
<1>4. IsGraph(h)
  BY <1>1, DisconnectKeepsGraph
<1>5. EdgesFit(h) /\ InputsFit(h)
  BY <1>1, <1>3, DisconnectKeepsFits
<1>6. HaveLists(h)
  BY <1>3, DisconnectKeepsLists
<1> QED
  BY <1>3, <1>4, <1>5, <1>6 DEF IsLinked

LEMMA ConnectKeepsLinked ==
    ASSUME NEW g, IsLinked(g), NEW from \in Pins, NEW to \in Pins,
           CanConnect(g, from, to), ~IsFull(g.edge_slot_map), NEW h, h = Connect(g, from, to)
    PROVE  /\ IsLinked(h)
           /\ \E tail : Connects(g, h, from, to, tail, AllocatedId(g.edge_slot_map))
<1>1. IsGraph(g) /\ EdgesFit(g) /\ InputsFit(g) /\ HaveLists(g)
  BY DEF IsLinked
<1>2. PICK tail : tail = OutputPin(g, from).prev
  OBVIOUS
<1>3. PICK n, i : n = PinNode(from) /\ i = PinIndex(from)
  OBVIOUS
<1>4. n \in Indices(MaxNodes) /\ HasNode(g, n) /\ i \in Outputs(g, n)
  BY <1>1, <1>3, PinsInRange DEF CanConnect, JoinsNodes
<1>5. tail \in LinkIds /\ (IsValid(tail) => HasEdge(g, tail))
  <2>1. PICK count \in Nat : \E list \in [0 .. count - 1 -> EdgeIds] : IsListOf(g, n, i, count, list)
    BY <1>1, <1>4, HasListIs DEF HaveLists
  <2>2. PICK list \in [0 .. count - 1 -> EdgeIds] : IsListOf(g, n, i, count, list)
    BY <2>1
  <2>3. tail = IF count = 0 THEN Invalid ELSE list[count - 1]
    BY <1>2, <1>3, <2>2 DEF IsListOf, OutputPin
  <2>4. count # 0 => count - 1 \in 0 .. count - 1
    OBVIOUS
  <2>5. count # 0 => HasEdge(g, list[count - 1]) /\ list[count - 1] \in EdgeIds
    BY <2>2, <2>4 DEF IsListOf
  <2> QED
    BY <2>3, <2>5 DEF LinkIds, IsValid, Invalid
<1>6. Connects(g, h, from, to, tail, AllocatedId(g.edge_slot_map))
  BY <1>1, <1>2, <1>5, Connected
<1>7. IsGraph(h)
  BY <1>1, ConnectKeepsGraph
<1>8. EdgesFit(h) /\ InputsFit(h)
  BY <1>1, <1>6, ConnectKeepsFits
<1>9. HaveLists(h)
  BY <1>2, <1>6, ConnectKeepsLists
<1> QED
  BY <1>6, <1>7, <1>8, <1>9 DEF IsLinked

(* A node that comes or goes has no edges: those of the others stay.       *)
LEMMA NodesKeepLinked ==
    ASSUME NEW g, IsLinked(g), NEW h, IsGraph(h), NEW id,
           h.edge_slot_map = g.edge_slot_map, h.edges = g.edges,
           \A n : n # id => (HasNode(h, n) <=> HasNode(g, n)),
           \A n : n # id /\ HasNode(g, n) => Node(h, n) = Node(g, n),
           \A e \in EdgeIds : HasEdge(g, e) =>
               PinNode(Edge(g, e).from) # id /\ PinNode(Edge(g, e).to) # id,
           HasNode(h, id) =>
               /\ \A i \in Inputs(h, id) : Node(h, id).input[i] = Invalid
               /\ \A i \in Outputs(h, id) : /\ Node(h, id).output[i].next = Invalid
                                            /\ Node(h, id).output[i].prev = Invalid
    PROVE  IsLinked(h)
<1>1. IsGraph(g) /\ EdgesFit(g) /\ InputsFit(g) /\ HaveLists(g)
  BY DEF IsLinked
<1>2. \A e : (HasEdge(h, e) <=> HasEdge(g, e)) /\ Edge(h, e) = Edge(g, e)
  BY SameEdgeMaps
<1>3. ASSUME NEW e \in EdgeIds, HasEdge(h, e) PROVE EdgeFits(h, e)
  <2>1. HasEdge(g, e) /\ EdgeFits(g, e)
    BY <1>1, <1>2, <1>3 DEF EdgesFit
  <2>2. PICK from, to : from = Edge(g, e).from /\ to = Edge(g, e).to
    OBVIOUS
  <2>3. /\ Directed(from, to) /\ JoinsNodes(g, from, to) /\ PinsMatch(g, from, to)
        /\ Node(g, PinNode(to)).input[PinIndex(to)] = e
    BY <2>1, <2>2 DEF EdgeFits
  <2>4. HasNode(g, PinNode(from)) /\ HasNode(g, PinNode(to))
    BY <2>3 DEF JoinsNodes
  <2>5. /\ HasNode(h, PinNode(from)) /\ HasNode(h, PinNode(to))
        /\ Node(h, PinNode(from)) = Node(g, PinNode(from))
        /\ Node(h, PinNode(to)) = Node(g, PinNode(to))
    BY <2>1, <2>2, <2>4
  <2>6. Edge(h, e).from = from /\ Edge(h, e).to = to
    BY <1>2, <2>2
  <2> QED
    BY <2>3, <2>5, <2>6 DEF EdgeFits, JoinsNodes, PinsMatch
<1>4. ASSUME NEW n \in Indices(MaxNodes), HasNode(h, n), NEW i \in Inputs(h, n)
      PROVE  InputFits(h, n, i)
  <2>1. CASE n = id
    BY <1>4, <2>1 DEF InputFits, IsValid, Invalid
  <2>2. CASE n # id
    <3>1. HasNode(g, n) /\ Node(h, n) = Node(g, n)
      BY <1>4, <2>2
    <3>2. InputFits(g, n, i)
      BY <1>1, <3>1 DEF InputsFit, Inputs
    <3> QED
      BY <1>2, <3>1, <3>2 DEF InputFits
  <2> QED
    BY <2>1, <2>2
<1>5. ASSUME NEW n \in Indices(MaxNodes), HasNode(h, n), NEW i \in Outputs(h, n)
      PROVE  HasList(h, n, i)
  <2>1. CASE n = id
    <3>1. PinNode(PinId(n, i, TRUE)) = n
      BY <1>5, OwnOutput
    <3>2. \A e \in EdgeIds : ~(HasEdge(h, e) /\ Edge(h, e).from = PinId(n, i, TRUE))
      BY <1>2, <2>1, <3>1
    <3>3. Node(h, n).output[i].next = Invalid /\ Node(h, n).output[i].prev = Invalid
      BY <1>5, <2>1
    <3> DEFINE none == [k \in {} |-> Invalid]
               size == 0
    <3>4. size \in Nat /\ 0 .. size - 1 = {} /\ none \in [0 .. size - 1 -> EdgeIds] /\ size = 0
      OBVIOUS
    <3> HIDE DEF none, size
    <3>5. IsListOf(h, n, i, size, none)
      BY <3>2, <3>3, <3>4 DEF IsListOf
    <3> QED
      BY <3>4, <3>5, HasListIs
  <2>2. CASE n # id
    <3>1. HasNode(g, n) /\ Node(h, n) = Node(g, n)
      BY <1>5, <2>2
    <3>2. i \in Outputs(g, n)
      BY <3>1 DEF Outputs
    <3>3. PICK count \in Nat : \E list \in [0 .. count - 1 -> EdgeIds] : IsListOf(g, n, i, count, list)
      BY <1>1, <3>1, <3>2, HasListIs DEF HaveLists
    <3>4. PICK list \in [0 .. count - 1 -> EdgeIds] : IsListOf(g, n, i, count, list)
      BY <3>3
    <3>5. \A k \in 0 .. count - 1 : HasEdge(g, list[k])
      BY <3>4 DEF IsListOf
    <3>6. IsListOf(h, n, i, count, list)
      BY <1>2, <3>1, <3>4, <3>5, SameList
    <3> QED
      BY <3>6, HasListIs
  <2> QED
    BY <2>1, <2>2
<1> QED
  BY <1>3, <1>4, <1>5 DEF IsLinked, EdgesFit, InputsFit, HaveLists

LEMMA CreateKeepsLinked ==
    ASSUME NEW g, IsLinked(g), NEW type \in NodeTypes, NEW h, h = CreateNode(g, type)
    PROVE  IsLinked(h)
<1>1. CASE IsFull(g.node_slot_map)
  BY <1>1 DEF CreateNode
<1>2. CASE ~IsFull(g.node_slot_map)
  <2>1. IsGraph(g) /\ EdgesFit(g)
    BY DEF IsLinked
  <2>2. PICK id : id = AllocatedId(g.node_slot_map)
    OBVIOUS
  <2>3. /\ ~HasNode(g, id)
        /\ \A n : HasNode(h, n) <=> HasNode(g, n) \/ n = id
        /\ \A n : HasNode(g, n) => Node(h, n) = Node(g, n)
        /\ Node(h, id) = FreshNode(type)
        /\ h.edge_slot_map = g.edge_slot_map /\ h.edges = g.edges
    BY <1>2, <2>1, <2>2, NodeCreated
  <2>4. IsGraph(h)
    BY <2>1, CreateKeepsGraph
  <2>5. \A e \in EdgeIds : HasEdge(g, e) =>
               PinNode(Edge(g, e).from) # id /\ PinNode(Edge(g, e).to) # id
    <3> SUFFICES ASSUME NEW e \in EdgeIds, HasEdge(g, e)
                 PROVE  PinNode(Edge(g, e).from) # id /\ PinNode(Edge(g, e).to) # id
      OBVIOUS
    <3>1. HasNode(g, PinNode(Edge(g, e).from)) /\ HasNode(g, PinNode(Edge(g, e).to))
      BY <2>1, EdgePins
    <3> QED
      BY <2>3, <3>1
  <2>6. /\ \A i \in Inputs(h, id) : Node(h, id).input[i] = Invalid
        /\ \A i \in Outputs(h, id) : /\ Node(h, id).output[i].next = Invalid
                                     /\ Node(h, id).output[i].prev = Invalid
    BY <2>3 DEF FreshNode, Inputs, Outputs
  <2> QED
    BY <2>3, <2>4, <2>5, <2>6, NodesKeepLinked
<1> QED
  BY <1>1, <1>2

LEMMA FreeNodeKeepsLinked ==
    ASSUME NEW g, IsLinked(g), NEW id, HasNode(g, id), NEW h, h = FreeNode(g, id),
           \A e \in EdgeIds : HasEdge(g, e) =>
               PinNode(Edge(g, e).from) # id /\ PinNode(Edge(g, e).to) # id
    PROVE  IsLinked(h)
<1>1. IsGraph(g)
  BY DEF IsLinked
<1>2. /\ \A n : HasNode(h, n) <=> HasNode(g, n) /\ n # id
      /\ \A n : HasNode(g, n) /\ n # id => Node(h, n) = Node(g, n)
      /\ h.edge_slot_map = g.edge_slot_map /\ h.edges = g.edges
  BY <1>1, NodeFreed
<1>3. IsGraph(h)
  BY <1>1, FreeNodeKeepsGraph
<1> QED
  BY <1>2, <1>3, NodesKeepLinked

-----------------------------------------------------------------------------
(* The invariant is inductive: one lemma per action. *)
LEMMA InitEdges == Init => EdgeInv
<1> SUFFICES ASSUME Init PROVE EdgeInv
  OBVIOUS
<1>1. GraphInv /\ IsGraph(graph)
  BY InitGraph DEF GraphInv
<1>2. graph.node_slot_map.num_items = 0 /\ graph.edge_slot_map.num_items = 0
  BY DEF Init, EmptyGraph, EmptyMap
<1>3. Indices(0) = {}
  BY DEF Indices
<1>4. /\ \A n : ~HasNode(graph, n)
      /\ \A e : ~HasEdge(graph, e)
  BY <1>1, <1>2, <1>3, NodeInSlot, EdgeInSlot
<1>5. IsLinked(graph)
  BY <1>1, <1>4 DEF IsLinked, EdgesFit, InputsFit, HaveLists
<1> QED
  BY <1>1, <1>5 DEF EdgeInv, Init

LEMMA AddNodeKeepsEdges ==
    ASSUME EdgeInv, NEW type \in NodeTypes, AddNode(type)
    PROVE  EdgeInv'
<1>1. GraphInv'
  BY AddNodeKeepsInv DEF EdgeInv
<1>2. IsLinked(graph')
  BY CreateKeepsLinked DEF EdgeInv, AddNode
<1> QED
  BY <1>1, <1>2 DEF EdgeInv, AddNode

(* There is room for an edge that can be connected.  Every edge has an     *)
(* input pin to itself, and there is one edge per input pin at most.       *)
PlaceOf(pin) == PinNode(pin) * MaxEdgesPerNode + PinIndex(pin)

LEMMA OwnPlace ==
    ASSUME NEW n \in Nat, NEW m \in Nat, NEW i \in Nat, NEW j \in Nat, NEW w \in Nat,
           i < w, j < w, n * w + i = m * w + j
    PROVE  n = m /\ i = j
<1>1. ASSUME NEW a \in Nat, NEW b \in Nat, NEW c \in Nat, NEW d \in Nat,
             a < b, c < w, d < w
      PROVE  a * w + c < b * w + d
  <2>1. PICK more \in Nat : b = a + 1 + more
    <3>1. b - a - 1 \in Nat /\ b = a + 1 + (b - a - 1)
      BY <1>1
    <3> QED
      BY <3>1
  <2>2. b * w = a * w + w + more * w
    BY <2>1
  <2>3. more * w \in Nat /\ a * w \in Nat
    OBVIOUS
  <2> QED
    BY <1>1, <2>2, <2>3
<1>2. ~(n < m) /\ ~(m < n)
  <2>1. n * w + i \in Nat /\ m * w + j \in Nat
    OBVIOUS
  <2> QED
    BY <1>1, <2>1
<1>3. n = m
  BY <1>2
<1> QED
  BY <1>3

LEMMA PlacesInRange ==
    ASSUME NEW g, IsGraph(g), NEW n \in Indices(MaxNodes), HasNode(g, n), NEW i \in Inputs(g, n)
    PROVE  n * MaxEdgesPerNode + i \in EdgeIds /\ i < MaxEdgesPerNode /\ i \in Nat /\ n \in Nat
<1>1. Node(g, n).type \in NodeTypes
  BY NodeInSlot DEF IsNode
<1>2. NumInputs(Node(g, n).type) <= MaxEdgesPerNode
  BY <1>1, EdgesPerNode
<1>3. NumInputs(Node(g, n).type) \in 0 .. 16
  BY <1>1, PinCounts DEF MaxPins
<1>4. PICK w \in Nat : w = MaxEdgesPerNode
  BY MaxEdgesIsNat
<1>5. i \in Nat /\ i < w
  BY <1>2, <1>3, <1>4 DEF Inputs
<1>6. PICK max \in Nat : max = MaxNodes
  BY GraphAssumption
<1>7. n \in Nat /\ n < max
  BY <1>6 DEF Indices
<1>8. PICK more \in Nat : max = n + 1 + more
  <2>1. max - n - 1 \in Nat /\ max = n + 1 + (max - n - 1)
    BY <1>7
  <2> QED
    BY <2>1
<1>9. max * w = n * w + w + more * w
  BY <1>8, <1>7
<1>10. more * w \in Nat /\ n * w \in Nat /\ max * w \in Nat
  BY <1>7
<1>11. n * w + i \in 0 .. max * w - 1
  BY <1>5, <1>9, <1>10
<1>12. MaxEdges = max * w
  BY <1>4, <1>6 DEF MaxEdges
<1> QED
  BY <1>4, <1>5, <1>7, <1>11, <1>12 DEF EdgeIds, Indices

LEMMA RoomForEdge ==
    ASSUME NEW g, IsLinked(g), NEW from \in Pins, NEW to \in Pins, CanConnect(g, from, to)
    PROVE  ~IsFull(g.edge_slot_map)
<1> SUFFICES ASSUME IsFull(g.edge_slot_map)
             PROVE  FALSE
  OBVIOUS
<1> DEFINE place == [e \in EdgeIds |-> PlaceOf(Edge(g, e).to)]
<1>1. IsGraph(g) /\ EdgesFit(g)
  BY DEF IsLinked
<1>2. \A e \in EdgeIds : HasEdge(g, e)
  <2>1. /\ IsSlotMap(g.edge_slot_map, MaxEdges) /\ g.edge_slot_map.max_items = MaxEdges
        /\ g.edge_slot_map.slots_for_id \in [Indices(MaxEdges) -> Indices(MaxEdges)]
    BY <1>1, MapFields, MaxEdgesIsNat DEF IsGraph, IsSlotMap
  <2>2. g.edge_slot_map.num_items = MaxEdges
    BY <2>1 DEF IsFull
  <2>3. \A e \in Indices(MaxEdges) : g.edge_slot_map.slots_for_id[e] < g.edge_slot_map.num_items
    BY <2>1, <2>2, MaxEdgesIsNat DEF Indices
  <2> QED
    BY <2>1, <2>3, LiveIdsAre, MaxEdgesIsNat DEF HasEdge, EdgeIds
<1>3. ASSUME NEW e \in EdgeIds
      PROVE  /\ PinNode(Edge(g, e).to) \in Indices(MaxNodes)
             /\ HasNode(g, PinNode(Edge(g, e).to))
             /\ PinIndex(Edge(g, e).to) \in Inputs(g, PinNode(Edge(g, e).to))
             /\ Node(g, PinNode(Edge(g, e).to)).input[PinIndex(Edge(g, e).to)] = e
  BY <1>1, <1>2, EdgePins
<1>4. /\ PinNode(to) \in Indices(MaxNodes) /\ HasNode(g, PinNode(to))
      /\ PinIndex(to) \in Inputs(g, PinNode(to))
  BY <1>1, PinsInRange DEF CanConnect, JoinsNodes
<1>5. ASSUME NEW n \in Indices(MaxNodes), HasNode(g, n), NEW i \in Inputs(g, n),
             NEW m \in Indices(MaxNodes), HasNode(g, m), NEW j \in Inputs(g, m),
             n * MaxEdgesPerNode + i = m * MaxEdgesPerNode + j
      PROVE  n = m /\ i = j
  <2>1. /\ i < MaxEdgesPerNode /\ i \in Nat /\ n \in Nat
        /\ j < MaxEdgesPerNode /\ j \in Nat /\ m \in Nat
    BY <1>1, <1>5, PlacesInRange
  <2> QED
    BY <1>5, <2>1, OwnPlace, MaxEdgesIsNat
<1>6. place \in [EdgeIds -> EdgeIds]
  <2> SUFFICES ASSUME NEW e \in EdgeIds PROVE PlaceOf(Edge(g, e).to) \in EdgeIds
    OBVIOUS
  <2> QED
    BY <1>1, <1>3, PlacesInRange DEF PlaceOf
<1>7. ASSUME NEW e \in EdgeIds, NEW f \in EdgeIds, place[e] = place[f] PROVE e = f
  <2>1. PlaceOf(Edge(g, e).to) = PlaceOf(Edge(g, f).to)
    BY <1>7
  <2>2. PinNode(Edge(g, e).to) = PinNode(Edge(g, f).to) /\ PinIndex(Edge(g, e).to) = PinIndex(Edge(g, f).to)
    BY <1>3, <1>5, <2>1 DEF PlaceOf
  <2> QED
    BY <1>3, <2>2
<1>8. place \in Injection(EdgeIds, EdgeIds)
  BY <1>6, <1>7 DEF Injection, IsInjective
<1>9. IsFiniteSet(EdgeIds)
  BY FS_Interval, MaxEdgesIsNat DEF EdgeIds, Indices
<1>10. place \in Surjection(EdgeIds, EdgeIds)
  <2> HIDE DEF place
  <2> QED
    BY <1>8, <1>9, FS_Injection
<1>11. PlaceOf(to) \in EdgeIds
  BY <1>1, <1>4, PlacesInRange DEF PlaceOf
<1>12. PICK e \in EdgeIds : PlaceOf(Edge(g, e).to) = PlaceOf(to)
  BY <1>10, <1>11 DEF Surjection
<1>13. PinNode(Edge(g, e).to) = PinNode(to) /\ PinIndex(Edge(g, e).to) = PinIndex(to)
  BY <1>3, <1>4, <1>5, <1>12 DEF PlaceOf
<1>14. Node(g, PinNode(to)).input[PinIndex(to)] = e
  BY <1>3, <1>13
<1> QED
  BY <1>14, ValidEdgeIds DEF CanConnect, InputIsFree

LEMMA AddEdgeKeepsEdges ==
    ASSUME EdgeInv, NEW from \in Pins, NEW to \in Pins, AddEdge(from, to)
    PROVE  EdgeInv'
<1>1. IsLinked(graph) /\ CanConnect(graph, from, to) /\ graph' = Connect(graph, from, to)
  BY DEF EdgeInv, AddEdge
<1>2. IsLinked(graph')
  BY <1>1, RoomForEdge, ConnectKeepsLinked
<1>3. destroying = Idle /\ destroying' = Idle
  BY DEF AddEdge
<1>4. GraphInv'
  <2>1. GraphInv /\ IsGraph(graph)
    BY DEF EdgeInv, GraphInv
  <2> QED
    BY <1>1, <1>3, <2>1, ConnectKeepsGraph, EdgesKeepInv
<1> QED
  BY <1>2, <1>3, <1>4 DEF EdgeInv

LEMMA RemoveEdgeKeepsEdges ==
    ASSUME EdgeInv, NEW id, RemoveEdge(id)
    PROVE  EdgeInv'
<1>1. IsLinked(graph) /\ HasEdge(graph, id) /\ graph' = Disconnect(graph, id)
  BY DEF EdgeInv, RemoveEdge
<1>2. IsLinked(graph')
  BY <1>1, DisconnectKeepsLinked
<1>3. destroying = Idle /\ destroying' = Idle
  BY DEF RemoveEdge
<1>4. GraphInv'
  <2>1. GraphInv /\ IsGraph(graph)
    BY DEF EdgeInv, GraphInv
  <2> QED
    BY <1>1, <1>3, <2>1, DisconnectKeepsGraph, EdgesKeepInv
<1> QED
  BY <1>2, <1>3, <1>4 DEF EdgeInv

LEMMA DestroyNodeKeepsEdges ==
    ASSUME EdgeInv, NEW id, DestroyNode(id)
    PROVE  EdgeInv'
<1>1. GraphInv'
  BY DestroyNodeKeepsInv DEF EdgeInv
<1>2. graph' = graph /\ destroying' = [node |-> id, pin |-> 0] /\ HasNode(graph, id)
  BY DEF DestroyNode
<1>3. IsLinked(graph)
  BY DEF EdgeInv
<1>4. /\ NumInputs(Node(graph, id).type) \in 0 .. MaxPins
      /\ NumOutputs(Node(graph, id).type) \in 0 .. MaxPins
  BY <1>2, <1>3, NodeInSlot, PinCounts DEF IsLinked, IsNode
<1>5. DoneSoFar(graph, id, 0)
  <2> DEFINE numIn  == NumInputs(Node(graph, id).type)
             numOut == NumOutputs(Node(graph, id).type)
  <2>1. numIn \in Nat /\ numOut \in Nat
    BY <1>4 DEF MaxPins
  <2>2. 0 \in 0 .. numIn + numOut
    BY <2>1
  <2>3. \A i \in Inputs(graph, id) : ~(i < 0)
    BY <2>1 DEF Inputs
  <2>4. \A i \in Outputs(graph, id) : ~(i < 0 - numIn)
    BY <2>1 DEF Outputs
  <2> QED
    BY <2>2, <2>3, <2>4 DEF DoneSoFar
<1> QED
  BY <1>1, <1>2, <1>3, <1>5 DEF EdgeInv

(* A step of hgraph_destroy_node that may disconnect an edge: the types    *)
(* stay, and no pin gets an edge.                                          *)
LEMMA DisconnectKeepsDone ==
    ASSUME NEW g, IsLinked(g), NEW n, HasNode(g, n), NEW pin, DoneSoFar(g, n, pin),
           NEW id, HasEdge(g, id), NEW h, Disconnects(g, h, id)
    PROVE  DoneSoFar(h, n, pin)
<1>1. n \in Indices(MaxNodes) /\ IsGraph(g)
  BY NodeInSlot DEF IsLinked
<1>2. UnlinksNode(g, h, Edge(g, id), n)
  BY <1>1 DEF Disconnects
<1>3. Node(h, n).type = Node(g, n).type /\ Inputs(h, n) = Inputs(g, n) /\ Outputs(h, n) = Outputs(g, n)
  BY <1>2 DEF UnlinksNode, Inputs, Outputs
<1>4. ASSUME NEW i \in Inputs(g, n), ~IsValid(Node(g, n).input[i])
      PROVE  ~IsValid(Node(h, n).input[i])
  BY <1>2, <1>4 DEF UnlinksNode, IsValid, Invalid
<1>5. ASSUME NEW p, NoEdgeFrom(g, p) PROVE NoEdgeFrom(h, p)
  BY <1>5 DEF NoEdgeFrom, Disconnects, UnlinksEdge
<1> QED
  BY <1>3, <1>4, <1>5 DEF DoneSoFar

LEMMA DoneIntro ==
    ASSUME NEW g, NEW n, NEW pin, NEW numIn, NEW numOut,
           numIn = NumInputs(Node(g, n).type), numOut = NumOutputs(Node(g, n).type),
           pin \in 0 .. numIn + numOut,
           \A i \in Inputs(g, n) : i < pin => ~IsValid(Node(g, n).input[i]),
           \A i \in Outputs(g, n) : i < pin - numIn => NoEdgeFrom(g, PinId(n, i, TRUE))
    PROVE  DoneSoFar(g, n, pin)
<1>1. pin \in 0 .. NumInputs(Node(g, n).type) + NumOutputs(Node(g, n).type)
  OBVIOUS
<1>2. \A i \in Outputs(g, n) :
          i < pin - NumInputs(Node(g, n).type) => NoEdgeFrom(g, PinId(n, i, TRUE))
  OBVIOUS
<1> QED
  BY <1>1, <1>2 DEF DoneSoFar

LEMMA DestroyInputKeepsEdges ==
    ASSUME EdgeInv, DestroyInput
    PROVE  EdgeInv'
<1>1. PICK n, pin : n = destroying.node /\ pin = destroying.pin
  OBVIOUS
<1>2. PICK e : e = Node(graph, n).input[pin]
  OBVIOUS
<1>3. /\ destroying # Idle /\ pin < NumInputs(Node(graph, n).type)
      /\ graph' = Disconnect(graph, e)
      /\ destroying' = [destroying EXCEPT !.pin = @ + 1]
  BY <1>1, <1>2 DEF DestroyInput, Victim
<1>4. /\ GraphInv /\ IsLinked(graph) /\ DoneSoFar(graph, n, pin)
      /\ HasNode(graph, n) /\ IsGraph(graph)
      /\ destroying = [node |-> n, pin |-> pin]
  BY <1>1, <1>3 DEF EdgeInv, GraphInv
<1>5. GraphInv'
  BY <1>3, <1>4, DisconnectKeepsGraph, EdgesKeepInv
<1>6. destroying' = [node |-> n, pin |-> pin + 1]
  BY <1>3, <1>4
<1>7. /\ Node(graph, n).type \in NodeTypes
      /\ Node(graph, n).input \in [Inputs(graph, n) -> LinkIds]
      /\ n \in Indices(MaxNodes)
  BY <1>4, NodeInSlot DEF IsNode, Inputs
<1>8. /\ NumInputs(Node(graph, n).type) \in Nat /\ NumOutputs(Node(graph, n).type) \in Nat
      /\ pin \in Inputs(graph, n) /\ pin \in Nat
  <2>1. PICK numIn, numOut : /\ numIn = NumInputs(Node(graph, n).type)
                             /\ numOut = NumOutputs(Node(graph, n).type)
    OBVIOUS
  <2>2. numIn \in Nat /\ numOut \in Nat
    BY <1>7, <2>1, PinCounts DEF MaxPins
  <2>3. pin \in 0 .. numIn + numOut /\ pin < numIn
    BY <1>3, <1>4, <2>1 DEF DoneSoFar
  <2>4. pin \in Nat /\ pin \in 0 .. numIn - 1
    BY <2>2, <2>3
  <2> QED
    BY <2>1, <2>2, <2>4 DEF Inputs
<1>9. ASSUME NEW h, IsLinked(h), DoneSoFar(h, n, pin), Node(h, n).type = Node(graph, n).type,
             ~IsValid(Node(h, n).input[pin])
      PROVE  DoneSoFar(h, n, pin + 1)
  <2>1. PICK numIn, numOut, next : /\ numIn = NumInputs(Node(h, n).type)
                                   /\ numOut = NumOutputs(Node(h, n).type)
                                   /\ next = pin + 1
    OBVIOUS
  <2>2. numIn \in Nat /\ numOut \in Nat /\ pin < numIn /\ pin \in Nat
    BY <1>3, <1>8, <1>9, <2>1
  <2>3. next \in 0 .. numIn + numOut
    BY <2>1, <2>2
  <2>4. ASSUME NEW i \in Inputs(h, n), i < next PROVE ~IsValid(Node(h, n).input[i])
    <3>1. i \in Nat
      BY <2>1, <2>2 DEF Inputs
    <3>2. i = pin \/ i < pin
      BY <2>1, <2>2, <2>4, <3>1
    <3> QED
      BY <1>9, <3>2 DEF DoneSoFar
  <2>5. ASSUME NEW i \in Outputs(h, n), i < next - numIn
        PROVE  NoEdgeFrom(h, PinId(n, i, TRUE))
    <3>1. i \in Nat
      BY <2>1, <2>2 DEF Outputs
    <3>2. ~(i < next - numIn)
      BY <2>1, <2>2, <3>1
    <3> QED
      BY <2>5, <3>2
  <2>6. DoneSoFar(h, n, next)
    BY <2>1, <2>3, <2>4, <2>5, DoneIntro
  <2> QED
    BY <2>1, <2>6
<1>10. CASE ~HasEdge(graph, e)
  <2>1. graph' = graph
    BY <1>3, <1>10 DEF Disconnect
  <2>2. ~IsValid(e)
    <3>1. e \in LinkIds
      BY <1>2, <1>7, <1>8
    <3>2. InputFits(graph, n, pin)
      BY <1>4, <1>7, <1>8 DEF IsLinked, InputsFit
    <3> QED
      BY <1>2, <1>10, <3>2 DEF InputFits
  <2>3. DoneSoFar(graph, n, pin + 1)
    BY <1>2, <1>4, <1>9, <2>2
  <2> QED
    BY <1>4, <1>5, <1>6, <2>1, <2>3 DEF EdgeInv
<1>11. CASE HasEdge(graph, e)
  <2>1. IsLinked(graph') /\ Disconnects(graph, graph', e)
    BY <1>3, <1>4, <1>11, DisconnectKeepsLinked
  <2>2. DoneSoFar(graph', n, pin)
    BY <1>4, <1>11, <2>1, DisconnectKeepsDone
  <2>3. UnlinksNode(graph, graph', Edge(graph, e), n)
    BY <1>4, <1>7, <2>1 DEF Disconnects
  <2>4. Edge(graph, e).to = PinId(n, pin, FALSE)
    <3>1. IsValid(e)
      BY <1>4, <1>11, EdgeInSlot, ValidEdgeIds
    <3>2. InputFits(graph, n, pin)
      BY <1>4, <1>7, <1>8 DEF IsLinked, InputsFit
    <3> QED
      BY <1>2, <3>1, <3>2 DEF InputFits
  <2>5. n = PinNode(Edge(graph, e).to) /\ pin = PinIndex(Edge(graph, e).to)
    BY <1>4, <1>8, <2>4, OwnInput
  <2>6. Node(graph', n).input[pin] = Invalid /\ Node(graph', n).type = Node(graph, n).type
    BY <1>8, <2>3, <2>5 DEF UnlinksNode
  <2>7. DoneSoFar(graph', n, pin + 1)
    BY <1>9, <2>1, <2>2, <2>6 DEF IsValid, Invalid
  <2> QED
    BY <1>5, <1>6, <2>1, <2>7 DEF EdgeInv
<1> QED
  BY <1>10, <1>11

LEMMA DestroyOutputKeepsEdges ==
    ASSUME EdgeInv, DestroyOutput
    PROVE  EdgeInv'
<1>1. PICK e : e = Victim.output[NextOutput].next
  OBVIOUS
<1>2. /\ destroying # Idle /\ destroying' = destroying
      /\ HasEdge(graph, e) /\ graph' = Disconnect(graph, e)
  BY <1>1 DEF DestroyOutput
<1>3. /\ GraphInv /\ IsLinked(graph) /\ IsGraph(graph)
      /\ DoneSoFar(graph, destroying.node, destroying.pin) /\ HasNode(graph, destroying.node)
  BY <1>2 DEF EdgeInv, GraphInv
<1>4. GraphInv'
  BY <1>2, <1>3, DisconnectKeepsGraph, EdgesKeepInv
<1>5. IsLinked(graph') /\ Disconnects(graph, graph', e)
  BY <1>2, <1>3, DisconnectKeepsLinked
<1>6. DoneSoFar(graph', destroying.node, destroying.pin)
  BY <1>2, <1>3, <1>5, DisconnectKeepsDone
<1> QED
  BY <1>2, <1>4, <1>5, <1>6 DEF EdgeInv

LEMMA LeaveOutputKeepsEdges ==
    ASSUME EdgeInv, LeaveOutput
    PROVE  EdgeInv'
<1>1. PICK n, pin : n = destroying.node /\ pin = destroying.pin
  OBVIOUS
<1>2. PICK numIn : numIn = NumInputs(Node(graph, n).type)
  OBVIOUS
<1>3. PICK numOut : numOut = NumOutputs(Node(graph, n).type)
  OBVIOUS
<1>4. PICK at : at = pin - numIn
  OBVIOUS
<1>5. /\ destroying # Idle /\ at \in 0 .. numOut - 1
      /\ ~HasEdge(graph, Node(graph, n).output[at].next)
      /\ destroying' = [destroying EXCEPT !.pin = @ + 1]
      /\ graph' = graph
  BY <1>1, <1>2, <1>3, <1>4 DEF LeaveOutput, Victim, NextOutput
<1>6. /\ GraphInv /\ IsLinked(graph) /\ DoneSoFar(graph, n, pin)
      /\ HasNode(graph, n) /\ IsGraph(graph)
      /\ destroying = [node |-> n, pin |-> pin]
  BY <1>1, <1>5 DEF EdgeInv, GraphInv
<1>7. GraphInv'
  BY <1>5, <1>6, EdgesKeepInv
<1>8. destroying' = [node |-> n, pin |-> pin + 1]
  BY <1>5, <1>6
<1>9. n \in Indices(MaxNodes) /\ numIn \in Nat /\ numOut \in Nat
  BY <1>2, <1>3, <1>6, NodeInSlot, PinCounts DEF IsNode, MaxPins
<1>10. pin \in Nat /\ pin = at + numIn /\ at \in Outputs(graph, n)
  BY <1>2, <1>3, <1>4, <1>5, <1>6, <1>9 DEF DoneSoFar, Outputs
<1>11. NoEdgeFrom(graph, PinId(n, at, TRUE))
  <2>1. PICK count \in Nat : \E list \in [0 .. count - 1 -> EdgeIds] :
            IsListOf(graph, n, at, count, list)
    BY <1>6, <1>9, <1>10, HasListIs DEF IsLinked, HaveLists
  <2>2. PICK list \in [0 .. count - 1 -> EdgeIds] : IsListOf(graph, n, at, count, list)
    BY <2>1
  <2>3. count = 0
    <3>1. count # 0 => 0 \in 0 .. count - 1
      OBVIOUS
    <3> QED
      BY <1>5, <2>2, <3>1 DEF IsListOf
  <2>4. 0 .. count - 1 = {}
    BY <2>3
  <2> QED
    BY <2>2, <2>4 DEF IsListOf, NoEdgeFrom
<1>12. DoneSoFar(graph, n, pin + 1)
  <2>1. PICK next : next = pin + 1
    OBVIOUS
  <2>2. next \in 0 .. numIn + numOut
    BY <1>5, <1>9, <1>10, <2>1
  <2>3. ASSUME NEW i \in Inputs(graph, n) PROVE i < pin
    BY <1>2, <1>5, <1>9, <1>10 DEF Inputs
  <2>4. ASSUME NEW i \in Outputs(graph, n), i < next - numIn PROVE i = at \/ i < pin - numIn
    <3>1. i \in Nat /\ at \in Nat
      BY <1>3, <1>5, <1>9, <2>4 DEF Outputs
    <3> QED
      BY <1>9, <1>10, <2>1, <2>4, <3>1
  <2>5. /\ \A i \in Inputs(graph, n) : ~IsValid(Node(graph, n).input[i])
        /\ \A i \in Outputs(graph, n) : i < pin - numIn => NoEdgeFrom(graph, PinId(n, i, TRUE))
    BY <1>2, <1>6, <2>3 DEF DoneSoFar
  <2>6. \A i \in Outputs(graph, n) : i < next - numIn => NoEdgeFrom(graph, PinId(n, i, TRUE))
    BY <1>11, <2>4, <2>5
  <2>7. DoneSoFar(graph, n, next)
    BY <1>2, <1>3, <2>2, <2>5, <2>6, DoneIntro
  <2> QED
    BY <2>1, <2>7
<1> QED
  BY <1>5, <1>6, <1>7, <1>8, <1>12 DEF EdgeInv

(* hgraph_destroy_node frees its node once no edge touches it. *)
DoneWith(g, n) ==
    \A e \in EdgeIds : HasEdge(g, e) =>
        PinNode(Edge(g, e).from) # n /\ PinNode(Edge(g, e).to) # n

LEMMA FinishedMeansAlone ==
    ASSUME EdgeInv, destroying # Idle, NextOutput = NumOutputs(Victim.type)
    PROVE  DoneWith(graph, destroying.node)
<1>1. PICK n, pin : n = destroying.node /\ pin = destroying.pin
  OBVIOUS
<1>2. PICK numIn : numIn = NumInputs(Node(graph, n).type)
  OBVIOUS
<1>3. PICK numOut : numOut = NumOutputs(Node(graph, n).type)
  OBVIOUS
<1>4. /\ IsLinked(graph) /\ IsGraph(graph) /\ DoneSoFar(graph, n, pin) /\ HasNode(graph, n)
      /\ EdgesFit(graph)
  BY <1>1 DEF EdgeInv, GraphInv, IsLinked
<1>5. pin - numIn = numOut
  BY <1>1, <1>2, <1>3 DEF NextOutput, Victim
<1>6. numIn \in Nat /\ numOut \in Nat
  BY <1>2, <1>3, <1>4, NodeInSlot, PinCounts DEF IsNode, MaxPins
<1>7. pin = numIn + numOut
  BY <1>2, <1>3, <1>4, <1>5, <1>6 DEF DoneSoFar
<1>8. ASSUME NEW i \in Inputs(graph, n) PROVE ~IsValid(Node(graph, n).input[i])
  <2>1. i < pin
    BY <1>2, <1>6, <1>7 DEF Inputs
  <2> QED
    BY <1>4, <2>1 DEF DoneSoFar
<1>9. ASSUME NEW i \in Outputs(graph, n) PROVE NoEdgeFrom(graph, PinId(n, i, TRUE))
  <2>1. i < pin - numIn
    BY <1>3, <1>5, <1>6 DEF Outputs
  <2> QED
    BY <1>2, <1>4, <2>1 DEF DoneSoFar
<1> SUFFICES ASSUME NEW e \in EdgeIds, HasEdge(graph, e)
             PROVE  PinNode(Edge(graph, e).from) # n /\ PinNode(Edge(graph, e).to) # n
  BY <1>1 DEF DoneWith
<1>10. PICK from, to : from = Edge(graph, e).from /\ to = Edge(graph, e).to
  OBVIOUS
<1>11. /\ PinIndex(from) \in Outputs(graph, PinNode(from))
       /\ PinIndex(to) \in Inputs(graph, PinNode(to))
       /\ from = PinId(PinNode(from), PinIndex(from), TRUE)
       /\ Node(graph, PinNode(to)).input[PinIndex(to)] = e
  BY <1>4, <1>10, EdgePins, ZenonT(60)
<1>12. PinNode(from) # n
  BY <1>9, <1>10, <1>11 DEF NoEdgeFrom
<1>13. PinNode(to) # n
  BY <1>8, <1>11, ValidEdgeIds
<1> QED
  BY <1>10, <1>12, <1>13

LEMMA FinishKeepsEdges ==
    ASSUME EdgeInv, FinishDestroy
    PROVE  EdgeInv'
<1>1. GraphInv'
  BY FinishKeepsInv DEF EdgeInv
<1>2. /\ destroying # Idle /\ destroying' = Idle
      /\ graph' = FreeNode(graph, destroying.node)
      /\ DoneWith(graph, destroying.node)
  BY FinishedMeansAlone DEF FinishDestroy
<1>3. IsLinked(graph) /\ HasNode(graph, destroying.node)
  BY <1>2 DEF EdgeInv, GraphInv
<1>4. IsLinked(graph')
  BY <1>2, <1>3, FreeNodeKeepsLinked DEF DoneWith
<1> QED
  BY <1>1, <1>2, <1>4 DEF EdgeInv

LEMMA EdgesAreInductive == EdgeInv /\ [Next]_vars => EdgeInv'
<1> SUFFICES ASSUME EdgeInv, [Next]_vars PROVE EdgeInv'
  OBVIOUS
<1>1. CASE UNCHANGED vars
  <2>1. graph' = graph /\ destroying' = destroying
    BY <1>1 DEF vars
  <2>2. GraphInv'
    BY <1>1, GraphIsInductive DEF EdgeInv
  <2> QED
    BY <2>1, <2>2 DEF EdgeInv
<1>2. ASSUME NEW type \in NodeTypes, AddNode(type) PROVE EdgeInv'
  BY <1>2, AddNodeKeepsEdges
<1>3. ASSUME NEW from \in Pins, NEW to \in Pins, AddEdge(from, to) PROVE EdgeInv'
  BY <1>3, AddEdgeKeepsEdges
<1>4. ASSUME NEW id \in EdgeIds, RemoveEdge(id) PROVE EdgeInv'
  BY <1>4, RemoveEdgeKeepsEdges
<1>5. ASSUME NEW id \in Indices(MaxNodes), DestroyNode(id) PROVE EdgeInv'
  BY <1>5, DestroyNodeKeepsEdges
<1>6. CASE DestroyStep
  BY <1>6, DestroyInputKeepsEdges, DestroyOutputKeepsEdges, LeaveOutputKeepsEdges,
     FinishKeepsEdges DEF DestroyStep
<1> QED
  BY <1>1, <1>2, <1>3, <1>4, <1>5, <1>6 DEF Next

-----------------------------------------------------------------------------
LEMMA LiveAre ==
    ASSUME IsGraph(graph)
    PROVE  /\ \A e : e \in LiveEdges <=> HasEdge(graph, e)
           /\ \A n : n \in LiveNodes <=> HasNode(graph, n)
           /\ LiveEdges \subseteq EdgeIds /\ LiveNodes \subseteq Indices(MaxNodes)
<1>1. MaxNodes \in Nat /\ MaxEdges \in Nat
  BY GraphAssumption, MaxEdgesIsNat
<1>2. IsSlotMap(graph.node_slot_map, MaxNodes) /\ IsSlotMap(graph.edge_slot_map, MaxEdges)
  BY DEF IsGraph
<1> QED
  BY <1>1, <1>2, LiveIdsAre DEF LiveEdges, LiveNodes, HasEdge, HasNode, EdgeIds

LEMMA EdgesAgree == EdgeInv => InputsAgree
<1> SUFFICES ASSUME EdgeInv PROVE InputsAgree
  OBVIOUS
<1>1. IsLinked(graph) /\ IsGraph(graph) /\ EdgesFit(graph) /\ InputsFit(graph)
  BY DEF EdgeInv, IsLinked
<1>2. ASSUME NEW e \in LiveEdges
      PROVE  /\ HasNode(graph, PinNode(Edge(graph, e).from))
             /\ HasNode(graph, PinNode(Edge(graph, e).to))
             /\ Node(graph, PinNode(Edge(graph, e).to)).input[PinIndex(Edge(graph, e).to)] = e
  <2>1. HasEdge(graph, e)
    BY <1>1, <1>2, LiveAre
  <2> QED
    BY <1>1, <2>1, EdgePins
<1>3. ASSUME NEW n \in LiveNodes, NEW i \in InputPins(n), IsValid(Node(graph, n).input[i])
      PROVE  /\ Node(graph, n).input[i] \in LiveEdges
             /\ Edge(graph, Node(graph, n).input[i]).to = PinId(n, i, FALSE)
  <2>1. HasNode(graph, n) /\ n \in Indices(MaxNodes)
    BY <1>1, <1>3, LiveAre
  <2>2. i \in Inputs(graph, n)
    BY DEF InputPins, Inputs
  <2>3. InputFits(graph, n, i)
    BY <1>1, <2>1, <2>2 DEF InputsFit
  <2> QED
    BY <1>1, <1>3, <2>3, LiveAre DEF InputFits
<1> QED
  BY <1>2, <1>3 DEF InputsAgree

(* For every registry and number of nodes: an edge is the one its input    *)
(* pin has and both its nodes exist, and an input pin with an edge has a   *)
(* live one that ends in it, through every interleaving of hgraph_connect, *)
(* hgraph_disconnect and the loop of hgraph_destroy_node.                  *)
THEOREM GraphInputsAgree == Spec => []InputsAgree
BY InitEdges, EdgesAreInductive, EdgesAgree, PTL DEF Spec

LEMMA RoomIsEnough == EdgeInv => CanConnectIsEnough
<1> SUFFICES ASSUME EdgeInv, NEW from \in Pins, NEW to \in Pins, CanConnect(graph, from, to)
             PROVE  IsValid(ConnectResult(graph, from, to))
  BY DEF CanConnectIsEnough
<1>1. IsLinked(graph) /\ IsSlotMap(graph.edge_slot_map, MaxEdges)
  BY DEF EdgeInv, IsLinked, IsGraph
<1>2. ~IsFull(graph.edge_slot_map)
  BY <1>1, RoomForEdge
<1>3. AllocatedId(graph.edge_slot_map) \in EdgeIds
  BY <1>1, <1>2, AllocateMakesLive, MaxEdgesIsNat DEF EdgeIds
<1>4. ConnectResult(graph, from, to) = AllocatedId(graph.edge_slot_map)
  <2>1. Directed(from, to) /\ JoinsNodes(graph, from, to)
    BY DEF CanConnect
  <2> QED
    BY <2>1 DEF ConnectResult
<1> QED
  BY <1>3, <1>4, ValidEdgeIds

(* max_edges counts input pins alone, and there is a free edge whenever    *)
(* hgraph_can_connect says yes: every live edge has an input pin of its    *)
(* own, and the pin to be connected has none.                              *)
THEOREM GraphCanConnectIsEnough == Spec => []CanConnectIsEnough
BY InitEdges, EdgesAreInductive, RoomIsEnough, PTL DEF Spec

-----------------------------------------------------------------------------
(* The walk along an output pin against the pin's list. *)
NextOf(e) == IF HasEdge(graph, e) THEN Edge(graph, e).next ELSE Invalid

LEMMA WalkSteps ==
    ASSUME NEW n, NEW i,
           \E f : f = [k \in 0 .. MaxEdges |->
                          IF k = 0 THEN Node(graph, n).output[i].next ELSE NextOf(f[k - 1])]
    PROVE  /\ Walk(n, i)[0] = Node(graph, n).output[i].next
           /\ \A k \in 0 .. MaxEdges : k # 0 => Walk(n, i)[k] = NextOf(Walk(n, i)[k - 1])
<1>1. PICK w : w = Walk(n, i)
  OBVIOUS
<1>2. w = [k \in 0 .. MaxEdges |->
              IF k = 0 THEN Node(graph, n).output[i].next ELSE NextOf(w[k - 1])]
  BY <1>1 DEF Walk, NextOf
<1>3. 0 \in 0 .. MaxEdges
  BY MaxEdgesIsNat
<1> HIDE DEF NextOf
<1>4. \A k \in 0 .. MaxEdges :
          w[k] = IF k = 0 THEN Node(graph, n).output[i].next ELSE NextOf(w[k - 1])
  BY <1>2, Zenon
<1>5. w[0] = Node(graph, n).output[i].next
  BY <1>3, <1>4
<1>6. \A k \in 0 .. MaxEdges : k # 0 => w[k] = NextOf(w[k - 1])
  BY <1>4
<1> QED
  BY <1>1, <1>5, <1>6

LEMMA LeastOf ==
    ASSUME NEW indices, indices \subseteq Nat, indices # {}
    PROVE  \E i \in indices : \A j \in indices : i <= j
<1>1. PICK i \in indices : \A j \in indices : <<j, i>> \notin OpToRel(<, Nat)
  BY NatLessThanWellFounded, WFMin
<1>2. ASSUME NEW j \in indices
      PROVE  i <= j
  <2>1. <<j, i>> \in Nat \X Nat /\ <<j, i>>[1] = j /\ <<j, i>>[2] = i
    OBVIOUS
  <2>2. ~(j < i)
    BY <1>1, <2>1 DEF OpToRel
  <2> QED
    BY <2>2
<1> QED
  BY <1>2

LEMMA WalkIsList ==
    ASSUME IsGraph(graph), NEW n, NEW i, NEW count \in Nat,
           NEW list \in [0 .. count - 1 -> EdgeIds], IsListOf(graph, n, i, count, list)
    PROVE  \A k \in 0 .. MaxEdges : Walk(n, i)[k] = IF k < count THEN list[k] ELSE Invalid
<1>1. PICK f : f = [k \in 0 .. MaxEdges |-> IF k < count THEN list[k] ELSE Invalid]
  OBVIOUS
<1>2. PICK head : head = Node(graph, n).output[i].next
  OBVIOUS
<1>3. head = IF count = 0 THEN Invalid ELSE list[0]
  BY <1>2 DEF IsListOf
<1>4. NextOf(Invalid) = Invalid
  BY InvalidIsNoEdge DEF NextOf
<1>5. ASSUME NEW k \in 0 .. count - 1
      PROVE  NextOf(list[k]) = IF k = count - 1 THEN Invalid ELSE list[k + 1]
  BY DEF IsListOf, NextOf
<1> HIDE DEF NextOf
<1>6. ASSUME NEW k \in 0 .. MaxEdges, k # 0
      PROVE  f[k] = NextOf(f[k - 1])
  <2>1. k \in Nat /\ k - 1 \in Nat /\ k - 1 \in 0 .. MaxEdges
    BY <1>6, MaxEdgesIsNat
  <2>2. /\ f[k] = IF k < count THEN list[k] ELSE Invalid
        /\ f[k - 1] = IF k - 1 < count THEN list[k - 1] ELSE Invalid
    BY <1>1, <2>1
  <2>3. CASE k - 1 < count
    <3>1. k - 1 \in 0 .. count - 1
      BY <2>1, <2>3
    <3>2. NextOf(list[k - 1]) = IF k - 1 = count - 1 THEN Invalid ELSE list[k - 1 + 1]
      BY <1>5, <3>1
    <3>3. k - 1 + 1 = k /\ (k - 1 = count - 1 <=> ~(k < count))
      BY <2>1, <2>3
    <3> QED
      BY <2>2, <2>3, <3>2, <3>3
  <2>4. CASE ~(k - 1 < count)
    <3>1. ~(k < count)
      BY <2>1, <2>4
    <3> QED
      BY <1>4, <2>2, <2>4, <3>1
  <2> QED
    BY <2>3, <2>4
<1>7. 0 \in 0 .. MaxEdges /\ f[0] = head
  <2>1. 0 \in 0 .. MaxEdges
    BY MaxEdgesIsNat
  <2>2. 0 < count <=> count # 0
    OBVIOUS
  <2> QED
    BY <1>1, <1>3, <2>1, <2>2
<1>8. f = [k \in 0 .. MaxEdges |-> IF k = 0 THEN head ELSE NextOf(f[k - 1])]
  <2>1. \A k \in 0 .. MaxEdges : f[k] = IF k = 0 THEN head ELSE NextOf(f[k - 1])
    BY <1>6, <1>7
  <2>2. f = [k \in 0 .. MaxEdges |-> f[k]]
    BY <1>1
  <2> QED
    BY <2>1, <2>2
<1>9. PICK w : w = Walk(n, i)
  OBVIOUS
<1>10. w[0] = head /\ \A k \in 0 .. MaxEdges : k # 0 => w[k] = NextOf(w[k - 1])
  <2>1. \E u : u = [k \in 0 .. MaxEdges |->
                        IF k = 0 THEN Node(graph, n).output[i].next ELSE NextOf(u[k - 1])]
    <3>1. f = [k \in 0 .. MaxEdges |->
                  IF k = 0 THEN Node(graph, n).output[i].next ELSE NextOf(f[k - 1])]
      BY <1>2, <1>8
    <3> QED
      BY <3>1, Zenon
  <2>2. /\ Walk(n, i)[0] = Node(graph, n).output[i].next
        /\ \A k \in 0 .. MaxEdges : k # 0 => Walk(n, i)[k] = NextOf(Walk(n, i)[k - 1])
    BY <2>1, WalkSteps, ZenonT(60)
  <2> QED
    BY <1>2, <1>9, <2>2
<1>11. \A k \in 0 .. MaxEdges : w[k] = f[k]
  <2> DEFINE wrong == {k \in 0 .. MaxEdges : w[k] # f[k]}
  <2>1. SUFFICES ASSUME wrong # {} PROVE FALSE
    OBVIOUS
  <2>2. wrong \subseteq Nat
    BY MaxEdgesIsNat
  <2>3. PICK k \in wrong : \A j \in wrong : k <= j
    BY <2>1, <2>2, LeastOf
  <2>4. k \in 0 .. MaxEdges /\ w[k] # f[k] /\ k # 0
    BY <1>7, <1>10, <2>3
  <2>5. k - 1 \in 0 .. MaxEdges /\ ~(k <= k - 1)
    BY <2>4, MaxEdgesIsNat
  <2>6. w[k - 1] = f[k - 1]
    BY <2>3, <2>5
  <2> QED
    BY <1>6, <1>10, <2>4, <2>6
<1> QED
  BY <1>1, <1>9, <1>11

AreEdgesOf(mine, n, i) ==
    \A e : e \in mine <=> HasEdge(graph, e) /\ Edge(graph, e).from = PinId(n, i, TRUE)

(* The list of a pin is as long as the set of its edges. *)
LEMMA ListLength ==
    ASSUME IsGraph(graph), NEW n, NEW i, NEW count \in Nat,
           NEW list \in [0 .. count - 1 -> EdgeIds], IsListOf(graph, n, i, count, list),
           NEW mine, AreEdgesOf(mine, n, i)
    PROVE  /\ Cardinality(mine) = count /\ count <= MaxEdges
<1>1. \A k \in 0 .. count - 1 : list[k] \in mine
  BY DEF AreEdgesOf, IsListOf
<1>2. \A e \in mine : \E k \in 0 .. count - 1 : list[k] = e
  BY EdgeInSlot DEF AreEdgesOf, IsListOf
<1>3. \A j, k \in 0 .. count - 1 : list[j] = list[k] => j = k
  BY DEF IsListOf
<1>4. list \in [0 .. count - 1 -> mine]
  BY <1>1
<1>5. list \in Bijection(0 .. count - 1, mine)
  BY <1>2, <1>3, <1>4 DEF Bijection, Injection, Surjection, IsInjective
<1>6. IsFiniteSet(0 .. count - 1) /\ Cardinality(0 .. count - 1) = count
  <2>1. 0 \in Int /\ count - 1 \in Int
    OBVIOUS
  <2>2. /\ IsFiniteSet(0 .. count - 1)
        /\ Cardinality(0 .. count - 1) = IF 0 > count - 1 THEN 0 ELSE count - 1 - 0 + 1
    BY <2>1, FS_Interval
  <2> QED
    BY <2>2
<1>7. Cardinality(mine) = count
  <2>1. ExistsBijection(0 .. count - 1, mine)
    BY <1>5 DEF ExistsBijection
  <2> QED
    BY <1>6, <2>1, FS_Bijection
<1>8. IsFiniteSet(EdgeIds) /\ Cardinality(EdgeIds) = MaxEdges
  <2>1. 0 \in Int /\ MaxEdges - 1 \in Int
    BY MaxEdgesIsNat
  <2>2. /\ IsFiniteSet(0 .. MaxEdges - 1)
        /\ Cardinality(0 .. MaxEdges - 1) = IF 0 > MaxEdges - 1 THEN 0 ELSE MaxEdges - 1 - 0 + 1
    BY <2>1, FS_Interval
  <2> QED
    BY <2>2, MaxEdgesIsNat DEF EdgeIds, Indices
<1>9. mine \in SUBSET EdgeIds
  BY EdgeInSlot DEF AreEdgesOf
<1>10. count <= MaxEdges
  BY <1>7, <1>8, <1>9, FS_Subset
<1> QED
  BY <1>7, <1>10

(* A walk that is the pin's list, for the edges of the pin. *)
IsComplete(n, i, walk, mine, count) ==
    /\ {walk[k] : k \in 0 .. count - 1} = mine
    /\ walk[count] = Invalid
    /\ Node(graph, n).output[i].prev = (IF count = 0 THEN Invalid ELSE walk[count - 1])
    /\ \A k \in 0 .. count - 1 :
          Edge(graph, walk[k]).prev = (IF k = 0 THEN Invalid ELSE walk[k - 1])

LEMMA ListIsComplete ==
    ASSUME EdgeInv, NEW n \in LiveNodes, NEW i \in OutputPins(n),
           NEW walk, walk = Walk(n, i),
           NEW mine, AreEdgesOf(mine, n, i)
    PROVE  IsComplete(n, i, walk, mine, Cardinality(mine))
<1>1. IsGraph(graph) /\ HaveLists(graph)
  BY DEF EdgeInv, IsLinked
<1>2. HasNode(graph, n) /\ n \in Indices(MaxNodes) /\ i \in Outputs(graph, n)
  BY <1>1, LiveAre DEF OutputPins, Outputs
<1>3. PICK count \in Nat : \E list \in [0 .. count - 1 -> EdgeIds] :
          IsListOf(graph, n, i, count, list)
  BY <1>1, <1>2, HasListIs DEF HaveLists
<1>4. PICK list \in [0 .. count - 1 -> EdgeIds] : IsListOf(graph, n, i, count, list)
  BY <1>3
<1>5. /\ Cardinality(mine) = count /\ count <= MaxEdges
      /\ \A k \in 0 .. count - 1 : list[k] \in mine
      /\ \A e \in mine : \E k \in 0 .. count - 1 : list[k] = e
  <2>1. Cardinality(mine) = count /\ count <= MaxEdges
    BY <1>1, <1>4, ListLength
  <2>2. \A k \in 0 .. count - 1 : list[k] \in mine
    BY <1>4 DEF IsListOf, AreEdgesOf
  <2>3. \A e \in mine : \E k \in 0 .. count - 1 : list[k] = e
    BY <1>1, <1>4, EdgeInSlot DEF IsListOf, AreEdgesOf
  <2> QED
    BY <2>1, <2>2, <2>3
<1>6. \A k \in 0 .. MaxEdges : walk[k] = IF k < count THEN list[k] ELSE Invalid
  BY <1>1, <1>4, WalkIsList
<1>7. \A k \in 0 .. count - 1 : walk[k] = list[k]
  BY <1>5, <1>6, MaxEdgesIsNat
<1>8. walk[count] = Invalid
  BY <1>5, <1>6, MaxEdgesIsNat
<1>9. {walk[k] : k \in 0 .. count - 1} = mine
  BY <1>5, <1>7
<1>10. Node(graph, n).output[i].prev = IF count = 0 THEN Invalid ELSE walk[count - 1]
  <2>1. Node(graph, n).output[i].prev = IF count = 0 THEN Invalid ELSE list[count - 1]
    BY <1>4 DEF IsListOf
  <2>2. count # 0 => count - 1 \in 0 .. count - 1
    OBVIOUS
  <2> QED
    BY <1>7, <2>1, <2>2
<1>11. ASSUME NEW k \in 0 .. count - 1
       PROVE  Edge(graph, walk[k]).prev = IF k = 0 THEN Invalid ELSE walk[k - 1]
  <2>1. Edge(graph, list[k]).prev = IF k = 0 THEN Invalid ELSE list[k - 1]
    BY <1>4 DEF IsListOf
  <2>2. k # 0 => k - 1 \in 0 .. count - 1
    OBVIOUS
  <2> QED
    BY <1>7, <2>1, <2>2
<1>12. IsComplete(n, i, walk, mine, count)
  BY <1>8, <1>9, <1>10, <1>11 DEF IsComplete
<1> QED
  BY <1>5, <1>12

LEMMA ListsAreComplete == EdgeInv => OutputListsAreComplete
<1> SUFFICES ASSUME EdgeInv PROVE OutputListsAreComplete
  OBVIOUS
<1>1. ASSUME NEW n \in LiveNodes, NEW i \in OutputPins(n)
      PROVE  LET mine == {e \in LiveEdges : Edge(graph, e).from = PinId(n, i, TRUE)} IN
             IsComplete(n, i, Walk(n, i), mine, Cardinality(mine))
  <2> DEFINE mine == {e \in LiveEdges : Edge(graph, e).from = PinId(n, i, TRUE)}
  <2>1. AreEdgesOf(mine, n, i)
    BY LiveAre DEF EdgeInv, GraphInv, AreEdgesOf
  <2> HIDE DEF mine
  <2>2. IsComplete(n, i, Walk(n, i), mine, Cardinality(mine))
    BY <2>1, ListIsComplete
  <2> QED
    BY <2>2 DEF mine
<1> QED
  BY <1>1 DEF OutputListsAreComplete, IsComplete

(* For every registry and number of nodes, also between the iterations of  *)
(* hgraph_destroy_node: the links of an output pin lead through each of    *)
(* its edges once and through no other, forwards and backwards, and end at *)
(* an invalid index at either end.                                         *)
THEOREM GraphOutputListsAreComplete == Spec => []OutputListsAreComplete
BY InitEdges, EdgesAreInductive, ListsAreComplete, PTL DEF Spec

-----------------------------------------------------------------------------
LEMMA InitImplements == Init => Abstract!Init
<1> SUFFICES ASSUME Init PROVE Abstract!Init
  OBVIOUS
<1>1. GraphInv /\ IsGraph(graph)
  BY InitEdges DEF EdgeInv, GraphInv
<1>2. LiveNodes = {} /\ LiveEdges = {}
  <2>1. graph.node_slot_map.num_items = 0 /\ graph.edge_slot_map.num_items = 0
    BY DEF Init, EmptyGraph, EmptyMap
  <2> QED
    BY <2>1 DEF LiveNodes, LiveEdges, LiveIds, IsLive, SlotForId, Indices, IsValid, Invalid
<1> QED
  BY <1>2 DEF Abstract!Init

(* A graph as Multigraph sees it. *)
NodesOf(g) == [n \in LiveIds(g.node_slot_map) |-> Node(g, n).type]
Ends(x) == [from |-> x.from, to |-> x.to]
EdgesOf(g) == [e \in LiveIds(g.edge_slot_map) |-> Ends(Edge(g, e))]

LEMMA SeenIds ==
    ASSUME NEW g, IsGraph(g)
    PROVE  /\ \A n : n \in LiveIds(g.node_slot_map) <=> HasNode(g, n)
           /\ \A e : e \in LiveIds(g.edge_slot_map) <=> HasEdge(g, e)
<1>1. MaxNodes \in Nat /\ MaxEdges \in Nat
  BY GraphAssumption, MaxEdgesIsNat
<1>2. IsSlotMap(g.node_slot_map, MaxNodes) /\ IsSlotMap(g.edge_slot_map, MaxEdges)
  BY DEF IsGraph
<1> QED
  BY <1>1, <1>2, LiveIdsAre DEF HasEdge, HasNode

LEMMA SeenNodes ==
    ASSUME NEW g, IsGraph(g)
    PROVE  /\ \A n : n \in DOMAIN NodesOf(g) <=> HasNode(g, n)
           /\ \A n : HasNode(g, n) => NodesOf(g)[n] = Node(g, n).type
BY SeenIds DEF NodesOf

LEMMA SeenEdges ==
    ASSUME NEW g, IsGraph(g)
    PROVE  /\ \A e : e \in DOMAIN EdgesOf(g) <=> HasEdge(g, e)
           /\ \A e : HasEdge(g, e) => EdgesOf(g)[e] = Ends(Edge(g, e))
BY SeenIds DEF EdgesOf

LEMMA SameNodesSeen ==
    ASSUME NEW g, IsGraph(g), NEW h, IsGraph(h), SameTypes(g, h),
           \A n : HasNode(h, n) <=> HasNode(g, n)
    PROVE  NodesOf(h) = NodesOf(g)
<1>1. LiveIds(h.node_slot_map) = LiveIds(g.node_slot_map)
  BY SeenIds
<1>2. \A n \in LiveIds(g.node_slot_map) : Node(h, n).type = Node(g, n).type
  BY SeenIds DEF SameTypes
<1> QED
  BY <1>1, <1>2 DEF NodesOf

LEMMA SameEdgesSeen ==
    ASSUME NEW g, NEW h, h.edge_slot_map = g.edge_slot_map, h.edges = g.edges
    PROVE  EdgesOf(h) = EdgesOf(g)
<1>1. \A e : Edge(h, e) = Edge(g, e)
  BY SameEdgeMaps
<1> QED
  BY <1>1 DEF EdgesOf

LEMMA NodeSeen ==
    ASSUME NEW g, IsGraph(g), NEW h, IsGraph(h), NEW id, NEW type,
           \A n : HasNode(h, n) <=> HasNode(g, n) \/ n = id,
           ~HasNode(g, id),
           \A n : HasNode(g, n) => Node(h, n).type = Node(g, n).type,
           Node(h, id).type = type
    PROVE  NodesOf(h) = Abstract!Extension(NodesOf(g), id, type)
<1>1. LiveIds(h.node_slot_map) = DOMAIN NodesOf(g) \union {id}
  BY SeenIds, SeenNodes
<1>2. \A n \in DOMAIN NodesOf(g) \union {id} :
          Node(h, n).type = IF n = id THEN type ELSE NodesOf(g)[n]
  BY SeenNodes
<1>3. NodesOf(h) = [n \in DOMAIN NodesOf(g) \union {id} |-> Node(h, n).type]
  BY <1>1 DEF NodesOf
<1> QED
  BY <1>2, <1>3 DEF Abstract!Extension

LEMMA NodeUnseen ==
    ASSUME NEW g, IsGraph(g), NEW h, IsGraph(h), NEW id,
           \A n : HasNode(h, n) <=> HasNode(g, n) /\ n # id,
           \A n : HasNode(g, n) /\ n # id => Node(h, n).type = Node(g, n).type
    PROVE  NodesOf(h) = Abstract!Restriction(NodesOf(g), DOMAIN NodesOf(g) \ {id})
<1>1. LiveIds(h.node_slot_map) = DOMAIN NodesOf(g) \ {id}
  BY SeenIds, SeenNodes
<1>2. \A n \in DOMAIN NodesOf(g) \ {id} : Node(h, n).type = NodesOf(g)[n]
  BY SeenNodes
<1>3. NodesOf(h) = [n \in DOMAIN NodesOf(g) \ {id} |-> Node(h, n).type]
  BY <1>1 DEF NodesOf
<1> QED
  BY <1>2, <1>3 DEF Abstract!Restriction

LEMMA EdgeSeen ==
    ASSUME NEW g, IsGraph(g), NEW h, IsGraph(h), NEW id,
           \A e : HasEdge(h, e) <=> HasEdge(g, e) \/ e = id,
           ~HasEdge(g, id),
           \A e : HasEdge(g, e) => Ends(Edge(h, e)) = Ends(Edge(g, e))
    PROVE  EdgesOf(h) = Abstract!Extension(EdgesOf(g), id, Ends(Edge(h, id)))
<1>1. LiveIds(h.edge_slot_map) = DOMAIN EdgesOf(g) \union {id}
  BY SeenIds, SeenEdges
<1>2. \A e \in DOMAIN EdgesOf(g) \union {id} :
          Ends(Edge(h, e)) = IF e = id THEN Ends(Edge(h, id)) ELSE EdgesOf(g)[e]
  BY SeenEdges
<1>3. EdgesOf(h) = [e \in DOMAIN EdgesOf(g) \union {id} |-> Ends(Edge(h, e))]
  BY <1>1 DEF EdgesOf
<1> QED
  BY <1>2, <1>3 DEF Abstract!Extension

LEMMA EdgeUnseen ==
    ASSUME NEW g, IsGraph(g), NEW h, IsGraph(h), NEW id,
           \A e : HasEdge(h, e) <=> HasEdge(g, e) /\ e # id,
           \A e : HasEdge(g, e) /\ e # id => Ends(Edge(h, e)) = Ends(Edge(g, e))
    PROVE  EdgesOf(h) = Abstract!Restriction(EdgesOf(g), DOMAIN EdgesOf(g) \ {id})
<1>1. LiveIds(h.edge_slot_map) = DOMAIN EdgesOf(g) \ {id}
  BY SeenIds, SeenEdges
<1>2. \A e \in DOMAIN EdgesOf(g) \ {id} : Ends(Edge(h, e)) = EdgesOf(g)[e]
  BY SeenEdges
<1>3. EdgesOf(h) = [e \in DOMAIN EdgesOf(g) \ {id} |-> Ends(Edge(h, e))]
  BY <1>1 DEF EdgesOf
<1> QED
  BY <1>2, <1>3 DEF Abstract!Restriction

LEMMA MapsAddNode ==
    ASSUME NEW id, NEW type, id \notin DOMAIN NodesOf(graph),
           NodesOf(graph)' = Abstract!Extension(NodesOf(graph), id, type),
           EdgesOf(graph)' = EdgesOf(graph)
    PROVE  Abstract!AddNode(id, type)
BY DEF Abstract!AddNode, NodesOf, EdgesOf, Ends, LiveNodes, LiveEdges

LEMMA MapsRemoveNode ==
    ASSUME NEW id \in DOMAIN NodesOf(graph),
           \A e \in DOMAIN EdgesOf(graph) :
               PinNode(EdgesOf(graph)[e].from) # id /\ PinNode(EdgesOf(graph)[e].to) # id,
           NodesOf(graph)' = Abstract!Restriction(NodesOf(graph), DOMAIN NodesOf(graph) \ {id}),
           EdgesOf(graph)' = EdgesOf(graph)
    PROVE  Abstract!RemoveNode(id)
<1>1. Abstract!Incident(id) = {}
  BY DEF Abstract!Incident, EdgesOf, Ends, LiveEdges
<1>2. EdgesOf(graph) = Abstract!Restriction(EdgesOf(graph), DOMAIN EdgesOf(graph) \ {})
  <2>1. DOMAIN EdgesOf(graph) \ {} = DOMAIN EdgesOf(graph)
    OBVIOUS
  <2>2. EdgesOf(graph) = [e \in DOMAIN EdgesOf(graph) |-> EdgesOf(graph)[e]]
    BY DEF EdgesOf
  <2> QED
    BY <2>1, <2>2 DEF Abstract!Restriction
<1> QED
  BY <1>1, <1>2 DEF Abstract!RemoveNode, NodesOf, EdgesOf, Ends, LiveNodes, LiveEdges

LEMMA MapsAddEdge ==
    ASSUME NEW id, id \notin DOMAIN EdgesOf(graph), NEW from, NEW to,
           PinNode(from) \in DOMAIN NodesOf(graph), PinNode(to) \in DOMAIN NodesOf(graph),
           PinNode(from) # PinNode(to),
           TypesMatch(NodesOf(graph)[PinNode(from)], from, NodesOf(graph)[PinNode(to)], to),
           \A other \in DOMAIN EdgesOf(graph) : EdgesOf(graph)[other].to # to,
           EdgesOf(graph)' = Abstract!Extension(EdgesOf(graph), id, [from |-> from, to |-> to]),
           NodesOf(graph)' = NodesOf(graph)
    PROVE  Abstract!AddEdge(id, from, to)
BY DEF Abstract!AddEdge, NodesOf, EdgesOf, Ends, LiveNodes, LiveEdges

LEMMA MapsRemoveEdge ==
    ASSUME NEW id \in DOMAIN EdgesOf(graph),
           EdgesOf(graph)' = Abstract!Restriction(EdgesOf(graph), DOMAIN EdgesOf(graph) \ {id}),
           NodesOf(graph)' = NodesOf(graph)
    PROVE  Abstract!RemoveEdge(id)
BY DEF Abstract!RemoveEdge, NodesOf, EdgesOf, Ends, LiveNodes, LiveEdges

AbstractVars == <<[n \in LiveNodes |-> Node(graph, n).type],
                  [e \in LiveEdges |-> [from |-> Edge(graph, e).from, to |-> Edge(graph, e).to]]>>

LEMMA Stutters ==
    ASSUME NodesOf(graph)' = NodesOf(graph), EdgesOf(graph)' = EdgesOf(graph)
    PROVE  UNCHANGED AbstractVars
BY DEF AbstractVars, NodesOf, EdgesOf, Ends, LiveNodes, LiveEdges

LEMMA AddNodeImplements ==
    ASSUME EdgeInv, NEW type \in NodeTypes, AddNode(type)
    PROVE  (\E n \in Indices(MaxNodes) : Abstract!AddNode(n, type)) \/ UNCHANGED AbstractVars
<1>1. IsGraph(graph) /\ graph' = CreateNode(graph, type)
  BY DEF EdgeInv, GraphInv, AddNode
<1>2. CASE IsFull(graph.node_slot_map)
  <2>1. graph' = graph
    BY <1>1, <1>2 DEF CreateNode
  <2> QED
    BY <2>1, Stutters
<1>3. CASE ~IsFull(graph.node_slot_map)
  <2>1. PICK id : id = AllocatedId(graph.node_slot_map)
    OBVIOUS
  <2>2. PICK h : h = CreateNode(graph, type)
    OBVIOUS
  <2>3. IsGraph(h)
    BY <1>1, <2>2, CreateKeepsGraph
  <2>4. /\ id \in Indices(MaxNodes) /\ ~HasNode(graph, id)
        /\ \A n : HasNode(h, n) <=> HasNode(graph, n) \/ n = id
        /\ \A n : HasNode(graph, n) => Node(h, n) = Node(graph, n)
        /\ Node(h, id) = FreshNode(type)
        /\ h.edge_slot_map = graph.edge_slot_map /\ h.edges = graph.edges
    BY <1>1, <1>3, <2>1, <2>2, NodeCreated
  <2>5. Node(h, id).type = type
    BY <2>4 DEF FreshNode
  <2>6. NodesOf(h) = Abstract!Extension(NodesOf(graph), id, type)
    BY <1>1, <2>3, <2>4, <2>5, NodeSeen
  <2>7. EdgesOf(h) = EdgesOf(graph)
    BY <2>4, SameEdgesSeen
  <2>8. id \notin DOMAIN NodesOf(graph)
    BY <1>1, <2>4, SeenNodes
  <2>9. graph' = h
    BY <1>1, <2>2
  <2>10. Abstract!AddNode(id, type)
    BY <2>6, <2>7, <2>8, <2>9, MapsAddNode
  <2> QED
    BY <2>4, <2>10
<1> QED
  BY <1>2, <1>3

LEMMA AddEdgeImplements ==
    ASSUME EdgeInv, NEW from \in Pins, NEW to \in Pins, AddEdge(from, to)
    PROVE  /\ IsValid(from) /\ IsOutput(from) /\ IsValid(to) /\ ~IsOutput(to)
           /\ \E e \in EdgeIds : Abstract!AddEdge(e, from, to)
<1>1. /\ IsLinked(graph) /\ IsGraph(graph) /\ EdgesFit(graph)
      /\ CanConnect(graph, from, to) /\ graph' = Connect(graph, from, to)
  BY DEF EdgeInv, IsLinked, AddEdge
<1>2. PICK h : h = Connect(graph, from, to)
  OBVIOUS
<1>3. PICK id : id = AllocatedId(graph.edge_slot_map)
  OBVIOUS
<1>4. ~IsFull(graph.edge_slot_map)
  BY <1>1, RoomForEdge
<1>5. IsGraph(h) /\ \E tail : Connects(graph, h, from, to, tail, id)
  BY <1>1, <1>2, <1>3, <1>4, ConnectKeepsLinked DEF IsLinked
<1>6. PICK tail : Connects(graph, h, from, to, tail, id)
  BY <1>5
<1>7. SameTypes(graph, h) /\ \A n : HasNode(h, n) <=> HasNode(graph, n)
  BY <1>1, <1>6, ConnectKeepsTypes DEF Connects
<1>8. NodesOf(h) = NodesOf(graph)
  BY <1>1, <1>5, <1>7, SameNodesSeen
<1>9. /\ id \in EdgeIds /\ ~HasEdge(graph, id)
      /\ \A e : HasEdge(h, e) <=> HasEdge(graph, e) \/ e = id
      /\ Edge(h, id).from = from /\ Edge(h, id).to = to
  BY <1>6 DEF Connects
<1>10. \A e : HasEdge(graph, e) => Ends(Edge(h, e)) = Ends(Edge(graph, e))
  BY <1>1, <1>6, EdgeInSlot DEF Connects, LinksEdge, Ends
<1>11. EdgesOf(h) = Abstract!Extension(EdgesOf(graph), id, [from |-> from, to |-> to])
  <2>1. EdgesOf(h) = Abstract!Extension(EdgesOf(graph), id, Ends(Edge(h, id)))
    BY <1>1, <1>5, <1>9, <1>10, EdgeSeen
  <2>2. Ends(Edge(h, id)) = [from |-> from, to |-> to]
    BY <1>9 DEF Ends
  <2> QED
    BY <2>1, <2>2
<1>12. id \notin DOMAIN EdgesOf(graph)
  BY <1>1, <1>9, SeenEdges
<1>13. /\ Directed(from, to) /\ JoinsNodes(graph, from, to)
       /\ PinsMatch(graph, from, to) /\ InputIsFree(graph, to)
  BY <1>1 DEF CanConnect
<1>14. /\ PinNode(from) \in DOMAIN NodesOf(graph) /\ PinNode(to) \in DOMAIN NodesOf(graph)
       /\ PinNode(from) # PinNode(to)
       /\ TypesMatch(NodesOf(graph)[PinNode(from)], from, NodesOf(graph)[PinNode(to)], to)
  BY <1>1, <1>13, SeenNodes DEF JoinsNodes, PinsMatch
<1>15. ASSUME NEW e \in DOMAIN EdgesOf(graph) PROVE EdgesOf(graph)[e].to # to
  <2>1. HasEdge(graph, e) /\ EdgesOf(graph)[e] = Ends(Edge(graph, e))
    BY <1>1, SeenEdges
  <2>2. /\ e \in EdgeIds
        /\ Node(graph, PinNode(Edge(graph, e).to)).input[PinIndex(Edge(graph, e).to)] = e
    BY <1>1, <2>1, EdgePins
  <2>3. Edge(graph, e).to # to
    BY <1>13, <2>2, ValidEdgeIds DEF InputIsFree
  <2> QED
    BY <2>1, <2>3 DEF Ends
<1>16. graph' = h
  BY <1>1, <1>2
<1>17. Abstract!AddEdge(id, from, to)
  BY <1>8, <1>11, <1>12, <1>14, <1>15, <1>16, MapsAddEdge
<1> QED
  BY <1>9, <1>13, <1>17 DEF Directed

LEMMA DisconnectImplements ==
    ASSUME EdgeInv, NEW id, HasEdge(graph, id), graph' = Disconnect(graph, id)
    PROVE  \E e \in EdgeIds : Abstract!RemoveEdge(e)
<1>1. IsLinked(graph) /\ IsGraph(graph) /\ id \in EdgeIds
  BY EdgeInSlot DEF EdgeInv, IsLinked
<1>2. PICK h : h = Disconnect(graph, id)
  OBVIOUS
<1>3. IsGraph(h) /\ Disconnects(graph, h, id)
  BY <1>1, <1>2, DisconnectKeepsLinked DEF IsLinked
<1>4. SameTypes(graph, h) /\ \A n : HasNode(h, n) <=> HasNode(graph, n)
  BY <1>1, <1>3, DisconnectKeepsTypes DEF Disconnects
<1>5. NodesOf(h) = NodesOf(graph)
  BY <1>1, <1>3, <1>4, SameNodesSeen
<1>6. \A e : HasEdge(h, e) <=> HasEdge(graph, e) /\ e # id
  BY <1>3 DEF Disconnects
<1>7. \A e : HasEdge(graph, e) /\ e # id => Ends(Edge(h, e)) = Ends(Edge(graph, e))
  BY <1>1, <1>3, EdgeInSlot DEF Disconnects, UnlinksEdge, Ends
<1>8. EdgesOf(h) = Abstract!Restriction(EdgesOf(graph), DOMAIN EdgesOf(graph) \ {id})
  BY <1>1, <1>3, <1>6, <1>7, EdgeUnseen
<1>9. graph' = h /\ id \in DOMAIN EdgesOf(graph)
  BY <1>1, <1>2, SeenEdges
<1>10. Abstract!RemoveEdge(id)
  BY <1>5, <1>8, <1>9, MapsRemoveEdge
<1> QED
  BY <1>1, <1>10

LEMMA FinishImplements ==
    ASSUME EdgeInv, FinishDestroy
    PROVE  \E n \in Indices(MaxNodes) : Abstract!RemoveNode(n)
<1>1. PICK id : id = destroying.node
  OBVIOUS
<1>2. /\ IsLinked(graph) /\ IsGraph(graph) /\ HasNode(graph, id)
      /\ graph' = FreeNode(graph, id) /\ EdgesFit(graph)
  BY <1>1 DEF EdgeInv, GraphInv, IsLinked, FinishDestroy
<1>3. DoneWith(graph, id)
  BY <1>1, FinishedMeansAlone DEF FinishDestroy
<1>4. PICK h : h = FreeNode(graph, id)
  OBVIOUS
<1>5. IsGraph(h)
  BY <1>2, <1>4, FreeNodeKeepsGraph
<1>6. /\ \A n : HasNode(h, n) <=> HasNode(graph, n) /\ n # id
      /\ \A n : HasNode(graph, n) /\ n # id => Node(h, n) = Node(graph, n)
      /\ h.edge_slot_map = graph.edge_slot_map /\ h.edges = graph.edges
  BY <1>2, <1>4, NodeFreed
<1>7. NodesOf(h) = Abstract!Restriction(NodesOf(graph), DOMAIN NodesOf(graph) \ {id})
  BY <1>2, <1>5, <1>6, NodeUnseen
<1>8. EdgesOf(h) = EdgesOf(graph)
  BY <1>6, SameEdgesSeen
<1>9. id \in DOMAIN NodesOf(graph) /\ id \in Indices(MaxNodes)
  BY <1>2, SeenNodes, NodeInSlot
<1>10. ASSUME NEW e \in DOMAIN EdgesOf(graph)
       PROVE  PinNode(EdgesOf(graph)[e].from) # id /\ PinNode(EdgesOf(graph)[e].to) # id
  <2>1. HasEdge(graph, e) /\ EdgesOf(graph)[e] = Ends(Edge(graph, e)) /\ e \in EdgeIds
    BY <1>2, SeenEdges, EdgeInSlot
  <2> QED
    BY <1>3, <2>1 DEF DoneWith, Ends
<1>11. graph' = h
  BY <1>2, <1>4
<1>12. Abstract!RemoveNode(id)
  BY <1>7, <1>8, <1>9, <1>10, <1>11, MapsRemoveNode
<1> QED
  BY <1>9, <1>12

LEMMA StepsImplement == EdgeInv /\ [Next]_vars => [Abstract!Next]_AbstractVars
<1> SUFFICES ASSUME EdgeInv, [Next]_vars PROVE [Abstract!Next]_AbstractVars
  OBVIOUS
<1>1. ASSUME UNCHANGED graph PROVE UNCHANGED AbstractVars
  BY <1>1, Stutters
<1>2. ASSUME NEW type \in NodeTypes, AddNode(type) PROVE [Abstract!Next]_AbstractVars
  BY <1>2, AddNodeImplements DEF Abstract!Next
<1>3. ASSUME NEW from \in Pins, NEW to \in Pins, AddEdge(from, to)
      PROVE  [Abstract!Next]_AbstractVars
  BY <1>3, AddEdgeImplements DEF Abstract!Next
<1>4. ASSUME NEW id, graph' = Disconnect(graph, id) PROVE [Abstract!Next]_AbstractVars
  <2>1. CASE HasEdge(graph, id)
    BY <1>4, <2>1, DisconnectImplements DEF Abstract!Next
  <2>2. CASE ~HasEdge(graph, id)
    BY <1>1, <1>4, <2>2 DEF Disconnect
  <2> QED
    BY <2>1, <2>2
<1>5. CASE FinishDestroy
  BY <1>5, FinishImplements DEF Abstract!Next
<1>6. CASE DestroyInput \/ DestroyOutput
  BY <1>4, <1>6 DEF DestroyInput, DestroyOutput
<1>7. CASE LeaveOutput
  BY <1>1, <1>7 DEF LeaveOutput
<1>8. CASE \E id \in EdgeIds : RemoveEdge(id)
  BY <1>4, <1>8 DEF RemoveEdge
<1>9. CASE \E id \in Indices(MaxNodes) : DestroyNode(id)
  BY <1>1, <1>9 DEF DestroyNode
<1>10. CASE UNCHANGED vars
  BY <1>1, <1>10 DEF vars
<1> QED
  BY <1>2, <1>3, <1>5, <1>6, <1>7, <1>8, <1>9, <1>10 DEF Next, DestroyStep

(* graph.c for every registry and number of nodes: through slots that move *)
(* and lists that are cut and mended, every call has the effect Multigraph *)
(* gives it, and hgraph_destroy_node, which takes the edges of its node    *)
(* one by one, has taken them all when the node goes.                      *)
THEOREM GraphImplementsMultigraph == Spec => ImplementsMultigraph
BY InitEdges, EdgesAreInductive, InitImplements, StepsImplement, PTL
DEF Spec, ImplementsMultigraph, Abstract!Spec, AbstractVars
=============================================================================
