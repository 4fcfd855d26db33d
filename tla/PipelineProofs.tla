--------------------------- MODULE PipelineProofs ---------------------------
(***************************************************************************)
(* hgraph_pipeline_init and hgraph_pipeline_execute for any registry, any  *)
(* graph that graph.c can make and any edits between executions: what an   *)
(* execution finds in the slots, in which order it runs the nodes, what    *)
(* they have received by then, and that it forgets none.                   *)
(***************************************************************************)
EXTENDS Pipeline, ScratchZone, GraphProofs

(* A meta as hgraph_pipeline_init and hgraph_pipeline_execute leave it. *)
Meta == [id : Indices(MaxNodes), type : NodeTypes, version : 0 .. MaxVersion, data : NodeTypes,
         state : {"waiting", "scheduled", "executed"}, received : SUBSET Int, sent : SUBSET Int]

Slots == 0 .. NumNodes - 1

PipelineTyped ==
    /\ pipeline = [version |-> pipeline.version, metas |-> Metas, ready |-> pipeline.ready]
    /\ Metas \in Seq(Meta) /\ pipeline.ready \in Seq(Slots)

RunTyped ==
    /\ run \in [pc : {"idle", "reset", "begin", "schedule", "pop", "execute"}, slot : Int,
                todo : Seq(Slots), reason : {"finished", "oom", "aborted"}]
    /\ run.pc = "idle" => run.todo = <<>> /\ run.reason = "finished"
    /\ run.pc = "reset" => run.slot \in 0 .. NumNodes
    /\ run.pc \in {"begin", "execute"} => run.slot \in Slots

ShapeInv == PipelineTyped /\ RunTyped

(* A meta was made for a node that had its id and version, and its data is *)
(* of that node's type.                                                    *)
Remembers(meta) ==
    /\ meta.data = meta.type
    /\ meta.version <= graph.node_versions[meta.id]
    /\ HasNode(graph, meta.id) /\ meta.version = graph.node_versions[meta.id] =>
           Node(graph, meta.id).type = meta.type

AllRemember(metas) == \A i \in 1 .. Len(metas) : Remembers(metas[i])

DataInv == AllRemember(Metas)

(* The metas are those of the graph's slots. *)
Matches ==
    /\ NumNodes = graph.node_slot_map.num_items
    /\ \A i \in 1 .. NumNodes :
          /\ Metas[i].id = IdForSlot(graph.node_slot_map, i - 1)
          /\ Metas[i].type = graph.nodes[i - 1].type
          /\ Metas[i].version = graph.node_versions[Metas[i].id]

MatchInv ==
    /\ pipeline.version \in Nat /\ pipeline.version <= graph.version
    /\ pipeline.version = graph.version => Matches
    /\ Running => pipeline.version = graph.version /\ destroying = Idle

-----------------------------------------------------------------------------
(* The two ends of an edge, as slots and pins. *)
Origin(e) == NodeSlot(graph, PinNode(Edge(graph, e).from))
FromPin(e) == PinIndex(Edge(graph, e).from)
ToPin(e) == PinIndex(Edge(graph, e).to)

(* The node that executes has left the stack and is scheduled still. *)
Stacked(metas, ready, r) ==
    /\ \A i, j \in 1 .. Len(ready) : ready[i] = ready[j] => i = j
    /\ \A i \in 1 .. Len(ready) : metas[ready[i] + 1].state = "scheduled"
    /\ r.pc = "execute" =>
          /\ metas[r.slot + 1].state = "scheduled"
          /\ \A i \in 1 .. Len(ready) : ready[i] # r.slot
    /\ \A m \in 1 .. Len(metas) : metas[m].state = "scheduled" =>
          \/ r.pc = "execute" /\ m = r.slot + 1
          \/ \E i \in 1 .. Len(ready) : ready[i] = m - 1

(* Along every edge, what was sent was received and nothing else was; a    *)
(* node sends while it executes; and one that left the first state had its *)
(* required inputs.                                                        *)
Flows(metas) ==
    \A e \in EdgeIds : HasEdge(graph, e) =>
        (ToPin(e) \in metas[Target(e) + 1].received <=> FromPin(e) \in metas[Origin(e) + 1].sent)

ReceivesByEdges(metas) ==
    \A m \in 1 .. Len(metas) : \A p \in metas[m].received :
        \E e \in EdgeIds : HasEdge(graph, e) /\ Target(e) = m - 1 /\ ToPin(e) = p

SendsInTurn(metas, r) ==
    \A m \in 1 .. Len(metas) : metas[m].sent # {} =>
        metas[m].state = "executed" \/ (r.pc = "execute" /\ m = r.slot + 1)

LeavesWhenReady(metas) ==
    \A m \in 1 .. Len(metas) : metas[m].state # "waiting" => IsReady(metas[m])

(* ProducersRunFirst, along the edges. *)
Ordered(metas) ==
    \A e \in EdgeIds : HasEdge(graph, e) =>
        (/\ metas[Target(e) + 1].state # "waiting"
         /\ ToPin(e) \in RequiredInputs[metas[Target(e) + 1].type]
         => metas[Origin(e) + 1].state = "executed")

(* A node that could be scheduled is still to be looked at. *)
LeadsTo(slot, target) ==
    \E e \in EdgeIds : HasEdge(graph, e) /\ Origin(e) = slot /\ Target(e) = target

Looked(metas, r) ==
    \A m \in 1 .. Len(metas) : IsReady(metas[m]) /\ metas[m].state = "waiting" =>
        /\ r.pc = "schedule" => \E k \in 1 .. Len(r.todo) : r.todo[k] = m - 1
        /\ r.pc = "execute" => LeadsTo(r.slot, m - 1)
        /\ r.pc # "pop"

Runs(metas, ready, r) ==
    /\ Stacked(metas, ready, r)
    /\ Flows(metas) /\ ReceivesByEdges(metas)
    /\ SendsInTurn(metas, r) /\ LeavesWhenReady(metas)
    /\ Ordered(metas)
    /\ Looked(metas, r)

(* Before: the nodes that have been reset, and the one that begins. *)
IsReset(meta) == meta.state = "waiting" /\ meta.received = {} /\ meta.sent = {}

ResetSoFar(metas, ready, r) ==
    /\ ready = <<>>
    /\ \A m \in 1 .. Len(metas) :
          m <= r.slot \/ (r.pc = "begin" /\ m = r.slot + 1) => IsReset(metas[m])

RunInv ==
    Running => IF Begun THEN Runs(Metas, pipeline.ready, run)
                        ELSE ResetSoFar(Metas, pipeline.ready, run)

PipelineInv == EdgeInv /\ ShapeInv /\ DataInv /\ MatchInv /\ RunInv

-----------------------------------------------------------------------------
(* The node of a slot and the slot of a node, when the metas match.        *)
LEMMA MetaNodes ==
    ASSUME IsGraph(graph), Matches, NEW i \in 1 .. NumNodes
    PROVE  /\ HasNode(graph, Metas[i].id) /\ NodeSlot(graph, Metas[i].id) = i - 1
           /\ Node(graph, Metas[i].id) = graph.nodes[i - 1]
           /\ Node(graph, Metas[i].id).type = Metas[i].type
<1>1. PICK map : map = graph.node_slot_map
  OBVIOUS
<1>2. /\ IsSlotMap(map, MaxNodes) /\ MaxNodes \in Nat
      /\ map.max_items = MaxNodes /\ map.num_items \in 0 .. MaxNodes
      /\ map.slots_for_id \in [Indices(MaxNodes) -> Indices(MaxNodes)]
      /\ map.ids_for_slot \in [Indices(MaxNodes) -> Indices(MaxNodes)]
  BY <1>1, MapFields, GraphAssumption DEF IsGraph, IsSlotMap
<1>3. i - 1 \in Indices(map.num_items) /\ i - 1 \in Indices(MaxNodes)
  BY <1>1, <1>2 DEF Matches, Indices
<1>4. PICK id : id = map.ids_for_slot[i - 1]
  OBVIOUS
<1>5. Metas[i].id = id
  BY <1>1, <1>3, <1>4 DEF Matches, IdForSlot
<1>6. id \in Indices(MaxNodes) /\ map.slots_for_id[id] = i - 1
  BY <1>2, <1>3, <1>4 DEF IsSlotMap, InversePermutations
<1>7. NodeSlot(graph, id) = i - 1
  BY <1>1, <1>2, <1>3, <1>6 DEF NodeSlot, SlotForId
<1>8. HasNode(graph, id)
  BY <1>1, <1>3, <1>7 DEF HasNode, NodeSlot, IsLive, IsValid, Indices
<1> QED
  BY <1>5, <1>7, <1>8 DEF Node, Matches

LEMMA NodeMetas ==
    ASSUME IsGraph(graph), Matches, NumNodes \in Nat, NEW n, HasNode(graph, n)
    PROVE  /\ NodeSlot(graph, n) \in Slots /\ NodeSlot(graph, n) + 1 \in 1 .. NumNodes
           /\ Metas[NodeSlot(graph, n) + 1].id = n
<1>1. PICK slot : slot = NodeSlot(graph, n)
  OBVIOUS
<1>2. PICK m : m = slot + 1
  OBVIOUS
<1>3. slot \in Slots /\ m \in 1 .. NumNodes /\ m - 1 = slot
  BY <1>1, <1>2, NodeInSlot DEF Matches, Slots, Indices
<1>4. PICK other : other = Metas[m].id
  OBVIOUS
<1>5. HasNode(graph, other) /\ NodeSlot(graph, other) = slot
  BY <1>3, <1>4, MetaNodes
<1>6. other = n
  BY <1>1, <1>5, OwnNodeSlot
<1> QED
  BY <1>1, <1>2, <1>3, <1>4, <1>6

(* An edge, told in slots. *)
JoinsSlots(e) ==
    /\ e \in EdgeIds
    /\ Origin(e) \in Slots /\ Target(e) \in Slots
    /\ Metas[Origin(e) + 1].id = PinNode(Edge(graph, e).from)
    /\ Metas[Target(e) + 1].id = PinNode(Edge(graph, e).to)
    /\ FromPin(e) \in 0 .. NumOutputs(Metas[Origin(e) + 1].type) - 1
    /\ ToPin(e) \in InputPins(Metas[Target(e) + 1].id)
    /\ Edge(graph, e).from = PinId(Metas[Origin(e) + 1].id, FromPin(e), TRUE)
    /\ Node(graph, Metas[Target(e) + 1].id).input[ToPin(e)] = e

LEMMA EdgesJoinSlots ==
    ASSUME IsLinked(graph), Matches, NumNodes \in Nat, NEW e, HasEdge(graph, e)
    PROVE  JoinsSlots(e)
<1>1. PICK from, to : from = Edge(graph, e).from /\ to = Edge(graph, e).to
  OBVIOUS
<1>2. /\ e \in EdgeIds /\ HasNode(graph, PinNode(from)) /\ HasNode(graph, PinNode(to))
      /\ PinIndex(from) \in Outputs(graph, PinNode(from))
      /\ PinIndex(to) \in Inputs(graph, PinNode(to))
      /\ from = PinId(PinNode(from), PinIndex(from), TRUE)
      /\ Node(graph, PinNode(to)).input[PinIndex(to)] = e
  <2>1. IsGraph(graph) /\ EdgesFit(graph)
    BY DEF IsLinked
  <2> QED
    BY <1>1, <2>1, EdgePins, ZenonT(60)
<1>3. PICK s, t : s = Origin(e) /\ t = Target(e)
  OBVIOUS
<1>4. s = NodeSlot(graph, PinNode(from)) /\ t = NodeSlot(graph, PinNode(to))
  BY <1>1, <1>3 DEF Origin, Target
<1>5. /\ s \in Slots /\ s + 1 \in 1 .. NumNodes /\ Metas[s + 1].id = PinNode(from)
      /\ t \in Slots /\ t + 1 \in 1 .. NumNodes /\ Metas[t + 1].id = PinNode(to)
  BY <1>2, <1>4, NodeMetas DEF IsLinked
<1>6. Metas[s + 1].type = Node(graph, PinNode(from)).type
  BY <1>5, MetaNodes DEF IsLinked
<1>7. FromPin(e) = PinIndex(from) /\ ToPin(e) = PinIndex(to)
  BY <1>1 DEF FromPin, ToPin
<1>8. PinIndex(from) \in 0 .. NumOutputs(Metas[s + 1].type) - 1
  BY <1>2, <1>6 DEF Outputs
<1>9. PinIndex(to) \in InputPins(PinNode(to))
  BY <1>2 DEF InputPins, Inputs
<1> QED
  BY <1>1, <1>2, <1>3, <1>5, <1>7, <1>8, <1>9 DEF JoinsSlots

(* An edge is known by its target. *)
LEMMA OneEdgePerInput ==
    ASSUME IsLinked(graph), Matches, NumNodes \in Nat, NEW e, HasEdge(graph, e),
           NEW f, HasEdge(graph, f), Target(e) = Target(f), ToPin(e) = ToPin(f)
    PROVE  e = f
<1>1. PICK t, p : t = Target(e) /\ p = ToPin(e)
  OBVIOUS
<1>2. Node(graph, Metas[t + 1].id).input[p] = e
  BY <1>1, EdgesJoinSlots DEF JoinsSlots
<1>3. Node(graph, Metas[t + 1].id).input[p] = f
  BY <1>1, EdgesJoinSlots DEF JoinsSlots
<1> QED
  BY <1>2, <1>3

(* What hgraph_pipeline_node_output follows is the list of its pin.        *)
LEMMA LinksAre ==
    ASSUME IsLinked(graph), Matches, NumNodes \in Nat, NEW slot \in Slots,
           NEW i \in 0 .. NumOutputs(Metas[slot + 1].type) - 1
    PROVE  /\ Links(slot, i) \in Seq(EdgeIds)
           /\ \A k \in 1 .. Len(Links(slot, i)) :
                 /\ HasEdge(graph, Links(slot, i)[k])
                 /\ Origin(Links(slot, i)[k]) = slot /\ FromPin(Links(slot, i)[k]) = i
           /\ \A e \in EdgeIds : HasEdge(graph, e) /\ Origin(e) = slot /\ FromPin(e) = i =>
                 \E k \in 1 .. Len(Links(slot, i)) : Links(slot, i)[k] = e
<1>0. PICK m : m = slot + 1
  OBVIOUS
<1>1. PICK n : n = Metas[m].id
  OBVIOUS
<1>2. m \in 1 .. NumNodes /\ m - 1 = slot
  BY <1>0 DEF Slots
<1>3. HasNode(graph, n) /\ NodeSlot(graph, n) = slot /\ Node(graph, n).type = Metas[m].type
  BY <1>1, <1>2, MetaNodes DEF IsLinked
<1>4. n \in Indices(MaxNodes) /\ i \in Outputs(graph, n)
  BY <1>0, <1>3, NodeInSlot DEF IsLinked, Outputs
<1>5. IdForSlot(graph.node_slot_map, slot) = n
  BY <1>1, <1>2 DEF Matches
<1>6. HasList(graph, n, i)
  BY <1>3, <1>4 DEF IsLinked, HaveLists
<1>7. PICK count \in 0 .. MaxEdges :
        \E list \in [0 .. count - 1 -> EdgeIds] : IsListOf(graph, n, i, count, list)
  BY <1>6 DEF HasList
<1>8. PICK list \in [0 .. count - 1 -> EdgeIds] : IsListOf(graph, n, i, count, list)
  BY <1>7
<1>9. MaxEdges \in Nat /\ count \in Nat
  BY MaxEdgesIsNat
<1>10. PICK walk : walk = Walk(n, i)
  OBVIOUS
<1>11. \A k \in 0 .. MaxEdges : walk[k] = IF k < count THEN list[k] ELSE Invalid
  BY <1>8, <1>9, <1>10, WalkIsList DEF IsLinked
<1>12. ~HasEdge(graph, Invalid)
  BY EdgeInSlot DEF IsLinked, EdgeIds, Indices, Invalid
<1>13. \A k \in 0 .. count - 1 : HasEdge(graph, list[k]) /\ Edge(graph, list[k]).from = PinId(n, i, TRUE)
  BY <1>8 DEF IsListOf
<1>14. /\ \A k \in 0 .. MaxEdges : k < count => HasEdge(graph, walk[k])
       /\ ~HasEdge(graph, walk[count])
  <2>1. ASSUME NEW k \in 0 .. MaxEdges, k < count PROVE HasEdge(graph, walk[k])
    <3>1. walk[k] = list[k] /\ k \in 0 .. count - 1
      BY <1>9, <1>11, <2>1
    <3> QED
      BY <1>13, <3>1
  <2>2. walk[count] = Invalid
    BY <1>9, <1>11
  <2> QED
    BY <1>12, <2>1, <2>2
<1>15. PICK size : size = CHOOSE k \in 0 .. MaxEdges :
                     ~HasEdge(graph, walk[k]) /\ \A j \in 0 .. k - 1 : HasEdge(graph, walk[j])
  OBVIOUS
<1>16. size = count
  <2>1. /\ count \in 0 .. MaxEdges /\ ~HasEdge(graph, walk[count])
        /\ \A j \in 0 .. count - 1 : HasEdge(graph, walk[j])
    <3>1. \A j \in 0 .. count - 1 : j \in 0 .. MaxEdges /\ j < count
      BY <1>9
    <3> QED
      BY <1>14, <3>1
  <2>2. /\ size \in 0 .. MaxEdges /\ ~HasEdge(graph, walk[size])
        /\ \A j \in 0 .. size - 1 : HasEdge(graph, walk[j])
    BY <1>15, <2>1, Zenon
  <2>3. ~(size < count)
    BY <1>14, <2>2
  <2>4. ~(count < size)
    <3> SUFFICES ASSUME count < size PROVE FALSE
      OBVIOUS
    <3>1. count \in 0 .. size - 1
      BY <1>9, <2>2
    <3> QED
      BY <2>1, <2>2, <3>1
  <2> QED
    BY <1>9, <2>2, <2>3, <2>4
<1>17. Links(slot, i) = [k \in 1 .. count |-> walk[k - 1]]
  BY <1>5, <1>10, <1>15, <1>16, Zenon DEF Links
<1>18. PICK links : links = [k \in 1 .. count |-> list[k - 1]]
  OBVIOUS
<1>19. Links(slot, i) = links
  BY <1>9, <1>11, <1>17, <1>18
<1>20. links \in Seq(EdgeIds) /\ Len(links) = count /\ \A k \in 1 .. count : links[k] = list[k - 1]
  BY <1>9, <1>18
<1>21. \A k \in 1 .. count : HasEdge(graph, links[k]) /\ Edge(graph, links[k]).from = PinId(n, i, TRUE)
  <2> SUFFICES ASSUME NEW k \in 1 .. count
               PROVE  HasEdge(graph, links[k]) /\ Edge(graph, links[k]).from = PinId(n, i, TRUE)
    OBVIOUS
  <2>1. PICK j : j = k - 1
    OBVIOUS
  <2>2. j \in 0 .. count - 1 /\ links[k] = list[j]
    BY <1>9, <1>20, <2>1
  <2> QED
    BY <1>13, <2>2
<1>22. n \in Nat /\ i \in 0 .. 16
  <2>1. n \in Nat
    BY <1>4, GraphAssumption DEF Indices
  <2>2. PICK type \in NodeTypes : type = Node(graph, n).type
    BY <1>3, NodeInSlot DEF IsLinked, IsNode
  <2>3. NumOutputs(type) \in 0 .. 16
    BY PinCounts DEF MaxPins
  <2>4. i \in 0 .. NumOutputs(type) - 1
    BY <1>4, <2>2 DEF Outputs
  <2> QED
    BY <2>1, <2>3, <2>4, SMTT(30)
<1>23. PinNode(PinId(n, i, TRUE)) = n /\ PinIndex(PinId(n, i, TRUE)) = i
  BY <1>22, PinDecodes
<1>24. \A k \in 1 .. count : Origin(links[k]) = slot /\ FromPin(links[k]) = i
  BY <1>3, <1>21, <1>23 DEF Origin, FromPin
<1>25. ASSUME NEW e \in EdgeIds, HasEdge(graph, e), Origin(e) = slot, FromPin(e) = i
       PROVE  \E k \in 1 .. count : links[k] = e
  <2>1. Edge(graph, e).from = PinId(n, i, TRUE)
    BY <1>0, <1>1, <1>25, EdgesJoinSlots DEF JoinsSlots
  <2>2. PICK k \in 0 .. count - 1 : list[k] = e
    BY <1>8, <1>25, <2>1 DEF IsListOf
  <2>3. PICK next : next = k + 1
    OBVIOUS
  <2>4. next \in 1 .. count /\ next - 1 = k
    BY <1>9, <2>3
  <2>5. links[next] = e
    BY <1>20, <2>2, <2>4
  <2> QED
    BY <2>4, <2>5
<1> QED
  BY <1>19, <1>20, <1>21, <1>24, <1>25
-----------------------------------------------------------------------------
(* A sequence made entry by entry. *)
LEMMA MadeSeq ==
    ASSUME NEW S, NEW n \in Nat, NEW f \in [1 .. n -> S]
    PROVE  f \in Seq(S) /\ Len(f) = n
OBVIOUS

(* FlattenSeq, which is defined by recursion: there is a function that     *)
(* does as it says, for the first of its prefixes without one would        *)
(* extend the one before it.                                               *)
Flattens(flat, ss, n) ==
    flat = [i \in 1 .. n |-> IF i = 1 THEN ss[i] ELSE flat[i - 1] \o ss[i]]

CanFlatten(ss, n) == \E flat : Flattens(flat, ss, n)

LEMMA FlattenSteps ==
    ASSUME NEW flat, NEW ss, NEW n, Flattens(flat, ss, n)
    PROVE  \A i \in 1 .. n : flat[i] = IF i = 1 THEN ss[i] ELSE flat[i - 1] \o ss[i]
BY Zenon DEF Flattens

LEMMA FlattenExists ==
    ASSUME NEW S, NEW n \in Nat, NEW ss \in [1 .. n -> Seq(S)]
    PROVE  \A m \in 0 .. n : CanFlatten(ss, m)
<1> SUFFICES ASSUME NEW bad \in 0 .. n, ~CanFlatten(ss, bad) PROVE FALSE
  OBVIOUS
<1> DEFINE fails == {m \in 0 .. n : ~CanFlatten(ss, m)}
<1>1. fails \subseteq Nat /\ fails # {}
  BY SMTT(60)
<1>2. PICK m \in fails : \A k \in fails : m <= k
  <2> HIDE DEF fails
  <2> QED
    BY <1>1, LeastOf
<1>3. m \in 0 .. n /\ ~CanFlatten(ss, m)
  OBVIOUS
<1>4. m # 0
  <2>1. PICK flat : flat = [i \in 1 .. 0 |-> ss[i]]
    OBVIOUS
  <2>2. 1 .. 0 = {}
    OBVIOUS
  <2>3. Flattens(flat, ss, 0)
    BY <2>1, <2>2 DEF Flattens
  <2> QED
    BY <1>3, <2>3 DEF CanFlatten
<1>5. PICK before : before = m - 1
  OBVIOUS
<1>6. before \in 0 .. n /\ m \in Nat /\ m = before + 1 /\ ~(m <= before)
  BY <1>3, <1>4, <1>5
<1>7. before \notin fails
  BY <1>2, <1>6
<1>8. PICK flat : Flattens(flat, ss, before)
  BY <1>6, <1>7 DEF CanFlatten
<1>9. PICK more : more = [i \in 1 .. m |-> IF i = 1 THEN ss[i]
                                           ELSE flat[i - 1] \o ss[i]]
  OBVIOUS
<1>10. \A i \in 1 .. before : more[i] = flat[i]
  <2> SUFFICES ASSUME NEW i \in 1 .. before PROVE more[i] = flat[i]
    OBVIOUS
  <2>1. flat[i] = IF i = 1 THEN ss[i] ELSE flat[i - 1] \o ss[i]
    BY <1>8, FlattenSteps
  <2>2. i \in 1 .. m
    BY <1>6
  <2> QED
    BY <1>9, <2>1, <2>2
<1>11. \A i \in 1 .. m : i # 1 => i - 1 \in 1 .. before
  BY <1>6
<1>12. \A i \in 1 .. m : (IF i = 1 THEN ss[i] ELSE flat[i - 1] \o ss[i])
                             = (IF i = 1 THEN ss[i] ELSE more[i - 1] \o ss[i])
  BY <1>10, <1>11
<1>13. Flattens(more, ss, m)
  BY <1>9, <1>12 DEF Flattens
<1> QED
  BY <1>3, <1>13 DEF CanFlatten

(* A sequence of all the entries. *)
HoldsAll(S, n, ss, flat) ==
    /\ flat \in Seq(S)
    /\ \A i \in 1 .. n : \A k \in 1 .. Len(ss[i]) :
          \E j \in 1 .. Len(flat) : flat[j] = ss[i][k]

LEMMA Flattened ==
    ASSUME NEW S, NEW n \in Nat, NEW ss \in [1 .. n -> Seq(S)]
    PROVE  HoldsAll(S, n, ss, FlattenSeq(ss))
<1>1. Len(ss) = n
  BY MadeSeq
<1>2. CASE n = 0
  <2>1. FlattenSeq(ss) = ss
    BY <1>1, <1>2 DEF FlattenSeq
  <2>2. ss \in Seq(S)
    BY <1>2
  <2> QED
    BY <1>2, <2>1, <2>2 DEF HoldsAll
<1>3. CASE n # 0
  <2>1. PICK flat : flat = CHOOSE f : Flattens(f, ss, n)
    OBVIOUS
  <2>2. Flattens(flat, ss, n)
    <3>1. CanFlatten(ss, n)
      BY FlattenExists, SMTT(30)
    <3> QED
      BY <2>1, <3>1 DEF CanFlatten
  <2>3. FlattenSeq(ss) = flat[n]
    BY <1>1, <1>3, <2>1 DEF FlattenSeq, Flattens
  <2>4. /\ flat[1] = ss[1]
        /\ \A i \in 1 .. n : i # 1 => flat[i] = flat[i - 1] \o ss[i]
    <3>1. \A i \in 1 .. n : flat[i] = IF i = 1 THEN ss[i] ELSE flat[i - 1] \o ss[i]
      BY <2>2, FlattenSteps, SMTT(60)
    <3>2. 1 \in 1 .. n
      BY <1>3
    <3> QED
      BY <3>1, <3>2
  <2> DEFINE Holds(m) ==
               /\ flat[m] \in Seq(S)
               /\ \A i \in 1 .. m : \A k \in 1 .. Len(ss[i]) :
                     \E j \in 1 .. Len(flat[m]) : flat[m][j] = ss[i][k]
             fails == {m \in 1 .. n : ~Holds(m)}
  <2>5. Holds(1)
    BY <1>3, <2>4
  <2>6. ASSUME NEW m \in 1 .. n, m # 1, Holds(m - 1) PROVE Holds(m)
    <3>1. PICK before : before = m - 1
      OBVIOUS
    <3>2. PICK s, t, u : s = flat[before] /\ t = ss[m] /\ u = flat[m]
      OBVIOUS
    <3>3. /\ u = s \o t /\ before \in 1 .. n /\ m = before + 1
          /\ s \in Seq(S) /\ t \in Seq(S)
      <4>1. before \in 1 .. n /\ m = before + 1
        BY <2>6, <3>1
      <4>2. u = s \o t
        BY <2>4, <2>6, <3>1, <3>2
      <4>3. s \in Seq(S) /\ t \in Seq(S)
        BY <2>6, <3>1, <3>2
      <4> QED
        BY <4>1, <4>2, <4>3
    <3>4. /\ u \in Seq(S) /\ Len(u) = Len(s) + Len(t) /\ Len(s) \in Nat /\ Len(t) \in Nat
          /\ \A j \in 1 .. Len(s) : u[j] = s[j]
          /\ \A j \in 1 .. Len(t) : u[Len(s) + j] = t[j]
      BY <3>3
    <3>5. ASSUME NEW i \in 1 .. m, NEW k \in 1 .. Len(ss[i])
          PROVE  \E j \in 1 .. Len(u) : u[j] = ss[i][k]
      <4>1. CASE i = m
        <5>1. PICK at : at = Len(s) + k
          OBVIOUS
        <5>2. at \in 1 .. Len(u) /\ u[at] = t[k]
          BY <3>2, <3>4, <4>1, <5>1
        <5> QED
          BY <3>2, <4>1, <5>2
      <4>2. CASE i # m
        <5>1. i \in 1 .. before
          BY <3>3, <4>2
        <5>2. PICK j \in 1 .. Len(s) : s[j] = ss[i][k]
          BY <2>6, <3>1, <3>2, <5>1
        <5>3. j \in 1 .. Len(u) /\ u[j] = s[j]
          BY <3>4
        <5> QED
          BY <5>2, <5>3
      <4> QED
        BY <4>1, <4>2
    <3> QED
      BY <3>2, <3>4, <3>5
  <2> HIDE DEF Holds
  <2>7. Holds(n)
    <3> SUFFICES ASSUME ~Holds(n) PROVE FALSE
      OBVIOUS
    <3>1. fails \subseteq Nat /\ n \in fails
      BY <1>3
    <3>2. PICK m \in fails : \A k \in fails : m <= k
      <4> HIDE DEF fails
      <4> QED
        BY <3>1, LeastOf
    <3>3. m \in 1 .. n /\ ~Holds(m) /\ m # 1
      BY <2>5, <3>2
    <3>4. PICK before : before = m - 1
      OBVIOUS
    <3>5. before \in 1 .. n /\ ~(m <= before)
      BY <3>3, <3>4
    <3>6. Holds(before)
      BY <3>2, <3>5
    <3> QED
      BY <2>6, <3>3, <3>4, <3>6
  <2> QED
    BY <2>3, <2>7 DEF Holds, HoldsAll
<1> QED
  BY <1>2, <1>3
-----------------------------------------------------------------------------
(* What the edits of a graph do to ids and versions.                       *)
LEMMA TypesStay ==
    ASSUME EdgeInv, [Next]_vars
    PROVE  \A n : HasNode(graph', n) =>
               \/ HasNode(graph, n) /\ Node(graph', n).type = Node(graph, n).type
               \/ ~HasNode(graph, n) /\ n \in Indices(MaxNodes)
<1>1. IsGraph(graph) /\ IsGraph(graph')
  BY EdgesAreInductive DEF EdgeInv, GraphInv
<1>2. [Abstract!Next]_AbstractVars
  BY StepsImplement
<1>3. /\ \A n : n \in DOMAIN NodesOf(graph) <=> HasNode(graph, n)
      /\ \A n : HasNode(graph, n) => NodesOf(graph)[n] = Node(graph, n).type
  BY <1>1, SeenNodes
<1>4. /\ \A n : n \in DOMAIN NodesOf(graph') <=> HasNode(graph', n)
      /\ \A n : HasNode(graph', n) => NodesOf(graph')[n] = Node(graph', n).type
  BY <1>1, SeenNodes
<1>5. ASSUME NEW n \in DOMAIN NodesOf(graph'), n \in DOMAIN NodesOf(graph)
      PROVE  NodesOf(graph')[n] = NodesOf(graph)[n]
  <2>1. CASE NodesOf(graph') = NodesOf(graph)
    BY <2>1
  <2>2. CASE \E id : NodesOf(graph') = Abstract!Restriction(NodesOf(graph), DOMAIN NodesOf(graph) \ {id})
    BY <1>5, <2>2 DEF Abstract!Restriction
  <2>3. CASE \E id, type : id \notin DOMAIN NodesOf(graph)
                           /\ NodesOf(graph') = Abstract!Extension(NodesOf(graph), id, type)
    BY <1>5, <2>3 DEF Abstract!Extension
  <2> QED
    BY <1>2, <2>1, <2>2, <2>3
    DEF Abstract!Next, Abstract!AddNode, Abstract!RemoveNode, Abstract!AddEdge,
        Abstract!RemoveEdge, AbstractVars, NodesOf, LiveNodes
<1>6. \A n : HasNode(graph', n) => n \in Indices(MaxNodes)
  BY <1>1, NodeInSlot
<1> QED
  BY <1>3, <1>4, <1>5, <1>6

LEMMA VersionsName ==
    ASSUME EdgeInv, [Next]_vars
    PROVE  \A n \in Indices(MaxNodes) :
               /\ graph.node_versions[n] <= graph'.node_versions[n]
               /\ HasNode(graph', n) /\ graph'.node_versions[n] = graph.node_versions[n] =>
                      HasNode(graph, n) /\ Node(graph', n).type = Node(graph, n).type
<1>1. GraphInv /\ IsGraph(graph) /\ IsGraph(graph')
  BY EdgesAreInductive DEF EdgeInv, GraphInv
<1>2. \A n \in Indices(MaxNodes) : graph.node_versions[n] \in Int
  BY <1>1 DEF GraphInv, VersionsInRange
<1>3. CASE graph' = graph
  BY <1>2, <1>3
<1>4. CASE graph' # graph
  <2>1. Next
    BY <1>4 DEF vars
  <2>2. FreshStep
    BY <1>1, <2>1, StepsAreFresh
  <2>3. \A n : n \in LiveNodes' <=> HasNode(graph', n)
    BY <1>1, SeenIds DEF LiveNodes
  <2>4. \A n : n \in LiveNodes <=> HasNode(graph, n)
    BY <1>1, SeenIds DEF LiveNodes
  <2>5. ASSUME NEW n \in Indices(MaxNodes)
        PROVE  /\ graph.node_versions[n] <= graph'.node_versions[n]
               /\ HasNode(graph', n) /\ ~HasNode(graph, n) =>
                      graph.node_versions[n] < graph'.node_versions[n]
    BY <2>2, <2>3, <2>4 DEF FreshStep
  <2>6. ASSUME NEW n \in Indices(MaxNodes), HasNode(graph', n),
               graph'.node_versions[n] = graph.node_versions[n]
        PROVE  HasNode(graph, n)
    <3>1. graph.node_versions[n] \in Int
      BY <1>2
    <3> QED
      BY <2>5, <2>6, <3>1
  <2> QED
    BY <2>5, <2>6, TypesStay
<1> QED
  BY <1>3, <1>4

(* Only edits of the edges leave the graph's version alone.                *)
SameNodeSlots(g, h) ==
    h.node_slot_map = g.node_slot_map /\ h.node_versions = g.node_versions

LEMMA VersionsTellNodes ==
    ASSUME EdgeInv, [Next]_vars
    PROVE  /\ graph.version \in Nat /\ graph'.version \in Nat
           /\ graph.version <= graph'.version
           /\ graph'.version = graph.version => SameNodeSlots(graph, graph')
<1>1. IsGraph(graph) /\ graph.version \in Nat
  BY DEF EdgeInv, GraphInv, VersionsInRange
<1>2. graph'.version \in Nat
  BY EdgesAreInductive DEF EdgeInv, GraphInv, VersionsInRange
<1> DEFINE Goal == /\ graph.version <= graph'.version
                   /\ graph'.version = graph.version => SameNodeSlots(graph, graph')
<1>3. ASSUME graph' = graph PROVE Goal
  BY <1>1, <1>3 DEF SameNodeSlots
<1>4. ASSUME NEW type \in NodeTypes, AddNode(type) PROVE Goal
  <2>1. CASE IsFull(graph.node_slot_map)
    BY <1>3, <1>4, <2>1 DEF AddNode, CreateNode
  <2>2. CASE ~IsFull(graph.node_slot_map)
    <3>1. graph'.version = graph.version + 1
      BY <1>1, <1>4, <2>2 DEF AddNode, CreateNode, IsGraph
    <3> QED
      BY <1>1, <3>1
  <2> QED
    BY <2>1, <2>2
<1>5. ASSUME NEW from \in Pins, NEW to \in Pins, AddEdge(from, to) PROVE Goal
  <2>1. graph'.version = graph.version /\ SameNodeSlots(graph, graph')
    BY <1>1, <1>5, ConnectKeepsGraph DEF AddEdge, SameNodeSlots
  <2> QED
    BY <1>1, <2>1
<1>6. ASSUME NEW id, graph' = Disconnect(graph, id) PROVE Goal
  <2>1. graph'.version = graph.version /\ SameNodeSlots(graph, graph')
    BY <1>1, <1>6, DisconnectKeepsGraph DEF SameNodeSlots
  <2> QED
    BY <1>1, <2>1
<1>7. CASE FinishDestroy
  <2>1. graph'.version = graph.version + 1
    BY <1>1, <1>7, FreeNodeKeepsGraph DEF FinishDestroy, EdgeInv, GraphInv
  <2> QED
    BY <1>1, <2>1
<1> QED
  BY <1>1, <1>2, <1>3, <1>4, <1>5, <1>6, <1>7
  DEF Next, vars, RemoveEdge, DestroyNode, DestroyStep, DestroyInput, DestroyOutput, LeaveOutput
-----------------------------------------------------------------------------
(* The fields of a meta.                                                   *)
LEMMA MetasTyped ==
    ASSUME ShapeInv
    PROVE  /\ NumNodes \in Nat /\ NumNodes = Len(Metas)
           /\ \A i \in 1 .. NumNodes :
                 /\ Metas[i] \in Meta
                 /\ Metas[i].id \in Indices(MaxNodes) /\ Metas[i].type \in NodeTypes
                 /\ Metas[i].version \in 0 .. MaxVersion /\ Metas[i].data \in NodeTypes
                 /\ Metas[i].state \in {"waiting", "scheduled", "executed"}
                 /\ Metas[i].received \in SUBSET Int /\ Metas[i].sent \in SUBSET Int
<1>1. PICK metas : metas = Metas
  OBVIOUS
<1>2. metas \in Seq(Meta) /\ NumNodes = Len(metas)
  BY <1>1 DEF ShapeInv, PipelineTyped, NumNodes
<1>3. NumNodes \in Nat /\ \A i \in 1 .. NumNodes : metas[i] \in Meta
  BY <1>2
<1> QED
  BY <1>1, <1>2, <1>3 DEF Meta

LEMMA SameMetas ==
    ASSUME pipeline' = pipeline
    PROVE  Metas' = Metas /\ NumNodes' = NumNodes
BY DEF Metas, NumNodes

(* The metas after an edit.                                                *)
LEMMA EditsKeepData ==
    ASSUME EdgeInv, [Next]_vars, ShapeInv, DataInv, pipeline' = pipeline
    PROVE  DataInv'
<1> SUFFICES ASSUME NEW i \in 1 .. NumNodes PROVE Remembers(Metas[i])'
  BY SameMetas DEF DataInv, AllRemember, NumNodes
<1>1. PICK meta : meta = Metas[i]
  OBVIOUS
<1>2. Remembers(meta) /\ meta.id \in Indices(MaxNodes) /\ meta.version \in Int
  BY <1>1, MetasTyped DEF DataInv, AllRemember, NumNodes
<1>3. PICK n : n = meta.id
  OBVIOUS
<1>4. /\ graph.node_versions[n] \in Int /\ graph'.node_versions[n] \in Int
  BY <1>2, <1>3, EdgesAreInductive DEF EdgeInv, GraphInv, VersionsInRange
<1>5. /\ graph.node_versions[n] <= graph'.node_versions[n]
      /\ HasNode(graph', n) /\ graph'.node_versions[n] = graph.node_versions[n] =>
             HasNode(graph, n) /\ Node(graph', n).type = Node(graph, n).type
  BY <1>2, <1>3, VersionsName
<1>6. /\ meta.version <= graph.node_versions[n]
      /\ HasNode(graph, n) /\ meta.version = graph.node_versions[n] => Node(graph, n).type = meta.type
  BY <1>2, <1>3 DEF Remembers
<1>7. /\ meta.version <= graph'.node_versions[n]
      /\ HasNode(graph', n) /\ meta.version = graph'.node_versions[n] => Node(graph', n).type = meta.type
  BY <1>2, <1>4, <1>5, <1>6
<1>8. Metas[i]' = meta
  BY <1>1, SameMetas
<1>9. Remembers(meta)'
  BY <1>2, <1>3, <1>7 DEF Remembers
<1> QED
  BY <1>8, <1>9 DEF Remembers

LEMMA EditsKeepMatch ==
    ASSUME EdgeInv, [Next]_vars, ShapeInv, MatchInv, pipeline' = pipeline, run.pc = "idle", run' = run
    PROVE  MatchInv'
<1>1. /\ graph.version \in Nat /\ graph'.version \in Nat
      /\ graph.version <= graph'.version
      /\ graph'.version = graph.version => SameNodeSlots(graph, graph')
  BY VersionsTellNodes
<1>2. pipeline.version \in Nat /\ pipeline.version <= graph.version
  BY DEF MatchInv
<1>3. ASSUME pipeline.version = graph'.version
      PROVE  Matches'
  <2>1. SameNodeSlots(graph, graph') /\ pipeline.version = graph.version
    BY <1>1, <1>2, <1>3
  <2>2. Matches /\ IsGraph(graph) /\ IsGraph(graph')
    BY <2>1, EdgesAreInductive DEF MatchInv, EdgeInv, GraphInv
  <2>3. \A n : /\ HasNode(graph', n) <=> HasNode(graph, n)
               /\ NodeSlot(graph', n) = NodeSlot(graph, n)
    BY <2>1 DEF SameNodeSlots, HasNode, NodeSlot
  <2>4. NumNodes' = graph'.node_slot_map.num_items
    BY <2>1, <2>2, SameMetas DEF Matches, SameNodeSlots
  <2>5. ASSUME NEW i \in 1 .. NumNodes
        PROVE  /\ Metas[i].id = IdForSlot(graph'.node_slot_map, i - 1)
               /\ Metas[i].type = graph'.nodes[i - 1].type
               /\ Metas[i].version = graph'.node_versions[Metas[i].id]
    <3>1. PICK n, slot : n = Metas[i].id /\ slot = i - 1
      OBVIOUS
    <3>2. HasNode(graph, n) /\ NodeSlot(graph, n) = slot /\ Node(graph, n).type = Metas[i].type
      BY <2>2, <3>1, MetaNodes
    <3>3. HasNode(graph', n) /\ Node(graph', n).type = Metas[i].type
      BY <2>3, <3>2, TypesStay
    <3>4. Node(graph', n) = graph'.nodes[slot]
      BY <2>3, <3>2 DEF Node
    <3>5. n = IdForSlot(graph.node_slot_map, slot) /\ Metas[i].version = graph.node_versions[n]
      BY <2>2, <3>1 DEF Matches
    <3> QED
      BY <2>1, <3>1, <3>3, <3>4, <3>5 DEF SameNodeSlots
  <2> QED
    BY <2>4, <2>5, SameMetas DEF Matches
<1> QED
  BY <1>1, <1>2, <1>3 DEF MatchInv, Running
-----------------------------------------------------------------------------
(* hgraph_pipeline_init: what transfer hands on is of the node's type, for *)
(* whoever had its id and version was the same node.                       *)
LEMMA FreshMetas ==
    ASSUME IsGraph(graph), VersionsInRange(graph),
           NEW previous \in Seq(Meta), AllRemember(previous),
           NEW slot \in Indices(graph.node_slot_map.num_items), NEW meta, meta = FreshMeta(slot, previous)
    PROVE  /\ meta \in Meta /\ Remembers(meta)
           /\ meta.id = IdForSlot(graph.node_slot_map, slot)
           /\ meta.type = graph.nodes[slot].type
           /\ meta.version = graph.node_versions[meta.id]
<1>1. PICK id, type : id = IdForSlot(graph.node_slot_map, slot) /\ type = graph.nodes[slot].type
  OBVIOUS
<1>2. id \in Indices(MaxNodes) /\ HasNode(graph, id) /\ Node(graph, id).type = type
  <2>1. PICK map : map = graph.node_slot_map
    OBVIOUS
  <2>2. /\ IsSlotMap(map, MaxNodes) /\ MaxNodes \in Nat
        /\ map.max_items = MaxNodes /\ map.num_items \in 0 .. MaxNodes
        /\ map.slots_for_id \in [Indices(MaxNodes) -> Indices(MaxNodes)]
        /\ map.ids_for_slot \in [Indices(MaxNodes) -> Indices(MaxNodes)]
    BY <2>1, MapFields, GraphAssumption DEF IsGraph, IsSlotMap
  <2>3. slot \in Indices(map.num_items) /\ slot \in Indices(MaxNodes)
    BY <2>1, <2>2 DEF Indices
  <2>4. id = map.ids_for_slot[slot]
    BY <1>1, <2>1, <2>3 DEF IdForSlot
  <2>5. id \in Indices(MaxNodes) /\ map.slots_for_id[id] = slot
    BY <2>2, <2>3, <2>4 DEF IsSlotMap, InversePermutations
  <2>6. NodeSlot(graph, id) = slot
    BY <2>1, <2>2, <2>3, <2>5 DEF NodeSlot, SlotForId
  <2>7. HasNode(graph, id)
    BY <2>1, <2>3, <2>6 DEF HasNode, NodeSlot, IsLive, IsValid, Indices
  <2> QED
    BY <1>1, <2>5, <2>6, <2>7 DEF Node
<1>3. type \in NodeTypes
  BY <1>1 DEF IsGraph, IsNode
<1>4. PICK version : version = graph.node_versions[id]
  OBVIOUS
<1>5. version \in 0 .. MaxVersion
  <2>1. PICK last : last = graph.version
    OBVIOUS
  <2>2. last \in 0 .. MaxVersion /\ graph.node_versions \in [Indices(MaxNodes) -> 0 .. last]
    BY <2>1 DEF VersionsInRange
  <2>3. version \in 0 .. last
    BY <1>2, <1>4, <2>2
  <2> QED
    BY <2>2, <2>3, MaxVersionAssumption
<1>6. PICK first : first = SelectInSeq(previous, LAMBDA m : SameNode(m, id))
  OBVIOUS
<1>7. first # 0 => first \in 1 .. Len(previous) /\ SameNode(previous[first], id)
  <2>1. PICK same : same = {i \in 1 .. Len(previous) : SameNode(previous[i], id)}
    OBVIOUS
  <2>2. first = IF same # {} THEN CHOOSE i \in same : \A j \in same : i <= j ELSE 0
    BY <1>6, <2>1 DEF SelectInSeq, Min
  <2>3. same \subseteq Nat
    BY <2>1
  <2>4. same # {} => \E i \in same : \A j \in same : i <= j
    BY <2>3, LeastOf
  <2>5. first # 0 => first \in same
    BY <2>2, <2>4
  <2> QED
    BY <2>1, <2>5
<1>8. first # 0 => previous[first].data = type
  <2> SUFFICES ASSUME first # 0 PROVE previous[first].data = type
    OBVIOUS
  <2>1. PICK old : old = previous[first]
    OBVIOUS
  <2>2. Remembers(old) /\ SameNode(old, id)
    BY <1>7, <2>1 DEF AllRemember
  <2> QED
    BY <1>2, <2>1, <2>2 DEF Remembers, SameNode
<1>9. meta = [id |-> id, type |-> type, version |-> version,
              data |-> IF first = 0 THEN type ELSE previous[first].data,
              state |-> "waiting", received |-> {}, sent |-> {}]
  BY <1>1, <1>4, <1>6 DEF FreshMeta
<1>10. meta = [id |-> id, type |-> type, version |-> version, data |-> type,
               state |-> "waiting", received |-> {}, sent |-> {}]
  BY <1>8, <1>9
<1>11. meta \in Meta /\ meta.id = id /\ meta.type = type /\ meta.version = version /\ meta.data = type
  BY <1>2, <1>3, <1>5, <1>10 DEF Meta
<1>12. Remembers(meta)
  BY <1>2, <1>4, <1>5, <1>11 DEF Remembers
<1> QED
  BY <1>1, <1>4, <1>11, <1>12

(* A pipeline of the graph as it is. *)
IsFresh(p) ==
    /\ p = [version |-> p.version, metas |-> p.metas, ready |-> p.ready]
    /\ p.version = graph.version /\ p.ready = <<>>
    /\ p.metas \in Seq(Meta) /\ Len(p.metas) = graph.node_slot_map.num_items
    /\ \A i \in 1 .. Len(p.metas) :
          /\ Remembers(p.metas[i])
          /\ p.metas[i].id = IdForSlot(graph.node_slot_map, i - 1)
          /\ p.metas[i].type = graph.nodes[i - 1].type
          /\ p.metas[i].version = graph.node_versions[p.metas[i].id]

LEMMA FreshFits ==
    ASSUME IsGraph(graph), VersionsInRange(graph),
           NEW previous \in Seq(Meta), AllRemember(previous),
           NEW p, p = FreshPipeline(previous)
    PROVE  IsFresh(p)
<1>1. PICK n : n = graph.node_slot_map.num_items
  OBVIOUS
<1>2. n \in Nat
  BY <1>1, MapFields, GraphAssumption DEF IsGraph, IsSlotMap
<1>3. PICK metas : metas = [i \in 1 .. n |-> FreshMeta(i - 1, previous)]
  OBVIOUS
<1>4. p = [version |-> graph.version, metas |-> metas, ready |-> <<>>]
  BY <1>1, <1>3 DEF FreshPipeline
<1>5. ASSUME NEW i \in 1 .. n
      PROVE  /\ metas[i] \in Meta /\ Remembers(metas[i])
             /\ metas[i].id = IdForSlot(graph.node_slot_map, i - 1)
             /\ metas[i].type = graph.nodes[i - 1].type
             /\ metas[i].version = graph.node_versions[metas[i].id]
  <2>1. PICK slot, meta : slot = i - 1 /\ meta = FreshMeta(slot, previous)
    OBVIOUS
  <2>2. slot \in Indices(graph.node_slot_map.num_items)
    BY <1>1, <1>2, <2>1 DEF Indices
  <2>3. metas[i] = meta
    BY <1>3, <2>1
  <2>4. /\ meta \in Meta /\ Remembers(meta)
        /\ meta.id = IdForSlot(graph.node_slot_map, slot)
        /\ meta.type = graph.nodes[slot].type
        /\ meta.version = graph.node_versions[meta.id]
    BY <2>1, <2>2, FreshMetas
  <2> QED
    BY <2>1, <2>3, <2>4
<1>6. metas \in [1 .. n -> Meta]
  BY <1>3, <1>5
<1>7. metas \in Seq(Meta) /\ Len(metas) = n
  BY <1>2, <1>6, MadeSeq
<1> QED
  BY <1>1, <1>4, <1>5, <1>7 DEF IsFresh

LEMMA PipelineBegins == PipelineInit => PipelineInv
<1> SUFFICES ASSUME PipelineInit PROVE PipelineInv
  OBVIOUS
<1>1. IsLinked(graph) /\ IsGraph(graph) /\ VersionsInRange(graph)
  BY GraphsAssumption DEF PipelineInit, IsLinked
<1>2. EdgeInv
  <2>1. destroying = [node |-> destroying.node, pin |-> destroying.pin]
    BY DEF PipelineInit, Idle
  <2> QED
    BY <1>1, <2>1 DEF PipelineInit, EdgeInv, GraphInv
<1>3. PICK p, none : none = <<>> /\ p = FreshPipeline(none)
  OBVIOUS
<1>4. none \in Seq(Meta) /\ Len(none) = 0
  BY <1>3
<1>5. AllRemember(none)
  BY <1>4 DEF AllRemember
<1>6. /\ p = [version |-> p.version, metas |-> p.metas, ready |-> p.ready]
      /\ p.version = graph.version /\ p.ready = <<>>
      /\ p.metas \in Seq(Meta) /\ Len(p.metas) = graph.node_slot_map.num_items
      /\ \A i \in 1 .. Len(p.metas) :
            /\ Remembers(p.metas[i])
            /\ p.metas[i].id = IdForSlot(graph.node_slot_map, i - 1)
            /\ p.metas[i].type = graph.nodes[i - 1].type
            /\ p.metas[i].version = graph.node_versions[p.metas[i].id]
  <2>1. IsFresh(p)
    BY <1>1, <1>3, <1>4, <1>5, FreshFits
  <2> QED
    BY <2>1 DEF IsFresh
<1>7. pipeline = p /\ run = NotRunning
  BY <1>3 DEF PipelineInit
<1>8. Metas = p.metas /\ NumNodes = Len(p.metas) /\ pipeline.ready = <<>>
  BY <1>6, <1>7 DEF Metas, NumNodes
<1>9. ShapeInv
  <2>1. run.pc = "idle" /\ run.todo = <<>> /\ run.reason = "finished" /\ run.slot \in Int
    BY <1>7 DEF NotRunning, Invalid
  <2>2. run = [pc |-> run.pc, slot |-> run.slot, todo |-> run.todo, reason |-> run.reason]
    BY <1>7 DEF NotRunning
  <2>3. <<>> \in Seq(Slots)
    OBVIOUS
  <2> QED
    BY <1>6, <1>7, <1>8, <2>1, <2>2, <2>3 DEF ShapeInv, PipelineTyped, RunTyped
<1>10. DataInv
  BY <1>6, <1>8 DEF DataInv, AllRemember
<1>11. Matches
  BY <1>6, <1>8 DEF Matches
<1>12. ~Running
  BY <1>7 DEF NotRunning, Running
<1>13. MatchInv
  <2>1. graph.version \in Nat
    BY <1>1, MaxVersionAssumption DEF VersionsInRange
  <2> QED
    BY <1>6, <1>7, <1>11, <1>12, <2>1 DEF MatchInv
<1> QED
  BY <1>2, <1>9, <1>10, <1>12, <1>13 DEF PipelineInv, RunInv

-----------------------------------------------------------------------------
LEMMA GraphStays ==
    ASSUME EdgeInv, graph' = graph, destroying' = destroying
    PROVE  EdgeInv'
BY EdgesAreInductive DEF vars

LEMMA NewPipelineKeeps ==
    ASSUME PipelineInv, InitPipeline
    PROVE  PipelineInv'
<1>1. PICK previous \in {<<>>, Metas} : pipeline' = FreshPipeline(previous)
  BY DEF InitPipeline
<1>2. /\ graph' = graph /\ destroying' = destroying /\ run' = run
      /\ run.pc = "idle" /\ EdgeInv /\ IsGraph(graph) /\ VersionsInRange(graph)
  BY DEF InitPipeline, PipelineInv, IsIdle, EdgeInv, GraphInv
<1>3. previous \in Seq(Meta)
  <2>1. CASE previous = <<>>
    BY <2>1
  <2>2. CASE previous = Metas
    BY <2>2 DEF PipelineInv, ShapeInv, PipelineTyped
  <2> QED
    BY <2>1, <2>2
<1>4. AllRemember(previous)
  <2>1. CASE previous = <<>>
    BY <2>1 DEF AllRemember
  <2>2. CASE previous = Metas
    BY <2>2 DEF PipelineInv, DataInv
  <2> QED
    BY <2>1, <2>2
<1>5. PICK p : p = FreshPipeline(previous)
  OBVIOUS
<1>6. IsFresh(p)
  BY <1>2, <1>3, <1>4, <1>5, FreshFits
<1>7. pipeline' = p /\ Metas' = p.metas /\ NumNodes' = Len(p.metas)
  BY <1>1, <1>5 DEF Metas, NumNodes
<1>8. /\ p = [version |-> p.version, metas |-> p.metas, ready |-> p.ready]
      /\ p.version = graph.version /\ p.ready = <<>>
      /\ p.metas \in Seq(Meta) /\ Len(p.metas) = graph.node_slot_map.num_items
      /\ \A i \in 1 .. Len(p.metas) :
            /\ Remembers(p.metas[i])
            /\ p.metas[i].id = IdForSlot(graph.node_slot_map, i - 1)
            /\ p.metas[i].type = graph.nodes[i - 1].type
            /\ p.metas[i].version = graph.node_versions[p.metas[i].id]
  BY <1>6 DEF IsFresh
<1>9. PipelineTyped'
  BY <1>7, <1>8 DEF PipelineTyped, Slots
<1>10. RunTyped'
  <2>1. /\ run = [pc |-> run.pc, slot |-> run.slot, todo |-> run.todo, reason |-> run.reason]
        /\ run.todo = <<>> /\ run.slot \in Int /\ run.reason = "finished"
    BY <1>2 DEF PipelineInv, ShapeInv, RunTyped
  <2>2. <<>> \in Seq(Slots')
    OBVIOUS
  <2> QED
    BY <1>2, <2>1, <2>2 DEF RunTyped
<1>11. DataInv'
  BY <1>2, <1>7, <1>8 DEF DataInv, AllRemember, Remembers
<1>12. Matches'
  BY <1>2, <1>7, <1>8 DEF Matches
<1>13. ~Running'
  BY <1>2 DEF Running
<1>14. MatchInv'
  <2>1. graph.version \in Nat
    BY <1>2, MaxVersionAssumption DEF VersionsInRange
  <2> QED
    BY <1>2, <1>7, <1>8, <1>12, <1>13, <2>1 DEF MatchInv
<1> QED
  BY <1>2, <1>9, <1>10, <1>11, <1>13, <1>14, GraphStays DEF PipelineInv, ShapeInv, RunInv

LEMMA EditKeeps ==
    ASSUME PipelineInv, Edit
    PROVE  PipelineInv'
<1>1. [Next]_vars /\ run.pc = "idle" /\ pipeline' = pipeline /\ run' = run
  BY DEF Edit, Next
<1>2. EdgeInv'
  BY <1>1, EdgesAreInductive DEF PipelineInv
<1>3. ShapeInv'
  BY <1>1, SameMetas DEF PipelineInv, ShapeInv, PipelineTyped, RunTyped, Slots
<1>4. DataInv' /\ MatchInv'
  BY <1>1, EditsKeepData, EditsKeepMatch DEF PipelineInv
<1>5. ~Running'
  BY <1>1 DEF Running
<1> QED
  BY <1>2, <1>3, <1>4, <1>5 DEF PipelineInv, RunInv
-----------------------------------------------------------------------------
(* The steps of an execution leave the graph alone and every meta with its *)
(* node.                                                                   *)
KeepsMetas(old, new) ==
    /\ new \in Seq(Meta) /\ Len(new) = Len(old)
    /\ \A i \in 1 .. Len(old) :
          /\ new[i].id = old[i].id /\ new[i].type = old[i].type
          /\ new[i].version = old[i].version /\ new[i].data = old[i].data

StaysInPlace ==
    /\ graph' = graph /\ destroying' = destroying
    /\ pipeline' = [version |-> pipeline.version, metas |-> Metas', ready |-> pipeline'.ready]
    /\ KeepsMetas(Metas, Metas') /\ pipeline'.ready \in Seq(Slots)

LEMMA StepsKeepMetas ==
    ASSUME PipelineInv, StaysInPlace
    PROVE  /\ NumNodes' = NumNodes /\ Slots' = Slots
           /\ EdgeInv' /\ PipelineTyped' /\ DataInv'
           /\ pipeline'.version \in Nat /\ pipeline'.version <= graph'.version
           /\ pipeline'.version = graph'.version => Matches'
<1>1. PICK old, new : old = Metas /\ new = Metas'
  OBVIOUS
<1>2. /\ graph' = graph /\ new \in Seq(Meta) /\ Len(new) = Len(old)
      /\ pipeline' = [version |-> pipeline.version, metas |-> new, ready |-> pipeline'.ready]
      /\ \A i \in 1 .. Len(old) :
            /\ new[i].id = old[i].id /\ new[i].type = old[i].type
            /\ new[i].version = old[i].version /\ new[i].data = old[i].data
  BY <1>1 DEF StaysInPlace, KeepsMetas
<1>3. NumNodes' = Len(new) /\ NumNodes = Len(old) /\ NumNodes' = NumNodes /\ Slots' = Slots
  BY <1>1, <1>2 DEF NumNodes, Slots, Metas
<1>4. EdgeInv'
  BY GraphStays DEF StaysInPlace, PipelineInv
<1>5. PipelineTyped'
  BY <1>1, <1>2, <1>3 DEF StaysInPlace, PipelineTyped
<1>6. DataInv'
  <2>1. \A i \in 1 .. Len(old) : Remembers(old[i])
    BY <1>1 DEF PipelineInv, DataInv, AllRemember
  <2>2. \A i \in 1 .. Len(new) : Remembers(new[i])
    BY <1>2, <2>1 DEF Remembers
  <2> QED
    BY <1>1, <1>2, <2>2 DEF DataInv, AllRemember, Remembers
<1>7. pipeline'.version = pipeline.version
  BY <1>2
<1>8. pipeline'.version \in Nat /\ pipeline'.version <= graph'.version
  BY <1>2, <1>7 DEF PipelineInv, MatchInv
<1>9. ASSUME pipeline'.version = graph'.version PROVE Matches'
  <2>1. Matches
    BY <1>2, <1>7, <1>9 DEF PipelineInv, MatchInv
  <2> QED
    BY <1>1, <1>2, <1>3, <2>1 DEF Matches
<1> QED
  BY <1>3, <1>4, <1>5, <1>6, <1>8, <1>9

LEMMA EndsKeep ==
    ASSUME PipelineInv, StaysInPlace, run' = NotRunning
    PROVE  PipelineInv'
<1>1. ~Running'
  BY DEF Running, NotRunning
<1>2. RunTyped'
  <2>1. /\ run' = [pc |-> "idle", slot |-> -1, todo |-> <<>>, reason |-> "finished"]
        /\ <<>> \in Seq(Slots')
    BY DEF NotRunning, Invalid
  <2> QED
    BY <2>1 DEF RunTyped
<1> QED
  BY <1>1, <1>2, StepsKeepMetas DEF PipelineInv, ShapeInv, MatchInv, RunInv

(* The frame of an execution that goes on. *)
IsFrame(r) ==
    /\ r = [pc |-> r.pc, slot |-> r.slot, todo |-> r.todo, reason |-> r.reason]
    /\ r.pc \in {"reset", "begin", "schedule", "pop", "execute"}
    /\ r.slot \in Int /\ r.todo \in Seq(Slots)
    /\ r.reason \in {"finished", "oom", "aborted"}
    /\ r.pc = "reset" => r.slot \in 0 .. NumNodes
    /\ r.pc \in {"begin", "execute"} => r.slot \in Slots

LEMMA RunsStay ==
    ASSUME graph' = graph, Begun', Runs(Metas', pipeline'.ready, run')
    PROVE  RunInv'
<1>1. PICK metas, ready, r : metas = Metas' /\ ready = pipeline'.ready /\ r = run'
  OBVIOUS
<1>2. Runs(metas, ready, r)
  BY <1>1
<1>3. Stacked(Metas, pipeline.ready, run)'
  BY <1>1, <1>2 DEF Runs, Stacked
<1>4. Flows(Metas)'
  BY <1>1, <1>2 DEF Runs, Flows, HasEdge, Edge, EdgeSlot, NodeSlot, ToPin, FromPin, Origin, Target
<1>5. ReceivesByEdges(Metas)'
  BY <1>1, <1>2 DEF Runs, ReceivesByEdges, HasEdge, Edge, EdgeSlot, NodeSlot, ToPin, Target
<1>6. SendsInTurn(Metas, run)'
  BY <1>1, <1>2 DEF Runs, SendsInTurn
<1>7. LeavesWhenReady(Metas)'
  BY <1>1, <1>2 DEF Runs, LeavesWhenReady, IsReady
<1>8. Ordered(Metas)'
  BY <1>1, <1>2 DEF Runs, Ordered, HasEdge, Edge, EdgeSlot, NodeSlot, ToPin, Origin, Target
<1>9. Looked(Metas, run)'
  BY <1>1, <1>2 DEF Runs, Looked, LeadsTo, IsReady, HasEdge, Edge, EdgeSlot, NodeSlot, Origin, Target
<1> QED
  BY <1>3, <1>4, <1>5, <1>6, <1>7, <1>8, <1>9 DEF RunInv, Runs

LEMMA ResetStays ==
    ASSUME ~Begun', ResetSoFar(Metas', pipeline'.ready, run')
    PROVE  RunInv'
<1>1. PICK metas, ready, r : metas = Metas' /\ ready = pipeline'.ready /\ r = run'
  OBVIOUS
<1>2. ResetSoFar(Metas, pipeline.ready, run)'
  BY <1>1 DEF ResetSoFar, IsReset
<1> QED
  BY <1>2 DEF RunInv

LEMMA RunKeeps ==
    ASSUME PipelineInv, StaysInPlace, IsFrame(run'),
           pipeline.version = graph.version, destroying = Idle, RunInv'
    PROVE  PipelineInv'
<1>1. graph' = graph /\ destroying' = destroying /\ pipeline'.version = pipeline.version
  BY DEF StaysInPlace
<1>2. RunInv'
  OBVIOUS
<1>3. NumNodes' = NumNodes /\ Slots' = Slots
  BY StepsKeepMetas
<1>4. PICK r : r = run'
  OBVIOUS
<1>5. RunTyped'
  BY <1>3, <1>4 DEF IsFrame, RunTyped
<1>6. MatchInv'
  BY <1>1, StepsKeepMetas DEF MatchInv
<1> QED
  BY <1>2, <1>5, <1>6, StepsKeepMetas DEF PipelineInv, ShapeInv

LEMMA GoesOnKeeps ==
    ASSUME PipelineInv, StaysInPlace, IsFrame(run'),
           pipeline.version = graph.version, destroying = Idle,
           run'.pc \in {"schedule", "pop", "execute"},
           Runs(Metas', pipeline'.ready, run')
    PROVE  PipelineInv'
BY RunsStay, RunKeeps DEF StaysInPlace, Begun

LEMMA ResetKeeps ==
    ASSUME PipelineInv, StaysInPlace, IsFrame(run'),
           pipeline.version = graph.version, destroying = Idle,
           run'.pc \in {"reset", "begin"},
           ResetSoFar(Metas', pipeline'.ready, run')
    PROVE  PipelineInv'
BY ResetStays, RunKeeps DEF Begun

-----------------------------------------------------------------------------
(* What an execution can rely on. *)
LEMMA RunningFacts ==
    ASSUME PipelineInv, Running
    PROVE  /\ pipeline.version = graph.version /\ destroying = Idle
           /\ IsLinked(graph) /\ Matches
           /\ NumNodes \in Nat /\ NumNodes = Len(Metas) /\ Metas \in Seq(Meta)
           /\ pipeline = [version |-> pipeline.version, metas |-> Metas, ready |-> pipeline.ready]
           /\ pipeline.ready \in Seq(Slots)
           /\ IsFrame(run)
           /\ Begun => Runs(Metas, pipeline.ready, run)
           /\ run.pc \in {"schedule", "pop", "execute"} => Runs(Metas, pipeline.ready, run)
           /\ run.pc \in {"reset", "begin"} => ResetSoFar(Metas, pipeline.ready, run)
<1>1. pipeline.version = graph.version /\ destroying = Idle /\ Matches
  BY DEF PipelineInv, MatchInv
<1>2. IsLinked(graph)
  BY <1>1 DEF PipelineInv, EdgeInv
<1>3. IsFrame(run)
  BY DEF PipelineInv, ShapeInv, RunTyped, IsFrame, Running
<1>4. /\ Begun => Runs(Metas, pipeline.ready, run)
      /\ run.pc \in {"schedule", "pop", "execute"} => Runs(Metas, pipeline.ready, run)
      /\ run.pc \in {"reset", "begin"} => ResetSoFar(Metas, pipeline.ready, run)
  BY DEF PipelineInv, RunInv, Begun
<1> QED
  BY <1>1, <1>2, <1>3, <1>4, MetasTyped DEF PipelineInv, ShapeInv, PipelineTyped

LEMMA EdgeEnds ==
    ASSUME PipelineInv, IsLinked(graph), Matches, NEW e, HasEdge(graph, e)
    PROVE  Origin(e) + 1 \in 1 .. Len(Metas) /\ Target(e) + 1 \in 1 .. Len(Metas)
<1>1. PICK s, t : s = Origin(e) /\ t = Target(e)
  OBVIOUS
<1>2. NumNodes \in Nat /\ NumNodes = Len(Metas)
  BY MetasTyped DEF PipelineInv
<1>3. s \in Slots /\ t \in Slots
  BY <1>1, <1>2, EdgesJoinSlots DEF JoinsSlots
<1> QED
  BY <1>1, <1>2, <1>3 DEF Slots

(* A step of an execution that changes nothing but its frame. *)
LEMMA SamePipelineStays ==
    ASSUME PipelineInv, graph' = graph, destroying' = destroying, pipeline' = pipeline
    PROVE  StaysInPlace
<1>1. Metas' = Metas
  BY SameMetas
<1>2. Metas \in Seq(Meta) /\ pipeline.ready \in Seq(Slots)
      /\ pipeline = [version |-> pipeline.version, metas |-> Metas, ready |-> pipeline.ready]
  BY DEF PipelineInv, ShapeInv, PipelineTyped
<1> QED
  BY <1>1, <1>2 DEF StaysInPlace, KeepsMetas

LEMMA SpoilKeeps == ASSUME PipelineInv, Spoil PROVE PipelineInv'
<1>1. /\ run.pc \in {"begin", "execute"} /\ Running
      /\ graph' = graph /\ destroying' = destroying /\ pipeline' = pipeline
  BY DEF Spoil, Running
<1>2. PICK reason \in {"oom", "aborted"} : run' = [run EXCEPT !.reason = reason]
  BY DEF Spoil
<1>3. PICK r, s : r = run /\ s = run'
  OBVIOUS
<1>4. IsFrame(r)
  BY <1>1, <1>3, RunningFacts
<1>5. s.pc = r.pc /\ s.slot = r.slot /\ s.todo = r.todo /\ IsFrame(s)
  BY <1>2, <1>3, <1>4 DEF IsFrame
<1>6. CASE r.pc = "execute"
  <2>1. Runs(Metas, pipeline.ready, r)
    BY <1>1, <1>3, <1>6, RunningFacts
  <2>2. Runs(Metas, pipeline.ready, s)
    BY <1>5, <2>1 DEF Runs, Stacked, SendsInTurn, Looked
  <2> QED
    BY <1>1, <1>3, <1>5, <1>6, <2>2, SamePipelineStays, SameMetas, RunningFacts, GoesOnKeeps
<1>7. CASE r.pc = "begin"
  <2>1. ResetSoFar(Metas, pipeline.ready, r)
    BY <1>1, <1>3, <1>7, RunningFacts
  <2>2. ResetSoFar(Metas, pipeline.ready, s)
    BY <1>5, <2>1 DEF ResetSoFar
  <2> QED
    BY <1>1, <1>3, <1>5, <1>7, <2>2, SamePipelineStays, SameMetas, RunningFacts, ResetKeeps
<1> QED
  BY <1>1, <1>3, <1>6, <1>7

LEMMA BegunNodeKeeps == ASSUME PipelineInv, BegunNode PROVE PipelineInv'
<1>1. /\ run.pc = "begin" /\ Running
      /\ graph' = graph /\ destroying' = destroying /\ pipeline' = pipeline
  BY DEF BegunNode, Running
<1>2. StaysInPlace
  BY <1>1, SamePipelineStays
<1>3. CASE run' = NotRunning
  BY <1>2, <1>3, EndsKeep
<1>4. CASE run' = [run EXCEPT !.pc = "reset", !.slot = @ + 1]
  <2>1. PICK r, s : r = run /\ s = run'
    OBVIOUS
  <2>2. IsFrame(r) /\ NumNodes \in Nat /\ r.slot \in Slots
    BY <1>1, <2>1, RunningFacts DEF IsFrame
  <2>3. s = [pc |-> "reset", slot |-> r.slot + 1, todo |-> r.todo, reason |-> r.reason]
    BY <1>4, <2>1, <2>2 DEF IsFrame
  <2>4. IsFrame(s) /\ s.pc = "reset" /\ s.slot = r.slot + 1
    BY <2>2, <2>3 DEF IsFrame, Slots
  <2>5. ResetSoFar(Metas, pipeline.ready, r)
    BY <1>1, <2>1, RunningFacts
  <2>6. ResetSoFar(Metas, pipeline.ready, s)
    BY <1>1, <2>1, <2>2, <2>4, <2>5, MetasTyped DEF ResetSoFar, Slots
  <2> QED
    BY <1>1, <1>2, <2>1, <2>4, <2>6, SameMetas, RunningFacts, ResetKeeps
<1> QED
  BY <1>3, <1>4 DEF BegunNode, Return

(* When all nodes are reset nothing has been sent. *)
LEMMA ResetRuns ==
    ASSUME NEW metas, NEW ready, ready = <<>>, NEW r, r.pc = "schedule",
           \A e \in EdgeIds : HasEdge(graph, e) =>
               Origin(e) + 1 \in 1 .. Len(metas) /\ Target(e) + 1 \in 1 .. Len(metas),
           \A m \in 1 .. Len(metas) : IsReset(metas[m]),
           Looked(metas, r)
    PROVE  Runs(metas, ready, r)
<1> USE DEF IsReset
<1>1. Stacked(metas, ready, r)
  BY DEF Stacked
<1>2. Flows(metas)
  BY DEF Flows
<1>3. ReceivesByEdges(metas)
  BY DEF ReceivesByEdges
<1>4. SendsInTurn(metas, r) /\ LeavesWhenReady(metas)
  BY DEF SendsInTurn, LeavesWhenReady
<1>5. Ordered(metas)
  BY DEF Ordered
<1> QED
  BY <1>1, <1>2, <1>3, <1>4, <1>5 DEF Runs

LEMMA BegunAllKeeps == ASSUME PipelineInv, BegunAll PROVE PipelineInv'
<1>1. /\ run.pc = "reset" /\ run.slot = NumNodes /\ Running
      /\ graph' = graph /\ destroying' = destroying /\ pipeline' = pipeline
  BY DEF BegunAll, Running
<1>2. PICK r, s : r = run /\ s = run'
  OBVIOUS
<1>3. IsFrame(r) /\ NumNodes \in Nat /\ NumNodes = Len(Metas)
  BY <1>1, <1>2, RunningFacts
<1>4. PICK todo : todo = [i \in 1 .. NumNodes |-> i - 1]
  OBVIOUS
<1>5. todo \in Seq(Slots) /\ Len(todo) = NumNodes
  BY <1>3, <1>4 DEF Slots
<1>6. s = [pc |-> "schedule", slot |-> -1, todo |-> todo, reason |-> r.reason]
  BY <1>2, <1>3, <1>4 DEF BegunAll, IsFrame, Invalid
<1>7. IsFrame(s)
  BY <1>3, <1>5, <1>6 DEF IsFrame
<1>8. pipeline.ready = <<>> /\ \A m \in 1 .. Len(Metas) : IsReset(Metas[m])
  <2>1. ResetSoFar(Metas, pipeline.ready, r) /\ r.slot = Len(Metas)
    BY <1>1, <1>2, <1>3, RunningFacts
  <2> QED
    BY <1>3, <2>1 DEF ResetSoFar
<1>9. \A m \in 1 .. Len(Metas) : \E k \in 1 .. Len(s.todo) : s.todo[k] = m - 1
  BY <1>3, <1>4, <1>5, <1>6
<1>10. Looked(Metas, s)
  BY <1>6, <1>9 DEF Looked
<1>11. \A e \in EdgeIds : HasEdge(graph, e) =>
          Origin(e) + 1 \in 1 .. Len(Metas) /\ Target(e) + 1 \in 1 .. Len(Metas)
  BY <1>1, RunningFacts, EdgeEnds
<1>12. s.pc = "schedule"
  BY <1>6
<1>13. Runs(Metas, pipeline.ready, s)
  BY <1>8, <1>10, <1>11, <1>12, ResetRuns
<1> QED
  BY <1>1, <1>2, <1>7, <1>12, <1>13, SamePipelineStays, SameMetas, RunningFacts, GoesOnKeeps

LEMMA EndNodeKeeps == ASSUME PipelineInv, EndNode PROVE PipelineInv'
<1>1. /\ run.pc = "schedule" /\ run.todo = <<>> /\ Running
      /\ graph' = graph /\ destroying' = destroying /\ pipeline' = pipeline
  BY DEF EndNode, Running
<1>2. StaysInPlace
  BY <1>1, SamePipelineStays
<1>3. CASE run' = NotRunning
  BY <1>2, <1>3, EndsKeep
<1>4. CASE run' = [run EXCEPT !.pc = "pop", !.slot = Invalid]
  <2>1. PICK r, s : r = run /\ s = run'
    OBVIOUS
  <2>2. IsFrame(r)
    BY <1>1, <2>1, RunningFacts
  <2>3. s.pc = "pop" /\ IsFrame(s)
    <3>1. s = [pc |-> "pop", slot |-> -1, todo |-> r.todo, reason |-> r.reason]
      BY <1>4, <2>1, <2>2 DEF IsFrame, Invalid
    <3> QED
      BY <2>2, <3>1 DEF IsFrame
  <2>4. Runs(Metas, pipeline.ready, r)
    BY <1>1, <2>1, RunningFacts
  <2>5. \A m \in 1 .. Len(Metas) : ~(IsReady(Metas[m]) /\ Metas[m].state = "waiting")
    BY <1>1, <2>1, <2>4 DEF Runs, Looked
  <2>6. Looked(Metas, s)
    BY <2>5 DEF Looked
  <2>7. Runs(Metas, pipeline.ready, s)
    BY <1>1, <2>1, <2>3, <2>4, <2>6 DEF Runs, Stacked, SendsInTurn
  <2> QED
    BY <1>1, <1>2, <2>1, <2>3, <2>7, SameMetas, RunningFacts, GoesOnKeeps
<1> QED
  BY <1>3, <1>4 DEF EndNode, Watched, Return

LEMMA FinishKeeps == ASSUME PipelineInv, Finish PROVE PipelineInv'
<1>1. StaysInPlace
  BY SamePipelineStays DEF Finish
<1> QED
  BY <1>1, EndsKeep DEF Finish, Return
-----------------------------------------------------------------------------
(* hgraph_pipeline_execute resets its nodes, one after the other. *)
LEMMA ExecuteKeeps == ASSUME PipelineInv, Execute PROVE PipelineInv'
<1>1. /\ run.pc = "idle" /\ destroying = Idle
      /\ graph' = graph /\ destroying' = destroying
  BY DEF Execute, IsIdle
<1>2. CASE run' = NotRunning /\ pipeline' = pipeline
  BY <1>1, <1>2, SamePipelineStays, EndsKeep
<1>3. CASE /\ graph.version = pipeline.version
           /\ run' = [run EXCEPT !.pc = "reset", !.slot = 0]
           /\ pipeline' = [pipeline EXCEPT !.ready = <<>>]
  <2>1. PICK old : old = Metas
    OBVIOUS
  <2>2. NumNodes \in Nat /\ NumNodes = Len(old) /\ old \in Seq(Meta)
    BY <2>1, MetasTyped DEF PipelineInv, ShapeInv, PipelineTyped
  <2>3. pipeline = [version |-> pipeline.version, metas |-> old, ready |-> pipeline.ready]
    BY <2>1 DEF PipelineInv, ShapeInv, PipelineTyped
  <2>4. pipeline' = [version |-> pipeline.version, metas |-> old, ready |-> <<>>]
    BY <1>3, <2>3
  <2>5. Metas' = old /\ pipeline'.ready = <<>>
    BY <2>4 DEF Metas
  <2>6. StaysInPlace
    BY <1>1, <2>1, <2>2, <2>4, <2>5 DEF StaysInPlace, KeepsMetas
  <2>7. PICK r, s : r = run /\ s = run'
    OBVIOUS
  <2>8. IsFrame(s) /\ s.pc = "reset" /\ s.slot = 0
    <3>1. /\ r = [pc |-> r.pc, slot |-> r.slot, todo |-> r.todo, reason |-> r.reason]
          /\ r.todo \in Seq(Slots) /\ r.reason = "finished"
      BY <1>1, <2>7 DEF PipelineInv, ShapeInv, RunTyped
    <3>2. s = [pc |-> "reset", slot |-> 0, todo |-> r.todo, reason |-> r.reason]
      BY <1>3, <2>7, <3>1
    <3> QED
      BY <2>2, <3>1, <3>2 DEF IsFrame
  <2>9. ResetSoFar(old, <<>>, s)
    BY <2>8 DEF ResetSoFar
  <2> QED
    BY <1>1, <1>3, <2>5, <2>6, <2>7, <2>8, <2>9, ResetKeeps
<1> QED
  BY <1>2, <1>3 DEF Execute, Return

LEMMA ResetNodeKeeps == ASSUME PipelineInv, ResetNode PROVE PipelineInv'
<1>1. /\ run.pc = "reset" /\ Running /\ run.slot < NumNodes
      /\ graph' = graph /\ destroying' = destroying
      /\ run' = [run EXCEPT !.pc = "begin"]
  BY DEF ResetNode, Running
<1>2. PICK metas, ready, r, s : metas = Metas /\ ready = pipeline.ready /\ r = run /\ s = run'
  OBVIOUS
<1>3. /\ IsFrame(r) /\ ResetSoFar(metas, ready, r) /\ metas \in Seq(Meta) /\ ready \in Seq(Slots)
      /\ NumNodes \in Nat /\ NumNodes = Len(metas)
      /\ pipeline = [version |-> pipeline.version, metas |-> metas, ready |-> ready]
  BY <1>1, <1>2, RunningFacts
<1>4. r.slot \in Slots /\ r.slot + 1 \in 1 .. Len(metas)
  BY <1>1, <1>2, <1>3 DEF IsFrame, Slots
<1>5. s = [pc |-> "begin", slot |-> r.slot, todo |-> r.todo, reason |-> r.reason]
  BY <1>1, <1>2, <1>3 DEF IsFrame
<1>6. IsFrame(s) /\ s.pc = "begin" /\ s.slot = r.slot
  BY <1>3, <1>4, <1>5 DEF IsFrame
<1>7. PICK m : m = r.slot + 1
  OBVIOUS
<1>8. PICK meta : meta = [metas[m] EXCEPT !.state = "waiting", !.received = {}, !.sent = {}]
  OBVIOUS
<1>9. /\ meta \in Meta /\ IsReset(meta)
      /\ meta.id = metas[m].id /\ meta.type = metas[m].type
      /\ meta.version = metas[m].version /\ meta.data = metas[m].data
  <2>1. PICK old \in Meta : old = metas[m]
    BY <1>3, <1>4, <1>7
  <2>2. meta = [old EXCEPT !.state = "waiting", !.received = {}, !.sent = {}]
    BY <1>8, <2>1
  <2> QED
    BY <2>1, <2>2 DEF Meta, IsReset
<1>10. PICK new : new = [metas EXCEPT ![m] = meta]
  OBVIOUS
<1>11. new \in Seq(Meta) /\ Len(new) = Len(metas)
  BY <1>3, <1>4, <1>7, <1>9, <1>10
<1>12. new[m] = meta /\ \A i \in 1 .. Len(metas) : i # m => new[i] = metas[i]
  BY <1>3, <1>4, <1>7, <1>10
<1>13. KeepsMetas(metas, new)
  BY <1>9, <1>11, <1>12 DEF KeepsMetas
<1>14. pipeline' = [version |-> pipeline.version, metas |-> new, ready |-> ready]
  <2>1. pipeline' = [pipeline EXCEPT !.metas[m] =
                        [@ EXCEPT !.state = "waiting", !.received = {}, !.sent = {}]]
    BY <1>2, <1>7 DEF ResetNode
  <2>2. PICK p : p = pipeline
    OBVIOUS
  <2>3. p.ready = ready /\ p.metas = metas
    BY <1>3, <2>2
  <2>4. pipeline' = [p EXCEPT !.metas = new]
    BY <1>8, <1>10, <2>1, <2>2, <2>3
  <2> QED
    BY <1>3, <2>2, <2>4
<1>15. Metas' = new /\ pipeline'.ready = ready
  BY <1>14 DEF Metas
<1>16. StaysInPlace
  BY <1>1, <1>2, <1>3, <1>13, <1>14, <1>15 DEF StaysInPlace
<1>17. ResetSoFar(new, ready, s)
  BY <1>3, <1>4, <1>6, <1>7, <1>9, <1>11, <1>12 DEF ResetSoFar
<1> QED
  BY <1>1, <1>2, <1>6, <1>15, <1>16, <1>17, RunningFacts, ResetKeeps

-----------------------------------------------------------------------------
(* The next node leaves the stack. *)
LEMMA BeginNodeKeeps == ASSUME PipelineInv, BeginNode PROVE PipelineInv'
<1>1. /\ run.pc = "pop" /\ pipeline.ready # <<>> /\ Running
      /\ graph' = graph /\ destroying' = destroying
      /\ pipeline' = [pipeline EXCEPT !.ready = Front(@)]
  BY DEF BeginNode, Running
<1>2. PICK metas, ready, r, s : metas = Metas /\ ready = pipeline.ready /\ r = run /\ s = run'
  OBVIOUS
<1>3. /\ IsFrame(r) /\ Runs(metas, ready, r) /\ metas \in Seq(Meta) /\ ready \in Seq(Slots)
      /\ NumNodes \in Nat /\ NumNodes = Len(metas)
      /\ pipeline = [version |-> pipeline.version, metas |-> metas, ready |-> ready]
  BY <1>1, <1>2, RunningFacts
<1>4. PICK rest, n, last : rest = Front(ready) /\ n = Len(ready) /\ last = Last(ready)
  OBVIOUS
<1>5. /\ n \in Nat /\ n # 0 /\ n - 1 \in Nat /\ last = ready[n] /\ last \in Slots
      /\ rest = [i \in 1 .. n - 1 |-> ready[i]]
  <2>1. n \in Nat /\ n # 0
    BY <1>1, <1>2, <1>3, <1>4
  <2> QED
    BY <1>3, <1>4, <2>1 DEF Front, Last
<1>6. rest \in Seq(Slots) /\ Len(rest) = n - 1 /\ \A i \in 1 .. n - 1 : rest[i] = ready[i] /\ i \in 1 .. n /\ i # n
  BY <1>3, <1>4, <1>5
<1>7. pipeline' = [version |-> pipeline.version, metas |-> metas, ready |-> rest]
  BY <1>1, <1>2, <1>3, <1>4
<1>8. Metas' = metas /\ pipeline'.ready = rest
  BY <1>7 DEF Metas
<1>9. StaysInPlace
  BY <1>1, <1>2, <1>3, <1>6, <1>7, <1>8 DEF StaysInPlace, KeepsMetas
<1>10. CASE run' = NotRunning
  BY <1>9, <1>10, EndsKeep
<1>11. CASE run' = [run EXCEPT !.pc = "execute", !.slot = Last(pipeline.ready)]
  <2>1. s = [pc |-> "execute", slot |-> last, todo |-> r.todo, reason |-> r.reason]
    BY <1>2, <1>3, <1>4, <1>11 DEF IsFrame
  <2>2. IsFrame(s) /\ s.pc = "execute" /\ s.slot = last
    BY <1>3, <1>5, <2>1 DEF IsFrame, Slots
  <2>3. Stacked(metas, rest, s)
    <3>1. /\ \A i, j \in 1 .. n : ready[i] = ready[j] => i = j
          /\ \A i \in 1 .. n : metas[ready[i] + 1].state = "scheduled"
          /\ \A m \in 1 .. Len(metas) : metas[m].state = "scheduled" =>
                \E i \in 1 .. n : ready[i] = m - 1
      BY <1>1, <1>2, <1>3, <1>4 DEF Runs, Stacked
    <3>2. n \in 1 .. n
      BY <1>5
    <3>3. \A i, j \in 1 .. Len(rest) : rest[i] = rest[j] => i = j
      BY <1>6, <3>1
    <3>4. \A i \in 1 .. Len(rest) : metas[rest[i] + 1].state = "scheduled"
      BY <1>6, <3>1
    <3>5. metas[last + 1].state = "scheduled" /\ \A i \in 1 .. Len(rest) : rest[i] # last
      BY <1>5, <1>6, <3>1, <3>2
    <3>6. ASSUME NEW m \in 1 .. Len(metas), metas[m].state = "scheduled"
          PROVE  m = last + 1 \/ \E i \in 1 .. Len(rest) : rest[i] = m - 1
      <4>1. PICK i \in 1 .. n : ready[i] = m - 1
        BY <3>1, <3>6
      <4>2. CASE i = n
        BY <1>3, <1>5, <4>1, <4>2
      <4>3. CASE i # n
        <5>1. i \in 1 .. n - 1
          BY <1>5, <4>3
        <5> QED
          BY <1>6, <4>1, <5>1
      <4> QED
        BY <4>2, <4>3
    <3> QED
      BY <2>2, <3>3, <3>4, <3>5, <3>6 DEF Stacked
  <2>4. SendsInTurn(metas, s) /\ Looked(metas, s)
    <3>1. SendsInTurn(metas, r) /\ Looked(metas, r) /\ r.pc = "pop"
      BY <1>1, <1>2, <1>3 DEF Runs
    <3> QED
      BY <3>1 DEF SendsInTurn, Looked
  <2>5. Runs(metas, rest, s)
    BY <1>3, <2>3, <2>4 DEF Runs
  <2> QED
    BY <1>1, <1>2, <1>8, <1>9, <2>2, <2>5, RunningFacts, GoesOnKeeps
<1> QED
  BY <1>10, <1>11 DEF BeginNode, Watched, Return
-----------------------------------------------------------------------------
(* A step that gives one node another state. *)
StateIs(old, new, m, state) ==
    /\ new \in Seq(Meta) /\ Len(new) = Len(old)
    /\ \A i \in 1 .. Len(old) :
          /\ new[i].id = old[i].id /\ new[i].type = old[i].type
          /\ new[i].version = old[i].version /\ new[i].data = old[i].data
          /\ new[i].received = old[i].received /\ new[i].sent = old[i].sent
          /\ new[i].state = IF i = m THEN state ELSE old[i].state

LEMMA SetsState ==
    ASSUME NEW old \in Seq(Meta), NEW m \in 1 .. Len(old),
           NEW state \in {"waiting", "scheduled", "executed"}
    PROVE  StateIs(old, [old EXCEPT ![m].state = state], m, state)
<1>1. PICK meta \in Meta : meta = old[m]
  OBVIOUS
<1>2. PICK changed : changed = [meta EXCEPT !.state = state]
  OBVIOUS
<1>3. /\ changed \in Meta
      /\ changed.id = meta.id /\ changed.type = meta.type
      /\ changed.version = meta.version /\ changed.data = meta.data
      /\ changed.received = meta.received /\ changed.sent = meta.sent /\ changed.state = state
  BY <1>1, <1>2 DEF Meta
<1>4. PICK new : new = [old EXCEPT ![m] = changed]
  OBVIOUS
<1>5. [old EXCEPT ![m].state = state] = new
  BY <1>1, <1>2, <1>4
<1>6. /\ new \in Seq(Meta) /\ Len(new) = Len(old)
      /\ \A i \in 1 .. Len(old) : new[i] = IF i = m THEN changed ELSE old[i]
  BY <1>3, <1>4
<1> QED
  BY <1>1, <1>3, <1>5, <1>6 DEF StateIs

LEMMA StateKeepsMetas ==
    ASSUME NEW old, NEW new, NEW m, NEW state, StateIs(old, new, m, state)
    PROVE  KeepsMetas(old, new)
BY DEF StateIs, KeepsMetas

(* The order of the nodes: a node that has what it requires got it from    *)
(* nodes that have sent it, and while none executes, these have returned.  *)
LEMMA ReadyAfterProducers ==
    ASSUME NEW metas, NEW ready, NEW r, Runs(metas, ready, r), r.pc # "execute",
           NEW e \in EdgeIds, HasEdge(graph, e),
           Origin(e) + 1 \in 1 .. Len(metas),
           ToPin(e) \in RequiredInputs[metas[Target(e) + 1].type],
           IsReady(metas[Target(e) + 1])
    PROVE  metas[Origin(e) + 1].state = "executed"
<1>1. ToPin(e) \in metas[Target(e) + 1].received
  BY DEF IsReady
<1>2. FromPin(e) \in metas[Origin(e) + 1].sent
  BY <1>1 DEF Runs, Flows
<1> QED
  BY <1>2 DEF Runs, SendsInTurn

LEMMA ScheduledRuns ==
    ASSUME NEW old, NEW ready \in Seq(Slots), NEW r, Runs(old, ready, r),
           r.pc = "schedule", NEW m \in 1 .. Len(old), Len(old) = NumNodes, NumNodes \in Nat,
           r.todo \in Seq(Slots), r.todo # <<>>, Head(r.todo) = m - 1,
           IsReady(old[m]), old[m].state = "waiting",
           NEW new, StateIs(old, new, m, "scheduled"),
           NEW s, s.pc = "schedule", s.todo = Tail(r.todo),
           \A e \in EdgeIds : HasEdge(graph, e) =>
               Origin(e) + 1 \in 1 .. Len(old) /\ Target(e) + 1 \in 1 .. Len(old)
    PROVE  Runs(new, Append(ready, m - 1), s)
<1>1. /\ Len(new) = Len(old)
      /\ \A i \in 1 .. Len(old) :
            /\ new[i].type = old[i].type
            /\ new[i].received = old[i].received /\ new[i].sent = old[i].sent
            /\ new[i].state = IF i = m THEN "scheduled" ELSE old[i].state
  BY DEF StateIs
<1>2. Stacked(new, Append(ready, m - 1), s)
  <2>1. PICK more, n : more = Append(ready, m - 1) /\ n = Len(ready)
    OBVIOUS
  <2>2. m - 1 \in Slots
    BY DEF Slots
  <2>3. /\ n \in Nat /\ Len(more) = n + 1 /\ more[n + 1] = m - 1
        /\ \A i \in 1 .. n : more[i] = ready[i] /\ ready[i] \in Slots
    BY <2>1, <2>2
  <2>4. /\ \A i, j \in 1 .. n : ready[i] = ready[j] => i = j
        /\ \A i \in 1 .. n : old[ready[i] + 1].state = "scheduled"
        /\ \A k \in 1 .. Len(old) : old[k].state = "scheduled" =>
              \E i \in 1 .. n : ready[i] = k - 1
    BY <2>1 DEF Runs, Stacked
  <2>5. \A i \in 1 .. n : ready[i] + 1 \in 1 .. Len(old) /\ ready[i] # m - 1 /\ ready[i] + 1 # m
    <3> SUFFICES ASSUME NEW i \in 1 .. n
                 PROVE  ready[i] + 1 \in 1 .. Len(old) /\ ready[i] # m - 1 /\ ready[i] + 1 # m
      OBVIOUS
    <3>1. PICK slot, k : slot = ready[i] /\ k = slot + 1
      OBVIOUS
    <3>2. old[k].state = "scheduled" /\ k # m
      BY <2>4, <3>1
    <3>3. slot \in 0 .. NumNodes - 1
      BY <2>3, <3>1 DEF Slots
    <3>4. k \in 1 .. Len(old) /\ slot # m - 1
      BY <3>1, <3>2, <3>3, SMTT(60)
    <3> QED
      BY <3>1, <3>2, <3>4
  <2>6. \A i, j \in 1 .. Len(more) : more[i] = more[j] => i = j
    BY <2>3, <2>4, <2>5
  <2>7. \A i \in 1 .. Len(more) : new[more[i] + 1].state = "scheduled"
    <3> SUFFICES ASSUME NEW i \in 1 .. Len(more) PROVE new[more[i] + 1].state = "scheduled"
      OBVIOUS
    <3>1. CASE i = n + 1
      <4>1. more[i] + 1 = m
        BY <2>3, <3>1
      <4> QED
        BY <1>1, <4>1
    <3>2. CASE i # n + 1
      <4>1. i \in 1 .. n
        BY <2>3, <3>2
      <4>2. PICK k : k = ready[i] + 1
        OBVIOUS
      <4>3. k \in 1 .. Len(old) /\ k # m /\ old[k].state = "scheduled"
        BY <2>4, <2>5, <4>1, <4>2
      <4> QED
        BY <1>1, <2>3, <4>1, <4>2, <4>3
    <3> QED
      BY <3>1, <3>2
  <2>8. \A k \in 1 .. Len(new) : new[k].state = "scheduled" =>
            \E i \in 1 .. Len(more) : more[i] = k - 1
    <3> SUFFICES ASSUME NEW k \in 1 .. Len(new), new[k].state = "scheduled"
                 PROVE  \E i \in 1 .. Len(more) : more[i] = k - 1
      OBVIOUS
    <3>1. CASE k = m
      BY <2>3, <3>1
    <3>2. CASE k # m
      <4>1. PICK i \in 1 .. n : ready[i] = k - 1
        BY <1>1, <2>4, <3>2
      <4>2. i \in 1 .. Len(more)
        BY <2>3
      <4>3. more[i] = k - 1
        BY <2>3, <4>1
      <4> QED
        BY <4>2, <4>3
    <3> QED
      BY <3>1, <3>2
  <2> QED
    BY <2>1, <2>6, <2>7, <2>8 DEF Stacked
<1>3. Flows(new)
  BY <1>1 DEF Runs, Flows
<1>4. ReceivesByEdges(new)
  BY <1>1, SMTT(60) DEF Runs, ReceivesByEdges
<1>5. SendsInTurn(new, s)
  BY <1>1 DEF Runs, SendsInTurn
<1>6. LeavesWhenReady(new)
  BY <1>1 DEF Runs, LeavesWhenReady, IsReady
<1>7. Ordered(new)
  <2> SUFFICES ASSUME NEW e \in EdgeIds, HasEdge(graph, e),
                      new[Target(e) + 1].state # "waiting",
                      ToPin(e) \in RequiredInputs[new[Target(e) + 1].type]
               PROVE  new[Origin(e) + 1].state = "executed"
    BY DEF Ordered
  <2>1. PICK t, o : t = Target(e) + 1 /\ o = Origin(e) + 1
    OBVIOUS
  <2>2. t \in 1 .. Len(old) /\ o \in 1 .. Len(old)
    BY <2>1
  <2>3. IsReady(old[t])
    BY <1>1, <2>1, <2>2 DEF Runs, LeavesWhenReady
  <2>4. old[o].state = "executed"
    BY <1>1, <2>1, <2>2, <2>3, ReadyAfterProducers
  <2> QED
    BY <1>1, <2>1, <2>2, <2>4
<1>8. Looked(new, s)
  <2> SUFFICES ASSUME NEW k \in 1 .. Len(new), IsReady(new[k]), new[k].state = "waiting"
               PROVE  \E j \in 1 .. Len(s.todo) : s.todo[j] = k - 1
    BY DEF Looked
  <2>1. k # m /\ IsReady(old[k]) /\ old[k].state = "waiting" /\ k \in 1 .. Len(old)
    BY <1>1 DEF IsReady
  <2>2. PICK j \in 1 .. Len(r.todo) : r.todo[j] = k - 1
    BY <2>1 DEF Runs, Looked
  <2>3. PICK todo, rest : todo = r.todo /\ rest = s.todo
    OBVIOUS
  <2>4. todo \in Seq(Slots) /\ todo # <<>> /\ rest = Tail(todo) /\ todo[1] = m - 1
    BY <2>3
  <2>5. j # 1
    BY <2>1, <2>2, <2>3, <2>4
  <2>6. PICK i : i = j - 1
    OBVIOUS
  <2>7. i \in 1 .. Len(rest) /\ rest[i] = todo[j]
    BY <2>2, <2>3, <2>4, <2>5, <2>6
  <2> QED
    BY <2>2, <2>3, <2>7
<1> QED
  BY <1>2, <1>3, <1>4, <1>5, <1>6, <1>7, <1>8 DEF Runs

LEMMA ScheduleNodeKeeps == ASSUME PipelineInv, ScheduleNode PROVE PipelineInv'
<1>1. /\ run.pc = "schedule" /\ run.todo # <<>> /\ Running
      /\ graph' = graph /\ destroying' = destroying
  BY DEF ScheduleNode, Running
<1>2. PICK metas, ready, r, s : metas = Metas /\ ready = pipeline.ready /\ r = run /\ s = run'
  OBVIOUS
<1>3. /\ IsFrame(r) /\ Runs(metas, ready, r) /\ metas \in Seq(Meta) /\ ready \in Seq(Slots)
      /\ NumNodes \in Nat /\ NumNodes = Len(metas)
      /\ pipeline = [version |-> pipeline.version, metas |-> metas, ready |-> ready]
  BY <1>1, <1>2, RunningFacts
<1>4. PICK slot, m : slot = Head(r.todo) /\ m = slot + 1
  OBVIOUS
<1>5. r.todo \in Seq(Slots) /\ r.todo # <<>> /\ r.pc = "schedule"
  BY <1>1, <1>2, <1>3 DEF IsFrame
<1>6. slot \in Slots /\ m \in 1 .. Len(metas) /\ slot = m - 1
  <2>1. slot \in Slots
    BY <1>4, <1>5
  <2> QED
    BY <1>3, <1>4, <2>1 DEF Slots
<1>7. ASSUME run' = [run EXCEPT !.todo = Tail(@)]
      PROVE  IsFrame(s) /\ s.pc = "schedule" /\ s.todo = Tail(r.todo)
  <2>1. PICK rest : rest = Tail(r.todo)
    OBVIOUS
  <2>2. rest \in Seq(Slots)
    BY <1>5, <2>1
  <2>3. s = [pc |-> r.pc, slot |-> r.slot, todo |-> rest, reason |-> r.reason]
    BY <1>2, <1>3, <1>7, <2>1 DEF IsFrame
  <2> QED
    BY <1>3, <1>5, <2>1, <2>2, <2>3 DEF IsFrame
<1>8. CASE /\ IsReady(metas[m]) /\ IsWaiting(metas[m])
           /\ pipeline' = [pipeline EXCEPT !.ready = Append(@, slot), !.metas[m].state = "scheduled"]
           /\ run' = [run EXCEPT !.todo = Tail(@)] \/ run' = NotRunning
  <2>1. PICK new, more : new = [metas EXCEPT ![m].state = "scheduled"] /\ more = Append(ready, slot)
    OBVIOUS
  <2>2. StateIs(metas, new, m, "scheduled")
    BY <1>3, <1>6, <2>1, SetsState
  <2>3. pipeline' = [version |-> pipeline.version, metas |-> new, ready |-> more]
    <3>1. PICK p : p = pipeline
      OBVIOUS
    <3>2. p.ready = ready /\ p.metas = metas
      BY <1>3, <3>1
    <3>3. pipeline' = [p EXCEPT !.ready = more, !.metas = new]
      BY <1>8, <2>1, <3>1, <3>2
    <3> QED
      BY <1>3, <3>1, <3>3
  <2>4. Metas' = new /\ pipeline'.ready = more
    BY <2>3 DEF Metas
  <2>5. more \in Seq(Slots)
    BY <1>3, <1>6, <2>1
  <2>6. StaysInPlace
    BY <1>1, <1>2, <2>2, <2>3, <2>4, <2>5, StateKeepsMetas DEF StaysInPlace
  <2>7. CASE run' = NotRunning
    BY <2>6, <2>7, EndsKeep
  <2>8. CASE run' = [run EXCEPT !.todo = Tail(@)]
    <3>1. \A e \in EdgeIds : HasEdge(graph, e) =>
              Origin(e) + 1 \in 1 .. Len(metas) /\ Target(e) + 1 \in 1 .. Len(metas)
      BY <1>1, <1>2, EdgeEnds, RunningFacts
    <3>2. Runs(new, more, s)
      BY <1>3, <1>4, <1>5, <1>6, <1>7, <1>8, <2>1, <2>2, <2>8, <3>1, ScheduledRuns, ZenonT(60) DEF IsWaiting
    <3> QED
      BY <1>1, <1>2, <1>7, <2>4, <2>6, <2>8, <3>2, RunningFacts, GoesOnKeeps
  <2> QED
    BY <1>8, <2>7, <2>8
<1>9. CASE /\ ~(IsReady(metas[m]) /\ IsWaiting(metas[m]))
           /\ pipeline' = pipeline /\ run' = [run EXCEPT !.todo = Tail(@)]
  <2>1. IsFrame(s) /\ s.pc = "schedule" /\ s.todo = Tail(r.todo)
    BY <1>7, <1>9
  <2>2. Looked(metas, s)
    <3> SUFFICES ASSUME NEW k \in 1 .. Len(metas), IsReady(metas[k]), metas[k].state = "waiting"
                 PROVE  \E j \in 1 .. Len(s.todo) : s.todo[j] = k - 1
      BY <2>1 DEF Looked
    <3>1. PICK j \in 1 .. Len(r.todo) : r.todo[j] = k - 1
      BY <1>3, <1>5 DEF Runs, Looked
    <3>2. PICK todo, rest : todo = r.todo /\ rest = s.todo
      OBVIOUS
    <3>3. todo \in Seq(Slots) /\ todo # <<>> /\ rest = Tail(todo) /\ todo[1] = m - 1
      BY <1>4, <1>5, <1>6, <2>1, <3>2
    <3>4. k # m
      BY <1>9 DEF IsWaiting
    <3>5. j # 1
      BY <1>3, <1>6, <3>1, <3>2, <3>3, <3>4
    <3>6. PICK i : i = j - 1
      OBVIOUS
    <3>7. i \in 1 .. Len(rest) /\ rest[i] = todo[j]
      BY <3>1, <3>2, <3>3, <3>5, <3>6
    <3> QED
      BY <3>1, <3>2, <3>7
  <2>3. Runs(metas, ready, s)
    BY <1>3, <1>5, <2>1, <2>2 DEF Runs, Stacked, SendsInTurn
  <2>4. StaysInPlace
    BY <1>1, <1>9, SamePipelineStays
  <2> QED
    BY <1>1, <1>2, <1>9, <2>1, <2>3, <2>4, SameMetas, RunningFacts, GoesOnKeeps
<1>10. PICK meta : meta = Metas[Head(run.todo) + 1]
  OBVIOUS
<1>11. meta = metas[m] /\ slot = Head(run.todo) /\ m = Head(run.todo) + 1
  BY <1>2, <1>4, <1>10
<1> QED
  BY <1>8, <1>9, <1>10, <1>11 DEF ScheduleNode, Watched, Return
-----------------------------------------------------------------------------
(* The nodes to look at after a node has returned: all that its edges lead *)
(* to.                                                                     *)
LEMMA TargetsAre ==
    ASSUME IsLinked(graph), Matches, NumNodes \in Nat,
           NEW links \in Seq(EdgeIds), \A k \in 1 .. Len(links) : HasEdge(graph, links[k])
    PROVE  /\ Targets(links) \in Seq(Slots) /\ Len(Targets(links)) = Len(links)
           /\ \A k \in 1 .. Len(links) : Targets(links)[k] = Target(links[k])
<1>1. PICK n, targets : n = Len(links) /\ targets = [k \in 1 .. n |-> Target(links[k])]
  OBVIOUS
<1>2. Targets(links) = targets /\ n \in Nat
  BY <1>1 DEF Targets
<1>3. \A k \in 1 .. n : Target(links[k]) \in Slots
  BY <1>1, EdgesJoinSlots DEF JoinsSlots
<1>4. targets \in [1 .. n -> Slots] /\ \A k \in 1 .. n : targets[k] = Target(links[k])
  BY <1>1, <1>3
<1>5. targets \in Seq(Slots) /\ Len(targets) = n
  BY <1>2, <1>4, MadeSeq
<1> QED
  BY <1>1, <1>2, <1>4, <1>5

LEMMA DependentsAre ==
    ASSUME IsLinked(graph), Matches, NumNodes \in Nat, NEW slot \in Slots,
           Metas[slot + 1].type \in NodeTypes
    PROVE  /\ Dependents(slot) \in Seq(Slots)
           /\ \A e \in EdgeIds : HasEdge(graph, e) /\ Origin(e) = slot =>
                 \E k \in 1 .. Len(Dependents(slot)) : Dependents(slot)[k] = Target(e)
<1>1. PICK n : n = NumOutputs(Metas[slot + 1].type)
  OBVIOUS
<1>2. n \in Nat
  BY <1>1, PinCounts
<1>3. PICK ss : ss = [i \in 1 .. n |-> Targets(Links(slot, i - 1))]
  OBVIOUS
<1>4. Dependents(slot) = FlattenSeq(ss)
  BY <1>1, <1>3 DEF Dependents
<1>5. ASSUME NEW i \in 0 .. n - 1
      PROVE  /\ Targets(Links(slot, i)) \in Seq(Slots)
             /\ \A e \in EdgeIds : HasEdge(graph, e) /\ Origin(e) = slot /\ FromPin(e) = i =>
                   \E k \in 1 .. Len(Targets(Links(slot, i))) : Targets(Links(slot, i))[k] = Target(e)
  <2>1. PICK links : links = Links(slot, i)
    OBVIOUS
  <2>2. /\ links \in Seq(EdgeIds)
        /\ \A k \in 1 .. Len(links) : HasEdge(graph, links[k])
        /\ \A e \in EdgeIds : HasEdge(graph, e) /\ Origin(e) = slot /\ FromPin(e) = i =>
              \E k \in 1 .. Len(links) : links[k] = e
    BY <1>1, <2>1, LinksAre
  <2>3. PICK targets : targets = Targets(links)
    OBVIOUS
  <2>4. /\ targets \in Seq(Slots) /\ Len(targets) = Len(links)
        /\ \A k \in 1 .. Len(links) : targets[k] = Target(links[k])
    BY <2>2, <2>3, TargetsAre
  <2> QED
    BY <2>1, <2>2, <2>3, <2>4
<1>6. \A i \in 1 .. n : ss[i] = Targets(Links(slot, i - 1)) /\ i - 1 \in 0 .. n - 1
  BY <1>2, <1>3
<1>7. ss \in [1 .. n -> Seq(Slots)]
  BY <1>3, <1>5, <1>6
<1>8. PICK flat : flat = FlattenSeq(ss)
  OBVIOUS
<1>9. /\ flat \in Seq(Slots)
      /\ \A i \in 1 .. n : \A k \in 1 .. Len(ss[i]) : \E j \in 1 .. Len(flat) : flat[j] = ss[i][k]
  <2>1. PICK S : S = Slots
    OBVIOUS
  <2>2. ss \in [1 .. n -> Seq(S)]
    BY <1>7, <2>1
  <2>3. HoldsAll(S, n, ss, flat)
    BY <1>2, <1>8, <2>2, Flattened
  <2> QED
    BY <2>1, <2>3 DEF HoldsAll
<1>10. ASSUME NEW e \in EdgeIds, HasEdge(graph, e), Origin(e) = slot
       PROVE  \E j \in 1 .. Len(flat) : flat[j] = Target(e)
  <2>1. PICK i, pin : i = pin + 1 /\ pin = FromPin(e)
    OBVIOUS
  <2>2. pin \in 0 .. n - 1
    BY <1>1, <1>10, <2>1, EdgesJoinSlots DEF JoinsSlots
  <2>3. i \in 1 .. n /\ i - 1 = pin
    BY <1>2, <2>1, <2>2
  <2>4. ss[i] = Targets(Links(slot, pin))
    BY <1>6, <2>3
  <2>5. PICK k \in 1 .. Len(ss[i]) : ss[i][k] = Target(e)
    BY <1>5, <1>10, <2>1, <2>2, <2>4
  <2> QED
    BY <1>9, <2>3, <2>5
<1> QED
  BY <1>4, <1>8, <1>9, <1>10

LEMMA ExecutedRuns ==
    ASSUME NEW old, NEW ready \in Seq(Slots), NEW r, Runs(old, ready, r),
           r.pc = "execute", r.slot \in Slots, Len(old) = NumNodes, NumNodes \in Nat,
           NEW new, StateIs(old, new, r.slot + 1, "executed"),
           NEW s, s.pc = "schedule",
           \A e \in EdgeIds : HasEdge(graph, e) /\ Origin(e) = r.slot =>
               \E k \in 1 .. Len(s.todo) : s.todo[k] = Target(e),
           \A e \in EdgeIds : HasEdge(graph, e) =>
               Origin(e) + 1 \in 1 .. Len(old) /\ Target(e) + 1 \in 1 .. Len(old)
    PROVE  Runs(new, ready, s)
<1>1. PICK m : m = r.slot + 1
  OBVIOUS
<1>2. m \in 1 .. Len(old) /\ r.slot = m - 1
  BY <1>1, SMTT(30) DEF Slots
<1>3. /\ Len(new) = Len(old)
      /\ \A i \in 1 .. Len(old) :
            /\ new[i].type = old[i].type
            /\ new[i].received = old[i].received /\ new[i].sent = old[i].sent
            /\ new[i].state = IF i = m THEN "executed" ELSE old[i].state
  BY <1>1 DEF StateIs
<1>4. old[m].state = "scheduled"
  BY <1>1 DEF Runs, Stacked
<1>5. Stacked(new, ready, s)
  <2>1. /\ \A i, j \in 1 .. Len(ready) : ready[i] = ready[j] => i = j
        /\ \A i \in 1 .. Len(ready) : old[ready[i] + 1].state = "scheduled" /\ ready[i] # m - 1
        /\ \A k \in 1 .. Len(old) : old[k].state = "scheduled" =>
              k = m \/ \E i \in 1 .. Len(ready) : ready[i] = k - 1
    BY <1>1, <1>2 DEF Runs, Stacked
  <2>2. \A i \in 1 .. Len(ready) : new[ready[i] + 1].state = "scheduled"
    <3> SUFFICES ASSUME NEW i \in 1 .. Len(ready) PROVE new[ready[i] + 1].state = "scheduled"
      OBVIOUS
    <3>1. PICK slot, k : slot = ready[i] /\ k = slot + 1
      OBVIOUS
    <3>2. slot \in Slots
      BY <3>1
    <3>3. slot # m - 1 /\ old[k].state = "scheduled"
      BY <2>1, <3>1
    <3>4. k \in 1 .. Len(old) /\ k # m
      BY <1>2, <3>1, <3>2, <3>3, SMTT(60) DEF Slots
    <3> QED
      BY <1>3, <3>1, <3>3, <3>4
  <2>3. \A k \in 1 .. Len(new) : new[k].state = "scheduled" =>
            \E i \in 1 .. Len(ready) : ready[i] = k - 1
    BY <1>3, <2>1
  <2> QED
    BY <2>1, <2>2, <2>3 DEF Stacked
<1>6. Flows(new)
  BY <1>3 DEF Runs, Flows
<1>7. ReceivesByEdges(new)
  BY <1>3 DEF Runs, ReceivesByEdges
<1>8. SendsInTurn(new, s)
  BY <1>1, <1>3 DEF Runs, SendsInTurn
<1>9. LeavesWhenReady(new)
  <2> SUFFICES ASSUME NEW k \in 1 .. Len(new), new[k].state # "waiting" PROVE IsReady(new[k])
    BY DEF LeavesWhenReady
  <2>1. k \in 1 .. Len(old) /\ old[k].state # "waiting"
    BY <1>3, <1>4
  <2> QED
    BY <1>3, <2>1 DEF Runs, LeavesWhenReady, IsReady
<1>10. Ordered(new)
  <2> SUFFICES ASSUME NEW e \in EdgeIds, HasEdge(graph, e),
                      new[Target(e) + 1].state # "waiting",
                      ToPin(e) \in RequiredInputs[new[Target(e) + 1].type]
               PROVE  new[Origin(e) + 1].state = "executed"
    BY DEF Ordered
  <2>1. PICK t, o : t = Target(e) + 1 /\ o = Origin(e) + 1
    OBVIOUS
  <2>2. t \in 1 .. Len(old) /\ o \in 1 .. Len(old)
    BY <2>1
  <2>3. old[t].state # "waiting" /\ ToPin(e) \in RequiredInputs[old[t].type]
    BY <1>3, <1>4, <2>1, <2>2
  <2>4. old[o].state = "executed"
    BY <2>1, <2>3 DEF Runs, Ordered
  <2> QED
    BY <1>3, <2>1, <2>2, <2>4
<1>11. Looked(new, s)
  <2> SUFFICES ASSUME NEW k \in 1 .. Len(new), IsReady(new[k]), new[k].state = "waiting"
               PROVE  \E j \in 1 .. Len(s.todo) : s.todo[j] = k - 1
    BY DEF Looked
  <2>1. k \in 1 .. Len(old) /\ IsReady(old[k]) /\ old[k].state = "waiting"
    BY <1>3 DEF IsReady
  <2>2. LeadsTo(r.slot, k - 1)
    BY <2>1 DEF Runs, Looked
  <2> QED
    BY <2>2 DEF LeadsTo
<1> QED
  BY <1>5, <1>6, <1>7, <1>8, <1>9, <1>10, <1>11 DEF Runs

LEMMA ExecutedNodeKeeps == ASSUME PipelineInv, ExecutedNode PROVE PipelineInv'
<1>1. /\ run.pc = "execute" /\ Running
      /\ graph' = graph /\ destroying' = destroying
      /\ pipeline' = [pipeline EXCEPT !.metas[run.slot + 1].state = "executed"]
  BY DEF ExecutedNode, Running
<1>2. PICK metas, ready, r, s : metas = Metas /\ ready = pipeline.ready /\ r = run /\ s = run'
  OBVIOUS
<1>3. /\ IsFrame(r) /\ Runs(metas, ready, r) /\ metas \in Seq(Meta) /\ ready \in Seq(Slots)
      /\ NumNodes \in Nat /\ NumNodes = Len(metas) /\ IsLinked(graph) /\ Matches
      /\ pipeline = [version |-> pipeline.version, metas |-> metas, ready |-> ready]
  BY <1>1, <1>2, RunningFacts
<1>4. PICK slot, m : slot = r.slot /\ m = slot + 1
  OBVIOUS
<1>5. slot \in Slots /\ m \in 1 .. Len(metas)
  <2>1. slot \in Slots
    BY <1>1, <1>2, <1>3, <1>4 DEF IsFrame
  <2> QED
    BY <1>3, <1>4, <2>1 DEF Slots
<1>6. PICK new : new = [metas EXCEPT ![m].state = "executed"]
  OBVIOUS
<1>7. StateIs(metas, new, m, "executed")
  BY <1>3, <1>5, <1>6, SetsState
<1>8. pipeline' = [version |-> pipeline.version, metas |-> new, ready |-> ready]
  <2>1. PICK p : p = pipeline
    OBVIOUS
  <2>2. p.ready = ready /\ p.metas = metas
    BY <1>3, <2>1
  <2>3. pipeline' = [p EXCEPT !.metas = new]
    BY <1>1, <1>2, <1>4, <1>6, <2>1, <2>2
  <2> QED
    BY <1>3, <2>1, <2>3
<1>9. Metas' = new /\ pipeline'.ready = ready
  BY <1>8 DEF Metas
<1>10. StaysInPlace
  BY <1>1, <1>2, <1>3, <1>7, <1>8, <1>9, StateKeepsMetas DEF StaysInPlace
<1>11. CASE run' = NotRunning
  BY <1>10, <1>11, EndsKeep
<1>12. CASE run' = [run EXCEPT !.pc = "schedule", !.todo = Dependents(run.slot)]
  <2>1. PICK todo : todo = Dependents(slot)
    OBVIOUS
  <2>2. Metas[slot + 1].type \in NodeTypes
    BY <1>2, <1>3, <1>4, <1>5, MetasTyped DEF PipelineInv
  <2>3. /\ todo \in Seq(Slots)
        /\ \A e \in EdgeIds : HasEdge(graph, e) /\ Origin(e) = slot =>
              \E k \in 1 .. Len(todo) : todo[k] = Target(e)
    BY <1>3, <1>5, <2>1, <2>2, DependentsAre
  <2>4. s = [pc |-> "schedule", slot |-> slot, todo |-> todo, reason |-> r.reason]
    BY <1>2, <1>3, <1>4, <1>12, <2>1 DEF IsFrame
  <2>5. IsFrame(s)
    BY <1>3, <1>4, <2>3, <2>4 DEF IsFrame
  <2>6. \A e \in EdgeIds : HasEdge(graph, e) =>
            Origin(e) + 1 \in 1 .. Len(metas) /\ Target(e) + 1 \in 1 .. Len(metas)
    BY <1>2, <1>3, EdgeEnds
  <2>7. r.pc = "execute" /\ s.pc = "schedule" /\ s.todo = todo
    BY <1>1, <1>2, <2>4
  <2>8. Runs(new, ready, s)
    BY <1>3, <1>4, <1>5, <1>7, <2>3, <2>6, <2>7, ExecutedRuns
  <2> QED
    BY <1>1, <1>2, <1>9, <1>10, <2>5, <2>7, <2>8, RunningFacts, GoesOnKeeps
<1> QED
  BY <1>11, <1>12 DEF ExecutedNode, Return
-----------------------------------------------------------------------------
(* hgraph_pipeline_node_output: one pin of the node that executes is sent, *)
(* and every input along the edges of the pin receives.                    *)
Reached(links, slot) ==
    {PinIndex(Edge(graph, e).to) : e \in {l \in Range(links) : Target(l) = slot}}

Sends(old, new, links, n, i) ==
    /\ new \in Seq(Meta) /\ Len(new) = Len(old)
    /\ \A m \in 1 .. Len(old) :
          /\ new[m].id = old[m].id /\ new[m].type = old[m].type
          /\ new[m].version = old[m].version /\ new[m].data = old[m].data
          /\ new[m].state = old[m].state
          /\ new[m].received = old[m].received \union Reached(links, m - 1)
          /\ new[m].sent = IF m = n THEN old[m].sent \union {i} ELSE old[m].sent

LEMMA SetsPins ==
    ASSUME NEW old \in Seq(Meta), NEW links, NEW n, NEW i \in Nat,
           \A m \in 1 .. Len(old) : Reached(links, m - 1) \subseteq Int
    PROVE  Sends(old, [m \in 1 .. Len(old) |->
                          [old[m] EXCEPT !.received = @ \union Reached(links, m - 1),
                                         !.sent = IF m = n THEN @ \union {i} ELSE @]],
                 links, n, i)
<1>1. PICK size : size = Len(old)
  OBVIOUS
<1>2. PICK new : new = [m \in 1 .. size |->
                           [old[m] EXCEPT !.received = @ \union Reached(links, m - 1),
                                          !.sent = IF m = n THEN @ \union {i} ELSE @]]
  OBVIOUS
<1>3. size \in Nat
  BY <1>1
<1>4. ASSUME NEW m \in 1 .. size
      PROVE  /\ new[m] \in Meta
             /\ new[m].id = old[m].id /\ new[m].type = old[m].type
             /\ new[m].version = old[m].version /\ new[m].data = old[m].data
             /\ new[m].state = old[m].state
             /\ new[m].received = old[m].received \union Reached(links, m - 1)
             /\ new[m].sent = IF m = n THEN old[m].sent \union {i} ELSE old[m].sent
  <2>1. PICK meta \in Meta : meta = old[m]
    BY <1>1
  <2>2. PICK received, sent : /\ received = meta.received \union Reached(links, m - 1)
                              /\ sent = IF m = n THEN meta.sent \union {i} ELSE meta.sent
    OBVIOUS
  <2>3. received \in SUBSET Int /\ sent \in SUBSET Int
    <3>1. meta.received \in SUBSET Int /\ meta.sent \in SUBSET Int
      BY DEF Meta
    <3> QED
      BY <1>1, <2>2, <3>1
  <2>4. new[m] = [meta EXCEPT !.received = received, !.sent = sent]
    BY <1>2, <2>1, <2>2
  <2>5. /\ new[m] \in Meta
        /\ new[m].id = meta.id /\ new[m].type = meta.type
        /\ new[m].version = meta.version /\ new[m].data = meta.data
        /\ new[m].state = meta.state
        /\ new[m].received = received /\ new[m].sent = sent
    BY <2>3, <2>4 DEF Meta
  <2> QED
    BY <2>1, <2>2, <2>5
<1>5. new \in [1 .. size -> Meta]
  BY <1>2, <1>4
<1>6. new \in Seq(Meta) /\ Len(new) = size
  BY <1>3, <1>5, MadeSeq
<1>7. Sends(old, new, links, n, i)
  BY <1>1, <1>4, <1>6 DEF Sends
<1> QED
  BY <1>1, <1>2, <1>7

LEMMA ReachedAre ==
    ASSUME NEW links \in Seq(EdgeIds), NEW slot, NEW p
    PROVE  p \in Reached(links, slot) <=>
               \E k \in 1 .. Len(links) : Target(links[k]) = slot /\ ToPin(links[k]) = p
<1>1. Range(links) = {links[k] : k \in 1 .. Len(links)}
  BY DEF Range
<1> QED
  BY <1>1 DEF Reached, ToPin

LEMMA OutputRuns ==
    ASSUME IsLinked(graph), Matches, NumNodes \in Nat,
           NEW old, NEW ready \in Seq(Slots), NEW r, Runs(old, ready, r), r.pc = "execute",
           NEW slot \in Slots, r.slot = slot, Len(old) = NumNodes,
           NEW i, NEW links \in Seq(EdgeIds),
           \A k \in 1 .. Len(links) :
               HasEdge(graph, links[k]) /\ Origin(links[k]) = slot /\ FromPin(links[k]) = i,
           \A e \in EdgeIds : HasEdge(graph, e) /\ Origin(e) = slot /\ FromPin(e) = i =>
               \E k \in 1 .. Len(links) : links[k] = e,
           NEW new, Sends(old, new, links, slot + 1, i),
           \A e \in EdgeIds : HasEdge(graph, e) =>
               Origin(e) + 1 \in 1 .. Len(old) /\ Target(e) + 1 \in 1 .. Len(old)
    PROVE  Runs(new, ready, r)
<1>1. PICK n : n = slot + 1
  OBVIOUS
<1>2. n \in 1 .. Len(old) /\ slot = n - 1
  BY <1>1 DEF Slots
<1>3. /\ Len(new) = Len(old)
      /\ \A m \in 1 .. Len(old) :
            /\ new[m].type = old[m].type /\ new[m].state = old[m].state
            /\ new[m].received = old[m].received \union Reached(links, m - 1)
            /\ new[m].sent = IF m = n THEN old[m].sent \union {i} ELSE old[m].sent
  BY <1>1 DEF Sends
<1>4. \A k \in 1 .. Len(links) : links[k] \in EdgeIds
  OBVIOUS
<1>5. Stacked(new, ready, r)
  <2>1. /\ \A k \in 1 .. Len(ready) : old[ready[k] + 1].state = "scheduled"
        /\ old[n].state = "scheduled"
    BY <1>1 DEF Runs, Stacked
  <2>2. \A k \in 1 .. Len(ready) : new[ready[k] + 1].state = "scheduled"
    <3> SUFFICES ASSUME NEW k \in 1 .. Len(ready) PROVE new[ready[k] + 1].state = "scheduled"
      OBVIOUS
    <3>1. PICK at, m : at = ready[k] /\ m = at + 1
      OBVIOUS
    <3>2. at \in Slots
      BY <3>1
    <3>3. m \in 1 .. Len(old)
      BY <3>1, <3>2, SMTT(30) DEF Slots
    <3> QED
      BY <1>3, <2>1, <3>1, <3>3
  <2>3. new[n].state = "scheduled"
    BY <1>2, <1>3, <2>1
  <2>4. \A m \in 1 .. Len(new) : new[m].state = "scheduled" =>
            m = n \/ \E k \in 1 .. Len(ready) : ready[k] = m - 1
    BY <1>1, <1>3 DEF Runs, Stacked
  <2> QED
    BY <1>1, <2>2, <2>3, <2>4 DEF Runs, Stacked
<1>6. Flows(new)
  <2> SUFFICES ASSUME NEW e \in EdgeIds, HasEdge(graph, e)
               PROVE  ToPin(e) \in new[Target(e) + 1].received <=> FromPin(e) \in new[Origin(e) + 1].sent
    BY DEF Flows
  <2>1. PICK t, o, p, q : t = Target(e) + 1 /\ o = Origin(e) + 1 /\ p = ToPin(e) /\ q = FromPin(e)
    OBVIOUS
  <2>2. t \in 1 .. Len(old) /\ o \in 1 .. Len(old)
    BY <2>1
  <2>3. Target(e) \in Int /\ Origin(e) \in Int /\ Target(e) = t - 1 /\ (o = n <=> Origin(e) = slot)
    <3>1. Target(e) \in Slots /\ Origin(e) \in Slots
      BY EdgesJoinSlots DEF JoinsSlots
    <3> QED
      BY <1>1, <2>1, <3>1, SMTT(30) DEF Slots
  <2>4. p \in old[t].received <=> q \in old[o].sent
    BY <2>1 DEF Runs, Flows
  <2>5. p \in Reached(links, t - 1) <=> (o = n /\ q = i)
    <3>1. ASSUME o = n, q = i PROVE p \in Reached(links, t - 1)
      <4>1. PICK k \in 1 .. Len(links) : links[k] = e
        BY <2>1, <2>3, <3>1
      <4> QED
        BY <2>1, <2>3, <4>1, ReachedAre
    <3>2. ASSUME p \in Reached(links, t - 1) PROVE o = n /\ q = i
      <4>1. PICK k \in 1 .. Len(links) : Target(links[k]) = t - 1 /\ ToPin(links[k]) = p
        BY <3>2, ReachedAre
      <4>2. PICK f : f = links[k]
        OBVIOUS
      <4>3. HasEdge(graph, f) /\ Origin(f) = slot /\ FromPin(f) = i /\ Target(f) = Target(e) /\ ToPin(f) = ToPin(e)
        BY <2>1, <2>3, <4>1, <4>2
      <4>4. f = e
        BY <4>3, OneEdgePerInput
      <4> QED
        BY <2>1, <2>3, <4>3, <4>4
    <3> QED
      BY <3>1, <3>2
  <2>6. q \in new[o].sent <=> (q \in old[o].sent \/ (o = n /\ q = i))
    <3>1. new[o].sent = IF o = n THEN old[o].sent \union {i} ELSE old[o].sent
      BY <1>3, <2>2
    <3>2. CASE o = n
      BY <3>1, <3>2
    <3>3. CASE o # n
      BY <3>1, <3>3
    <3> QED
      BY <3>2, <3>3
  <2>7. p \in new[t].received <=> (p \in old[t].received \/ p \in Reached(links, t - 1))
    BY <1>3, <2>2
  <2> QED
    BY <2>1, <2>4, <2>5, <2>6, <2>7
<1>7. ReceivesByEdges(new)
  <2> SUFFICES ASSUME NEW m \in 1 .. Len(new), NEW p \in new[m].received
               PROVE  \E e \in EdgeIds : HasEdge(graph, e) /\ Target(e) = m - 1 /\ ToPin(e) = p
    BY DEF ReceivesByEdges
  <2>1. CASE p \in old[m].received
    BY <1>3, <2>1 DEF Runs, ReceivesByEdges
  <2>2. CASE p \in Reached(links, m - 1)
    <3>1. PICK k \in 1 .. Len(links) : Target(links[k]) = m - 1 /\ ToPin(links[k]) = p
      BY <2>2, ReachedAre
    <3> QED
      BY <1>4, <3>1
  <2> QED
    BY <1>3, <2>1, <2>2
<1>8. SendsInTurn(new, r)
  <2> SUFFICES ASSUME NEW m \in 1 .. Len(new), new[m].sent # {}
               PROVE  new[m].state = "executed" \/ m = n
    BY <1>1 DEF SendsInTurn
  <2>1. CASE m = n
    BY <2>1
  <2>2. CASE m # n
    BY <1>1, <1>3, <2>2 DEF Runs, SendsInTurn
  <2> QED
    BY <2>1, <2>2
<1>9. LeavesWhenReady(new)
  BY <1>3 DEF Runs, LeavesWhenReady, IsReady
<1>10. Ordered(new)
  <2> SUFFICES ASSUME NEW e \in EdgeIds, HasEdge(graph, e),
                      new[Target(e) + 1].state # "waiting",
                      ToPin(e) \in RequiredInputs[new[Target(e) + 1].type]
               PROVE  new[Origin(e) + 1].state = "executed"
    BY DEF Ordered
  <2>1. PICK t, o : t = Target(e) + 1 /\ o = Origin(e) + 1
    OBVIOUS
  <2>2. t \in 1 .. Len(old) /\ o \in 1 .. Len(old)
    BY <2>1
  <2>3. old[t].state # "waiting" /\ ToPin(e) \in RequiredInputs[old[t].type]
    BY <1>3, <2>1, <2>2
  <2>4. old[o].state = "executed"
    BY <2>1, <2>3 DEF Runs, Ordered
  <2> QED
    BY <1>3, <2>1, <2>2, <2>4
<1>11. Looked(new, r)
  <2> SUFFICES ASSUME NEW m \in 1 .. Len(new), IsReady(new[m]), new[m].state = "waiting"
               PROVE  LeadsTo(slot, m - 1)
    BY DEF Looked
  <2>1. CASE IsReady(old[m])
    BY <1>3, <2>1 DEF Runs, Looked
  <2>2. CASE ~IsReady(old[m])
    <3>1. PICK p : p \in Reached(links, m - 1)
      BY <1>3, <2>2 DEF IsReady
    <3>2. PICK k \in 1 .. Len(links) : Target(links[k]) = m - 1
      BY <3>1, ReachedAre
    <3> QED
      BY <1>4, <3>2 DEF LeadsTo
  <2> QED
    BY <2>1, <2>2
<1> QED
  BY <1>5, <1>6, <1>7, <1>8, <1>9, <1>10, <1>11 DEF Runs

LEMMA OutputKeeps == ASSUME PipelineInv, NEW i \in 0 .. MaxPins - 1, Output(i) PROVE PipelineInv'
<1>1. /\ run.pc = "execute" /\ Running /\ i < NumOutputs(Metas[run.slot + 1].type)
      /\ graph' = graph /\ destroying' = destroying /\ run' = run
  BY DEF Output, Running
<1>2. PICK metas, ready, r : metas = Metas /\ ready = pipeline.ready /\ r = run
  OBVIOUS
<1>3. /\ IsFrame(r) /\ Runs(metas, ready, r) /\ metas \in Seq(Meta) /\ ready \in Seq(Slots)
      /\ NumNodes \in Nat /\ NumNodes = Len(metas) /\ IsLinked(graph) /\ Matches
      /\ pipeline = [version |-> pipeline.version, metas |-> metas, ready |-> ready]
  BY <1>1, <1>2, RunningFacts
<1>4. PICK slot : slot = r.slot
  OBVIOUS
<1>5. slot \in Slots /\ slot + 1 \in 1 .. Len(metas)
  <2>1. slot \in Slots
    BY <1>1, <1>2, <1>3, <1>4 DEF IsFrame
  <2> QED
    BY <1>3, <2>1 DEF Slots
<1>6. i \in 0 .. NumOutputs(Metas[slot + 1].type) - 1 /\ i \in Nat
  <2>1. Metas[slot + 1].type \in NodeTypes
    BY <1>2, <1>3, <1>5, MetasTyped DEF PipelineInv
  <2>2. NumOutputs(Metas[slot + 1].type) \in Nat
    BY <2>1, PinCounts
  <2>3. i \in Nat
    BY DEF MaxPins
  <2> QED
    BY <1>1, <1>2, <1>4, <2>2, <2>3
<1>7. PICK links : links = Links(slot, i)
  OBVIOUS
<1>8. /\ links \in Seq(EdgeIds)
      /\ \A k \in 1 .. Len(links) :
            HasEdge(graph, links[k]) /\ Origin(links[k]) = slot /\ FromPin(links[k]) = i
      /\ \A e \in EdgeIds : HasEdge(graph, e) /\ Origin(e) = slot /\ FromPin(e) = i =>
            \E k \in 1 .. Len(links) : links[k] = e
  BY <1>3, <1>5, <1>6, <1>7, LinksAre, ZenonT(60)
<1>9. PICK new : new = [m \in 1 .. Len(metas) |->
                           [metas[m] EXCEPT !.received = @ \union Reached(links, m - 1),
                                            !.sent = IF m = slot + 1 THEN @ \union {i} ELSE @]]
  OBVIOUS
<1>10. \A m \in 1 .. Len(metas) : Reached(links, m - 1) \subseteq Int
  <2> SUFFICES ASSUME NEW m \in 1 .. Len(metas), NEW p \in Reached(links, m - 1) PROVE p \in Int
    OBVIOUS
  <2>1. PICK k \in 1 .. Len(links) : ToPin(links[k]) = p
    BY <1>8, ReachedAre
  <2>2. JoinsSlots(links[k])
    BY <1>3, <1>8, <2>1, EdgesJoinSlots
  <2> QED
    BY <2>1, <2>2 DEF JoinsSlots, InputPins
<1>11. Sends(metas, new, links, slot + 1, i)
  BY <1>3, <1>6, <1>9, <1>10, SetsPins
<1>12. pipeline' = [version |-> pipeline.version, metas |-> new, ready |-> ready]
  <2>1. pipeline' = [pipeline EXCEPT !.metas = new]
    BY <1>1, <1>2, <1>3, <1>4, <1>7, <1>9 DEF Output, Reached
  <2> QED
    BY <1>3, <2>1
<1>13. Metas' = new /\ pipeline'.ready = ready
  BY <1>12 DEF Metas
<1>14. KeepsMetas(metas, new)
  BY <1>11 DEF Sends, KeepsMetas
<1>15. StaysInPlace
  BY <1>1, <1>2, <1>3, <1>12, <1>13, <1>14 DEF StaysInPlace
<1>16. \A e \in EdgeIds : HasEdge(graph, e) =>
           Origin(e) + 1 \in 1 .. Len(metas) /\ Target(e) + 1 \in 1 .. Len(metas)
  BY <1>2, <1>3, EdgeEnds
<1>17. Runs(new, ready, r)
  BY <1>1, <1>2, <1>3, <1>4, <1>5, <1>8, <1>11, <1>16, OutputRuns
<1> QED
  BY <1>1, <1>2, <1>3, <1>13, <1>15, <1>17, RunningFacts, GoesOnKeeps
-----------------------------------------------------------------------------
LEMMA PipelineIsInductive ==
    ASSUME PipelineInv, [PipelineNext]_pipelineVars
    PROVE  PipelineInv'
<1>1. CASE UNCHANGED pipelineVars
  <2>1. graph' = graph /\ destroying' = destroying /\ pipeline' = pipeline /\ run' = run
    BY <1>1 DEF pipelineVars
  <2>2. StaysInPlace
    BY <2>1, SamePipelineStays
  <2>3. CASE Running
    <3>1. IsFrame(run')
      BY <2>1, <2>3, RunningFacts
    <3>2. CASE run.pc \in {"schedule", "pop", "execute"}
      BY <2>1, <2>2, <2>3, <3>1, <3>2, SameMetas, RunningFacts, GoesOnKeeps
    <3>3. CASE run.pc \in {"reset", "begin"}
      BY <2>1, <2>2, <2>3, <3>1, <3>3, SameMetas, RunningFacts, ResetKeeps
    <3> QED
      BY <2>1, <3>1, <3>2, <3>3 DEF IsFrame
  <2>4. CASE ~Running
    <3>1. RunTyped' /\ ~Running'
      BY <2>1, <2>4, StepsKeepMetas DEF PipelineInv, ShapeInv, RunTyped, Running
    <3> QED
      BY <2>2, <3>1, StepsKeepMetas DEF PipelineInv, ShapeInv, MatchInv, RunInv
  <2> QED
    BY <2>3, <2>4
<1>2. CASE InitPipeline
  BY <1>2, NewPipelineKeeps
<1>3. CASE Edit
  BY <1>3, EditKeeps
<1>4. CASE Execute
  BY <1>4, ExecuteKeeps
<1>5. CASE Callback
  BY <1>5, SpoilKeeps, OutputKeeps DEF Callback
<1>6. CASE Proceed
  BY <1>6, ResetNodeKeeps, BegunNodeKeeps, BegunAllKeeps, ScheduleNodeKeeps, EndNodeKeeps, BeginNodeKeeps,
     ExecutedNodeKeeps, FinishKeeps DEF Proceed
<1> QED
  BY <1>1, <1>2, <1>3, <1>4, <1>5, <1>6 DEF PipelineNext

LEMMA PipelineAlways == PipelineSpec => []PipelineInv
BY PipelineBegins, PipelineIsInductive, PTL DEF PipelineSpec

-----------------------------------------------------------------------------
(* transfer never hands a node data of another type: a meta that has the   *)
(* id and version of a node was made for that node, since versions only    *)
(* grow and a node gets the greatest.                                      *)
THEOREM PipelineTransferKeepsTypes == PipelineSpec => []TransferKeepsTypes
<1>1. PipelineInv => TransferKeepsTypes
  BY DEF PipelineInv, DataInv, AllRemember, Remembers, TransferKeepsTypes, NumNodes
<1> QED
  BY <1>1, PipelineAlways, PTL

(* An execution that passes the comparison of versions finds in each slot  *)
(* the node its meta was made for, and every edge leads to one of them.    *)
THEOREM PipelineMetasMatchTheGraph == PipelineSpec => []MetasMatchTheGraph
<1>1. PipelineInv => MetasMatchTheGraph
  <2> SUFFICES ASSUME PipelineInv, Running PROVE MetasMatchTheGraph
    BY DEF MetasMatchTheGraph
  <2>1. Matches /\ IsLinked(graph) /\ NumNodes \in Nat
    BY RunningFacts
  <2>2. \A e \in LiveEdges : Target(e) \in 0 .. NumNodes - 1
    <3> SUFFICES ASSUME NEW e \in LiveEdges PROVE Target(e) \in 0 .. NumNodes - 1
      OBVIOUS
    <3>1. HasEdge(graph, e)
      BY <2>1, SeenIds DEF IsLinked, LiveEdges
    <3> QED
      BY <2>1, <3>1, EdgesJoinSlots DEF JoinsSlots, Slots
  <2> QED
    BY <2>1, <2>2 DEF Matches, MetasMatchTheGraph
<1> QED
  BY <1>1, PipelineAlways, PTL

(* The ready stack holds the scheduled nodes, each once.                   *)
THEOREM PipelineReadyNodesAreScheduled == PipelineSpec => []ReadyNodesAreScheduled
<1>1. PipelineInv => ReadyNodesAreScheduled
  <2> SUFFICES ASSUME PipelineInv, Begun, Running PROVE ReadyNodesAreScheduled
    BY DEF ReadyNodesAreScheduled, Begun, Running
  <2>1. PICK metas, ready, r : metas = Metas /\ ready = pipeline.ready /\ r = run
    OBVIOUS
  <2>2. /\ Stacked(metas, ready, r) /\ ready \in Seq(Slots) /\ IsFrame(r)
        /\ NumNodes \in Nat /\ NumNodes = Len(metas)
    BY <2>1, RunningFacts DEF Runs
  <2>3. IsInjective(ready)
    BY <2>2 DEF Stacked, IsInjective
  <2>4. PICK executing : executing = IF r.pc = "execute" THEN {r.slot} ELSE {}
    OBVIOUS
  <2>5. PICK scheduled : scheduled = {slot \in 0 .. NumNodes - 1 : metas[slot + 1].state = "scheduled"}
    OBVIOUS
  <2>6. Range(ready) = {ready[i] : i \in 1 .. Len(ready)}
    BY <2>2 DEF Range
  <2>7. Range(ready) \subseteq scheduled
    BY <2>2, <2>5, <2>6, SMTT(30) DEF Stacked, Slots
  <2>8. executing \subseteq scheduled
    BY <2>2, <2>4, <2>5 DEF Stacked, IsFrame, Slots
  <2>9. ASSUME NEW slot \in scheduled PROVE slot \in Range(ready) \union executing
    <3>1. PICK m : m = slot + 1
      OBVIOUS
    <3>2. m \in 1 .. Len(metas) /\ m - 1 = slot /\ metas[m].state = "scheduled"
      BY <2>2, <2>5, <3>1
    <3>3. CASE r.pc = "execute" /\ m = r.slot + 1
      <4>1. r.slot = slot
        BY <2>2, <3>2, <3>3 DEF IsFrame
      <4> QED
        BY <2>4, <3>3, <4>1
    <3>4. CASE \E i \in 1 .. Len(ready) : ready[i] = m - 1
      BY <2>6, <3>2, <3>4
    <3> QED
      BY <2>2, <3>2, <3>3, <3>4 DEF Stacked
  <2>10. Range(ready) \union executing = scheduled
    BY <2>7, <2>8, <2>9
  <2> QED
    BY <2>1, <2>3, <2>4, <2>5, <2>10 DEF ReadyNodesAreScheduled
<1> QED
  BY <1>1, PipelineAlways, PTL

(* The edge of an input, and that no other leads to it.                    *)
LEMMA InputSource ==
    ASSUME IsLinked(graph), Matches, NumNodes \in Nat, NEW m \in 1 .. NumNodes,
           NEW p \in InputPins(Metas[m].id),
           NEW e, e = Node(graph, Metas[m].id).input[p]
    PROVE  /\ HasEdge(graph, e) =>
                 /\ e \in EdgeIds /\ Target(e) = m - 1 /\ ToPin(e) = p
                 /\ Source(Metas[m], p) = Origin(e) /\ IsValid(Source(Metas[m], p))
           /\ ~HasEdge(graph, e) => ~IsValid(Source(Metas[m], p))
           /\ \A f \in EdgeIds : HasEdge(graph, f) /\ Target(f) = m - 1 /\ ToPin(f) = p => f = e
<1>1. PICK n : n = Metas[m].id
  OBVIOUS
<1>2. HasNode(graph, n) /\ NodeSlot(graph, n) = m - 1
  BY <1>1, MetaNodes DEF IsLinked
<1>3. n \in Indices(MaxNodes) /\ n \in Nat /\ p \in Inputs(graph, n)
  <2>1. n \in Indices(MaxNodes)
    BY <1>2, NodeInSlot DEF IsLinked
  <2>2. p \in Inputs(graph, n)
    BY <1>1 DEF InputPins, Inputs
  <2> QED
    BY <2>1, <2>2, GraphAssumption DEF Indices
<1>4. InputFits(graph, n, p) /\ e = Node(graph, n).input[p]
  BY <1>1, <1>2, <1>3 DEF IsLinked, InputsFit
<1>5. ASSUME HasEdge(graph, e)
      PROVE  /\ e \in EdgeIds /\ Target(e) = m - 1 /\ ToPin(e) = p
             /\ Source(Metas[m], p) = Origin(e) /\ IsValid(Source(Metas[m], p))
  <2>1. e \in EdgeIds /\ IsValid(e)
    <3>1. e \in EdgeIds /\ MaxEdges \in Nat
      BY <1>5, EdgeInSlot, MaxEdgesIsNat DEF IsLinked
    <3> QED
      BY <3>1 DEF EdgeIds, Indices, IsValid
  <2>2. Edge(graph, e).to = PinId(n, p, FALSE)
    BY <1>4, <2>1 DEF InputFits
  <2>3. p \in 0 .. 16
    <3>1. PICK type \in NodeTypes : type = Node(graph, n).type
      BY <1>2, NodeInSlot DEF IsLinked, IsNode
    <3>2. NumInputs(type) \in 0 .. 16
      BY PinCounts DEF MaxPins
    <3>3. p \in 0 .. NumInputs(type) - 1
      BY <1>3, <3>1 DEF Inputs
    <3> QED
      BY <3>2, <3>3
  <2>4. PinNode(PinId(n, p, FALSE)) = n /\ PinIndex(PinId(n, p, FALSE)) = p
    BY <1>3, <2>3, PinDecodes
  <2>5. Target(e) = m - 1 /\ ToPin(e) = p
    BY <1>2, <2>2, <2>4 DEF Target, ToPin
  <2>6. Source(Metas[m], p) = Origin(e)
    BY <1>5 DEF Source, Origin
  <2>7. Origin(e) \in Slots
    BY <1>5, EdgesJoinSlots DEF JoinsSlots
  <2> QED
    BY <2>1, <2>5, <2>6, <2>7 DEF Slots, IsValid
<1>6. ASSUME ~HasEdge(graph, e) PROVE ~IsValid(Source(Metas[m], p))
  BY <1>6 DEF Source, IsValid, Invalid
<1>7. ASSUME NEW f \in EdgeIds, HasEdge(graph, f), Target(f) = m - 1, ToPin(f) = p
      PROVE  f = e
  <2>1. PICK t : t = Target(f) + 1
    OBVIOUS
  <2>2. t = m
    BY <1>7, <2>1
  <2>3. Node(graph, Metas[t].id).input[ToPin(f)] = f
    BY <1>7, <2>1, EdgesJoinSlots DEF JoinsSlots
  <2> QED
    BY <1>7, <2>2, <2>3
<1> QED
  BY <1>5, <1>6, <1>7

(* An input has a value exactly when the output at the other end of its    *)
(* edge has been sent: the two bit sets of pipeline.c agree.               *)
THEOREM PipelineReceivedIsSent == PipelineSpec => []ReceivedIsSent
<1>1. PipelineInv => ReceivedIsSent
  <2> SUFFICES ASSUME PipelineInv, Begun, Running,
                      NEW m \in 1 .. NumNodes, NEW p \in InputPins(Metas[m].id)
               PROVE  p \in Metas[m].received
                          <=> /\ IsValid(Source(Metas[m], p))
                              /\ PinIndex(Edge(graph, Node(graph, Metas[m].id).input[p]).from)
                                     \in Metas[Source(Metas[m], p) + 1].sent
    BY DEF ReceivedIsSent, Begun, Running
  <2>1. /\ Matches /\ IsLinked(graph) /\ NumNodes \in Nat /\ NumNodes = Len(Metas)
        /\ Flows(Metas) /\ ReceivesByEdges(Metas)
    BY RunningFacts DEF Runs
  <2>2. PICK e : e = Node(graph, Metas[m].id).input[p]
    OBVIOUS
  <2>3. CASE HasEdge(graph, e)
    <3>1. /\ e \in EdgeIds /\ Target(e) = m - 1 /\ ToPin(e) = p
          /\ Source(Metas[m], p) = Origin(e) /\ IsValid(Source(Metas[m], p))
      BY <2>1, <2>2, <2>3, InputSource, SMTT(30)
    <3>2. PICK t : t = Target(e) + 1
      OBVIOUS
    <3>3. t = m
      BY <2>1, <3>1, <3>2
    <3>4. ToPin(e) \in Metas[t].received <=> FromPin(e) \in Metas[Origin(e) + 1].sent
      BY <2>1, <2>3, <3>1, <3>2 DEF Flows
    <3>5. PICK sent : sent = Metas[Source(Metas[m], p) + 1].sent
      OBVIOUS
    <3>6. PICK pin : pin = PinIndex(Edge(graph, Node(graph, Metas[m].id).input[p]).from)
      OBVIOUS
    <3>7. FromPin(e) = pin
      BY <2>2, <3>6, Zenon DEF FromPin
    <3>8. p \in Metas[m].received <=> pin \in sent
      BY <3>1, <3>3, <3>4, <3>5, <3>7
    <3>9. IsValid(Source(Metas[m], p))
      BY <3>1
    <3> QED
      BY <3>5, <3>6, <3>8, <3>9
  <2>4. CASE ~HasEdge(graph, e)
    <3>1. ~IsValid(Source(Metas[m], p))
      BY <2>1, <2>2, <2>4, InputSource, ZenonT(60)
    <3>2. p \notin Metas[m].received
      <4> SUFFICES ASSUME p \in Metas[m].received PROVE FALSE
        OBVIOUS
      <4>1. PICK f \in EdgeIds : HasEdge(graph, f) /\ Target(f) = m - 1 /\ ToPin(f) = p
        BY <2>1 DEF ReceivesByEdges
      <4> QED
        BY <2>1, <2>2, <2>4, <4>1, InputSource, SMTT(30)
    <3> QED
      BY <3>1, <3>2
  <2> QED
    BY <2>3, <2>4
<1> QED
  BY <1>1, PipelineAlways, PTL

(* A node runs only after all that its required inputs are connected to    *)
(* have returned, whatever cycles and optional pins the graph has.         *)
THEOREM PipelineProducersRunFirst == PipelineSpec => []ProducersRunFirst
<1>1. PipelineInv => ProducersRunFirst
  <2> SUFFICES ASSUME PipelineInv, Begun, Running, NEW m \in 1 .. NumNodes,
                      NEW p \in RequiredInputs[Metas[m].type], Metas[m].state # "waiting"
               PROVE  /\ IsValid(Source(Metas[m], p))
                      /\ Metas[Source(Metas[m], p) + 1].state = "executed"
    BY DEF ProducersRunFirst, Begun, Running
  <2>1. /\ Matches /\ IsLinked(graph) /\ NumNodes \in Nat /\ NumNodes = Len(Metas)
        /\ LeavesWhenReady(Metas) /\ ReceivesByEdges(Metas) /\ Ordered(Metas)
    BY RunningFacts DEF Runs
  <2>2. p \in Metas[m].received
    BY <2>1 DEF LeavesWhenReady, IsReady
  <2>3. PICK f \in EdgeIds : HasEdge(graph, f) /\ Target(f) = m - 1 /\ ToPin(f) = p
    BY <2>1, <2>2 DEF ReceivesByEdges
  <2>4. PICK t : t = Target(f) + 1
    OBVIOUS
  <2>5. t = m
    BY <2>1, <2>3, <2>4
  <2>6. p \in InputPins(Metas[m].id) /\ Node(graph, Metas[m].id).input[p] = f
    BY <2>1, <2>3, <2>4, <2>5, EdgesJoinSlots DEF JoinsSlots
  <2>7. Source(Metas[m], p) = Origin(f) /\ IsValid(Source(Metas[m], p))
    BY <2>1, <2>3, <2>6, InputSource
  <2>8. Metas[Origin(f) + 1].state = "executed"
    BY <2>1, <2>3, <2>4, <2>5 DEF Ordered
  <2> QED
    BY <2>7, <2>8
<1> QED
  BY <1>1, PipelineAlways, PTL

(* An execution that takes the next node, or that finds none and finishes, *)
(* leaves no node behind that could have been scheduled.                   *)
THEOREM PipelineForgetsNoNode == PipelineSpec => []NoNodeIsForgotten
<1>1. PipelineInv => NoNodeIsForgotten
  <2> SUFFICES ASSUME PipelineInv, run.pc = "pop", NEW m \in 1 .. NumNodes, IsReady(Metas[m])
               PROVE  Metas[m].state # "waiting"
    BY DEF NoNodeIsForgotten
  <2>1. Running
    BY DEF Running
  <2>2. Looked(Metas, run) /\ NumNodes = Len(Metas)
    BY <2>1, RunningFacts DEF Runs
  <2> QED
    BY <2>2 DEF Looked
<1> QED
  BY <1>1, PipelineAlways, PTL

-----------------------------------------------------------------------------
(* The memory of the callbacks, module ScratchZone: blocks never overlap,  *)
(* whatever the zone, the alignment and the sizes.  That two blocks are    *)
(* apart is not inductive: an allocation compares pointers, never blocks.  *)
(* Frontiers says how the pointers bound the blocks: those of a step lie   *)
(* below the one pointer, those of the execution above the other, and the  *)
(* pointers do not cross.                                                  *)
Frontiers ==
    /\ step_alloc_ptr <= execution_alloc_ptr
    /\ \A b \in blocks : IF b.lifetime = "step"
                         THEN End(b) <= step_alloc_ptr
                         ELSE execution_alloc_ptr <= b.first

ZoneInv == ZoneTypeOK /\ Frontiers /\ BlocksAreApart

(* Rounding moves an address in its direction only.                        *)
LEMMA Rounding ==
    ASSUME NEW address \in Int
    PROVE  /\ AlignUp(address) \in Int /\ address <= AlignUp(address)
           /\ AlignDown(address) \in Int /\ AlignDown(address) <= address
<1>1. address % Align \in Nat /\ (-address) % Align \in Nat
  BY ZoneAssumption
<1> QED
  BY <1>1 DEF AlignUp, AlignDown

(* A block begins and ends at integers, and where its lifetime puts it.    *)
LEMMA BlockBounds ==
    ASSUME ZoneInv, NEW b \in blocks
    PROVE  /\ b.first \in Nat /\ b.size \in Nat /\ End(b) \in Nat /\ b.first <= End(b)
           /\ b.lifetime = "step" => End(b) <= step_alloc_ptr
           /\ b.lifetime # "step" => execution_alloc_ptr <= b.first
<1>1. b \in [lifetime : {"step", "execution"}, first : 0 .. ZoneSize, size : Sizes]
  BY DEF ZoneInv, ZoneTypeOK
<1>2. b.first \in Nat /\ b.size \in Nat
  <2>1. b.first \in 0 .. ZoneSize /\ b.size \in Sizes
    BY <1>1
  <2>2. b.first \in Nat
    BY <2>1
  <2>3. b.size \in Nat
    BY <2>1, ZoneAssumption, Zenon
  <2> QED
    BY <2>2, <2>3
<1>3. End(b) \in Nat /\ b.first <= End(b)
  BY <1>2 DEF End
<1> QED
  BY <1>2, <1>3 DEF ZoneInv, Frontiers

LEMMA InitZone == ZoneInit => ZoneInv
  BY ZoneAssumption DEF ZoneInit, ZoneInv, ZoneTypeOK, Frontiers, BlocksAreApart

(* A step block goes between the two pointers: above every step block and  *)
(* below every execution block.                                            *)
LEMMA StepKeepsZone ==
    ASSUME ZoneInv, NEW size \in Sizes, AllocateStep(size)
    PROVE  ZoneInv'
<1> DEFINE result == AlignUp(step_alloc_ptr)
           new    == Block("step", result, size)
<1>1. size \in Nat /\ ZoneSize \in Nat
  BY ZoneAssumption
<1>2. step_alloc_ptr \in 0 .. ZoneSize /\ execution_alloc_ptr \in 0 .. ZoneSize
  BY DEF ZoneInv, ZoneTypeOK
<1>3. result \in Int /\ step_alloc_ptr <= result
  BY <1>1, <1>2, Rounding
<1> HIDE DEF result
<1>4. CASE result + size <= execution_alloc_ptr
  <2>1. /\ step_alloc_ptr' = result + size
        /\ blocks' = blocks \union {new}
        /\ UNCHANGED <<execution_alloc_ptr, status, phase>>
    BY <1>4 DEF AllocateStep, result
  <2>2. new.lifetime = "step" /\ new.first = result /\ new.size = size
    BY DEF Block
  <2>3. End(new) = result + size
    BY <2>2 DEF End
  <2>4. ZoneTypeOK'
    BY <1>1, <1>2, <1>3, <1>4, <2>1 DEF ZoneInv, ZoneTypeOK, Block
  <2>5. Frontiers'
    <3>1. \A b \in blocks : b.lifetime = "step" => End(b) <= step_alloc_ptr'
      BY <1>1, <1>2, <1>3, <2>1, BlockBounds
    <3> QED
      BY <1>4, <2>1, <2>2, <2>3, <3>1 DEF ZoneInv, Frontiers
  <2>6. BlocksAreApart'
    <3>1. \A b \in blocks : End(b) <= result \/ End(new) <= b.first
      <4> TAKE b \in blocks
      <4> QED
        BY <1>1, <1>2, <1>3, <1>4, <2>3, BlockBounds
    <3>2. 0 <= new.first /\ End(new) <= ZoneSize
      BY <1>1, <1>2, <1>3, <1>4, <2>2, <2>3
    <3> QED
      BY <2>1, <2>2, <3>1, <3>2 DEF ZoneInv, BlocksAreApart
  <2> QED
    BY <2>4, <2>5, <2>6 DEF ZoneInv
<1>5. CASE ~(result + size <= execution_alloc_ptr)
  BY <1>5 DEF AllocateStep, result, ZoneInv, ZoneTypeOK, Frontiers, BlocksAreApart
<1> QED
  BY <1>4, <1>5

(* The mirror image for a block of the execution. *)
LEMMA ExecutionKeepsZone ==
    ASSUME ZoneInv, NEW size \in Sizes, AllocateExecution(size)
    PROVE  ZoneInv'
<1> DEFINE result == AlignDown(execution_alloc_ptr - size)
           new    == Block("execution", result, size)
<1>1. size \in Nat /\ ZoneSize \in Nat
  BY ZoneAssumption
<1>2. step_alloc_ptr \in 0 .. ZoneSize /\ execution_alloc_ptr \in 0 .. ZoneSize
  BY DEF ZoneInv, ZoneTypeOK
<1>3. result \in Int /\ result + size <= execution_alloc_ptr
  BY <1>1, <1>2, Rounding
<1> HIDE DEF result
<1>4. CASE step_alloc_ptr <= result
  <2>1. /\ execution_alloc_ptr' = result
        /\ blocks' = blocks \union {new}
        /\ UNCHANGED <<step_alloc_ptr, status, phase>>
    BY <1>4 DEF AllocateExecution, result
  <2>2. new.lifetime = "execution" /\ new.first = result /\ new.size = size
    BY DEF Block
  <2>3. End(new) = result + size
    BY <2>2 DEF End
  <2>4. ZoneTypeOK'
    BY <1>1, <1>2, <1>3, <1>4, <2>1 DEF ZoneInv, ZoneTypeOK, Block
  <2>5. Frontiers'
    <3>1. \A b \in blocks : b.lifetime # "step" => result <= b.first
      BY <1>1, <1>2, <1>3, BlockBounds
    <3>2. \A b \in blocks : b.lifetime = "step" => End(b) <= step_alloc_ptr
      BY BlockBounds
    <3>3. \A b \in blocks' : b = new \/ b \in blocks
      BY <2>1
    <3>4. step_alloc_ptr' <= execution_alloc_ptr'
      BY <1>4, <2>1
    <3>5. ASSUME NEW b \in blocks'
          PROVE  IF b.lifetime = "step" THEN (End(b) <= step_alloc_ptr)'
                                        ELSE (execution_alloc_ptr <= b.first)'
      BY <1>3, <2>1, <2>2, <3>1, <3>2, <3>3 DEF End
    <3> QED
      BY <3>4, <3>5 DEF Frontiers, End
  <2>6. BlocksAreApart'
    <3>1. \A b \in blocks : End(b) <= result \/ End(new) <= b.first
      <4> TAKE b \in blocks
      <4> QED
        BY <1>1, <1>2, <1>3, <1>4, <2>3, BlockBounds
    <3>2. 0 <= new.first /\ End(new) <= ZoneSize
      BY <1>1, <1>2, <1>3, <1>4, <2>2, <2>3
    <3> QED
      BY <2>1, <2>2, <3>1, <3>2 DEF ZoneInv, BlocksAreApart
  <2> QED
    BY <2>4, <2>5, <2>6 DEF ZoneInv
<1>5. CASE ~(step_alloc_ptr <= result)
  BY <1>5 DEF AllocateExecution, result, ZoneInv, ZoneTypeOK, Frontiers, BlocksAreApart
<1> QED
  BY <1>4, <1>5

LEMMA EndStepKeepsZone ==
    ASSUME ZoneInv, EndStep
    PROVE  ZoneInv'
<1>1. 0 \in 0 .. ZoneSize /\ 0 <= execution_alloc_ptr
  BY ZoneAssumption DEF ZoneInv, ZoneTypeOK
<1>2. \A b \in blocks' : b \in blocks /\ b.lifetime = "execution"
  BY DEF EndStep
<1> QED
  BY <1>1, <1>2 DEF EndStep, ZoneInv, ZoneTypeOK, Frontiers, BlocksAreApart

LEMMA ZoneIsInductive == ZoneInv /\ [ZoneNext]_zoneVars => ZoneInv'
<1> SUFFICES ASSUME ZoneInv, [ZoneNext]_zoneVars
             PROVE  ZoneInv'
  OBVIOUS
<1>1. ASSUME NEW size \in Sizes, AllocateStep(size)
      PROVE  ZoneInv'
  BY <1>1, StepKeepsZone
<1>2. ASSUME NEW size \in Sizes, AllocateExecution(size)
      PROVE  ZoneInv'
  BY <1>2, ExecutionKeepsZone
<1>3. CASE EndStep
  BY <1>3, EndStepKeepsZone
<1>4. CASE Restart
  BY <1>4, ZoneAssumption DEF Restart, ZoneInv, ZoneTypeOK, Frontiers, BlocksAreApart
<1>5. CASE UNCHANGED zoneVars
  BY <1>5 DEF zoneVars, ZoneInv, ZoneTypeOK, Frontiers, BlocksAreApart
<1> QED
  BY <1>1, <1>2, <1>3, <1>4, <1>5 DEF ZoneNext

(* No two live blocks overlap and none leaves the zone, for every size of  *)
(* the zone, every alignment and all sizes that callbacks ask              *)
(* hgraph_pipeline_node_allocate for.                                      *)
THEOREM ZoneIsSafe == ZoneSpec => [](ZoneTypeOK /\ BlocksAreApart)
<1>1. ZoneInv => ZoneTypeOK /\ BlocksAreApart
  BY DEF ZoneInv
<1> QED
  BY InitZone, ZoneIsInductive, <1>1, PTL DEF ZoneSpec
=============================================================================
