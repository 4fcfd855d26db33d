----------------------------- MODULE GraphShape -----------------------------
(***************************************************************************)
(* What a graph looks like that the calls of graph.c have made: its slots  *)
(* hold items, every edge is the one its input pin has, and the edges of   *)
(* an output pin form its list.  Pipeline assumes it of the graphs it      *)
(* begins with; that every call keeps it is proved in GraphProofs.         *)
(***************************************************************************)
EXTENDS Graph

LinkIds == EdgeIds \union {Invalid}

IsNode(r) ==
    /\ r.type \in NodeTypes
    /\ r = [type |-> r.type, input |-> r.input, output |-> r.output]
    /\ r.input \in [0 .. NumInputs(r.type) - 1 -> LinkIds]
    /\ r.output \in [0 .. NumOutputs(r.type) - 1 -> [prev : LinkIds, next : LinkIds]]

EdgeType == [from : Pins, to : Pins, prev : LinkIds, next : LinkIds]

(* Every slot in use holds an item: what lies beyond is never read.        *)
IsGraph(g) ==
    /\ g = [version |-> g.version, node_slot_map |-> g.node_slot_map,
            node_versions |-> g.node_versions, nodes |-> g.nodes,
            edge_slot_map |-> g.edge_slot_map, edges |-> g.edges]
    /\ IsSlotMap(g.node_slot_map, MaxNodes)
    /\ IsSlotMap(g.edge_slot_map, MaxEdges)
    /\ g.nodes = [s \in Indices(MaxNodes) |-> g.nodes[s]]
    /\ g.edges = [s \in Indices(MaxEdges) |-> g.edges[s]]
    /\ \A s \in Indices(g.node_slot_map.num_items) : IsNode(g.nodes[s])
    /\ \A s \in Indices(g.edge_slot_map.num_items) : g.edges[s] \in EdgeType

(* The versions of the ids lag behind the graph's, which never passes its  *)
(* bound: a destruction that has begun has a version left to spend.        *)
VersionsInRange(g) ==
    /\ g.version \in 0 .. MaxVersion
    /\ g.node_versions \in [Indices(MaxNodes) -> 0 .. g.version]

(* Every edge joins two pins that hgraph_connect accepts, and is the one   *)
(* its input pin has.                                                      *)
EdgeFits(g, e) ==
    LET from == Edge(g, e).from
        to   == Edge(g, e).to
    IN  /\ Directed(from, to)
        /\ JoinsNodes(g, from, to)
        /\ PinsMatch(g, from, to)
        /\ Node(g, PinNode(to)).input[PinIndex(to)] = e

InputFits(g, n, i) ==
    LET e == Node(g, n).input[i] IN
    IsValid(e) => HasEdge(g, e) /\ Edge(g, e).to = PinId(n, i, FALSE)

(* The list of an output pin, from its head: its edges, each once, linked  *)
(* both ways, with an invalid index at either end.                         *)
IsListOf(g, n, i, count, list) ==
    LET pin  == PinId(n, i, TRUE)
        ends == Node(g, n).output[i]
    IN  /\ \A k \in 0 .. count - 1 :
              /\ HasEdge(g, list[k]) /\ Edge(g, list[k]).from = pin
              /\ Edge(g, list[k]).next = IF k = count - 1 THEN Invalid ELSE list[k + 1]
              /\ Edge(g, list[k]).prev = IF k = 0 THEN Invalid ELSE list[k - 1]
        /\ \A j, k \in 0 .. count - 1 : list[j] = list[k] => j = k
        /\ \A e \in EdgeIds : HasEdge(g, e) /\ Edge(g, e).from = pin =>
              \E k \in 0 .. count - 1 : list[k] = e
        /\ ends.next = IF count = 0 THEN Invalid ELSE list[0]
        /\ ends.prev = IF count = 0 THEN Invalid ELSE list[count - 1]

HasList(g, n, i) ==
    \E count \in 0 .. MaxEdges :
        \E list \in [0 .. count - 1 -> EdgeIds] : IsListOf(g, n, i, count, list)

Inputs(g, n) == 0 .. NumInputs(Node(g, n).type) - 1
Outputs(g, n) == 0 .. NumOutputs(Node(g, n).type) - 1

EdgesFit(g) == \A e \in EdgeIds : HasEdge(g, e) => EdgeFits(g, e)
InputsFit(g) == \A n \in Indices(MaxNodes) :
                    HasNode(g, n) => \A i \in Inputs(g, n) : InputFits(g, n, i)
HaveLists(g) == \A n \in Indices(MaxNodes) :
                    HasNode(g, n) => \A i \in Outputs(g, n) : HasList(g, n, i)

IsLinked(g) == IsGraph(g) /\ EdgesFit(g) /\ InputsFit(g) /\ HaveLists(g)
=============================================================================
