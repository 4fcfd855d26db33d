----------------------------- MODULE GraphFile -----------------------------
(***************************************************************************)
(* A document's file: hgraph/src/io.c, and save_graph and load_graph of    *)
(* heditor/src/io.c, which add a position for each node.  A graph of the   *)
(* old registry is written and read again with the new one, as when the    *)
(* plugins have changed in between.  A file refers to nodes by slot and to *)
(* types, attributes and pins by name; the names of nodes, and reads and   *)
(* writes that the file system fails, are left out.                        *)
(***************************************************************************)
EXTENDS Migration, Slip

CONSTANTS AttributeNames, AttributeTypes,           \* of the old node types
          NewAttributeNames, NewAttributeTypes,     \* and of the new ones
          ValueSize,                                \* data type |-> bytes of a value
          Values                                    \* the value of each <<node, name>>

VARIABLES file,         \* what save_graph wrote, after the header
          loaded,       \* the graph load_graph made of it
          attributes,   \* the attributes it read, by node and name
          positions     \* where it put each of its nodes

loadVars == <<loaded, attributes, positions>>
fileVars == <<migrationVars, file, loadVars>>

NoFile == <<>>

SlotsInUse(g) == Slots(g.node_slot_map)

(* hgraph_iterate_nodes: the ids, in the order of the slots.  None of the  *)
(* callbacks given to it removes a node.                                   *)
IterateNodes(g) ==
    [k \in 1 .. g.node_slot_map.num_items |-> IdForSlot(g.node_slot_map, k - 1)]

-----------------------------------------------------------------------------
(* hgraph_write_graph_v1: the nodes and the edges, in the order of their   *)
(* slots.  An attribute is its type and name and a frame with its value.   *)
WrittenNode(slot) ==
    LET type == graph.nodes[slot].type
        id   == IdForSlot(graph.node_slot_map, slot)
        written(j) == <<AttributeTypes[type][j], AttributeNames[type][j]>>
                          \o Framed(Values[id, AttributeNames[type][j]])
    IN  [type           |-> type,
         num_attributes |-> Len(AttributeNames[type]),
         attributes     |-> FlattenSeq([j \in DOMAIN AttributeNames[type] |-> written(j)])]

WrittenEdge(slot) ==
    LET edge == graph.edges[slot]
        from == PinNode(edge.from)
        to   == PinNode(edge.to)
    IN  [from |-> NodeSlot(graph, from),
         out  |-> OutputNames[Node(graph, from).type][PinIndex(edge.from) + 1],
         to   |-> NodeSlot(graph, to),
         in   |-> InputNames[Node(graph, to).type][PinIndex(edge.to) + 1]]

(* Mutant: the positions are written in the order of the ids. *)
WrittenPositionsById == SetToSortSeq(LiveNodes, LAMBDA m, n : m < n)

(* save_node_position; the position is called after its node. *)
WrittenPositions == IterateNodes(graph)

SaveGraph ==
    /\ destroying = Idle /\ target = NoNode
    /\ file' = [nodes |-> [k \in 1 .. graph.node_slot_map.num_items |-> WrittenNode(k - 1)],
                edges |-> [k \in 1 .. graph.edge_slot_map.num_items |-> WrittenEdge(k - 1)],
                positions |-> WrittenPositions]
    /\ UNCHANGED <<migrationVars, loadVars>>

-----------------------------------------------------------------------------
(* hgraph_read_graph_v1: a type the registry does not have makes a dummy,  *)
(* the first pin of a name is taken, an edge that cannot be connected is   *)
(* left out, and so are the dummies when all edges are there.              *)
NamedPin(name, names) ==
    LET named == {j \in DOMAIN names : names[j] = name}
    IN  IF named = {} THEN Invalid ELSE (CHOOSE j \in named : \A k \in named : j <= k) - 1

ReadType(type) == IF \E j \in DOMAIN NewRegistry : NewRegistry[j] = type THEN type ELSE Dummy

(* An attribute is read if the first of its name has its type, and skipped *)
(* if not.  A reader that is not ok ends the load.                         *)
IsKnown(nodeType, type, name) ==
    LET j == NamedPin(name, NewAttributeNames[nodeType])
    IN  IsValid(j) /\ NewAttributeTypes[nodeType][j + 1] = type

ReadAttribute(nodeType, state) ==
    LET type  == state.in[1]
        name  == state.in[2]
        rest  == Tail(Tail(state.in))
        value == SlipEnd(SlipRead(rest, ValueSize[type]))
        skip  == SlipSkip(rest)
    IN  IF ~state.ok THEN state
        ELSE IF IsKnown(nodeType, type, name)
        THEN [in |-> value.in, ok |-> value.ok, values |-> (name :> value.bytes) @@ state.values]
        ELSE [in |-> skip.in, ok |-> skip.ok, values |-> state.values]

ReadAttributes(node) ==
    FoldLeft(LAMBDA state, k : ReadAttribute(ReadType(node.type), state),
             [in |-> node.attributes, ok |-> TRUE, values |-> <<>>],
             [k \in 1 .. node.num_attributes |-> k])

ReadNode(state, node) ==
    LET read == ReadAttributes(node)
    IN  IF ~state.ok THEN state
        ELSE [graph      |-> New!CreateNode(state.graph, ReadType(node.type)),
              attributes |-> Append(state.attributes, read.values),
              ok         |-> read.ok /\ ~IsFull(state.graph.node_slot_map)]

(* An edge of a slot without a node ends the load. *)
ReadEdge(state, edge) ==
    LET g    == state.graph
        used == 0 .. g.node_slot_map.num_items - 1
        out  == NamedPin(edge.out, NewOutputNames[g.nodes[edge.from].type])
        in   == NamedPin(edge.in, NewInputNames[g.nodes[edge.to].type])
    IN  IF ~state.ok THEN state
        ELSE IF ~({edge.from, edge.to} \subseteq used) THEN [state EXCEPT !.ok = FALSE]
        ELSE IF IsValid(out) /\ IsValid(in)
        THEN [state EXCEPT !.graph =
                 New!Connect(g, PinId(IdForSlot(g.node_slot_map, edge.from), out, TRUE),
                                PinId(IdForSlot(g.node_slot_map, edge.to), in, FALSE))]
        ELSE state

ReadGraph ==
    LET start == [graph |-> New!EmptyGraph, attributes |-> <<>>, ok |-> TRUE]
        read  == FoldLeft(ReadEdge, FoldLeft(ReadNode, start, file.nodes), file.edges)
        kept  == FoldLeft(DropDummy, [graph |-> read.graph, slot |-> 0], SlotsInUse(read.graph))
    IN  IF read.ok THEN [read EXCEPT !.graph = kept.graph] ELSE read

(* load_node_position: the positions are dealt to the nodes that are left, *)
(* in the order of their slots.                                            *)
LoadGraph ==
    LET read  == ReadGraph
        ids   == LiveIds(read.graph.node_slot_map)
        order == IterateNodes(read.graph)
    IN  /\ file # NoFile /\ loaded = NoNode
        /\ loaded' = read.graph
        /\ attributes' = [n \in ids |-> read.attributes[n + 1]]
        /\ positions' = IF ~read.ok THEN <<>>
                        ELSE [n \in ids |-> file.positions[CHOOSE k \in DOMAIN order : order[k] = n]]
        /\ UNCHANGED <<migrationVars, file>>

FileInit ==
    /\ MigrationInit
    /\ file = NoFile /\ loaded = NoNode /\ attributes = <<>> /\ positions = <<>>

FileNext ==
    \/ file = NoFile /\ MigrationNext /\ UNCHANGED <<file, loadVars>>
    \/ file = NoFile /\ SaveGraph
    \/ LoadGraph

FileSpec == FileInit /\ [][FileNext]_fileVars

-----------------------------------------------------------------------------
Loaded == loaded # NoNode

(* The k-th node of a file gets the id k - 1. *)
LoadedId(n) == NodeSlot(graph, n)

Known(n) == \E j \in DOMAIN NewRegistry : NewRegistry[j] = Node(graph, n).type

(* The edges of a graph with both pins by name: those of the saved graph   *)
(* that have two such pins in the new registry, of the same data type, and *)
(* those of the loaded one.                                                *)
SavedEdges ==
    {LET edge == Edge(graph, e)
         from == PinNode(edge.from)
         to   == PinNode(edge.to)
     IN  <<LoadedId(from), OutputNames[Node(graph, from).type][PinIndex(edge.from) + 1],
           LoadedId(to), InputNames[Node(graph, to).type][PinIndex(edge.to) + 1]>> : e \in LiveEdges}

StillMatches(out, in, fromType, toType) ==
    \E j \in DOMAIN NewOutputNames[fromType], k \in DOMAIN NewInputNames[toType] :
        /\ NewOutputNames[fromType][j] = out /\ NewInputNames[toType][k] = in
        /\ NewOutputTypes[fromType][j] = NewInputTypes[toType][k]

LoadedEdges ==
    {LET edge == Edge(loaded, e)
         from == PinNode(edge.from)
         to   == PinNode(edge.to)
     IN  <<from, NewOutputNames[Node(loaded, from).type][PinIndex(edge.from) + 1],
           to, NewInputNames[Node(loaded, to).type][PinIndex(edge.to) + 1]>> :
     e \in LiveIds(loaded.edge_slot_map)}

KeptAttributes(type) ==
    {AttributeNames[type][j] : j \in {j \in DOMAIN AttributeNames[type] :
        \E k \in DOMAIN NewAttributeNames[type] :
            /\ NewAttributeNames[type][k] = AttributeNames[type][j]
            /\ NewAttributeTypes[type][k] = AttributeTypes[type][j]}}

(* Loading a saved graph gives its known nodes, their types, and exactly   *)
(* the edges whose two pins still match, however its slots were shuffled:  *)
(* nothing is lost because an input is taken or the edge slots run out,    *)
(* and the dummies that are dropped take nobody else with them.  A node    *)
(* has the value of each attribute that is known by name and type, and of  *)
(* no other, whatever bytes are in it and around it.                       *)
FileKeepsTheGraph ==
    Loaded =>
        LET type == [n \in LiveIds(loaded.node_slot_map) |-> Node(loaded, n).type]
        IN  /\ DOMAIN type = {LoadedId(n) : n \in {m \in LiveNodes : Known(m)}}
            /\ \A n \in LiveNodes : Known(n) =>
                  /\ type[LoadedId(n)] = Node(graph, n).type
                  /\ attributes[LoadedId(n)] =
                        [name \in KeptAttributes(Node(graph, n).type) |-> Values[n, name]]
            /\ LoadedEdges = {edge \in SavedEdges :
                                 /\ {edge[1], edge[3]} \subseteq DOMAIN type
                                 /\ StillMatches(edge[2], edge[4], type[edge[1]], type[edge[3]])}

(* Every node comes back to where it was, if the new registry knows all of *)
(* them.  (A dummy that is dropped leaves its position to another node.)   *)
PositionsFollowNodes ==
    Loaded /\ (\A n \in LiveNodes : Known(n)) =>
        \A n \in LiveNodes : positions[LoadedId(n)] = n
=============================================================================
