----------------------------- MODULE Migration -----------------------------
(***************************************************************************)
(* hgraph/src/migration.c: the graph of one registry is copied into an     *)
(* empty graph of another, as the editor does with every document when a   *)
(* plugin is reloaded.  Types and pins are matched by name.  The source is *)
(* any graph that Graph can reach, so that its ids and slots are shuffled. *)
(***************************************************************************)
EXTENDS Graph, SequencesExt

CONSTANTS Registry,                       \* the old node types in registry order
          InputNames, OutputNames,        \* the names of their pins
          NewRegistry, NewNodeTypes,      \* the same for the new registry, whose
          NewInputTypes, NewOutputTypes,  \* node types include Dummy
          NewInputNames, NewOutputNames,
          Dummy                           \* hgraph_dummy_node: it has no pins

(* A pin has a name and a data type, and the new types are within the      *)
(* limits of the registry, as GraphAssumption has it of the old ones.      *)
ASSUME MigrationAssumption ==
    /\ NewInputTypes \in [NewNodeTypes -> Seq(DataTypes)]
    /\ NewOutputTypes \in [NewNodeTypes -> Seq(DataTypes)]
    /\ NewRegistry \in Seq(NewNodeTypes)
    /\ \A t \in NewNodeTypes :
          /\ Len(NewInputTypes[t]) <= MaxPins /\ Len(NewOutputTypes[t]) <= MaxPins
          /\ DOMAIN NewInputNames[t] = DOMAIN NewInputTypes[t]
          /\ DOMAIN NewOutputNames[t] = DOMAIN NewOutputTypes[t]
    /\ Dummy \in NewNodeTypes
    /\ NewInputTypes[Dummy] = <<>> /\ NewOutputTypes[Dummy] = <<>>

VARIABLES target,           \* the new graph
          asserts           \* whether the assertions held on the way

migrationVars == <<vars, target, asserts>>

New == INSTANCE GraphOps
    WITH NodeTypes <- NewNodeTypes,
         InputTypes <- NewInputTypes, OutputTypes <- NewOutputTypes

-----------------------------------------------------------------------------
(* hgraph_migration_init.  The inner loop compares the old type with the   *)
(* new type at the OLD type's index, whatever the loop's own index is.  If *)
(* the new registry is shorter it reads beyond its types: what lies there  *)
(* has no name that a type could have, and is taken for a mismatch.        *)
IndexOf(type) == CHOOSE i \in DOMAIN Registry : Registry[i] = type

NewType(type) ==
    LET i == IndexOf(type)
    IN  IF i \in DOMAIN NewRegistry /\ NewRegistry[i] = type
        THEN NewRegistry[i]
        ELSE Dummy

(* hgraph_create_var_plans: a pin survives if the first new pin of its     *)
(* name has its data type.                                                 *)
NewIndex(name, dataType, newNames, newTypes) ==
    LET named == {j \in DOMAIN newNames : newNames[j] = name}
        first == CHOOSE j \in named : \A k \in named : j <= k
    IN  IF named # {} /\ newTypes[first] = dataType THEN first - 1 ELSE Invalid

NewInput(type, index) ==
    NewIndex(InputNames[type][index + 1], InputTypes[type][index + 1],
             NewInputNames[NewType(type)], NewInputTypes[NewType(type)])

NewOutput(type, index) ==
    NewIndex(OutputNames[type][index + 1], OutputTypes[type][index + 1],
             NewOutputNames[NewType(type)], NewOutputTypes[NewType(type)])

-----------------------------------------------------------------------------
(* hgraph_migration_execute works on the target and on the conjunction of  *)
(* the assertions it has met: its loops are folds over the old slots.      *)
Slots(m) == [k \in 1 .. m.num_items |-> k - 1]

(* Mutant: a new item keeps the id it happened to get. *)
RemapNothing(m, new, old) == m

(* Mutant: the id is swapped even if it is right already. *)
RemapAlwaysAsserts(m, new, old) == SwapIdAsserts(m, new, old)

Remap(m, new, old) == IF new = old THEN m ELSE SwapId(m, new, old)
RemapAsserts(m, new, old) == new = old \/ SwapIdAsserts(m, new, old)

MigrateNode(state, slot) ==
    LET old     == IdForSlot(graph.node_slot_map, slot)
        new     == AllocatedId(state.graph.node_slot_map)
        created == New!CreateNode(state.graph, NewType(graph.nodes[slot].type))
    IN  [graph   |-> [created EXCEPT !.node_slot_map = Remap(@, new, old)],
         asserts |-> state.asserts /\ RemapAsserts(created.node_slot_map, new, old)]

MigrateEdge(state, slot) ==
    LET edge == graph.edges[slot]
        old  == IdForSlot(graph.edge_slot_map, slot)
        out  == NewOutput(Node(graph, PinNode(edge.from)).type, PinIndex(edge.from))
        in   == NewInput(Node(graph, PinNode(edge.to)).type, PinIndex(edge.to))
        from == PinId(PinNode(edge.from), out, TRUE)
        to   == PinId(PinNode(edge.to), in, FALSE)
        new  == New!ConnectResult(state.graph, from, to)
        made == New!Connect(state.graph, from, to)
    IN  IF ~IsValid(out) \/ ~IsValid(in) THEN state
        ELSE IF ~IsValid(new) \/ ~RemapAsserts(made.edge_slot_map, new, old)
        THEN [state EXCEPT !.asserts = FALSE]
        ELSE [state EXCEPT !.graph = [made EXCEPT !.edge_slot_map = Remap(@, new, old)]]

(* A dummy node has no pins, so that hgraph_destroy_node only frees it;    *)
(* the last node takes its slot and is looked at next.                     *)
DropDummy(state, step) ==
    IF state.graph.nodes[state.slot].type = Dummy
    THEN [state EXCEPT !.graph = New!FreeNode(@, IdForSlot(@.node_slot_map, state.slot))]
    ELSE [state EXCEPT !.slot = @ + 1]

Migrate ==
    LET start == [graph |-> New!EmptyGraph, asserts |-> TRUE]
        nodes == FoldLeft(MigrateNode, start, Slots(graph.node_slot_map))
        edges == FoldLeft(MigrateEdge, nodes, Slots(graph.edge_slot_map))
        done  == FoldLeft(DropDummy, [graph |-> edges.graph, slot |-> 0],
                          Slots(edges.graph.node_slot_map))
    IN  /\ destroying = Idle /\ target = NoNode
        /\ target' = done.graph
        /\ asserts' = edges.asserts
        /\ UNCHANGED vars

MigrationInit == Init /\ target = NoNode /\ asserts = TRUE

MigrationNext ==
    \/ target = NoNode /\ Next /\ UNCHANGED <<target, asserts>>
    \/ Migrate

MigrationSpec == MigrationInit /\ [][MigrationNext]_migrationVars

-----------------------------------------------------------------------------
Migrated == target # NoNode
KeptNodes == {n \in LiveNodes : NewType(Node(graph, n).type) # Dummy}
KeptEdges == {e \in LiveEdges :
                 LET edge == Edge(graph, e)
                 IN  /\ NewOutput(Node(graph, PinNode(edge.from)).type, PinIndex(edge.from)) >= 0
                     /\ NewInput(Node(graph, PinNode(edge.to)).type, PinIndex(edge.to)) >= 0}

(* hgraph_init sizes the edge table by the widest node type: with fewer    *)
(* inputs in the new registry an old id may lie beyond the new table.      *)
IdsFit == \A e \in KeptEdges : e < New!MaxEdges

(* Migration can tell two inputs of a node apart by name and data type     *)
(* only, and nothing in registry.c asks that they differ.                  *)
InputsDiffer ==
    \A t \in NodeTypes : \A i, j \in DOMAIN InputTypes[t] :
        InputNames[t][i] = InputNames[t][j] /\ InputTypes[t][i] = InputTypes[t][j] => i = j

CanSurvive == IdsFit /\ InputsDiffer

(* The assertions of hgraph_slot_map_swap_id, which compares an id with    *)
(* num_items, and the assertion that every surviving edge can be connected *)
(* again hold in every migration to a table that has the old ids, of types *)
(* whose inputs differ.                                                    *)
MigrationAsserts == CanSurvive => asserts

(* The nodes whose types survive and the edges whose two pins survive, and *)
(* no others, are in the new graph, under the ids they had and the edges   *)
(* between the same nodes, however the old graph shuffled ids and slots.   *)
SurvivorsKeepIds ==
    Migrated /\ CanSurvive =>
        /\ LiveIds(target.node_slot_map) = KeptNodes
        /\ \A n \in KeptNodes : Node(target, n).type = NewType(Node(graph, n).type)
        /\ LiveIds(target.edge_slot_map) = KeptEdges
        /\ \A e \in KeptEdges :
              /\ PinNode(Edge(target, e).from) = PinNode(Edge(graph, e).from)
              /\ PinNode(Edge(target, e).to) = PinNode(Edge(graph, e).to)

(* A node whose type the new registry has, under the same name, is not     *)
(* turned into a dummy: "Find the new type, default to dummy".             *)
KnownTypesSurvive ==
    Migrated =>
        \A n \in LiveNodes :
            Node(graph, n).type \in {NewRegistry[j] : j \in DOMAIN NewRegistry} =>
                HasNode(target, n)

(* "The id must be identical": an input pin of the new graph holds the id  *)
(* of the edge that ends in it.                                            *)
InputPinsHoldTheirEdges ==
    Migrated =>
        \A e \in LiveIds(target.edge_slot_map) :
            LET to == Edge(target, e).to
            IN  Node(target, PinNode(to)).input[PinIndex(to)] = e
=============================================================================
