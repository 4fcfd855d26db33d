------------------------------- MODULE Graph -------------------------------
(***************************************************************************)
(* One hgraph_t and the calls that change it.  hgraph_create_node,         *)
(* hgraph_connect and hgraph_disconnect are single steps;                  *)
(* hgraph_destroy_node is a loop over hgraph_disconnect whose every        *)
(* iteration is a step, so that its termination and the states between its *)
(* iterations can be spoken of.                                            *)
(***************************************************************************)
EXTENDS GraphOps

CONSTANT MaxVersion       \* bound on the creations and destructions of nodes

ASSUME MaxVersionAssumption == MaxVersion \in Nat

VARIABLES graph,
          destroying      \* the frame of hgraph_destroy_node: its node, and
                          \* the pin it is at, inputs first, then outputs

vars == <<graph, destroying>>

EdgeIds == Indices(MaxEdges)

Idle == [node |-> Invalid, pin |-> 0]

Init == graph = EmptyGraph /\ destroying = Idle

AddNode(type) ==
    /\ destroying = Idle /\ graph.version < MaxVersion
    /\ graph' = CreateNode(graph, type)
    /\ UNCHANGED destroying

(* A call that hgraph_connect rejects changes nothing: a stuttering step.   *)
AddEdge(from, to) ==
    /\ destroying = Idle
    /\ CanConnect(graph, from, to)
    /\ graph' = Connect(graph, from, to)
    /\ UNCHANGED destroying

RemoveEdge(id) ==
    /\ destroying = Idle
    /\ HasEdge(graph, id)
    /\ graph' = Disconnect(graph, id)
    /\ UNCHANGED destroying

(* hgraph_destroy_node returns at once for an unknown id. *)
DestroyNode(id) ==
    /\ destroying = Idle /\ graph.version < MaxVersion
    /\ HasNode(graph, id)
    /\ destroying' = [node |-> id, pin |-> 0]
    /\ UNCHANGED graph

Victim == Node(graph, destroying.node)
NextOutput == destroying.pin - NumInputs(Victim.type)

(* Disconnects the edge of the next input pin, if there is one. *)
DestroyInput ==
    /\ destroying # Idle
    /\ destroying.pin < NumInputs(Victim.type)
    /\ \E edge \in EdgeIds \union {Invalid} :
          /\ edge = Victim.input[destroying.pin]
          /\ graph' = Disconnect(graph, edge)
    /\ destroying' = [destroying EXCEPT !.pin = @ + 1]

(* Mutant: the edge's slot is passed for its id. *)
DestroyOutputBySlot ==
    /\ destroying # Idle
    /\ NextOutput \in 0 .. NumOutputs(Victim.type) - 1
    /\ \E edge \in EdgeIds :
          /\ edge = Victim.output[NextOutput].next
          /\ HasEdge(graph, edge)
          /\ graph' = Disconnect(graph, EdgeSlot(graph, edge))
    /\ UNCHANGED destroying

(* Disconnects the first edge of the output pin, for as long as the list   *)
(* does not lead back to the pin.                                          *)
DestroyOutput ==
    /\ destroying # Idle
    /\ NextOutput \in 0 .. NumOutputs(Victim.type) - 1
    /\ \E edge \in EdgeIds :
          /\ edge = Victim.output[NextOutput].next
          /\ HasEdge(graph, edge)
          /\ graph' = Disconnect(graph, edge)
    /\ UNCHANGED destroying

LeaveOutput ==
    /\ destroying # Idle
    /\ NextOutput \in 0 .. NumOutputs(Victim.type) - 1
    /\ ~HasEdge(graph, Victim.output[NextOutput].next)
    /\ destroying' = [destroying EXCEPT !.pin = @ + 1]
    /\ UNCHANGED graph

FinishDestroy ==
    /\ destroying # Idle
    /\ NextOutput = NumOutputs(Victim.type)
    /\ graph' = FreeNode(graph, destroying.node)
    /\ destroying' = Idle

DestroyStep == DestroyInput \/ DestroyOutput \/ LeaveOutput \/ FinishDestroy

(* The pin ids a caller can hold: those of any node, whether it exists     *)
(* still or not, with the index of an input or an output of some type, or  *)
(* one that is too large by one.                                           *)
PinIndexes == UNION {0 .. NumInputs(t) \union 0 .. NumOutputs(t) : t \in NodeTypes}

Pins == {PinId(n, i, o) : n \in Indices(MaxNodes), o \in BOOLEAN, i \in PinIndexes}
           \union {Invalid}

Next ==
    \/ \E type \in NodeTypes : AddNode(type)
    \/ \E from, to \in Pins : AddEdge(from, to)
    \/ \E id \in EdgeIds : RemoveEdge(id)
    \/ \E id \in Indices(MaxNodes) : DestroyNode(id)
    \/ DestroyStep

(* A call that has begun goes on: the loop runs in its caller's thread.    *)
Spec == Init /\ [][Next]_vars /\ WF_vars(DestroyStep)

-----------------------------------------------------------------------------
LiveNodes == LiveIds(graph.node_slot_map)
LiveEdges == LiveIds(graph.edge_slot_map)
InputPins(n) == 0 .. NumInputs(Node(graph, n).type) - 1
OutputPins(n) == 0 .. NumOutputs(Node(graph, n).type) - 1

TypeOK ==
    /\ graph.version \in 0 .. MaxVersion
    /\ IsSlotMap(graph.node_slot_map, MaxNodes)
    /\ IsSlotMap(graph.edge_slot_map, MaxEdges)
    /\ graph.node_versions \in [Indices(MaxNodes) -> 0 .. MaxVersion]
    /\ \A n \in LiveNodes :
          LET node == Node(graph, n)
          IN  /\ node.type \in NodeTypes
              /\ node.input \in [InputPins(n) -> EdgeIds \union {Invalid}]
              /\ node.output \in [OutputPins(n) ->
                    [prev : EdgeIds \union {Invalid}, next : EdgeIds \union {Invalid}]]
    /\ \A e \in LiveEdges :
          Edge(graph, e) \in [from : Pins, to : Pins,
                              prev : EdgeIds \union {Invalid},
                              next : EdgeIds \union {Invalid}]
    /\ destroying = Idle \/ HasNode(graph, destroying.node)

(* An edge and the input pin it ends in agree, both ways, and both its     *)
(* nodes exist: no removal of a node leaves an edge behind, no removal of  *)
(* an edge leaves its id in a pin, and an input pin has one edge at most.  *)
InputsAgree ==
    /\ \A e \in LiveEdges :
          LET edge == Edge(graph, e)
          IN  /\ HasNode(graph, PinNode(edge.from))
              /\ HasNode(graph, PinNode(edge.to))
              /\ Node(graph, PinNode(edge.to)).input[PinIndex(edge.to)] = e
    /\ \A n \in LiveNodes : \A i \in InputPins(n) :
          LET e == Node(graph, n).input[i]
          IN  IsValid(e) => e \in LiveEdges /\ Edge(graph, e).to = PinId(n, i, FALSE)

(* The walk of hgraph_iterate_edges_from along one output pin: its k-th    *)
(* link, or Invalid once it is back at the pin.                            *)
Walk(n, i) ==
    LET next(e) == IF HasEdge(graph, e) THEN Edge(graph, e).next ELSE Invalid
        walk[k \in 0 .. MaxEdges] ==
            IF k = 0 THEN Node(graph, n).output[i].next ELSE next(walk[k - 1])
    IN  walk

(* Along every output pin the walk meets each edge of the pin once and no  *)
(* other edge, ends at an invalid index, which hgraph_is_pin_connected     *)
(* relies on for a pin without edges, and prev leads the same way back.    *)
OutputListsAreComplete ==
    \A n \in LiveNodes : \A i \in OutputPins(n) :
        LET pin   == PinId(n, i, TRUE)
            walk  == Walk(n, i)
            mine  == {e \in LiveEdges : Edge(graph, e).from = pin}
            count == Cardinality(mine)
        IN  /\ {walk[k] : k \in 0 .. count - 1} = mine
            /\ walk[count] = Invalid
            /\ Node(graph, n).output[i].prev =
                  (IF count = 0 THEN Invalid ELSE walk[count - 1])
            /\ \A k \in 0 .. count - 1 :
                  Edge(graph, walk[k]).prev = (IF k = 0 THEN Invalid ELSE walk[k - 1])

(* max_edges is computed from the input pins alone, and that is enough:    *)
(* hgraph_connect succeeds whenever hgraph_can_connect says it would.      *)
CanConnectIsEnough ==
    \A from, to \in Pins :
        CanConnect(graph, from, to) => IsValid(ConnectResult(graph, from, to))

(* A call of hgraph_connect that connects nothing returns no edge id:      *)
(* tests/graph.c asserts it of a rejected call, and app.c draws a link and *)
(* marks the document dirty when the result is a valid index.              *)
RejectionIsInvalid ==
    \A from, to \in Pins :
        ~CanConnect(graph, from, to) => ~IsValid(ConnectResult(graph, from, to))

(* A pair of node id and node version stands for one node for good: an id  *)
(* that comes to life has a version it never had, as hgraph_pipeline_init  *)
(* and hgraph_pipeline_get_node_status rely on.                            *)
VersionsAreFresh ==
    [][\A n \in Indices(MaxNodes) :
          /\ graph.node_versions'[n] >= graph.node_versions[n]
          /\ n \in LiveNodes' \ LiveNodes =>
                graph.node_versions'[n] > graph.node_versions[n]]_vars

(* hgraph_destroy_node returns: its loop ends whatever the lists look like.*)
DestroyReturns == destroying # Idle ~> destroying = Idle

(* The graph implements Multigraph.  The loop of hgraph_destroy_node takes *)
(* the edges away one by one, and has taken all when it frees the node.    *)
Abstract == INSTANCE Multigraph
    WITH NodeIds <- Indices(MaxNodes),
         Outputs <- {pin \in Pins : IsValid(pin) /\ IsOutput(pin)},
         Inputs  <- {pin \in Pins : IsValid(pin) /\ ~IsOutput(pin)},
         OwnerOf <- PinNode,
         Compatible <- TypesMatch,
         nodes <- [n \in LiveNodes |-> Node(graph, n).type],
         edges <- [e \in LiveEdges |->
                      [from |-> Edge(graph, e).from, to |-> Edge(graph, e).to]]

ImplementsMultigraph == Abstract!Spec
=============================================================================
