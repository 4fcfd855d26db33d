------------------------------ MODULE Pipeline ------------------------------
(***************************************************************************)
(* hgraph/src/pipeline.c on the graph of module Graph.  A pipeline copies  *)
(* the ids, types and versions of the graph's nodes, slot by slot; an      *)
(* execution walks the graph itself.  It is single threaded but calls out: *)
(* to the watcher, which may abort it, and to the callbacks of the nodes,  *)
(* which may send any of their outputs, report and run out of memory.      *)
(* Every call out is a step.  Between executions the graph may be edited.  *)
(* The memory a callback allocates is the matter of ScratchZone, here an   *)
(* allocation only succeeds or fails.                                      *)
(***************************************************************************)
EXTENDS GraphShape, SequencesExt

CONSTANTS RequiredInputs,    \* for each type, its pins without
          RequiredOutputs,   \* HGRAPH_FLOW_OPTIONAL
          Graphs,            \* the graphs to begin with
          MaxEdits           \* bound on the edits of the graph

ASSUME PipelineAssumption ==
    /\ RequiredInputs \in [NodeTypes -> SUBSET Nat]
    /\ RequiredOutputs \in [NodeTypes -> SUBSET Nat]
    /\ \A t \in NodeTypes : /\ \A i \in RequiredInputs[t] : i < NumInputs(t)
                            /\ \A i \in RequiredOutputs[t] : i < NumOutputs(t)
    /\ MaxEdits \in Nat

(* The graphs to begin with are such as the calls of graph.c make.         *)
ASSUME GraphsAssumption == \A g \in Graphs : IsLinked(g) /\ VersionsInRange(g)

VARIABLES pipeline,     \* version, node_metas and ready_nodes
          run,          \* the frame of hgraph_pipeline_execute
          outcome,      \* what the last execution returned
          edits         \* how often the graph was edited

pipelineVars == <<graph, destroying, pipeline, run, outcome, edits>>

Metas == pipeline.metas
NumNodes == Len(Metas)
IsIdle == run.pc = "idle" /\ destroying = Idle

(* hgraph_pipeline_init.  Slots count from 0 in the code and index a       *)
(* sequence from 1 here.  Of a node's data we keep which type's init wrote *)
(* it; transfer hands on that of the previous pipeline's node with the     *)
(* same id and version.                                                    *)

(* Mutant: a recycled id passes for the node that had it. *)
SameId(m, id) == m.id = id

SameNode(m, id) == m.id = id /\ m.version = graph.node_versions[id]

FreshMeta(slot, previous) ==
    LET id    == IdForSlot(graph.node_slot_map, slot)
        type  == graph.nodes[slot].type
        first == SelectInSeq(previous, LAMBDA m : SameNode(m, id))
    IN  [id |-> id, type |-> type, version |-> graph.node_versions[id],
         data |-> IF first = 0 THEN type ELSE previous[first].data,
         state |-> "waiting", received |-> {}, sent |-> {}]

FreshPipeline(previous) ==
    [version |-> graph.version,
     metas   |-> [i \in 1 .. graph.node_slot_map.num_items |-> FreshMeta(i - 1, previous)],
     ready   |-> <<>>]

NotRunning == [pc |-> "idle", slot |-> Invalid, todo |-> <<>>, reason |-> "finished"]

PipelineInit ==
    /\ graph \in Graphs /\ destroying = Idle
    /\ pipeline = FreshPipeline(<<>>)
    /\ run = NotRunning /\ outcome = "none" /\ edits = 0

InitPipeline ==
    /\ IsIdle
    /\ \E previous \in {<<>>, Metas} : pipeline' = FreshPipeline(previous)
    /\ UNCHANGED <<graph, destroying, run, outcome, edits>>

(* The calls of graph.c, none of which is made during an execution. *)
Edit ==
    /\ run.pc = "idle"
    /\ \/ DestroyStep /\ UNCHANGED edits
       \/ /\ edits < MaxEdits /\ edits' = edits + 1
          /\ \/ \E type \in NodeTypes : AddNode(type)
             \/ \E from, to \in Pins : AddEdge(from, to)
             \/ \E id \in EdgeIds : RemoveEdge(id)
             \/ \E id \in Indices(MaxNodes) : DestroyNode(id)
    /\ UNCHANGED <<pipeline, run, outcome>>

-----------------------------------------------------------------------------
Return(status) == run' = NotRunning /\ outcome' = status

(* The answer of the watcher: to go on, or to abort. *)
Watched(goOn) == (goOn /\ UNCHANGED outcome) \/ Return("aborted")

(* The checks of hgraph_pipeline_execute, and what comes before its loops. *)
Execute ==
    /\ IsIdle
    /\ UNCHANGED <<graph, destroying, edits>>
    /\ \/ /\ graph.version # pipeline.version
          /\ Return("out_of_sync") /\ UNCHANGED pipeline
       \/ /\ graph.version = pipeline.version
          /\ Return("aborted") /\ UNCHANGED pipeline
       \/ /\ graph.version = pipeline.version
          /\ run' = [run EXCEPT !.pc = "reset", !.slot = 0]
          /\ pipeline' = [pipeline EXCEPT !.ready = <<>>]
          /\ UNCHANGED outcome

(* Mutant: the inputs a node has received are not forgotten. *)
ResetNodeKeepingInputs ==
    /\ run.pc = "reset" /\ run.slot < NumNodes
    /\ pipeline' = [pipeline EXCEPT !.metas[run.slot + 1] =
                       [@ EXCEPT !.state = "waiting", !.sent = {}]]
    /\ run' = [run EXCEPT !.pc = "begin"]
    /\ UNCHANGED <<graph, destroying, outcome, edits>>

(* The first loop resets one node and calls its begin_pipeline before it   *)
(* comes to the next: until then the later nodes are as the execution      *)
(* before left them.                                                       *)
ResetNode ==
    /\ run.pc = "reset" /\ run.slot < NumNodes
    /\ pipeline' = [pipeline EXCEPT !.metas[run.slot + 1] =
                       [@ EXCEPT !.state = "waiting", !.received = {}, !.sent = {}]]
    /\ run' = [run EXCEPT !.pc = "begin"]
    /\ UNCHANGED <<graph, destroying, outcome, edits>>

(* What a callback can do besides output: an allocation that fails and a   *)
(* report the watcher rejects set the termination reason, the last of them *)
(* is the one that counts.                                                 *)
Spoil ==
    /\ run.pc \in {"begin", "execute"}
    /\ \E reason \in {"oom", "aborted"} : run' = [run EXCEPT !.reason = reason]
    /\ UNCHANGED <<graph, destroying, pipeline, outcome, edits>>

(* begin_pipeline of a node returns, and after the last the loop ends with *)
(* all slots still to be looked at.                                        *)
BegunNode ==
    /\ run.pc = "begin"
    /\ IF run.reason # "finished"
       THEN Return(run.reason)
       ELSE run' = [run EXCEPT !.pc = "reset", !.slot = @ + 1] /\ UNCHANGED outcome
    /\ UNCHANGED <<graph, destroying, pipeline, edits>>

BegunAll ==
    /\ run.pc = "reset" /\ run.slot = NumNodes
    /\ run' = [run EXCEPT !.pc = "schedule", !.slot = Invalid,
                          !.todo = [i \in 1 .. NumNodes |-> i - 1]]
    /\ UNCHANGED <<graph, destroying, pipeline, outcome, edits>>

(* hgraph_pipeline_is_node_ready && hgraph_pipeline_schedule_node for one  *)
(* slot of either scheduling loop; the watcher hears of a scheduled node.  *)
(* Mutant: one received input is enough. *)
IsReadyEarly(meta) == RequiredInputs[meta.type] = {} \/ meta.received # {}

IsReady(meta) == RequiredInputs[meta.type] \subseteq meta.received

(* Mutants: a node is scheduled again while it waits; after it has run.    *)
IsWaitingAlways(meta) == TRUE
IsWaitingAgain(meta) == meta.state # "scheduled"

IsWaiting(meta) == meta.state = "waiting"

ScheduleNode ==
    /\ run.pc = "schedule" /\ run.todo # <<>>
    /\ LET slot == Head(run.todo)
           meta == Metas[slot + 1]
           next == run' = [run EXCEPT !.todo = Tail(@)]
       IN  IF IsReady(meta) /\ IsWaiting(meta)
           THEN /\ pipeline' = [pipeline EXCEPT !.ready = Append(@, slot),
                                                !.metas[slot + 1].state = "scheduled"]
                /\ Watched(next)
           ELSE next /\ UNCHANGED <<pipeline, outcome>>
    /\ UNCHANGED <<graph, destroying, edits>>

(* The end of the loop.  The watcher hears of the end of a node, but not   *)
(* of the end of the first scheduling.                                     *)
EndNode ==
    /\ run.pc = "schedule" /\ run.todo = <<>>
    /\ LET next == run' = [run EXCEPT !.pc = "pop", !.slot = Invalid]
       IN  IF IsValid(run.slot) THEN Watched(next) ELSE next /\ UNCHANGED outcome
    /\ UNCHANGED <<graph, destroying, pipeline, edits>>

(* The node scheduled last comes first. *)
BeginNode ==
    /\ run.pc = "pop" /\ pipeline.ready # <<>>
    /\ pipeline' = [pipeline EXCEPT !.ready = Front(@)]
    /\ Watched(run' = [run EXCEPT !.pc = "execute", !.slot = Last(pipeline.ready)])
    /\ UNCHANGED <<graph, destroying, edits>>

(* The edges along an output pin: its list is followed for as long as it   *)
(* leads to an edge.                                                       *)
Links(slot, i) ==
    LET walk == Walk(IdForSlot(graph.node_slot_map, slot), i)
        size == CHOOSE k \in 0 .. MaxEdges :
                    ~HasEdge(graph, walk[k]) /\ \A j \in 0 .. k - 1 : HasEdge(graph, walk[j])
    IN  [k \in 1 .. size |-> walk[k - 1]]

Target(edge) == NodeSlot(graph, PinNode(Edge(graph, edge).to))

(* hgraph_pipeline_node_output, called by the execute callback.            *)
Output(i) ==
    /\ run.pc = "execute" /\ i < NumOutputs(Metas[run.slot + 1].type)
    /\ LET links == Links(run.slot, i)
           reached(slot) == {PinIndex(Edge(graph, e).to) :
                                e \in {l \in Range(links) : Target(l) = slot}}
       IN  pipeline' = [pipeline EXCEPT !.metas =
              [m \in 1 .. NumNodes |->
                  [Metas[m] EXCEPT !.received = @ \union reached(m - 1),
                                   !.sent = IF m = run.slot + 1 THEN @ \union {i} ELSE @]]]
    /\ UNCHANGED <<graph, destroying, run, outcome, edits>>

(* The execute callback returns.  The nodes its outputs lead to are to be  *)
(* looked at, in the order of pins and lists.                              *)
Targets(links) == [k \in 1 .. Len(links) |-> Target(links[k])]

(* Mutant: the last output pin is left out. *)
DependentsOfAllButLast(slot) ==
    FlattenSeq([i \in 1 .. NumOutputs(Metas[slot + 1].type) - 1 |-> Targets(Links(slot, i - 1))])

Dependents(slot) ==
    FlattenSeq([i \in 1 .. NumOutputs(Metas[slot + 1].type) |-> Targets(Links(slot, i - 1))])

ExecutedNode ==
    /\ run.pc = "execute"
    /\ pipeline' = [pipeline EXCEPT !.metas[run.slot + 1].state = "executed"]
    /\ LET meta == Metas[run.slot + 1]
       IN  CASE run.reason # "finished" -> Return(run.reason)
             [] run.reason = "finished" /\ ~ RequiredOutputs[meta.type] \subseteq meta.sent ->
                    Return("incomplete_output")
             [] run.reason = "finished" /\ RequiredOutputs[meta.type] \subseteq meta.sent ->
                    /\ run' = [run EXCEPT !.pc = "schedule", !.todo = Dependents(run.slot)]
                    /\ UNCHANGED outcome
    /\ UNCHANGED <<graph, destroying, edits>>

(* end_pipeline of every node, whose failures are not looked at, and the   *)
(* last call of the watcher, whose answer is not either.                   *)
Finish ==
    /\ run.pc = "pop" /\ pipeline.ready = <<>>
    /\ Return("finished")
    /\ UNCHANGED <<graph, destroying, pipeline, edits>>

Callback == Spoil \/ \E i \in 0 .. MaxPins - 1 : Output(i)

Proceed ==
    \/ ResetNode \/ BegunNode \/ BegunAll \/ ScheduleNode \/ EndNode
    \/ BeginNode \/ ExecutedNode \/ Finish

PipelineNext == InitPipeline \/ Edit \/ Execute \/ Callback \/ Proceed

(* A callback returns and the watcher answers.  Nobody has to execute.     *)
PipelineSpec ==
    PipelineInit /\ [][PipelineNext]_pipelineVars /\ WF_pipelineVars(Proceed)

-----------------------------------------------------------------------------
Running == run.pc # "idle"

(* All nodes have been reset.  While they are, a node that was is next to  *)
(* others in the state of an execution that was cut short: a callback of   *)
(* begin_pipeline cannot see them, for it has no inputs and no outputs.    *)
Begun == run.pc \in {"schedule", "pop", "execute"}

(* The comparison of versions is enough: whatever was created, destroyed   *)
(* and moved between slots since the pipeline was made, an execution that  *)
(* begins finds in each slot the node the pipeline has a meta for, and no  *)
(* edge leads to a slot beyond num_nodes (the assertions of the dependents *)
(* loop).                                                                  *)
MetasMatchTheGraph ==
    Running =>
        /\ NumNodes = graph.node_slot_map.num_items
        /\ \A i \in 1 .. NumNodes :
              /\ Metas[i].id = IdForSlot(graph.node_slot_map, i - 1)
              /\ Metas[i].type = graph.nodes[i - 1].type
              /\ Metas[i].version = graph.node_versions[Metas[i].id]
        /\ \A e \in LiveEdges : Target(e) \in 0 .. NumNodes - 1

(* The ready stack holds the scheduled nodes, each once, so it never       *)
(* outgrows the num_nodes entries that hgraph_pipeline_init reserves, and  *)
(* no node is executed twice, whatever an execution before was cut off at. *)
ReadyNodesAreScheduled ==
    Begun =>
        /\ IsInjective(pipeline.ready)
        /\ Range(pipeline.ready) \union (IF run.pc = "execute" THEN {run.slot} ELSE {})
              = {slot \in 0 .. NumNodes - 1 : Metas[slot + 1].state = "scheduled"}

(* A node runs only after every node that its required inputs are          *)
(* connected to has returned, and has a value on each of these inputs.     *)
Source(meta, i) ==
    LET e == Node(graph, meta.id).input[i]
    IN  IF HasEdge(graph, e) THEN NodeSlot(graph, PinNode(Edge(graph, e).from)) ELSE Invalid

ProducersRunFirst ==
    Begun => \A i \in 1 .. NumNodes : \A pin \in RequiredInputs[Metas[i].type] :
        Metas[i].state # "waiting" =>
            /\ IsValid(Source(Metas[i], pin))
            /\ Metas[Source(Metas[i], pin) + 1].state = "executed"

(* The two bit sets agree through the graph: an input has received exactly *)
(* when the output it is connected to has been sent.                       *)
ReceivedIsSent ==
    Begun => \A i \in 1 .. NumNodes : \A pin \in InputPins(Metas[i].id) :
        pin \in Metas[i].received
            <=> /\ IsValid(Source(Metas[i], pin))
                /\ PinIndex(Edge(graph, Node(graph, Metas[i].id).input[pin]).from)
                       \in Metas[Source(Metas[i], pin) + 1].sent

(* No node is forgotten: an execution that takes the next node, or finds   *)
(* none and finishes, leaves no node waiting that has its required inputs. *)
NoNodeIsForgotten ==
    run.pc = "pop" => \A i \in 1 .. NumNodes :
        IsReady(Metas[i]) => Metas[i].state # "waiting"

(* transfer gives a node the data of the same node: never data that a node *)
(* of another type, since destroyed, left under the same id.               *)
TransferKeepsTypes == \A i \in 1 .. NumNodes : Metas[i].data = Metas[i].type

(* An execution ends, whatever cycles the graph has.                       *)
ExecutionEnds == Running ~> ~Running
=============================================================================
