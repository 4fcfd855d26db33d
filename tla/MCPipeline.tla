----------------------------- MODULE MCPipeline -----------------------------
(***************************************************************************)
(* Graphs of up to three nodes for Pipeline: an output with two edges, a   *)
(* chain that an optional input closes to a cycle, a cycle of required     *)
(* inputs that never runs, a node with two sources, and two nodes with     *)
(* nothing connected yet.                                                  *)
(***************************************************************************)
EXTENDS Pipeline, TLC

OneType == {"f32"}
Kinds == {"source", "mix"}
KindInputs == ("source" :> <<>>) @@ ("mix" :> <<"f32", "f32">>)
KindOutputs == ("source" :> <<"f32">>) @@ ("mix" :> <<"f32", "f32">>)
NeededInputs == ("source" :> {}) @@ ("mix" :> {0})
NeededOutputs == ("source" :> {0}) @@ ("mix" :> {0})

(* The graph with the given nodes and edges, made by graph.c. *)
Made(types, wires) ==
    FoldLeft(LAMBDA g, w : Connect(g, PinId(w[1], w[2], TRUE), PinId(w[3], w[4], FALSE)),
             FoldLeft(CreateNode, EmptyGraph, types),
             wires)

Topologies ==
    {Made(<<"source", "mix", "mix">>, wires) : wires \in
        {<< <<0, 0, 2, 0>>, <<0, 0, 1, 0>>, <<1, 1, 2, 1>> >>,
         << <<0, 0, 1, 0>>, <<1, 0, 2, 0>>, <<1, 1, 2, 1>>, <<2, 1, 1, 1>> >>,
         << <<1, 0, 2, 0>>, <<2, 0, 1, 0>>, <<0, 0, 1, 1>> >>}}
    \union {Made(<<"mix", "source", "source">>, << <<1, 0, 0, 0>>, <<2, 0, 0, 1>> >>),
            Made(<<"source", "mix">>, <<>>)}
=============================================================================
