----------------------------- MODULE Multigraph -----------------------------
(***************************************************************************)
(* What graph.c promises, with no slots, lists or pins' memory: nodes and  *)
(* edges under ids of their own.  Removing a node removes its edges with   *)
(* it in one step; an input pin ends one edge at most; nothing else ever   *)
(* changes what an id stands for.                                          *)
(***************************************************************************)
EXTENDS Integers

CONSTANTS NodeIds, EdgeIds, NodeTypes,
          Outputs, Inputs,        \* the pins an edge goes from and to
          OwnerOf(_),             \* the node of a pin
          Compatible(_, _, _, _)  \* whether two types' pins can be joined

VARIABLES nodes,      \* from the ids of the nodes to their types
          edges       \* from the ids of the edges to their two pins

Restriction(f, S) == [x \in S |-> f[x]]
Extension(f, x, y) == [z \in DOMAIN f \union {x} |-> IF z = x THEN y ELSE f[z]]

Incident(n) == {e \in DOMAIN edges : n \in {OwnerOf(edges[e].from), OwnerOf(edges[e].to)}}

Init == nodes = [n \in {} |-> n] /\ edges = [e \in {} |-> e]

AddNode(n, type) ==
    /\ n \notin DOMAIN nodes
    /\ nodes' = Extension(nodes, n, type)
    /\ UNCHANGED edges

RemoveNode(n) ==
    /\ n \in DOMAIN nodes
    /\ nodes' = Restriction(nodes, DOMAIN nodes \ {n})
    /\ edges' = Restriction(edges, DOMAIN edges \ Incident(n))

AddEdge(e, from, to) ==
    /\ e \notin DOMAIN edges
    /\ {OwnerOf(from), OwnerOf(to)} \subseteq DOMAIN nodes
    /\ OwnerOf(from) # OwnerOf(to)
    /\ Compatible(nodes[OwnerOf(from)], from, nodes[OwnerOf(to)], to)
    /\ \A other \in DOMAIN edges : edges[other].to # to
    /\ edges' = Extension(edges, e, [from |-> from, to |-> to])
    /\ UNCHANGED nodes

RemoveEdge(e) ==
    /\ e \in DOMAIN edges
    /\ edges' = Restriction(edges, DOMAIN edges \ {e})
    /\ UNCHANGED nodes

Next ==
    \/ \E n \in NodeIds : RemoveNode(n) \/ \E type \in NodeTypes : AddNode(n, type)
    \/ \E e \in EdgeIds : RemoveEdge(e) \/ \E from \in Outputs, to \in Inputs : AddEdge(e, from, to)

Spec == Init /\ [][Next]_<<nodes, edges>>
=============================================================================
