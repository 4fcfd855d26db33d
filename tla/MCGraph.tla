------------------------------ MODULE MCGraph ------------------------------
(***************************************************************************)
(* Three registries for Graph.  The fan has a source, sinks of one input:  *)
(* three edges can share an output pin, so that an edge is unlinked from   *)
(* the head, the middle and the tail of a list, and four nodes come and    *)
(* go.  The loop has nodes with a pin on each side, so that three nodes in *)
(* a ring use every edge there is.  The pair has two pins of different     *)
(* types on each side.                                                     *)
(***************************************************************************)
EXTENDS Graph, TLC

BothTypes == {"f32", "i32"}

FanNodes == {"start", "end"}
FanInputs == ("start" :> <<>>) @@ ("end" :> <<"f32">>)
FanOutputs == ("start" :> <<"f32">>) @@ ("end" :> <<>>)

PairNodes == {"mid"}
PairPins == [type \in PairNodes |-> <<"f32", "i32">>]

LoopNodes == {"mid"}
LoopPins == [type \in LoopNodes |-> <<"f32">>]
=============================================================================
