---------------------------- MODULE MCMigration ----------------------------
(***************************************************************************)
(* Registries before and after a reload.  The old one has a source and a   *)
(* sink with two inputs, so that edges outnumber nodes.                    *)
(***************************************************************************)
EXTENDS GraphFile

Types == {"f32", "i32"}
Old == {"start", "end"}
OldRegistry == <<"start", "end">>
OldInputs == ("start" :> <<>>) @@ ("end" :> <<"f32", "f32">>)
OldOutputs == ("start" :> <<"f32">>) @@ ("end" :> <<>>)
OldInputNames == ("start" :> <<>>) @@ ("end" :> <<"a", "b">>)
OldOutputNames == ("start" :> <<"out">>) @@ ("end" :> <<>>)

WithDummy(f) == f @@ ("dummy" :> <<>>)
AllNew == Old \union {"dummy"}
SameInputs == WithDummy(OldInputs)
SameOutputs == WithDummy(OldOutputs)
SameInputNames == WithDummy(OldInputNames)
SameOutputNames == WithDummy(OldOutputNames)
OldAttributes == [type \in Old |-> <<>>]
SameAttributes == WithDummy(OldAttributes)
Sizes == [type \in Types |-> 2]
NoValues == <<>>

(* The plugins are loaded in another order. *)
Reordered == <<"end", "start">>

(* A source and two kinds of sink, of which one is gone after the reload   *)
(* while the other has a new input in front of the one it had.             *)
Three == {"start", "end", "probe"}
ThreeRegistry == <<"start", "end", "probe">>
ThreeInputs == ("start" :> <<>>) @@ ("end" :> <<"f32">>) @@ ("probe" :> <<"f32">>)
ThreeInputNames == ("start" :> <<>>) @@ ("end" :> <<"a">>) @@ ("probe" :> <<"a">>)
ThreeOutputs == ("start" :> <<"f32">>) @@ ("end" :> <<>>) @@ ("probe" :> <<>>)
ThreeOutputNames == ("start" :> <<"out">>) @@ ("end" :> <<>>) @@ ("probe" :> <<>>)

ShrunkRegistry == <<"start", "end", "other">>
Shrunk == {"start", "end", "other", "dummy"}
ShrunkInputs ==
    ("start" :> <<>>) @@ ("end" :> <<"i32", "f32">>) @@ ("other" :> <<>>) @@ ("dummy" :> <<>>)
ShrunkInputNames ==
    ("start" :> <<>>) @@ ("end" :> <<"b", "a">>) @@ ("other" :> <<>>) @@ ("dummy" :> <<>>)
ShrunkOutputs == [type \in Shrunk |-> IF type = "start" THEN <<"f32">> ELSE <<>>]
ShrunkOutputNames == [type \in Shrunk |-> IF type = "start" THEN <<"out">> ELSE <<>>]

(* Attributes of two bytes.  After the reload the source has them in       *)
(* another order and the sink has one of another type.                     *)
ThreeAttributeNames == ("start" :> <<"x", "y">>) @@ ("end" :> <<"x", "y">>) @@ ("probe" :> <<"x">>)
ThreeAttributeTypes ==
    ("start" :> <<"i32", "f32">>) @@ ("end" :> <<"i32", "i32">>) @@ ("probe" :> <<"i32">>)
ShrunkAttributeNames == ("start" :> <<"y", "x">>) @@ ("end" :> <<"x", "y">>)
                           @@ ("other" :> <<>>) @@ ("dummy" :> <<>>)
ShrunkAttributeTypes == ("start" :> <<"f32", "i32">>) @@ ("end" :> <<"f32", "i32">>)
                           @@ ("other" :> <<>>) @@ ("dummy" :> <<>>)
Bytes == <<<<End, Esc>>, <<Esc, EscEnd>>, <<EscEsc, End>>>>
ThreeValues == [where \in (0 .. 2) \X {"x", "y"} |->
                   IF where[2] = "x" THEN Bytes[where[1] + 1] ELSE Reverse(Bytes[where[1] + 1])]
=============================================================================
