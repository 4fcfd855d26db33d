----------------------------- MODULE MCRegistry -----------------------------
(***************************************************************************)
(* Three node types over three data types, of which two fill the table to  *)
(* its limit with the third.  The hashes of data types are arbitrary; node *)
(* types, which live in another table, get the same ones.                  *)
(***************************************************************************)
EXTENDS NodeTypeMenu, TLC

Data == {"u8", "u16", "f64"}
Nodes == {"in", "mix", "out"}

NoPins == [type \in {"in", "mix", "out", "dummy"} |-> <<>>]
NodeAttributes == ("in" :> <<"u8", "f64">>) @@ ("mix" :> <<"u16">>) @@ NoPins
NodeInputs ==
    ("mix" :> <<<<"u8", TRUE>>, <<"u8", FALSE>>>>) @@ ("out" :> <<<<"f64", TRUE>>>>) @@ NoPins
NodeOutputs ==
    ("in" :> <<<<"u8", TRUE>>>>) @@ ("mix" :> <<<<"u8", TRUE>>, <<"u16", TRUE>>>>) @@ NoPins

Layouts == ("u8" :> Block(1, 1)) @@ ("u16" :> Block(2, 2)) @@ ("f64" :> Block(8, 8))
NodeLayouts == ("out" :> Block(3, 1)) @@ [type \in {"in", "mix", "dummy"} |-> Block(0, 0)]

(* Tables have up to eight slots; the steps are 1, 3 and 7. *)
Bits == {[low |-> low, high |-> high] : low \in 0 .. 3, high \in {0, 6}}

AnyHashes ==
    {("in" :> u8) @@ ("mix" :> u16) @@ ("out" :> f64) @@ ("dummy" :> u8)
        @@ ("u8" :> u8) @@ ("u16" :> u16) @@ ("f64" :> f64) : u8, u16, f64 \in Bits}

Groups == ("in" :> <<"Core">>) @@ ("mix" :> <<"Core", "Mix">>) @@ ("out" :> <<"">>)
=============================================================================
