-------------------------------- MODULE Slip --------------------------------
(***************************************************************************)
(* hgraph/src/slip.c: the frame around the value of an attribute in a      *)
(* file.  The end of the frame is a byte that is escaped inside it, so     *)
(* that a reader who does not know the value can skip it.                  *)
(***************************************************************************)
EXTENDS SequencesExt

(* 0xc0, 0xdb, 0xdc and 0xdd; other bytes stand for themselves. *)
End    == "end"
Esc    == "esc"
EscEnd == "esc_end"
EscEsc == "esc_esc"

(* Mutant: the escape itself is not escaped. *)
EscapedEndOnly(byte) == IF byte = End THEN <<Esc, EscEnd>> ELSE <<byte>>

Escaped(byte) ==
    IF byte = End THEN <<Esc, EscEnd>> ELSE IF byte = Esc THEN <<Esc, EscEsc>> ELSE <<byte>>

(* hgraph_slip_out_write and hgraph_slip_out_end. *)
Framed(bytes) == FlattenSeq([k \in DOMAIN bytes |-> Escaped(bytes[k])]) \o <<End>>

-----------------------------------------------------------------------------
(* A reader has the rest of the input, what it has read, and whether every *)
(* read gave what was asked for.                                           *)
Reader(in) == [in |-> in, bytes |-> <<>>, ok |-> TRUE]
Failed(reader) == [reader EXCEPT !.ok = FALSE]

Unescaped == (EscEnd :> End) @@ (EscEsc :> Esc)

ReadByte(reader, k) ==
    LET in == reader.in
    IN  IF ~reader.ok \/ in = <<>> \/ Head(in) = End THEN Failed(reader)
        ELSE IF Head(in) # Esc
        THEN [reader EXCEPT !.in = Tail(in), !.bytes = Append(@, Head(in))]
        ELSE IF Len(in) = 1 \/ in[2] \notin DOMAIN Unescaped THEN Failed(reader)
        ELSE [reader EXCEPT !.in = Tail(Tail(in)), !.bytes = Append(@, Unescaped[in[2]])]

(* hgraph_slip_in_read of so many bytes. *)
SlipRead(in, size) == FoldLeft(ReadByte, Reader(in), [k \in 1 .. size |-> k])

(* hgraph_slip_in_end: the value must have been read to its end. *)
SlipEnd(reader) ==
    IF reader.ok /\ reader.in # <<>> /\ Head(reader.in) = End
    THEN [reader EXCEPT !.in = Tail(@)]
    ELSE Failed(reader)

(* hgraph_slip_in_skip *)
SlipSkip(in) ==
    LET ends == {k \in DOMAIN in : in[k] = End}
        first == CHOOSE k \in ends : \A j \in ends : k <= j
    IN  IF ends = {} THEN Failed(Reader(in)) ELSE Reader(SubSeq(in, first + 1, Len(in)))
=============================================================================
