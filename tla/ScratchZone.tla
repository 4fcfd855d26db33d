---------------------------- MODULE ScratchZone ----------------------------
(***************************************************************************)
(* The memory that hgraph/src/pipeline.c gives to the callbacks of nodes.  *)
(* One zone serves two lifetimes from its two ends: blocks of a step grow  *)
(* up from the start and are dropped when the callback returns, blocks of  *)
(* the execution grow down from the end and stay until the next execution. *)
(* Addresses count from scratch_zone_start, which is aligned.              *)
(***************************************************************************)
EXTENDS Integers

CONSTANTS ZoneSize,     \* config->max_scratch_memory
          Align,        \* _Alignof(max_align_t)
          Sizes         \* what callbacks ask for

ASSUME ZoneAssumption == ZoneSize \in Nat /\ Align \in Nat \ {0} /\ Sizes \subseteq Nat

VARIABLES step_alloc_ptr, execution_alloc_ptr,
          blocks,       \* the blocks given out and not dropped since
          status,       \* ctx->termination_reason of the running callback
          phase         \* "ending" while the end_pipeline of nodes are called

zoneVars == <<step_alloc_ptr, execution_alloc_ptr, blocks, status, phase>>

(* mem_layout_align_ptr and hgraph_align_ptr_down. *)
AlignUp(address) == address + ((-address) % Align)

AlignDown(address) == address - (address % Align)

Block(lifetime, first, size) == [lifetime |-> lifetime, first |-> first, size |-> size]

(* hgraph_pipeline_execute before it calls a node. *)
ZoneInit ==
    /\ step_alloc_ptr = 0
    /\ execution_alloc_ptr = ZoneSize
    /\ blocks = {}
    /\ status = "finished"
    /\ phase = "running"

(* Mutant: the pointer is compared before it is rounded. *)
AllocateExecutionUnrounded(size) ==
    LET result == AlignDown(execution_alloc_ptr - size)
    IN  IF step_alloc_ptr <= execution_alloc_ptr - size
        THEN /\ execution_alloc_ptr' = result
             /\ blocks' = blocks \union {Block("execution", result, size)}
             /\ UNCHANGED <<step_alloc_ptr, status, phase>>
        ELSE /\ status' = "oom"
             /\ UNCHANGED <<step_alloc_ptr, execution_alloc_ptr, blocks, phase>>

AllocateStep(size) ==
    LET result == AlignUp(step_alloc_ptr)
    IN  IF result + size <= execution_alloc_ptr
        THEN /\ step_alloc_ptr' = result + size
             /\ blocks' = blocks \union {Block("step", result, size)}
             /\ UNCHANGED <<execution_alloc_ptr, status, phase>>
        ELSE /\ status' = "oom"
             /\ UNCHANGED <<step_alloc_ptr, execution_alloc_ptr, blocks, phase>>

AllocateExecution(size) ==
    LET result == AlignDown(execution_alloc_ptr - size)
    IN  IF step_alloc_ptr <= result
        THEN /\ execution_alloc_ptr' = result
             /\ blocks' = blocks \union {Block("execution", result, size)}
             /\ UNCHANGED <<step_alloc_ptr, status, phase>>
        ELSE /\ status' = "oom"
             /\ UNCHANGED <<step_alloc_ptr, execution_alloc_ptr, blocks, phase>>

(* A callback returns, the next one gets a fresh context.  A failed        *)
(* allocation ends the execution, unless all that is left to call is       *)
(* end_pipeline, whose failures are not looked at.                         *)
EndStep ==
    /\ status = "finished" \/ phase = "ending"
    /\ step_alloc_ptr' = 0
    /\ blocks' = {b \in blocks : b.lifetime = "execution"}
    /\ status' = "finished"
    /\ phase' \in {phase, "ending"}
    /\ UNCHANGED execution_alloc_ptr

(* The pipeline is executed again. *)
Restart ==
    /\ step_alloc_ptr' = 0 /\ execution_alloc_ptr' = ZoneSize
    /\ blocks' = {} /\ status' = "finished" /\ phase' = "running"

ZoneNext ==
    \/ \E size \in Sizes : AllocateStep(size) \/ AllocateExecution(size)
    \/ EndStep
    \/ Restart

ZoneSpec == ZoneInit /\ [][ZoneNext]_zoneVars

-----------------------------------------------------------------------------
ZoneTypeOK ==
    /\ step_alloc_ptr \in 0 .. ZoneSize
    /\ execution_alloc_ptr \in 0 .. ZoneSize
    /\ blocks \subseteq [lifetime : {"step", "execution"}, first : 0 .. ZoneSize,
                         size : Sizes]
    /\ status \in {"finished", "oom"}
    /\ phase \in {"running", "ending"}

End(block) == block.first + block.size

(* No two blocks in use overlap, of one lifetime or of both, and none      *)
(* leaves the zone: rounding up at one end and down at the other never     *)
(* makes the two ends cross.                                               *)
BlocksAreApart ==
    /\ \A b \in blocks : 0 <= b.first /\ End(b) <= ZoneSize
    /\ \A b, c \in blocks : b # c => End(b) <= c.first \/ End(c) <= b.first
=============================================================================
