----------------------------- MODULE SlotStore -----------------------------
(***************************************************************************)
(* A slot map with the array it indexes, used as graph.c and migration.c   *)
(* use theirs: hgraph_create_node and hgraph_connect write the slot they   *)
(* allocated, hgraph_destroy_node and hgraph_disconnect copy the slot src  *)
(* over the slot dst, and migration.c renames ids.  What lies in the array *)
(* beyond num_items is whatever was left there.                            *)
(***************************************************************************)
EXTENDS SlotMap

CONSTANTS MaxItems,     \* config->max_nodes, or max_edges
          Items         \* what a slot can hold

ASSUME MaxItemsAssumption == MaxItems \in Nat

VARIABLES map, array, result

vars == <<map, array, result>>

Init ==
    /\ map = EmptyMap(MaxItems)
    /\ array \in [Indices(MaxItems) -> Items]
    /\ result = Invalid

(* Mutant: the slot is handed out as the id. *)
InsertReturningSlot(item) ==
    /\ map' = Allocate(map)
    /\ array' = IF IsValid(AllocatedId(map))
                THEN [array EXCEPT ![AllocatedSlot(map)] = item]
                ELSE array
    /\ result' = AllocatedSlot(map)

(* hgraph_slot_map_allocate, then the caller's write of the new slot. *)
Insert(item) ==
    /\ map' = Allocate(map)
    /\ array' = IF IsValid(AllocatedId(map))
                THEN [array EXCEPT ![AllocatedSlot(map)] = item]
                ELSE array
    /\ result' = AllocatedId(map)

(* Mutant: the caller copies in the wrong direction. *)
RemoveCopyingBack(id) ==
    /\ map' = Free(map, id)
    /\ array' = IF IsLive(map, id)
                THEN [array EXCEPT ![FreeSrc(map, id)] = array[FreeDst(map, id)]]
                ELSE array
    /\ UNCHANGED result

(* The lookup, hgraph_slot_map_free and the caller's copy.  A free of an   *)
(* id that is not live does nothing.                                       *)
Remove(id) ==
    /\ map' = Free(map, id)
    /\ array' = IF IsLive(map, id)
                THEN [array EXCEPT ![FreeDst(map, id)] = array[FreeSrc(map, id)]]
                ELSE array
    /\ UNCHANGED result

(* hgraph_slot_map_swap_id, called within its assertions.  The item stays  *)
(* in its slot.                                                            *)
Rename(occupied, vacant) ==
    /\ SwapIdAsserts(map, occupied, vacant)
    /\ map' = SwapId(map, occupied, vacant)
    /\ UNCHANGED <<array, result>>

Next ==
    \/ \E item \in Items : Insert(item)
    \/ \E id \in -1 .. MaxItems : Remove(id)
    \/ \E occupied, vacant \in Indices(MaxItems) : Rename(occupied, vacant)

Spec == Init /\ [][Next]_vars

-----------------------------------------------------------------------------
(* Every slot and id is in range, and the result is an id or Invalid.      *)
TypeOK ==
    /\ map \in MapType(MaxItems)
    /\ array \in [Indices(MaxItems) -> Items]
    /\ result \in Indices(MaxItems) \union {Invalid}

(* slots_for_id and ids_for_slot stay inverse to each other through any    *)
(* sequence of allocations, swap-with-last frees and id swaps: the two     *)
(* double assignments of hgraph_slot_map_free and _swap_id agree.          *)
InverseArrays == InversePermutations(map)

(* An id never moves to another item behind its owner's back: a step       *)
(* changes which item a live id leads to only by removing that id or by    *)
(* renaming it, whatever slot the item is moved to.                        *)
Lookup(id) == array[SlotForId(map, id)]

OthersKeepTheirItems ==
    [][\A id \in LiveIds(map) :
          \/ id \in LiveIds(map)' /\ Lookup(id)' = Lookup(id)
          \/ LiveIds(map)' = LiveIds(map) \ {id}
          \/ map.num_items' = map.num_items /\ id \notin LiveIds(map)']_vars

(* The store implements the table of IdTable: a lookup through             *)
(* slots_for_id finds the item that was inserted with that id.             *)
Table == INSTANCE IdTable
            WITH table <- [id \in LiveIds(map) |-> array[SlotForId(map, id)]]

ImplementsTable == Table!Spec
=============================================================================
