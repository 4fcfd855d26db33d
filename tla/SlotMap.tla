------------------------------ MODULE SlotMap ------------------------------
(***************************************************************************)
(* The slot map of hgraph/src/slot_map.c: stable ids for densely packed    *)
(* slots.  A map is a record with the fields of hgraph_slot_map_t; every   *)
(* operation of the C file is an operator from a map to a map, and the     *)
(* values it returns through pointers are operators of their own.          *)
(* The module has no variables: SlotStore and Graph hold maps in theirs.   *)
(***************************************************************************)
EXTENDS Integers

(* HGRAPH_INVALID_INDEX. *)
Invalid == -1

(* HGRAPH_IS_VALID_INDEX. *)
IsValid(index) == index >= 0

(* The indices of the two arrays: both ids and slots are drawn from it. *)
Indices(max) == 0 .. max - 1

(* hgraph_slot_map_init: both arrays are the identity. *)
EmptyMap(max) ==
    [max_items    |-> max,
     num_items    |-> 0,
     slots_for_id |-> [i \in Indices(max) |-> i],
     ids_for_slot |-> [i \in Indices(max) |-> i]]

(* hgraph_slot_map_slot_for_id: a slot beyond num_items is not allocated. *)
SlotForId(m, id) ==
    IF id \in Indices(m.max_items) /\ m.slots_for_id[id] \in Indices(m.num_items)
    THEN m.slots_for_id[id]
    ELSE Invalid

(* hgraph_slot_map_id_for_slot. *)
IdForSlot(m, slot) ==
    IF slot \in Indices(m.num_items) THEN m.ids_for_slot[slot] ELSE Invalid

IsLive(m, id) == IsValid(SlotForId(m, id))

LiveIds(m) == {id \in Indices(m.max_items) : IsLive(m, id)}

(* hgraph_slot_map_allocate: the next slot, with the id that waits in it.  *)
IsFull(m) == m.num_items = m.max_items

AllocatedId(m) == IF IsFull(m) THEN Invalid ELSE m.ids_for_slot[m.num_items]

AllocatedSlot(m) == IF IsFull(m) THEN Invalid ELSE m.num_items

Allocate(m) == IF IsFull(m) THEN m ELSE [m EXCEPT !.num_items = @ + 1]

(* hgraph_slot_map_free: the freed id trades places with the id of the     *)
(* last slot.  FreeDst and FreeSrc are its two results: the caller moves   *)
(* the item of slot src to slot dst.                                       *)
LastSlot(m) == m.num_items - 1

FreeDst(m, id) == SlotForId(m, id)

FreeSrc(m, id) == IF IsLive(m, id) THEN LastSlot(m) ELSE Invalid

(* Mutant: the moved id is not told its new slot. *)
FreeForgetsMoved(m, id) ==
    IF ~IsLive(m, id)
    THEN m
    ELSE LET hole   == SlotForId(m, id)
             lastId == m.ids_for_slot[LastSlot(m)]
         IN  [m EXCEPT !.num_items = @ - 1,
                       !.ids_for_slot = [@ EXCEPT ![LastSlot(m)] = id, ![hole] = lastId],
                       !.slots_for_id = [@ EXCEPT ![id] = LastSlot(m)]]

Free(m, id) ==
    IF ~IsLive(m, id)
    THEN m
    ELSE LET hole   == SlotForId(m, id)
             lastId == m.ids_for_slot[LastSlot(m)]
         IN  [m EXCEPT !.num_items = @ - 1,
                       !.ids_for_slot = [@ EXCEPT ![LastSlot(m)] = id, ![hole] = lastId],
                       !.slots_for_id = [@ EXCEPT ![lastId] = hole, ![id] = LastSlot(m)]]

(* hgraph_slot_map_swap_id.  SwapIdAsserts are its two assertions, with    *)
(* occupied_id (an id) compared with num_items as the code does.           *)
SwapIdAsserts(m, occupied, vacant) ==
    /\ occupied \in Indices(m.max_items)
    /\ vacant \in Indices(m.max_items)
    /\ occupied < m.num_items
    /\ m.num_items <= m.slots_for_id[vacant]

SwapId(m, occupied, vacant) ==
    LET occupiedSlot == m.slots_for_id[occupied]
        vacantSlot   == m.slots_for_id[vacant]
    IN  [m EXCEPT !.slots_for_id = [@ EXCEPT ![occupied] = vacantSlot,
                                             ![vacant] = occupiedSlot],
                  !.ids_for_slot = [@ EXCEPT ![occupiedSlot] = vacant,
                                             ![vacantSlot] = occupied]]

(***************************************************************************)
(* What a map promises: its arrays are inverse permutations, of which the  *)
(* first num_items slots are in use.                                       *)
(***************************************************************************)
MapType(max) ==
    [max_items    : {max},
     num_items    : 0 .. max,
     slots_for_id : [Indices(max) -> Indices(max)],
     ids_for_slot : [Indices(max) -> Indices(max)]]

InversePermutations(m) ==
    \A i \in Indices(m.max_items) :
        /\ m.ids_for_slot[m.slots_for_id[i]] = i
        /\ m.slots_for_id[m.ids_for_slot[i]] = i

IsSlotMap(m, max) == m \in MapType(max) /\ InversePermutations(m)
=============================================================================
