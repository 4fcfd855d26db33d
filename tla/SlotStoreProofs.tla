-------------------------- MODULE SlotStoreProofs ---------------------------
(***************************************************************************)
(* SlotStore for any number of items: its map stays a slot map, and with   *)
(* that invariant the store implements the table of IdTable.               *)
(***************************************************************************)
EXTENDS SlotStore, SlotMapProofs

StoreInv == IsSlotMap(map, MaxItems) /\ TypeOK

LEMMA InitStore == Init => StoreInv
<1> SUFFICES ASSUME Init PROVE StoreInv
  OBVIOUS
<1>1. IsSlotMap(map, MaxItems)
  BY EmptyIsSlotMap, MaxItemsAssumption DEF Init
<1> QED
  BY <1>1 DEF Init, StoreInv, TypeOK, IsSlotMap

LEMMA InsertKeepsStore ==
    ASSUME StoreInv, NEW item \in Items, Insert(item)
    PROVE  StoreInv'
<1>1. IsSlotMap(map', MaxItems)
  BY AllocateIsSlotMap, MaxItemsAssumption DEF StoreInv, Insert
<1>2. CASE IsFull(map)
  BY <1>1, <1>2 DEF StoreInv, TypeOK, Insert, AllocatedId, IsValid, Invalid, IsSlotMap
<1>3. CASE ~IsFull(map)
  <2>1. AllocatedId(map) \in Indices(MaxItems) /\ AllocatedSlot(map) \in Indices(MaxItems)
    BY <1>3, AllocateMakesLive, MaxItemsAssumption DEF StoreInv
  <2>2. array' \in [Indices(MaxItems) -> Items]
    BY <2>1 DEF StoreInv, TypeOK, Insert
  <2> QED
    BY <1>1, <2>1, <2>2 DEF StoreInv, TypeOK, Insert, IsSlotMap
<1> QED
  BY <1>2, <1>3

LEMMA RemoveKeepsStore ==
    ASSUME StoreInv, NEW id, Remove(id)
    PROVE  StoreInv'
<1>1. IsSlotMap(map', MaxItems)
  BY FreeIsSlotMap, MaxItemsAssumption DEF StoreInv, Remove
<1>2. array' \in [Indices(MaxItems) -> Items]
  <2>1. CASE ~IsLive(map, id)
    BY <2>1 DEF StoreInv, TypeOK, Remove
  <2>2. CASE IsLive(map, id)
    <3>1. FreeSrc(map, id) \in Indices(MaxItems)
      BY <2>2, FreeMovesLast, MaxItemsAssumption DEF StoreInv
    <3> QED
      BY <2>2, <3>1 DEF StoreInv, TypeOK, Remove
  <2> QED
    BY <2>1, <2>2
<1> QED
  BY <1>1, <1>2 DEF StoreInv, TypeOK, Remove, IsSlotMap

LEMMA RenameKeepsStore ==
    ASSUME StoreInv, NEW occupied \in Indices(MaxItems), NEW vacant \in Indices(MaxItems),
           Rename(occupied, vacant)
    PROVE  StoreInv'
<1>1. IsSlotMap(map', MaxItems)
  BY SwapIsSlotMap, MaxItemsAssumption DEF StoreInv, Rename
<1> QED
  BY <1>1 DEF StoreInv, TypeOK, Rename, IsSlotMap

LEMMA StoreIsInductive == StoreInv /\ [Next]_vars => StoreInv'
<1> SUFFICES ASSUME StoreInv, [Next]_vars
             PROVE  StoreInv'
  OBVIOUS
<1>1. ASSUME NEW item \in Items, Insert(item)
      PROVE  StoreInv'
  BY <1>1, InsertKeepsStore
<1>2. ASSUME NEW id \in -1 .. MaxItems, Remove(id)
      PROVE  StoreInv'
  BY <1>2, RemoveKeepsStore
<1>3. ASSUME NEW occupied \in Indices(MaxItems), NEW vacant \in Indices(MaxItems),
             Rename(occupied, vacant)
      PROVE  StoreInv'
  BY <1>3, RenameKeepsStore
<1>4. CASE UNCHANGED vars
  BY <1>4 DEF vars, StoreInv, TypeOK
<1> QED
  BY <1>1, <1>2, <1>3, <1>4 DEF Next

(* The two index arrays of hgraph_slot_map_t stay inverse permutations,    *)
(* and every id, slot and item in its range, for every max_items.          *)
THEOREM StoreIsSafe == Spec => [](TypeOK /\ InverseArrays)
<1>1. StoreInv => TypeOK /\ InverseArrays
  BY DEF StoreInv, IsSlotMap, InverseArrays
<1> QED
  BY InitStore, StoreIsInductive, <1>1, PTL DEF Spec

-----------------------------------------------------------------------------
(* The four kinds of step as the abstract table sees them.                 *)
Abstraction == [id \in LiveIds(map) |-> array[SlotForId(map, id)]]

LEMMA InsertMaps ==
    ASSUME StoreInv, NEW item \in Items, Insert(item)
    PROVE  Table!Insert(item)
<1> USE MaxItemsAssumption
<1>1. CASE IsFull(map)
  <2>1. UNCHANGED <<map, array>> /\ result' = -1
    BY <1>1 DEF Insert, Allocate, AllocatedId, IsValid, Invalid
  <2>2. \A id \in Indices(MaxItems) : id \in LiveIds(map)
    <3>1. map.num_items = MaxItems /\ map.slots_for_id \in [Indices(MaxItems) -> Indices(MaxItems)]
      BY <1>1, MapFields DEF StoreInv, IsSlotMap, IsFull
    <3>2. \A id \in Indices(MaxItems) : map.slots_for_id[id] < MaxItems
      BY <3>1 DEF Indices
    <3> QED
      BY <3>1, <3>2, LiveIdsAre DEF StoreInv
  <2>3. LiveIds(map) = Table!TableIds
    BY <2>2, LiveIdsAre DEF StoreInv, Table!TableIds, Indices
  <2> QED
    BY <2>1, <2>3 DEF Table!Insert
<1>2. CASE ~IsFull(map)
  <2> DEFINE new == AllocatedId(map)
  <2>1. /\ new \in Indices(MaxItems) \ LiveIds(map)
        /\ AllocatedSlot(map) \in Indices(MaxItems)
        /\ LiveIds(Allocate(map)) = LiveIds(map) \union {new}
        /\ SlotForId(Allocate(map), new) = AllocatedSlot(map)
        /\ \A id \in LiveIds(map) : /\ SlotForId(Allocate(map), id) = SlotForId(map, id)
                                    /\ SlotForId(map, id) # AllocatedSlot(map)
    BY <1>2, AllocateMakesLive DEF StoreInv
  <2>2. /\ map' = Allocate(map) /\ result' = new
        /\ array' = [array EXCEPT ![AllocatedSlot(map)] = item]
    BY <2>1 DEF Insert, IsValid, Indices
  <2>3. \A id \in LiveIds(map) : SlotForId(map, id) \in Indices(MaxItems)
    BY LiveIdsAre, LookupRange DEF StoreInv
  <2> HIDE DEF new
  <2>4. Abstraction' = [i \in LiveIds(map) \union {new} |->
                           IF i = new THEN item ELSE Abstraction[i]]
    <3>1. \A i \in LiveIds(map) \union {new} :
             array'[SlotForId(map', i)] = IF i = new THEN item ELSE Abstraction[i]
      BY <2>1, <2>2, <2>3 DEF StoreInv, TypeOK, Abstraction
    <3> QED
      BY <2>1, <2>2, <3>1 DEF Abstraction
  <2> QED
    BY <2>1, <2>2, <2>4 DEF Table!Insert, Table!TableIds, Abstraction, Indices
<1> QED
  BY <1>1, <1>2

LEMMA RemoveMaps ==
    ASSUME StoreInv, NEW id, Remove(id)
    PROVE  (\E i \in Table!TableIds : Table!Remove(i)) \/ UNCHANGED <<Abstraction, result>>
<1> USE MaxItemsAssumption
<1>1. CASE ~IsLive(map, id)
  BY <1>1 DEF Remove, Free, Abstraction
<1>2. CASE IsLive(map, id)
  <2>1. /\ FreeDst(map, id) \in Indices(MaxItems) /\ FreeSrc(map, id) \in Indices(MaxItems)
        /\ LiveIds(Free(map, id)) = LiveIds(map) \ {id}
        /\ \A i \in LiveIds(map) \ {id} :
              IF SlotForId(map, i) = FreeSrc(map, id)
              THEN SlotForId(Free(map, id), i) = FreeDst(map, id)
              ELSE /\ SlotForId(Free(map, id), i) = SlotForId(map, i)
                   /\ SlotForId(map, i) # FreeDst(map, id)
    BY <1>2, FreeMovesLast DEF StoreInv
  <2>2. /\ map' = Free(map, id) /\ UNCHANGED result
        /\ array' = [array EXCEPT ![FreeDst(map, id)] = array[FreeSrc(map, id)]]
    BY <1>2 DEF Remove
  <2>3. \A i \in LiveIds(map) : SlotForId(map, i) \in Indices(MaxItems)
    BY LiveIdsAre, LookupRange DEF StoreInv
  <2>4. id \in Table!TableIds
    BY <1>2, LookupRange DEF StoreInv, Table!TableIds, Indices
  <2>5. \A i \in LiveIds(map) \ {id} : array'[SlotForId(map', i)] = array[SlotForId(map, i)]
    BY <2>1, <2>2, <2>3 DEF StoreInv, TypeOK
  <2>6. Abstraction' = [i \in LiveIds(map) \ {id} |-> Abstraction[i]]
    BY <2>1, <2>2, <2>5 DEF Abstraction
  <2>7. Table!Remove(id)
    BY <2>2, <2>6 DEF Table!Remove, Abstraction
  <2> QED
    BY <2>4, <2>7
<1> QED
  BY <1>1, <1>2

(* The last assertion of hgraph_slot_map_swap_id makes its id a free one.  *)
LEMMA VacantIsFree ==
    ASSUME StoreInv, NEW occupied \in Indices(MaxItems), NEW vacant \in Indices(MaxItems),
           Rename(occupied, vacant)
    PROVE  vacant \notin LiveIds(map)
<1> USE MaxItemsAssumption
<1>1. map.num_items \in Nat /\ map.slots_for_id[vacant] \in Nat
  BY MapFields, SMTT(60) DEF StoreInv, IsSlotMap, Indices
<1>2. map.num_items <= map.slots_for_id[vacant]
  BY DEF Rename, SwapIdAsserts
<1>3. vacant \in LiveIds(map) <=> map.slots_for_id[vacant] < map.num_items
  BY LiveIdsAre DEF StoreInv
<1> QED
  BY <1>1, <1>2, <1>3

(* The assertions of hgraph_slot_map_swap_id do not say that the occupied  *)
(* id is live, for the second compares the id itself with num_items.  If   *)
(* it is not, two free ids change places and the table stays as it is.     *)
LEMMA RenameMaps ==
    ASSUME StoreInv, NEW occupied \in Indices(MaxItems), NEW vacant \in Indices(MaxItems),
           Rename(occupied, vacant)
    PROVE  (\E old, new \in Table!TableIds : Table!Rename(old, new))
              \/ UNCHANGED <<Abstraction, result>>
<1> USE MaxItemsAssumption
<1>1. map' = SwapId(map, occupied, vacant) /\ UNCHANGED <<array, result>>
  BY DEF Rename
<1>2. vacant \notin LiveIds(map)
  BY VacantIsFree
<1>3. occupied \in Table!TableIds /\ vacant \in Table!TableIds
  BY DEF Table!TableIds, Indices
<1>4. CASE occupied \in LiveIds(map)
  <2>1. /\ LiveIds(map') = (LiveIds(map) \ {occupied}) \union {vacant}
        /\ SlotForId(map', vacant) = SlotForId(map, occupied)
        /\ \A id \in LiveIds(map) \ {occupied} : SlotForId(map', id) = SlotForId(map, id)
    BY <1>1, <1>2, <1>4, SwapRenames DEF StoreInv
  <2>2. \A i \in LiveIds(map') :
           array'[SlotForId(map', i)] = IF i = vacant THEN Abstraction[occupied]
                                        ELSE Abstraction[i]
    BY <1>1, <1>4, <2>1 DEF Abstraction
  <2>3. Abstraction' = [i \in (LiveIds(map) \ {occupied}) \union {vacant} |->
                           IF i = vacant THEN Abstraction[occupied] ELSE Abstraction[i]]
    BY <2>1, <2>2 DEF Abstraction
  <2>4. Table!Rename(occupied, vacant)
    BY <1>1, <1>2, <1>3, <1>4, <2>3 DEF Table!Rename, Abstraction
  <2> QED
    BY <1>3, <2>4
<1>5. CASE occupied \notin LiveIds(map)
  <2>1. /\ LiveIds(map') = LiveIds(map)
        /\ \A id \in LiveIds(map) : SlotForId(map', id) = SlotForId(map, id)
    BY <1>1, <1>2, <1>5, SwapOfVacantIds DEF StoreInv
  <2> QED
    BY <1>1, <2>1 DEF Abstraction
<1> QED
  BY <1>4, <1>5

LEMMA StepMaps ==
    ASSUME StoreInv, [Next]_vars
    PROVE  [Table!Next]_<<Abstraction, result>>
<1>1. ASSUME NEW item \in Items, Insert(item)
      PROVE  Table!Next
  BY <1>1, InsertMaps DEF Table!Next
<1>2. ASSUME NEW id \in -1 .. MaxItems, Remove(id)
      PROVE  [Table!Next]_<<Abstraction, result>>
  BY <1>2, RemoveMaps DEF Table!Next
<1>3. ASSUME NEW occupied \in Indices(MaxItems), NEW vacant \in Indices(MaxItems),
             Rename(occupied, vacant)
      PROVE  [Table!Next]_<<Abstraction, result>>
  BY <1>3, RenameMaps DEF Table!Next
<1>4. CASE UNCHANGED vars
  BY <1>4 DEF vars, Abstraction
<1> QED
  BY <1>1, <1>2, <1>3, <1>4 DEF Next

(* A slot map and its array are a table from ids to items: an allocation   *)
(* returns an id that was free, a lookup finds what was put there, and the *)
(* move of the last slot into a hole is invisible.                         *)
THEOREM StoreImplementsTable == Spec => ImplementsTable
<1>1. Init => Table!Init
  <2> SUFFICES ASSUME Init PROVE Table!Init
    OBVIOUS
  <2>1. IsSlotMap(map, MaxItems) /\ map.num_items = 0
    BY EmptyIsSlotMap, MaxItemsAssumption DEF Init, EmptyMap
  <2>2. map.slots_for_id \in [Indices(MaxItems) -> Indices(MaxItems)]
    BY <2>1, MapFields, MaxItemsAssumption DEF IsSlotMap
  <2>3. \A id \in Indices(MaxItems) : ~(map.slots_for_id[id] < 0)
    <3>1. \A id \in Indices(MaxItems) : map.slots_for_id[id] \in Indices(MaxItems)
      BY <2>2
    <3> QED
      BY <3>1 DEF Indices
  <2>4. LiveIds(map) = {}
    BY <2>1, <2>3, LiveIdsAre, MaxItemsAssumption
  <2> QED
    BY <2>4 DEF Init, Table!Init, Invalid
<1>2. StoreInv /\ [Next]_vars => [Table!Next]_<<Abstraction, result>>
  BY StepMaps
<1> QED
  BY InitStore, StoreIsInductive, <1>1, <1>2, PTL
     DEF Spec, ImplementsTable, Table!Spec, Abstraction

-----------------------------------------------------------------------------
(* A step disturbs an id only by removing it or by renaming it.            *)
LEMMA StepKeepsItems ==
    ASSUME StoreInv, [Next]_vars, NEW id \in LiveIds(map)
    PROVE  \/ id \in LiveIds(map)' /\ Lookup(id)' = Lookup(id)
           \/ LiveIds(map)' = LiveIds(map) \ {id}
           \/ map.num_items' = map.num_items /\ id \notin LiveIds(map)'
<1> USE MaxItemsAssumption DEF Lookup
<1>1. \A i \in LiveIds(map) : SlotForId(map, i) \in Indices(MaxItems)
  BY LiveIdsAre, LookupRange DEF StoreInv
<1>2. ASSUME NEW item \in Items, Insert(item)
      PROVE  id \in LiveIds(map)' /\ Lookup(id)' = Lookup(id)
  <2>1. CASE IsFull(map)
    BY <1>2, <2>1 DEF Insert, Allocate, AllocatedId, IsValid, Invalid
  <2>2. CASE ~IsFull(map)
    <3>1. /\ AllocatedSlot(map) \in Indices(MaxItems)
          /\ LiveIds(map') = LiveIds(map) \union {AllocatedId(map)}
          /\ SlotForId(map', id) = SlotForId(map, id)
          /\ SlotForId(map, id) # AllocatedSlot(map)
      BY <1>2, <2>2, AllocateMakesLive DEF StoreInv, Insert
    <3>2. array' = array \/ array' = [array EXCEPT ![AllocatedSlot(map)] = item]
      BY <1>2 DEF Insert
    <3> QED
      BY <1>1, <3>1, <3>2 DEF StoreInv, TypeOK
  <2> QED
    BY <2>1, <2>2
<1>3. ASSUME NEW x, Remove(x)
      PROVE  \/ id \in LiveIds(map)' /\ Lookup(id)' = Lookup(id)
             \/ LiveIds(map)' = LiveIds(map) \ {id}
  <2>1. CASE ~IsLive(map, x)
    BY <1>3, <2>1 DEF Remove, Free
  <2>2. CASE IsLive(map, x)
    <3>1. LiveIds(map') = LiveIds(map) \ {x}
      BY <1>3, <2>2, FreeMovesLast DEF StoreInv, Remove
    <3>2. id # x => IF SlotForId(map, id) = FreeSrc(map, x)
                    THEN SlotForId(map', id) = FreeDst(map, x)
                    ELSE /\ SlotForId(map', id) = SlotForId(map, id)
                         /\ SlotForId(map, id) # FreeDst(map, x)
      BY <1>3, <2>2, FreeMovesLast DEF StoreInv, Remove
    <3>3. /\ FreeDst(map, x) \in Indices(MaxItems)
          /\ array' = [array EXCEPT ![FreeDst(map, x)] = array[FreeSrc(map, x)]]
      BY <1>3, <2>2, FreeMovesLast DEF StoreInv, Remove
    <3> QED
      BY <1>1, <3>1, <3>2, <3>3 DEF StoreInv, TypeOK
  <2> QED
    BY <2>1, <2>2
<1>4. ASSUME NEW occupied \in Indices(MaxItems), NEW vacant \in Indices(MaxItems),
             Rename(occupied, vacant)
      PROVE  \/ id \in LiveIds(map)' /\ Lookup(id)' = Lookup(id)
             \/ map.num_items' = map.num_items /\ id \notin LiveIds(map)'
  <2>1. map' = SwapId(map, occupied, vacant) /\ array' = array
    BY <1>4 DEF Rename
  <2>2. map.num_items' = map.num_items
    BY <2>1 DEF SwapId, StoreInv, IsSlotMap, MapType
  <2>3. vacant \notin LiveIds(map)
    BY <1>4, VacantIsFree
  <2>4. CASE occupied \in LiveIds(map)
    <3>1. /\ LiveIds(map') = (LiveIds(map) \ {occupied}) \union {vacant}
          /\ id # occupied => SlotForId(map', id) = SlotForId(map, id)
      BY <2>1, <2>3, <2>4, SwapRenames DEF StoreInv
    <3> QED
      BY <2>1, <2>2, <2>3, <3>1
  <2>5. CASE occupied \notin LiveIds(map)
    BY <2>1, <2>3, <2>5, SwapOfVacantIds DEF StoreInv
  <2> QED
    BY <2>4, <2>5
<1>5. CASE UNCHANGED vars
  BY <1>5 DEF vars
<1> QED
  BY <1>2, <1>3, <1>4, <1>5 DEF Next

(* No call of slot_map.c moves an id to another item: for every max_items. *)
THEOREM StoreKeepsItems == Spec => OthersKeepTheirItems
<1>1. StoreInv /\ [Next]_vars =>
         [\A id \in LiveIds(map) :
             \/ id \in LiveIds(map)' /\ Lookup(id)' = Lookup(id)
             \/ LiveIds(map)' = LiveIds(map) \ {id}
             \/ map.num_items' = map.num_items /\ id \notin LiveIds(map)']_vars
  BY StepKeepsItems
<1> QED
  BY InitStore, StoreIsInductive, <1>1, PTL DEF Spec, OthersKeepTheirItems
=============================================================================
