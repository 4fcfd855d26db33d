--------------------------- MODULE SlotMapProofs ----------------------------
(***************************************************************************)
(* What the operations of slot_map.c preserve and return, for maps of any  *)
(* size.  The modules that hold slot maps cite these lemmas.               *)
(***************************************************************************)
EXTENDS SlotMap, TLAPS

(* The fields of a map, each in its range. *)
LEMMA MapFields ==
    ASSUME NEW max \in Nat, NEW m, m \in MapType(max)
    PROVE  /\ m.max_items = max
           /\ m.num_items \in 0 .. max
           /\ m.slots_for_id \in [Indices(max) -> Indices(max)]
           /\ m.ids_for_slot \in [Indices(max) -> Indices(max)]
BY DEF MapType

(* A map is known by its fields. *)
LEMMA MapMade ==
    ASSUME NEW max \in Nat, NEW n \in 0 .. max,
           NEW s \in [Indices(max) -> Indices(max)],
           NEW d \in [Indices(max) -> Indices(max)],
           \A i \in Indices(max) : d[s[i]] = i /\ s[d[i]] = i
    PROVE  IsSlotMap([max_items |-> max, num_items |-> n,
                      slots_for_id |-> s, ids_for_slot |-> d], max)
BY DEF IsSlotMap, MapType, InversePermutations

(* A map with an item has a last one. *)
LEMMA LastIndex ==
    ASSUME NEW max \in Nat, NEW n \in 0 .. max, NEW i \in Indices(n)
    PROVE  n - 1 \in Indices(max) /\ n - 1 + 1 = n /\ n - 1 \in 0 .. max
BY DEF Indices

(* hgraph_slot_map_init. *)
LEMMA EmptyIsSlotMap ==
    ASSUME NEW max \in Nat
    PROVE  IsSlotMap(EmptyMap(max), max)
<1> DEFINE f == [i \in Indices(max) |-> i]
<1>1. f \in [Indices(max) -> Indices(max)] /\ \A i \in Indices(max) : f[f[i]] = i
  OBVIOUS
<1> QED
  BY <1>1, MapMade DEF EmptyMap

(* The lookups stay in range, and agree with each other on live ids.       *)
LEMMA LookupRange ==
    ASSUME NEW max \in Nat, NEW m, IsSlotMap(m, max), NEW id, IsLive(m, id)
    PROVE  /\ id \in Indices(max)
           /\ SlotForId(m, id) = m.slots_for_id[id]
           /\ SlotForId(m, id) \in Indices(m.num_items)
           /\ SlotForId(m, id) \in Indices(max)
           /\ m.ids_for_slot[SlotForId(m, id)] = id
<1>1. /\ m.max_items = max
      /\ m.num_items \in 0 .. max
      /\ m.slots_for_id \in [Indices(max) -> Indices(max)]
  BY MapFields DEF IsSlotMap
<1>2. id \in Indices(max) /\ m.slots_for_id[id] \in Indices(m.num_items)
  BY <1>1 DEF IsLive, IsValid, SlotForId, Invalid
<1> QED
  BY <1>1, <1>2 DEF SlotForId, IsSlotMap, InversePermutations, Indices

LEMMA LiveIdsAre ==
    ASSUME NEW max \in Nat, NEW m, IsSlotMap(m, max)
    PROVE  /\ LiveIds(m) \subseteq Indices(max)
           /\ \A id \in Indices(max) :
                 id \in LiveIds(m) <=> m.slots_for_id[id] < m.num_items
           /\ \A id : id \in LiveIds(m) <=> IsLive(m, id)
<1>1. /\ m.max_items = max
      /\ m.num_items \in 0 .. max
      /\ m.slots_for_id \in [Indices(max) -> Indices(max)]
  BY MapFields DEF IsSlotMap
<1>2. \A id \in Indices(max) : m.slots_for_id[id] \in Indices(max)
  BY <1>1
<1>3. \A id \in Indices(max) : IsLive(m, id) <=> m.slots_for_id[id] < m.num_items
  BY <1>1, <1>2 DEF IsLive, IsValid, SlotForId, Invalid, Indices
<1>4. \A id : IsLive(m, id) => id \in Indices(max)
  BY <1>1 DEF IsLive, IsValid, SlotForId, Invalid
<1> QED
  BY <1>1, <1>3, <1>4 DEF LiveIds

(* hgraph_slot_map_allocate makes one id live: one that was not.           *)
LEMMA AllocateIsSlotMap ==
    ASSUME NEW max \in Nat, NEW m, IsSlotMap(m, max)
    PROVE  IsSlotMap(Allocate(m), max)
<1>1. /\ m.max_items = max
      /\ m.num_items \in 0 .. max
      /\ m.slots_for_id \in [Indices(max) -> Indices(max)]
      /\ m.ids_for_slot \in [Indices(max) -> Indices(max)]
      /\ m = [max_items |-> m.max_items, num_items |-> m.num_items,
              slots_for_id |-> m.slots_for_id, ids_for_slot |-> m.ids_for_slot]
  BY DEF IsSlotMap, MapType
<1>2. CASE IsFull(m)
  BY <1>2 DEF Allocate
<1>3. CASE ~IsFull(m)
  <2>1. m.num_items + 1 \in 0 .. max
    BY <1>1, <1>3 DEF IsFull
  <2>2. Allocate(m) = [max_items |-> max, num_items |-> m.num_items + 1,
                       slots_for_id |-> m.slots_for_id, ids_for_slot |-> m.ids_for_slot]
    BY <1>1, <1>3 DEF Allocate
  <2>3. \A i \in Indices(max) : /\ m.ids_for_slot[m.slots_for_id[i]] = i
                                /\ m.slots_for_id[m.ids_for_slot[i]] = i
    BY <1>1 DEF IsSlotMap, InversePermutations
  <2> QED
    BY <1>1, <2>1, <2>2, <2>3, MapMade
<1> QED
  BY <1>2, <1>3

LEMMA AllocateMakesLive ==
    ASSUME NEW max \in Nat, NEW m, IsSlotMap(m, max), ~IsFull(m)
    PROVE  /\ AllocatedId(m) \in Indices(max) \ LiveIds(m)
           /\ AllocatedSlot(m) \in Indices(max)
           /\ AllocatedSlot(m) = m.num_items
           /\ LiveIds(Allocate(m)) = LiveIds(m) \union {AllocatedId(m)}
           /\ SlotForId(Allocate(m), AllocatedId(m)) = AllocatedSlot(m)
           /\ \A id \in LiveIds(m) : /\ SlotForId(Allocate(m), id) = SlotForId(m, id)
                                     /\ SlotForId(m, id) # AllocatedSlot(m)
<1> DEFINE new == AllocatedId(m)
<1>1. /\ m.max_items = max
      /\ m.num_items \in 0 .. max
      /\ m.slots_for_id \in [Indices(max) -> Indices(max)]
      /\ m.ids_for_slot \in [Indices(max) -> Indices(max)]
  BY MapFields DEF IsSlotMap
<1>2. m.num_items \in Indices(max) /\ m.num_items < max
  BY <1>1 DEF IsFull, Indices
<1>3. new = m.ids_for_slot[m.num_items] /\ AllocatedSlot(m) = m.num_items
  BY DEF AllocatedId, AllocatedSlot
<1>4. new \in Indices(max) /\ m.slots_for_id[new] = m.num_items
  BY <1>1, <1>2, <1>3 DEF IsSlotMap, InversePermutations
<1>5. /\ Allocate(m).num_items = m.num_items + 1
      /\ Allocate(m).slots_for_id = m.slots_for_id
      /\ Allocate(m).max_items = max
  BY <1>1 DEF Allocate, IsSlotMap, MapType
<1> HIDE DEF new
<1>6. IsSlotMap(Allocate(m), max)
  BY AllocateIsSlotMap
<1>7. \A id \in Indices(max) :
         /\ m.slots_for_id[id] \in Nat
         /\ m.slots_for_id[id] = m.num_items => id = new
  <2>1. \A id \in Indices(max) : m.slots_for_id[id] \in Indices(max)
    BY <1>1
  <2>2. \A id \in Indices(max) : m.ids_for_slot[m.slots_for_id[id]] = id
    BY <1>1 DEF IsSlotMap, InversePermutations
  <2> QED
    BY <1>3, <2>1, <2>2 DEF Indices, new
<1>8. new \notin LiveIds(m)
  BY <1>1, <1>4, LiveIdsAre
<1>9. \A id \in Indices(max) :
         id \in LiveIds(Allocate(m)) <=> id \in LiveIds(m) \/ id = new
  <2> TAKE id \in Indices(max)
  <2>1. id \in LiveIds(Allocate(m)) <=> m.slots_for_id[id] < m.num_items + 1
    BY <1>5, <1>6, LiveIdsAre
  <2>2. id \in LiveIds(m) <=> m.slots_for_id[id] < m.num_items
    BY LiveIdsAre
  <2> QED
    BY <1>1, <1>4, <1>7, <2>1, <2>2
<1>10. LiveIds(Allocate(m)) = LiveIds(m) \union {new}
  BY <1>4, <1>6, <1>9, LiveIdsAre
<1>11. \A id \in LiveIds(Allocate(m)) : SlotForId(Allocate(m), id) = m.slots_for_id[id]
  BY <1>5, <1>6, LiveIdsAre, LookupRange
<1>12. \A id \in LiveIds(m) : SlotForId(m, id) = m.slots_for_id[id]
  BY LiveIdsAre, LookupRange
<1>13. \A id \in LiveIds(m) : m.slots_for_id[id] # m.num_items
  BY <1>7, <1>8, LiveIdsAre
<1> QED
  BY <1>2, <1>3, <1>4, <1>8, <1>10, <1>11, <1>12, <1>13 DEF new

(* hgraph_slot_map_free trades two entries of either array, the same two.  *)
LEMMA FreeIsSlotMap ==
    ASSUME NEW max \in Nat, NEW m, IsSlotMap(m, max), NEW id
    PROVE  IsSlotMap(Free(m, id), max)
<1>1. CASE ~IsLive(m, id)
  BY <1>1 DEF Free
<1>2. CASE IsLive(m, id)
  <2> DEFINE hole   == SlotForId(m, id)
             last   == m.num_items - 1
             lastId == m.ids_for_slot[last]
             ids    == [m.ids_for_slot EXCEPT ![last] = id, ![hole] = lastId]
             slots  == [m.slots_for_id EXCEPT ![lastId] = hole, ![id] = last]
  <2>1. /\ m.max_items = max
        /\ m.num_items \in 0 .. max
        /\ m.slots_for_id \in [Indices(max) -> Indices(max)]
        /\ m.ids_for_slot \in [Indices(max) -> Indices(max)]
    BY MapFields DEF IsSlotMap
  <2>2. /\ id \in Indices(max) /\ hole \in Indices(max) /\ hole \in Indices(m.num_items)
        /\ m.slots_for_id[id] = hole /\ m.ids_for_slot[hole] = id
    BY <1>2, LookupRange
  <2>3. last \in Indices(max) /\ last + 1 = m.num_items /\ last \in 0 .. max
    BY <2>1, <2>2, LastIndex
  <2>4. lastId \in Indices(max) /\ m.slots_for_id[lastId] = last
    BY <2>1, <2>3 DEF IsSlotMap, InversePermutations
  <2>5. Free(m, id) = [max_items |-> max, num_items |-> last,
                       slots_for_id |-> slots, ids_for_slot |-> ids]
    <3>1. m = [max_items |-> m.max_items, num_items |-> m.num_items,
               slots_for_id |-> m.slots_for_id, ids_for_slot |-> m.ids_for_slot]
      BY DEF IsSlotMap, MapType
    <3> QED
      BY <1>2, <2>1, <3>1 DEF Free, LastSlot
  <2> HIDE DEF hole, last, lastId
  <2>6. /\ slots \in [Indices(max) -> Indices(max)]
        /\ ids \in [Indices(max) -> Indices(max)]
    BY <2>1, <2>2, <2>3, <2>4
  <2>7. \A i \in Indices(max) : /\ m.slots_for_id[i] \in Indices(max)
                                /\ m.ids_for_slot[i] \in Indices(max)
                                /\ m.ids_for_slot[m.slots_for_id[i]] = i
                                /\ m.slots_for_id[m.ids_for_slot[i]] = i
    BY <2>1 DEF IsSlotMap, InversePermutations
  <2>8. m.ids_for_slot[last] = lastId
    BY DEF lastId
  <2>9. \A i \in Indices(max) : ids[slots[i]] = i /\ slots[ids[i]] = i
    BY <2>1, <2>2, <2>3, <2>4, <2>7, <2>8
  <2> HIDE DEF ids, slots
  <2> QED
    BY <2>3, <2>5, <2>6, <2>9, MapMade
<1> QED
  BY <1>1, <1>2

(* It takes one id away, and the caller's copy of slot FreeSrc to slot     *)
(* FreeDst puts every other item where its id leads.                       *)
LEMMA FreeMovesLast ==
    ASSUME NEW max \in Nat, NEW m, IsSlotMap(m, max), NEW id, IsLive(m, id)
    PROVE  /\ FreeDst(m, id) \in Indices(max) /\ FreeSrc(m, id) \in Indices(max)
           /\ LiveIds(Free(m, id)) = LiveIds(m) \ {id}
           /\ \A other \in LiveIds(m) \ {id} :
                 IF SlotForId(m, other) = FreeSrc(m, id)
                 THEN SlotForId(Free(m, id), other) = FreeDst(m, id)
                 ELSE /\ SlotForId(Free(m, id), other) = SlotForId(m, other)
                      /\ SlotForId(m, other) # FreeDst(m, id)
<1> DEFINE hole   == SlotForId(m, id)
           last   == m.num_items - 1
           lastId == m.ids_for_slot[last]
<1>1. /\ m.max_items = max
      /\ m.num_items \in 0 .. max
      /\ m.slots_for_id \in [Indices(max) -> Indices(max)]
      /\ m.ids_for_slot \in [Indices(max) -> Indices(max)]
  BY MapFields DEF IsSlotMap
<1>2. /\ id \in Indices(max) /\ hole \in Indices(max) /\ hole \in Indices(m.num_items)
      /\ m.slots_for_id[id] = hole /\ m.ids_for_slot[hole] = id
  BY LookupRange
<1>3. last \in Indices(max) /\ last + 1 = m.num_items
  BY <1>1, <1>2, LastIndex
<1>4. lastId \in Indices(max) /\ m.slots_for_id[lastId] = last
  BY <1>1, <1>3 DEF IsSlotMap, InversePermutations
<1>5. FreeDst(m, id) = hole /\ FreeSrc(m, id) = last
  BY DEF FreeDst, FreeSrc, LastSlot
<1>6. /\ Free(m, id).num_items = last
      /\ Free(m, id).slots_for_id = [m.slots_for_id EXCEPT ![lastId] = hole, ![id] = last]
  BY <1>1 DEF Free, LastSlot, IsSlotMap, MapType
<1> HIDE DEF hole, last, lastId
<1>7. IsSlotMap(Free(m, id), max)
  BY FreeIsSlotMap
<1>8. \A i \in Indices(max) :
         /\ m.slots_for_id[i] \in Nat
         /\ m.slots_for_id[i] = last => i = lastId
         /\ m.slots_for_id[i] = hole => i = id
  <2>1. \A i \in Indices(max) : m.slots_for_id[i] \in Indices(max)
    BY <1>1
  <2>2. \A i \in Indices(max) : m.ids_for_slot[m.slots_for_id[i]] = i
    BY <1>1 DEF IsSlotMap, InversePermutations
  <2>3. m.ids_for_slot[last] = lastId
    BY DEF lastId
  <2> QED
    BY <1>2, <2>1, <2>2, <2>3 DEF Indices
<1>9. \A i \in Indices(max) :
         Free(m, id).slots_for_id[i] = IF i = id THEN last
                                       ELSE IF i = lastId THEN hole
                                       ELSE m.slots_for_id[i]
  BY <1>1, <1>2, <1>4, <1>6
<1>10. last \in Nat /\ hole \in Nat /\ hole <= last
  BY <1>1, <1>2, <1>3 DEF Indices
<1>11. \A i \in Indices(max) : i \in LiveIds(Free(m, id)) <=> i \in LiveIds(m) /\ i # id
  <2> TAKE i \in Indices(max)
  <2>1. i \in LiveIds(Free(m, id)) <=> Free(m, id).slots_for_id[i] < last
    BY <1>6, <1>7, LiveIdsAre
  <2>2. i \in LiveIds(m) <=> m.slots_for_id[i] < last + 1
    BY <1>3, LiveIdsAre
  <2> QED
    BY <1>4, <1>2, <1>8, <1>9, <1>10, <2>1, <2>2
<1>12. LiveIds(Free(m, id)) = LiveIds(m) \ {id}
  BY <1>7, <1>11, LiveIdsAre
<1>13. \A i \in LiveIds(Free(m, id)) : SlotForId(Free(m, id), i) = Free(m, id).slots_for_id[i]
  BY <1>7, LiveIdsAre, LookupRange
<1>14. \A i \in LiveIds(m) : SlotForId(m, i) = m.slots_for_id[i] /\ i \in Indices(max)
  BY LiveIdsAre, LookupRange
<1> QED
  BY <1>2, <1>3, <1>4, <1>5, <1>8, <1>9, <1>12, <1>13, <1>14

(* hgraph_slot_map_swap_id, within its assertions, gives the occupied id's *)
(* slot to the vacant id.                                                  *)
LEMMA SwapIsSlotMap ==
    ASSUME NEW max \in Nat, NEW m, IsSlotMap(m, max),
           NEW occupied \in Indices(max), NEW vacant \in Indices(max)
    PROVE  IsSlotMap(SwapId(m, occupied, vacant), max)
<1> DEFINE a     == m.slots_for_id[occupied]
           b     == m.slots_for_id[vacant]
           slots == [m.slots_for_id EXCEPT ![occupied] = b, ![vacant] = a]
           ids   == [m.ids_for_slot EXCEPT ![a] = vacant, ![b] = occupied]
<1>1. /\ m.max_items = max
      /\ m.num_items \in 0 .. max
      /\ m.slots_for_id \in [Indices(max) -> Indices(max)]
      /\ m.ids_for_slot \in [Indices(max) -> Indices(max)]
      /\ m = [max_items |-> m.max_items, num_items |-> m.num_items,
              slots_for_id |-> m.slots_for_id, ids_for_slot |-> m.ids_for_slot]
  BY DEF IsSlotMap, MapType
<1>2. SwapId(m, occupied, vacant) = [max_items |-> max, num_items |-> m.num_items,
                                     slots_for_id |-> slots, ids_for_slot |-> ids]
  <2>1. SwapId(m, occupied, vacant) = [m EXCEPT !.slots_for_id = slots, !.ids_for_slot = ids]
    BY DEF SwapId
  <2> HIDE DEF slots, ids
  <2> QED
    BY <1>1, <2>1
<1>3. \A i \in Indices(max) : /\ m.slots_for_id[i] \in Indices(max)
                              /\ m.ids_for_slot[i] \in Indices(max)
                              /\ m.ids_for_slot[m.slots_for_id[i]] = i
                              /\ m.slots_for_id[m.ids_for_slot[i]] = i
  BY <1>1 DEF IsSlotMap, InversePermutations
<1>4. a \in Indices(max) /\ b \in Indices(max)
  BY <1>3
<1>5. m.ids_for_slot[a] = occupied /\ m.ids_for_slot[b] = vacant
  BY <1>3
<1>6. slots \in [Indices(max) -> Indices(max)] /\ ids \in [Indices(max) -> Indices(max)]
  BY <1>1, <1>4
<1>7. \A i \in Indices(max) : ids[slots[i]] = i /\ slots[ids[i]] = i
  <2> HIDE DEF a, b
  <2>1. m.slots_for_id[occupied] = a /\ m.slots_for_id[vacant] = b
    BY DEF a, b
  <2> QED
    BY <1>1, <1>3, <1>4, <1>5, <2>1
<1> HIDE DEF slots, ids
<1> QED
  BY <1>1, <1>2, <1>6, <1>7, MapMade

LEMMA SwapRenames ==
    ASSUME NEW max \in Nat, NEW m, IsSlotMap(m, max),
           NEW occupied \in LiveIds(m), NEW vacant \in Indices(max) \ LiveIds(m)
    PROVE  /\ LiveIds(SwapId(m, occupied, vacant)) = (LiveIds(m) \ {occupied}) \union {vacant}
           /\ SlotForId(SwapId(m, occupied, vacant), vacant) = SlotForId(m, occupied)
           /\ \A id \in LiveIds(m) \ {occupied} :
                 SlotForId(SwapId(m, occupied, vacant), id) = SlotForId(m, id)
<1> DEFINE n == SwapId(m, occupied, vacant)
<1>1. /\ m.max_items = max
      /\ m.num_items \in 0 .. max
      /\ m.slots_for_id \in [Indices(max) -> Indices(max)]
  BY MapFields DEF IsSlotMap
<1>2. occupied \in Indices(max) /\ LiveIds(m) \subseteq Indices(max)
  BY LiveIdsAre
<1>3. /\ n.num_items = m.num_items
      /\ n.slots_for_id = [m.slots_for_id EXCEPT ![occupied] = m.slots_for_id[vacant],
                                                 ![vacant] = m.slots_for_id[occupied]]
  BY <1>1 DEF SwapId, IsSlotMap, MapType
<1>4. IsSlotMap(n, max)
  BY <1>2, SwapIsSlotMap
<1> HIDE DEF n
<1>5. \A i \in Indices(max) :
         n.slots_for_id[i] = IF i = vacant THEN m.slots_for_id[occupied]
                             ELSE IF i = occupied THEN m.slots_for_id[vacant]
                             ELSE m.slots_for_id[i]
  BY <1>1, <1>2, <1>3
<1>6. \A i \in Indices(max) : i \in LiveIds(n) <=> n.slots_for_id[i] < m.num_items
  BY <1>3, <1>4, LiveIdsAre
<1>7. \A i \in Indices(max) : i \in LiveIds(m) <=> m.slots_for_id[i] < m.num_items
  BY LiveIdsAre
<1>8. LiveIds(n) \subseteq Indices(max)
  BY <1>4, LiveIdsAre
<1>9. LiveIds(n) = (LiveIds(m) \ {occupied}) \union {vacant}
  BY <1>2, <1>5, <1>6, <1>7, <1>8
<1>10. \A i \in LiveIds(n) : SlotForId(n, i) = n.slots_for_id[i]
  BY <1>4, LiveIdsAre, LookupRange
<1>11. \A i \in LiveIds(m) : SlotForId(m, i) = m.slots_for_id[i]
  BY LiveIdsAre, LookupRange
<1> QED
  BY <1>2, <1>5, <1>9, <1>10, <1>11 DEF n

(* Of two ids that are not live it changes nothing that a lookup can see.  *)
LEMMA SwapOfVacantIds ==
    ASSUME NEW max \in Nat, NEW m, IsSlotMap(m, max),
           NEW occupied \in Indices(max) \ LiveIds(m), NEW vacant \in Indices(max) \ LiveIds(m)
    PROVE  /\ LiveIds(SwapId(m, occupied, vacant)) = LiveIds(m)
           /\ \A id \in LiveIds(m) :
                 SlotForId(SwapId(m, occupied, vacant), id) = SlotForId(m, id)
<1> DEFINE n == SwapId(m, occupied, vacant)
<1>1. /\ m.max_items = max
      /\ m.num_items \in 0 .. max
      /\ m.slots_for_id \in [Indices(max) -> Indices(max)]
  BY MapFields DEF IsSlotMap
<1>2. /\ n.num_items = m.num_items
      /\ n.slots_for_id = [m.slots_for_id EXCEPT ![occupied] = m.slots_for_id[vacant],
                                                 ![vacant] = m.slots_for_id[occupied]]
  BY <1>1 DEF SwapId, IsSlotMap, MapType
<1>3. IsSlotMap(n, max)
  BY SwapIsSlotMap
<1> HIDE DEF n
<1>4. \A i \in Indices(max) :
         n.slots_for_id[i] = IF i = vacant THEN m.slots_for_id[occupied]
                             ELSE IF i = occupied THEN m.slots_for_id[vacant]
                             ELSE m.slots_for_id[i]
  BY <1>1, <1>2
<1>5. \A i \in Indices(max) : i \in LiveIds(n) <=> n.slots_for_id[i] < m.num_items
  BY <1>2, <1>3, LiveIdsAre
<1>6. \A i \in Indices(max) : i \in LiveIds(m) <=> m.slots_for_id[i] < m.num_items
  BY LiveIdsAre
<1>7. LiveIds(n) \subseteq Indices(max) /\ LiveIds(m) \subseteq Indices(max)
  BY <1>3, LiveIdsAre
<1>8. LiveIds(n) = LiveIds(m)
  BY <1>4, <1>5, <1>6, <1>7
<1>9. \A i \in LiveIds(n) : SlotForId(n, i) = n.slots_for_id[i]
  BY <1>3, LiveIdsAre, LookupRange
<1>10. \A i \in LiveIds(m) : SlotForId(m, i) = m.slots_for_id[i]
  BY LiveIdsAre, LookupRange
<1> QED
  BY <1>4, <1>7, <1>8, <1>9, <1>10 DEF n
=============================================================================
