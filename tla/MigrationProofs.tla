-------------------------- MODULE MigrationProofs ---------------------------
(***************************************************************************)
(* migration.c for any two registries and a graph of any size and history: *)
(* its assertions hold, and what the new registry still has survives under *)
(* the ids it had, if CanSurvive says that it can.                         *)
(***************************************************************************)
EXTENDS GraphFile, GraphProofs

-----------------------------------------------------------------------------
(* The operations of the new graph that do not depend on its registry are  *)
(* those of the old one.                                                   *)
LEMMA NewMaps ==
    /\ New!Invalid = Invalid
    /\ \A x : New!IsValid(x) = IsValid(x) /\ New!Indices(x) = Indices(x)
    /\ \A m, id : New!SlotForId(m, id) = SlotForId(m, id)
    /\ \A m, id : New!IsLive(m, id) = IsLive(m, id)
    /\ \A m : /\ New!IsFull(m) = IsFull(m) /\ New!Allocate(m) = Allocate(m)
              /\ New!AllocatedId(m) = AllocatedId(m) /\ New!AllocatedSlot(m) = AllocatedSlot(m)
    /\ \A x : New!EmptyMap(x) = EmptyMap(x)
<1>1. New!Invalid = Invalid
  BY DEF New!Invalid, Invalid
<1>2. \A x : New!IsValid(x) = IsValid(x) /\ New!Indices(x) = Indices(x)
  BY DEF New!IsValid, IsValid, New!Indices, Indices
<1>3. \A m, id : New!SlotForId(m, id) = SlotForId(m, id)
  BY <1>1, <1>2, Zenon DEF New!SlotForId, SlotForId
<1>4. \A m, id : New!IsLive(m, id) = IsLive(m, id)
  BY <1>2, <1>3, Zenon DEF New!IsLive, IsLive
<1>5. \A m : New!IsFull(m) = IsFull(m)
  BY Zenon DEF New!IsFull, IsFull
<1>6. \A m : New!Allocate(m) = Allocate(m)
  BY <1>5, Zenon DEF New!Allocate, Allocate
<1>7. \A m : New!AllocatedId(m) = AllocatedId(m) /\ New!AllocatedSlot(m) = AllocatedSlot(m)
  BY <1>1, <1>5, Zenon DEF New!AllocatedId, AllocatedId, New!AllocatedSlot, AllocatedSlot
<1>8. \A x : New!EmptyMap(x) = EmptyMap(x)
  BY <1>2, Zenon DEF New!EmptyMap, EmptyMap
<1> QED
  BY <1>1, <1>2, <1>3, <1>4, <1>5, <1>6, <1>7, <1>8

LEMMA NewFrees ==
    \A m, id : /\ New!Free(m, id) = Free(m, id)
               /\ New!FreeDst(m, id) = FreeDst(m, id) /\ New!FreeSrc(m, id) = FreeSrc(m, id)
<1>1. \A m : New!LastSlot(m) = LastSlot(m)
  BY Zenon DEF New!LastSlot, LastSlot
<1>2. \A m, id : New!Free(m, id) = Free(m, id)
  BY <1>1, NewMaps, Zenon DEF New!Free, Free
<1>3. \A m, id : New!FreeDst(m, id) = FreeDst(m, id) /\ New!FreeSrc(m, id) = FreeSrc(m, id)
  BY <1>1, NewMaps, Zenon DEF New!FreeDst, FreeDst, New!FreeSrc, FreeSrc
<1> QED
  BY <1>2, <1>3

LEMMA NewPins ==
    \A pin : /\ New!PinNode(pin) = PinNode(pin) /\ New!PinIndex(pin) = PinIndex(pin)
             /\ New!IsOutput(pin) = IsOutput(pin)
BY DEF New!PinNode, PinNode, New!PinIndex, PinIndex, New!IsOutput, IsOutput

LEMMA NewLookups ==
    \A g, id : /\ New!NodeSlot(g, id) = NodeSlot(g, id) /\ New!EdgeSlot(g, id) = EdgeSlot(g, id)
               /\ New!Node(g, id) = Node(g, id) /\ New!Edge(g, id) = Edge(g, id)
               /\ New!HasNode(g, id) = HasNode(g, id) /\ New!HasEdge(g, id) = HasEdge(g, id)
<1>1. \A g, id : New!NodeSlot(g, id) = NodeSlot(g, id) /\ New!EdgeSlot(g, id) = EdgeSlot(g, id)
  BY NewMaps, Zenon DEF New!NodeSlot, NodeSlot, New!EdgeSlot, EdgeSlot
<1>2. \A g, id : New!Node(g, id) = Node(g, id) /\ New!Edge(g, id) = Edge(g, id)
  BY <1>1, Zenon DEF New!Node, Node, New!Edge, Edge
<1>3. \A g, id : New!HasNode(g, id) = HasNode(g, id) /\ New!HasEdge(g, id) = HasEdge(g, id)
  BY NewMaps, Zenon DEF New!HasNode, HasNode, New!HasEdge, HasEdge
<1> QED
  BY <1>1, <1>2, <1>3

LEMMA NewWrites ==
    /\ \A g, pin, link : New!Resolve(g, pin, link) = Resolve(g, pin, link)
    /\ \A g, at, value : /\ New!SetNext(g, at, value) = SetNext(g, at, value)
                         /\ New!SetPrev(g, at, value) = SetPrev(g, at, value)
    /\ \A g, pin, value : New!SetInput(g, pin, value) = SetInput(g, pin, value)
    /\ \A g, pin : New!OutputPin(g, pin) = OutputPin(g, pin)
    /\ \A g, from, to : New!JoinsNodes(g, from, to) = JoinsNodes(g, from, to)
    /\ \A from, to : New!Directed(from, to) = Directed(from, to)
    /\ \A g, to : New!InputIsFree(g, to) = InputIsFree(g, to)
    /\ \A g, id : New!FreeNode(g, id) = FreeNode(g, id)
<1>1. \A g, pin, link : New!Resolve(g, pin, link) = Resolve(g, pin, link)
  BY NewLookups, NewPins, Zenon DEF New!Resolve, Resolve
<1>2. \A g, at, value : /\ New!SetNext(g, at, value) = SetNext(g, at, value)
                        /\ New!SetPrev(g, at, value) = SetPrev(g, at, value)
  BY ZenonT(60) DEF New!SetNext, SetNext, New!SetPrev, SetPrev
<1>3. \A g, pin, value : New!SetInput(g, pin, value) = SetInput(g, pin, value)
  BY NewLookups, NewPins, Zenon DEF New!SetInput, SetInput
<1>4. \A g, pin : New!OutputPin(g, pin) = OutputPin(g, pin)
  BY NewLookups, NewPins, Zenon DEF New!OutputPin, OutputPin
<1>5. \A g, from, to : New!JoinsNodes(g, from, to) = JoinsNodes(g, from, to)
  BY NewLookups, NewPins, Zenon DEF New!JoinsNodes, JoinsNodes
<1>6. \A from, to : New!Directed(from, to) = Directed(from, to)
  BY NewMaps, NewPins, Zenon DEF New!Directed, Directed
<1>7. \A g, to : New!InputIsFree(g, to) = InputIsFree(g, to)
  BY NewMaps, NewLookups, NewPins, Zenon DEF New!InputIsFree, InputIsFree
<1>8. \A g, id : New!FreeNode(g, id) = FreeNode(g, id)
  BY NewFrees, Zenon DEF New!FreeNode, FreeNode
<1> QED
  BY <1>1, <1>2, <1>3, <1>4, <1>5, <1>6, <1>7, <1>8

LEMMA NewCounts ==
    ASSUME NEW type \in NewNodeTypes
    PROVE  /\ New!NumInputs(type) = Len(NewInputTypes[type]) /\ New!NumInputs(type) \in 0 .. 16
           /\ New!NumOutputs(type) = Len(NewOutputTypes[type]) /\ New!NumOutputs(type) \in 0 .. 16
           /\ DOMAIN NewInputTypes[type] = 1 .. New!NumInputs(type)
           /\ DOMAIN NewOutputTypes[type] = 1 .. New!NumOutputs(type)
<1>1. NewInputTypes[type] \in Seq(DataTypes) /\ NewOutputTypes[type] \in Seq(DataTypes)
  BY MigrationAssumption
<1>2. Len(NewInputTypes[type]) \in Nat /\ Len(NewOutputTypes[type]) \in Nat
  BY <1>1
<1>3. Len(NewInputTypes[type]) <= 16 /\ Len(NewOutputTypes[type]) <= 16
  BY MigrationAssumption DEF MaxPins
<1>4. New!NumInputs(type) = Len(NewInputTypes[type]) /\ New!NumOutputs(type) = Len(NewOutputTypes[type])
  BY Zenon DEF New!NumInputs, New!NumOutputs
<1>5. /\ DOMAIN NewInputTypes[type] = 1 .. Len(NewInputTypes[type])
      /\ DOMAIN NewOutputTypes[type] = 1 .. Len(NewOutputTypes[type])
  BY <1>1
<1> QED
  <2>1. PICK i, o : i = Len(NewInputTypes[type]) /\ o = Len(NewOutputTypes[type])
    OBVIOUS
  <2>2. i \in 0 .. 16 /\ o \in 0 .. 16
    <3>1. i \in Nat /\ i <= 16 /\ o \in Nat /\ o <= 16
      BY <1>2, <1>3, <2>1, Zenon
    <3> QED
      BY <3>1
  <2>3. New!NumInputs(type) = i /\ New!NumOutputs(type) = o
    BY <1>4, <2>1
  <2>4. DOMAIN NewInputTypes[type] = 1 .. i /\ DOMAIN NewOutputTypes[type] = 1 .. o
    BY <1>5, <2>1
  <2> QED
    BY <2>1, <2>2, <2>3, <2>4, Zenon

LEMMA NewEdgesAreNat == New!MaxEdges \in Nat
<1>1. PICK counts : counts = {New!NumInputs(t) : t \in NewNodeTypes}
  OBVIOUS
<1>2. counts \subseteq 0 .. 16 /\ New!NumInputs(Dummy) \in counts
  BY <1>1, NewCounts, MigrationAssumption
<1>3. \E n \in counts : \A m \in counts : m <= n
  BY <1>2, LargestExists
<1>4. \E n \in counts : \A t \in NewNodeTypes : New!NumInputs(t) <= n
  BY <1>1, <1>3
<1>5. New!MaxEdgesPerNode = CHOOSE n \in counts : \A t \in NewNodeTypes : New!NumInputs(t) <= n
  <2>1. NewNodeTypes # {}
    BY MigrationAssumption
  <2> QED
    BY <1>1, <2>1 DEF New!MaxEdgesPerNode
<1>6. New!MaxEdgesPerNode \in counts
  BY <1>4, <1>5
<1>7. New!MaxEdgesPerNode \in Nat
  BY <1>2, <1>6
<1> QED
  BY <1>7, GraphAssumption DEF New!MaxEdges

-----------------------------------------------------------------------------
(* The ids that wait beyond the slots in use are not above their slots:    *)
(* the slot that is handed out next never has an id above num_items, which *)
(* the first assertion of hgraph_slot_map_swap_id asks for.                *)
RestIsLow(m) == \A s \in Indices(m.max_items) : m.num_items <= s => m.ids_for_slot[s] <= s

LEMMA EmptyRestIsLow ==
    ASSUME NEW max \in Nat
    PROVE  RestIsLow(EmptyMap(max))
BY DEF RestIsLow, EmptyMap, Indices

(* A new item takes the id of the old one.                                 *)
LEMMA Remapped ==
    ASSUME NEW max \in Nat, NEW m, IsSlotMap(m, max), RestIsLow(m), ~IsFull(m),
           NEW old \in Indices(max), old \notin LiveIds(m),
           NEW new, new = AllocatedId(m), NEW r, r = Remap(Allocate(m), new, old)
    PROVE  /\ RemapAsserts(Allocate(m), new, old)
           /\ IsSlotMap(r, max) /\ RestIsLow(r) /\ r.num_items = m.num_items + 1
           /\ LiveIds(r) = LiveIds(m) \union {old}
           /\ SlotForId(r, old) = m.num_items
           /\ \A id \in LiveIds(m) : SlotForId(r, id) = SlotForId(m, id)
           /\ r.ids_for_slot[m.num_items] = old
           /\ \A s \in Indices(m.num_items) : r.ids_for_slot[s] = m.ids_for_slot[s]
<1>1. PICK a, n, c : a = Allocate(m) /\ n = m.num_items /\ c = AllocatedSlot(m)
  OBVIOUS
<1>2. /\ m.max_items = max /\ n \in 0 .. max
      /\ m.slots_for_id \in [Indices(max) -> Indices(max)]
      /\ m.ids_for_slot \in [Indices(max) -> Indices(max)]
  BY <1>1, MapFields DEF IsSlotMap
<1>3. n \in Indices(max) /\ n < max /\ new = m.ids_for_slot[n]
  <2>1. n # max
    BY <1>1, <1>2, Zenon DEF IsFull
  <2>2. new = m.ids_for_slot[n]
    BY <1>1, Zenon DEF AllocatedId
  <2> QED
    BY <1>2, <2>1, <2>2 DEF Indices
<1>4. new \in Indices(max) /\ new <= n
  <2>1. new \in Indices(max) /\ n <= n
    BY <1>2, <1>3
  <2> QED
    BY <1>1, <1>2, <1>3, <2>1 DEF RestIsLow
<1>5. /\ IsSlotMap(a, max) /\ a.max_items = max /\ a.num_items = n + 1
      /\ a.slots_for_id = m.slots_for_id /\ a.ids_for_slot = m.ids_for_slot
  BY <1>1, <1>2, AllocateIsSlotMap DEF Allocate, IsSlotMap, MapType
<1>6. /\ new \notin LiveIds(m) /\ LiveIds(a) = LiveIds(m) \union {new}
      /\ SlotForId(a, new) = n /\ \A id \in LiveIds(m) : SlotForId(a, id) = SlotForId(m, id)
  BY <1>1, AllocateMakesLive
<1>7. CASE new = old
  <2>1. r = a
    BY <1>1, <1>7, Zenon DEF Remap
  <2>2. RestIsLow(a)
    BY <1>1, <1>2, <1>5 DEF RestIsLow, Indices
  <2>3. RemapAsserts(a, new, old)
    BY <1>7 DEF RemapAsserts
  <2>4. \A s \in Indices(n) : r.ids_for_slot[s] = m.ids_for_slot[s]
    BY <1>5, <2>1
  <2> QED
    BY <1>1, <1>3, <1>5, <1>6, <1>7, <2>1, <2>2, <2>3, <2>4
<1>8. CASE new # old
  <2>1. PICK v : v = m.slots_for_id[old]
    OBVIOUS
  <2>2. v \in Indices(max) /\ m.ids_for_slot[v] = old /\ m.slots_for_id[new] = n
    BY <1>2, <1>3, <1>4, <2>1 DEF IsSlotMap, InversePermutations
  <2>3. ~(v < n)
    BY <1>1, <2>1, LiveIdsAre
  <2>4. v # n
    BY <1>3, <1>8, <2>2
  <2>5. v >= n + 1 /\ v \in Int /\ n \in Int
    BY <1>2, <2>2, <2>3, <2>4 DEF Indices
  <2>6. old \in Indices(max) \ LiveIds(a)
    BY <1>6, <1>8
  <2>7. new \in LiveIds(a)
    BY <1>6
  <2>8. r = SwapId(a, new, old)
    BY <1>1, <1>8, Zenon DEF Remap
  <2>9. RemapAsserts(a, new, old)
    BY <1>2, <1>4, <1>5, <2>1, <2>5 DEF RemapAsserts, SwapIdAsserts, Indices
  <2>10. IsSlotMap(r, max)
    BY <1>4, <1>5, <2>8, SwapIsSlotMap
  <2>11. /\ LiveIds(r) = (LiveIds(a) \ {new}) \union {old}
         /\ SlotForId(r, old) = SlotForId(a, new)
         /\ \A id \in LiveIds(a) \ {new} : SlotForId(r, id) = SlotForId(a, id)
    BY <1>5, <2>6, <2>7, <2>8, SwapRenames
  <2>12. PICK ids : ids = [a.ids_for_slot EXCEPT ![n] = old, ![v] = new]
    OBVIOUS
  <2>13. r.num_items = n + 1 /\ r.max_items = max /\ r.ids_for_slot = ids
    <3>1. a = [max_items |-> a.max_items, num_items |-> a.num_items,
               slots_for_id |-> a.slots_for_id, ids_for_slot |-> a.ids_for_slot]
      BY <1>5 DEF IsSlotMap, MapType
    <3>2. a.slots_for_id[new] = n /\ a.slots_for_id[old] = v
      BY <1>5, <2>1, <2>2
    <3> QED
      BY <1>5, <2>8, <2>12, <3>1, <3>2 DEF SwapId
  <2>14. /\ ids[n] = old /\ ids[v] = new
         /\ \A s \in Indices(max) : s # n /\ s # v => ids[s] = m.ids_for_slot[s]
    BY <1>2, <1>3, <1>5, <2>2, <2>4, <2>12
  <2>15. RestIsLow(r)
    <3>1. ASSUME NEW s \in Indices(max), n + 1 <= s
          PROVE  ids[s] <= s
      <4>1. CASE s = v
        BY <1>4, <2>5, <2>14, <4>1 DEF Indices
      <4>2. CASE s # v
        <5>1. s # n /\ n <= s
          BY <1>2, <3>1 DEF Indices
        <5> QED
          BY <1>1, <1>2, <2>14, <4>2, <5>1 DEF RestIsLow
      <4> QED
        BY <4>1, <4>2
    <3> QED
      BY <2>13, <3>1 DEF RestIsLow
  <2>16. \A s \in Indices(n) : ids[s] = m.ids_for_slot[s]
    <3>1. \A s \in Indices(n) : s \in Indices(max) /\ s # n /\ s # v
      BY <1>2, <2>5 DEF Indices
    <3> QED
      BY <2>14, <3>1
  <2>17. LiveIds(r) = LiveIds(m) \union {old}
    BY <1>6, <2>11
  <2>18. \A id \in LiveIds(m) : SlotForId(r, id) = SlotForId(m, id)
    BY <1>6, <2>11
  <2> QED
    BY <1>1, <1>6, <2>9, <2>10, <2>11, <2>13, <2>14, <2>15, <2>16, <2>17, <2>18
<1> QED
  BY <1>7, <1>8

-----------------------------------------------------------------------------
(* A property of numbers that holds of 0 and is handed on holds up to n.   *)
(* It is given as the set of the numbers that have it.                     *)
HandsOn(having, n) ==
    0 \in having /\ \A m \in 0 .. n : m # n /\ m \in having => m + 1 \in having

LEMMA HandedOn ==
    ASSUME NEW n \in Nat, NEW having, HandsOn(having, n)
    PROVE  \A m \in 0 .. n : m \in having
<1> SUFFICES ASSUME NEW bad \in 0 .. n, bad \notin having PROVE FALSE
  OBVIOUS
<1>1. PICK fails : fails = {m \in 0 .. n : m \notin having}
  OBVIOUS
<1>2. fails \subseteq Nat /\ fails # {}
  BY <1>1
<1>3. PICK m \in fails : \A k \in fails : m <= k
  BY <1>2, LeastOf
<1>4. m \in 0 .. n /\ m \notin having /\ m # 0
  BY <1>1, <1>3 DEF HandsOn
<1>5. PICK before : before = m - 1
  OBVIOUS
<1>6. before \in 0 .. n /\ before # n /\ m = before + 1 /\ ~(m <= before)
  BY <1>4, <1>5
<1>7. before \in having
  BY <1>1, <1>3, <1>6
<1> QED
  BY <1>4, <1>6, <1>7 DEF HandsOn

(* The loops of migration.c are folds over slots: one step per element,    *)
(* from the first to the last.  A fold is the function of the sets of      *)
(* indices that the folds of the library choose; `kind' says which         *)
(* operator it repeats.                                                    *)
FoldStep(kind, acc, x) ==
    IF kind = 1 THEN MigrateNode(acc, x)
    ELSE IF kind = 2 THEN MigrateEdge(acc, x)
    ELSE DropDummy(acc, x)

IsFold(kind, folded, base, seq, n) ==
    folded = [t \in SUBSET (1 .. n) |->
                 IF t = {} THEN base ELSE FoldStep(kind, folded[t \ {Max(t)}], seq[Max(t)])]

LEMMA MaxOfIndices ==
    ASSUME NEW n \in Nat, NEW t \in SUBSET (1 .. n), t # {}
    PROVE  Max(t) \in t /\ \A i \in t : i <= Max(t)
<1>1. PICK rests : rests = {m \in Nat : \A i \in t : i <= m}
  OBVIOUS
<1>2. rests \subseteq Nat /\ n \in rests
  BY <1>1
<1>3. PICK m \in rests : \A other \in rests : m <= other
  BY <1>2, LeastOf
<1>4. m \in Nat /\ \A i \in t : i <= m
  BY <1>1, <1>3
<1>5. m \in t
  <2> SUFFICES ASSUME m \notin t PROVE FALSE
    OBVIOUS
  <2>1. \A i \in t : i <= m - 1 /\ i >= 1
    BY <1>4
  <2>2. m - 1 \in Nat
    <3>1. PICK i \in t : TRUE
      OBVIOUS
    <3>2. i \in Nat /\ i <= m - 1 /\ i >= 1
      BY <2>1
    <3> QED
      BY <1>4, <3>2
  <2>3. m - 1 \in rests
    BY <1>1, <2>1, <2>2
  <2> QED
    BY <1>3, <1>4, <2>3
<1>6. \E x \in t : \A y \in t : x >= y
  <2>1. ASSUME NEW y \in t
        PROVE  m >= y
    <3>1. y \in Nat /\ y <= m
      BY <1>4
    <3> QED
      BY <1>4, <3>1
  <2> QED
    BY <1>5, <2>1
<1>7. Max(t) \in t /\ \A y \in t : Max(t) >= y
  BY <1>6 DEF Max
<1>8. \A y \in t : y \in Int
  OBVIOUS
<1> QED
  BY <1>7, <1>8

LEMMA MaxOfInterval ==
    ASSUME NEW n \in Nat \ {0}
    PROVE  Max(1 .. n) = n /\ (1 .. n) \ {n} = 1 .. n - 1
<1>1. PICK m : m = Max(1 .. n)
  OBVIOUS
<1>2. 1 .. n \in SUBSET (1 .. n) /\ 1 .. n # {} /\ n \in 1 .. n
  OBVIOUS
<1>3. m \in 1 .. n /\ n <= m
  BY <1>1, <1>2, MaxOfIndices
<1>4. m = n
  BY <1>3
<1> QED
  BY <1>1, <1>4

LEMMA FoldsExist ==
    ASSUME NEW kind, NEW base, NEW seq, NEW n \in Nat
    PROVE  \E folded : IsFold(kind, folded, base, seq, n)
<1>1. PICK having : having = {m \in Nat : \E folded : IsFold(kind, folded, base, seq, m)}
  OBVIOUS
<1>2. 0 \in having
  <2>1. PICK folded : folded = [t \in SUBSET (1 .. 0) |-> base]
    OBVIOUS
  <2>2. \A t \in SUBSET (1 .. 0) : t = {}
    OBVIOUS
  <2>3. folded = [t \in SUBSET (1 .. 0) |->
                     IF t = {} THEN base ELSE FoldStep(kind, folded[t \ {Max(t)}], seq[Max(t)])]
    BY <2>1, <2>2
  <2> QED
    BY <1>1, <2>3 DEF IsFold
<1>3. ASSUME NEW m \in 0 .. n, m # n, m \in having
      PROVE  m + 1 \in having
  <2>1. PICK folded : IsFold(kind, folded, base, seq, m)
    BY <1>1, <1>3
  <2>2. PICK next : next = m + 1
    OBVIOUS
  <2>3. m \in Nat /\ next \in Nat /\ m <= next
    BY <2>2
  <2>4. PICK more : more = [t \in SUBSET (1 .. next) |->
            IF t = {} THEN base ELSE FoldStep(kind, folded[t \ {Max(t)}], seq[Max(t)])]
    OBVIOUS
  <2>5. SUBSET (1 .. m) \subseteq SUBSET (1 .. next)
    BY <2>3
  <2>6. \A t \in SUBSET (1 .. m) :
            folded[t] = IF t = {} THEN base ELSE FoldStep(kind, folded[t \ {Max(t)}], seq[Max(t)])
    BY <2>1, Zenon DEF IsFold
  <2>7. \A t \in SUBSET (1 .. m) : more[t] = folded[t]
    BY <2>4, <2>5, <2>6, Zenon
  <2>8. ASSUME NEW t \in SUBSET (1 .. next), t # {}
        PROVE  t \ {Max(t)} \in SUBSET (1 .. m)
    <3>1. PICK last : last = Max(t)
      OBVIOUS
    <3>2. last \in t /\ \A i \in t : i <= last
      BY <2>3, <2>8, <3>1, MaxOfIndices
    <3>3. \A i \in t : i # last => i \in 1 .. m
      BY <2>2, <2>3, <3>2
    <3> QED
      BY <3>1, <3>3
  <2>9. \A t \in SUBSET (1 .. next) : t # {} => more[t \ {Max(t)}] = folded[t \ {Max(t)}]
    BY <2>7, <2>8
  <2>10. more = [t \in SUBSET (1 .. next) |->
            IF t = {} THEN base ELSE FoldStep(kind, more[t \ {Max(t)}], seq[Max(t)])]
    BY <2>4, <2>9
  <2>11. IsFold(kind, more, base, seq, next)
    BY <2>10, Zenon DEF IsFold
  <2> QED
    BY <1>1, <2>2, <2>3, <2>11
<1>4. HandsOn(having, n)
  BY <1>2, <1>3 DEF HandsOn
<1>5. n \in having
  BY <1>4, HandedOn
<1> QED
  BY <1>1, <1>5

(* What has been accumulated after the first k elements.                   *)
Accumulates(kind, acc, base, seq, n) ==
    acc[0] = base /\ \A k \in 1 .. n : acc[k] = FoldStep(kind, acc[k - 1], seq[k])

LEMMA FoldAccumulates ==
    ASSUME NEW kind, NEW folded, NEW base, NEW seq, NEW n \in Nat, IsFold(kind, folded, base, seq, n)
    PROVE  \E acc : Accumulates(kind, acc, base, seq, n) /\ acc[n] = folded[1 .. n]
<1>1. PICK acc : acc = [k \in 0 .. n |-> folded[1 .. k]]
  OBVIOUS
<1>2. \A t \in SUBSET (1 .. n) :
          folded[t] = IF t = {} THEN base ELSE FoldStep(kind, folded[t \ {Max(t)}], seq[Max(t)])
  BY Zenon DEF IsFold
<1>3. acc[0] = base
  <2>1. 1 .. 0 = {} /\ {} \in SUBSET (1 .. n) /\ 0 \in 0 .. n
    OBVIOUS
  <2> QED
    BY <1>1, <1>2, <2>1
<1>4. ASSUME NEW k \in 1 .. n
      PROVE  acc[k] = FoldStep(kind, acc[k - 1], seq[k])
  <2>1. k \in Nat \ {0} /\ k \in 0 .. n /\ k - 1 \in 0 .. n /\ 1 .. k # {} /\ 1 .. k \in SUBSET (1 .. n)
    OBVIOUS
  <2>2. Max(1 .. k) = k /\ (1 .. k) \ {k} = 1 .. k - 1
    BY <2>1, MaxOfInterval
  <2>3. folded[1 .. k] = FoldStep(kind, folded[1 .. k - 1], seq[k])
    BY <1>2, <2>1, <2>2
  <2> QED
    BY <1>1, <2>1, <2>3
<1>5. acc[n] = folded[1 .. n]
  BY <1>1
<1> QED
  BY <1>3, <1>4, <1>5 DEF Accumulates

IsNodeFold(folded, base, seq) ==
    folded = [t \in SUBSET (DOMAIN seq) |->
                 IF t = {} THEN base ELSE MigrateNode(folded[t \ {Max(t)}], seq[Max(t)])]

NodeFold(base, seq) == FoldLeft(MigrateNode, base, seq)

NodeRuns(acc, base, seq, n) ==
    /\ acc[0] = base /\ \A k \in 1 .. n : acc[k] = MigrateNode(acc[k - 1], seq[k])
    /\ NodeFold(base, seq) = acc[n]

LEMMA NodeFolds ==
    ASSUME NEW base, NEW seq, NEW n \in Nat, DOMAIN seq = 1 .. n
    PROVE  \E acc : NodeRuns(acc, base, seq, n)
<1>1. \A acc, x : FoldStep(1, acc, x) = MigrateNode(acc, x)
  BY DEF FoldStep
<1>2. \A folded : IsNodeFold(folded, base, seq) <=> IsFold(1, folded, base, seq, n)
  BY <1>1 DEF IsNodeFold, IsFold
<1>3. PICK folded : folded = CHOOSE f : IsNodeFold(f, base, seq)
  OBVIOUS
<1>4. IsNodeFold(folded, base, seq)
  BY <1>2, <1>3, FoldsExist
<1>5. NodeFold(base, seq) = folded[DOMAIN seq]
  BY <1>3, Zenon DEF NodeFold, FoldLeft, MapThenFoldSet, IsNodeFold
<1>6. PICK acc : Accumulates(1, acc, base, seq, n) /\ acc[n] = folded[1 .. n]
  BY <1>2, <1>4, FoldAccumulates
<1> QED
  BY <1>1, <1>5, <1>6 DEF Accumulates, NodeRuns

IsEdgeFold(folded, base, seq) ==
    folded = [t \in SUBSET (DOMAIN seq) |->
                 IF t = {} THEN base ELSE MigrateEdge(folded[t \ {Max(t)}], seq[Max(t)])]

EdgeFold(base, seq) == FoldLeft(MigrateEdge, base, seq)

EdgeRuns(acc, base, seq, n) ==
    /\ acc[0] = base /\ \A k \in 1 .. n : acc[k] = MigrateEdge(acc[k - 1], seq[k])
    /\ EdgeFold(base, seq) = acc[n]

LEMMA EdgeFolds ==
    ASSUME NEW base, NEW seq, NEW n \in Nat, DOMAIN seq = 1 .. n
    PROVE  \E acc : EdgeRuns(acc, base, seq, n)
<1>1. \A acc, x : FoldStep(2, acc, x) = MigrateEdge(acc, x)
  BY DEF FoldStep
<1>2. \A folded : IsEdgeFold(folded, base, seq) <=> IsFold(2, folded, base, seq, n)
  BY <1>1 DEF IsEdgeFold, IsFold
<1>3. PICK folded : folded = CHOOSE f : IsEdgeFold(f, base, seq)
  OBVIOUS
<1>4. IsEdgeFold(folded, base, seq)
  BY <1>2, <1>3, FoldsExist
<1>5. EdgeFold(base, seq) = folded[DOMAIN seq]
  BY <1>3, Zenon DEF EdgeFold, FoldLeft, MapThenFoldSet, IsEdgeFold
<1>6. PICK acc : Accumulates(2, acc, base, seq, n) /\ acc[n] = folded[1 .. n]
  BY <1>2, <1>4, FoldAccumulates
<1> QED
  BY <1>1, <1>5, <1>6 DEF Accumulates, EdgeRuns

IsDummyFold(folded, base, seq) ==
    folded = [t \in SUBSET (DOMAIN seq) |->
                 IF t = {} THEN base ELSE DropDummy(folded[t \ {Max(t)}], seq[Max(t)])]

DummyFold(base, seq) == FoldLeft(DropDummy, base, seq)

DummyRuns(acc, base, seq, n) ==
    /\ acc[0] = base /\ \A k \in 1 .. n : acc[k] = DropDummy(acc[k - 1], seq[k])
    /\ DummyFold(base, seq) = acc[n]

LEMMA DummyFolds ==
    ASSUME NEW base, NEW seq, NEW n \in Nat, DOMAIN seq = 1 .. n
    PROVE  \E acc : DummyRuns(acc, base, seq, n)
<1>1. \A acc, x : FoldStep(3, acc, x) = DropDummy(acc, x)
  BY DEF FoldStep
<1>2. \A folded : IsDummyFold(folded, base, seq) <=> IsFold(3, folded, base, seq, n)
  BY <1>1 DEF IsDummyFold, IsFold
<1>3. PICK folded : folded = CHOOSE f : IsDummyFold(f, base, seq)
  OBVIOUS
<1>4. IsDummyFold(folded, base, seq)
  BY <1>2, <1>3, FoldsExist
<1>5. DummyFold(base, seq) = folded[DOMAIN seq]
  BY <1>3, Zenon DEF DummyFold, FoldLeft, MapThenFoldSet, IsDummyFold
<1>6. PICK acc : Accumulates(3, acc, base, seq, n) /\ acc[n] = folded[1 .. n]
  BY <1>2, <1>4, FoldAccumulates
<1> QED
  BY <1>1, <1>5, <1>6 DEF Accumulates, DummyRuns

-----------------------------------------------------------------------------
(* The slots in use and the ids that are live lead to each other.          *)
LEMMA SlotsAndIds ==
    ASSUME NEW max \in Nat, NEW m, IsSlotMap(m, max)
    PROVE  /\ m.num_items \in 0 .. max /\ m.max_items = max
           /\ \A s \in Indices(m.num_items) :
                 /\ s \in Indices(max) /\ m.ids_for_slot[s] \in Indices(max)
                 /\ IdForSlot(m, s) = m.ids_for_slot[s]
                 /\ IsLive(m, m.ids_for_slot[s]) /\ SlotForId(m, m.ids_for_slot[s]) = s
           /\ \A id : IsLive(m, id) => /\ SlotForId(m, id) \in Indices(m.num_items)
                                       /\ m.ids_for_slot[SlotForId(m, id)] = id
<1>1. /\ m.max_items = max /\ m.num_items \in 0 .. max
      /\ m.slots_for_id \in [Indices(max) -> Indices(max)]
      /\ m.ids_for_slot \in [Indices(max) -> Indices(max)]
  BY MapFields DEF IsSlotMap
<1>2. ASSUME NEW s \in Indices(m.num_items)
      PROVE  /\ s \in Indices(max) /\ m.ids_for_slot[s] \in Indices(max)
             /\ IdForSlot(m, s) = m.ids_for_slot[s]
             /\ IsLive(m, m.ids_for_slot[s]) /\ SlotForId(m, m.ids_for_slot[s]) = s
  <2>1. s \in Indices(max) /\ s >= 0
    BY <1>1 DEF Indices
  <2>2. PICK id : id = m.ids_for_slot[s]
    OBVIOUS
  <2>3. id \in Indices(max) /\ m.slots_for_id[id] = s
    BY <1>1, <2>1, <2>2 DEF IsSlotMap, InversePermutations
  <2>4. SlotForId(m, id) = s
    BY <1>1, <2>3, Zenon DEF SlotForId
  <2>5. IsLive(m, id)
    BY <2>1, <2>4 DEF IsLive, IsValid
  <2>6. IdForSlot(m, s) = m.ids_for_slot[s]
    BY Zenon DEF IdForSlot
  <2> QED
    BY <2>1, <2>2, <2>3, <2>4, <2>5, <2>6
<1>3. \A id : IsLive(m, id) => /\ SlotForId(m, id) \in Indices(m.num_items)
                               /\ m.ids_for_slot[SlotForId(m, id)] = id
  BY LookupRange
<1> QED
  BY <1>1, <1>2, <1>3

LEMMA SlotsHaveOwnIds ==
    ASSUME NEW max \in Nat, NEW m, IsSlotMap(m, max), NEW s \in Indices(max), NEW t \in Indices(max),
           m.ids_for_slot[s] = m.ids_for_slot[t]
    PROVE  s = t
BY DEF IsSlotMap, MapType, InversePermutations

-----------------------------------------------------------------------------
(* The new graph.  Its pins and lists hold edge ids from before they were  *)
(* swapped, so that it is not linked as GraphShape has it; the migration   *)
(* does not go along them.                                                 *)
IsNewNode(r) ==
    /\ r = [type |-> r.type, input |-> r.input, output |-> r.output]
    /\ r.input = [i \in 0 .. New!NumInputs(r.type) - 1 |-> r.input[i]]

IsNewEdge(r) == r = [from |-> r.from, to |-> r.to, prev |-> r.prev, next |-> r.next]

IsNewGraph(t) ==
    /\ t = [version |-> t.version, node_slot_map |-> t.node_slot_map,
            node_versions |-> t.node_versions, nodes |-> t.nodes,
            edge_slot_map |-> t.edge_slot_map, edges |-> t.edges]
    /\ IsSlotMap(t.node_slot_map, MaxNodes)
    /\ IsSlotMap(t.edge_slot_map, New!MaxEdges)
    /\ t.nodes = [s \in Indices(MaxNodes) |-> t.nodes[s]]
    /\ t.edges = [s \in Indices(New!MaxEdges) |-> t.edges[s]]
    /\ \A s \in Indices(t.node_slot_map.num_items) : IsNewNode(t.nodes[s])
    /\ \A s \in Indices(New!MaxEdges) : IsNewEdge(t.edges[s])

OldNode(s) == graph.node_slot_map.ids_for_slot[s]
OldEdge(s) == graph.edge_slot_map.ids_for_slot[s]
NodeCount == graph.node_slot_map.num_items
EdgeCount == graph.edge_slot_map.num_items

(* The first k nodes are there, in their slots and under their ids, as     *)
(* nodes of the new types.                                                 *)
HasOldNodes(t, k) ==
    /\ t.node_slot_map.num_items = k
    /\ \A s \in Indices(k) : /\ t.node_slot_map.ids_for_slot[s] = OldNode(s)
                             /\ t.nodes[s].type = NewType(graph.nodes[s].type)

InputsEmpty(r) == \A i \in 0 .. New!NumInputs(r.type) - 1 : r.input[i] = Invalid

NodesMigrated(state, k) ==
    /\ state = [graph |-> state.graph, asserts |-> TRUE]
    /\ IsNewGraph(state.graph) /\ HasOldNodes(state.graph, k)
    /\ RestIsLow(state.graph.node_slot_map)
    /\ state.graph.edge_slot_map = EmptyMap(New!MaxEdges)
    /\ \A s \in Indices(k) : InputsEmpty(state.graph.nodes[s])

LEMMA FreshIsNew ==
    ASSUME NEW type
    PROVE  /\ New!FreshNode(type).type = type
           /\ IsNewNode(New!FreshNode(type)) /\ InputsEmpty(New!FreshNode(type))
<1>1. PICK count, outputs : count = New!NumInputs(type) /\ outputs = New!FreshNode(type).output
  OBVIOUS
<1>2. New!FreshNode(type) = [type |-> type, input |-> [i \in 0 .. count - 1 |-> Invalid],
                             output |-> outputs]
  BY <1>1, NewMaps DEF New!FreshNode
<1>3. PICK r : r = New!FreshNode(type)
  OBVIOUS
<1>4. r.type = type /\ r.input = [i \in 0 .. count - 1 |-> Invalid]
  BY <1>2, <1>3
<1>5. r = [type |-> r.type, input |-> r.input, output |-> r.output]
  BY <1>2, <1>3
<1>6. \A i \in 0 .. count - 1 : r.input[i] = Invalid
  BY <1>4
<1>7. r.input = [i \in 0 .. count - 1 |-> r.input[i]]
  BY <1>4, <1>6
<1> QED
  BY <1>1, <1>3, <1>4, <1>5, <1>6, <1>7 DEF IsNewNode, InputsEmpty

LEMMA StartIsEmpty ==
    NodesMigrated([graph |-> New!EmptyGraph, asserts |-> TRUE], 0)
<1>1. PICK t : t = New!EmptyGraph
  OBVIOUS
<1>2. PICK max : max = New!MaxEdges
  OBVIOUS
<1>3. max \in Nat /\ MaxNodes \in Nat
  BY <1>2, NewEdgesAreNat, GraphAssumption
<1>4. t = [version |-> 0, node_slot_map |-> EmptyMap(MaxNodes),
           node_versions |-> [id \in Indices(MaxNodes) |-> 0],
           nodes |-> [slot \in Indices(MaxNodes) |-> New!NoNode],
           edge_slot_map |-> EmptyMap(max),
           edges |-> [slot \in Indices(max) |-> New!NoEdge]]
  BY <1>1, <1>2, NewMaps, Zenon DEF New!EmptyGraph
<1>5. IsNewEdge(New!NoEdge)
  BY DEF IsNewEdge, New!NoEdge
<1>6. IsSlotMap(EmptyMap(MaxNodes), MaxNodes) /\ IsSlotMap(EmptyMap(max), max)
  BY <1>3, EmptyIsSlotMap
<1>7. EmptyMap(MaxNodes).num_items = 0 /\ Indices(0) = {}
  BY DEF EmptyMap, Indices
<1>8. IsNewGraph(t)
  <2>1. t.nodes = [s \in Indices(MaxNodes) |-> t.nodes[s]] /\ t.edges = [s \in Indices(max) |-> t.edges[s]]
    BY <1>4
  <2>2. \A s \in Indices(max) : IsNewEdge(t.edges[s])
    BY <1>4, <1>5
  <2>3. t = [version |-> t.version, node_slot_map |-> t.node_slot_map,
             node_versions |-> t.node_versions, nodes |-> t.nodes,
             edge_slot_map |-> t.edge_slot_map, edges |-> t.edges]
    BY <1>4
  <2>4. t.node_slot_map = EmptyMap(MaxNodes) /\ t.edge_slot_map = EmptyMap(max)
    BY <1>4
  <2> QED
    BY <1>2, <1>6, <1>7, <2>1, <2>2, <2>3, <2>4 DEF IsNewGraph
<1>9. t.node_slot_map = EmptyMap(MaxNodes) /\ t.edge_slot_map = EmptyMap(max)
  BY <1>4
<1>10. HasOldNodes(t, 0) /\ RestIsLow(t.node_slot_map)
  BY <1>3, <1>7, <1>9, EmptyRestIsLow DEF HasOldNodes
<1>11. \A s \in Indices(0) : InputsEmpty(t.nodes[s])
  BY <1>7
<1> QED
  BY <1>1, <1>2, <1>8, <1>9, <1>10, <1>11 DEF NodesMigrated

(* hgraph_create_node in the new graph.                                    *)
LEMMA NewCreateIs ==
    ASSUME NEW g, IsNewGraph(g), ~IsFull(g.node_slot_map), NEW type,
           NEW h, h = New!CreateNode(g, type)
    PROVE  /\ h = [version |-> h.version, node_slot_map |-> Allocate(g.node_slot_map),
                   node_versions |-> h.node_versions,
                   nodes |-> [g.nodes EXCEPT ![g.node_slot_map.num_items] = New!FreshNode(type)],
                   edge_slot_map |-> g.edge_slot_map, edges |-> g.edges]
<1>1. PICK m, slot : m = g.node_slot_map /\ slot = m.num_items
  OBVIOUS
<1>2. New!AllocatedSlot(m) = slot /\ ~New!IsFull(m) /\ New!Allocate(m) = Allocate(m)
  BY <1>1, NewMaps, Zenon DEF AllocatedSlot
<1>3. h = [g EXCEPT !.node_slot_map = New!Allocate(@),
                    !.node_versions[New!AllocatedId(m)] = @ + 1,
                    !.nodes[slot] = New!FreshNode(type),
                    !.version = @ + 1]
  BY <1>1, <1>2, Zenon DEF New!CreateNode
<1>4. g = [version |-> g.version, node_slot_map |-> g.node_slot_map,
           node_versions |-> g.node_versions, nodes |-> g.nodes,
           edge_slot_map |-> g.edge_slot_map, edges |-> g.edges]
  BY DEF IsNewGraph
<1>5. PICK versions, nodes : /\ versions = [g.node_versions EXCEPT ![New!AllocatedId(m)] = @ + 1]
                             /\ nodes = [g.nodes EXCEPT ![slot] = New!FreshNode(type)]
  OBVIOUS
<1>6. h = [g EXCEPT !.node_slot_map = Allocate(m), !.node_versions = versions,
                    !.nodes = nodes, !.version = @ + 1]
  BY <1>1, <1>2, <1>3, <1>5, Zenon
<1>7. h = [version |-> g.version + 1, node_slot_map |-> Allocate(m), node_versions |-> versions,
           nodes |-> nodes, edge_slot_map |-> g.edge_slot_map, edges |-> g.edges]
  BY <1>4, <1>6
<1>8. h.version = g.version + 1 /\ h.node_versions = versions
  BY <1>7
<1> QED
  BY <1>1, <1>5, <1>7, <1>8

LEMMA NodeStep ==
    ASSUME IsGraph(graph), NEW k \in Indices(NodeCount), NEW state, NodesMigrated(state, k)
    PROVE  NodesMigrated(MigrateNode(state, k), k + 1)
<1>1. PICK g, m, max, type : g = state.graph /\ m = g.node_slot_map /\ max = MaxNodes
                             /\ type = NewType(graph.nodes[k].type)
  OBVIOUS
<1>2. PICK old, new : old = IdForSlot(graph.node_slot_map, k) /\ new = AllocatedId(m)
  OBVIOUS
<1>3. PICK created : created = New!CreateNode(g, type)
  OBVIOUS
<1>4. PICK r : r = Remap(Allocate(m), new, old)
  OBVIOUS
<1>5. PICK h : h = [created EXCEPT !.node_slot_map = r]
  OBVIOUS
<1>6. /\ IsSlotMap(m, max) /\ max \in Nat /\ IsSlotMap(graph.node_slot_map, max)
      /\ RestIsLow(m) /\ m.num_items = k
      /\ \A s \in Indices(k) : m.ids_for_slot[s] = OldNode(s)
                               /\ g.nodes[s].type = NewType(graph.nodes[s].type)
      /\ IsNewGraph(g)
  BY <1>1, GraphAssumption DEF NodesMigrated, IsNewGraph, HasOldNodes, IsGraph
<1>7. /\ NodeCount \in 0 .. max /\ m.max_items = max
      /\ \A s \in Indices(NodeCount) : s \in Indices(max) /\ OldNode(s) \in Indices(max)
      /\ old = OldNode(k)
  <2>1. IdForSlot(graph.node_slot_map, k) = graph.node_slot_map.ids_for_slot[k]
    BY <1>6, SlotsAndIds DEF NodeCount
  <2>2. old = OldNode(k)
    BY <1>2, <2>1 DEF OldNode
  <2>3. m.max_items = max
    BY <1>6, SlotsAndIds
  <2>4. /\ NodeCount \in 0 .. max
        /\ \A s \in Indices(NodeCount) : s \in Indices(max) /\ OldNode(s) \in Indices(max)
    BY <1>6, SlotsAndIds DEF NodeCount, OldNode
  <2> QED
    BY <2>2, <2>3, <2>4
<1>8. k \in Nat /\ k < max /\ NodeCount \in Nat /\ k < NodeCount
  BY <1>6, <1>7 DEF Indices
<1>9. ~IsFull(m)
  BY <1>6, <1>7, <1>8 DEF IsFull
<1>10. old \notin LiveIds(m)
  <2> SUFFICES ASSUME old \in LiveIds(m) PROVE FALSE
    OBVIOUS
  <2>1. PICK s : s = SlotForId(m, old)
    OBVIOUS
  <2>2. s \in Indices(k) /\ m.ids_for_slot[s] = old
    BY <1>6, <2>1, LiveIdsAre, SlotsAndIds
  <2>3. OldNode(s) = OldNode(k) /\ s \in Indices(max) /\ k \in Indices(max)
    <3>1. s \in Indices(NodeCount)
      BY <1>8, <2>2 DEF Indices
    <3> QED
      BY <1>6, <1>7, <2>2, <3>1
  <2>4. s = k
    BY <1>6, <2>3, SlotsHaveOwnIds DEF OldNode
  <2> QED
    BY <1>8, <2>2, <2>4 DEF Indices
<1>11. /\ RemapAsserts(Allocate(m), new, old) /\ IsSlotMap(r, max) /\ RestIsLow(r)
       /\ r.num_items = k + 1 /\ r.ids_for_slot[k] = old
       /\ \A s \in Indices(k) : r.ids_for_slot[s] = m.ids_for_slot[s]
  BY <1>2, <1>4, <1>6, <1>7, <1>9, <1>10, Remapped
<1>12. created = [version |-> created.version, node_slot_map |-> Allocate(m),
                  node_versions |-> created.node_versions,
                  nodes |-> [g.nodes EXCEPT ![k] = New!FreshNode(type)],
                  edge_slot_map |-> g.edge_slot_map, edges |-> g.edges]
  BY <1>1, <1>3, <1>6, <1>9, NewCreateIs
<1>13. PICK nodes : nodes = [g.nodes EXCEPT ![k] = New!FreshNode(type)]
  OBVIOUS
<1>14. h = [version |-> created.version, node_slot_map |-> r,
            node_versions |-> created.node_versions, nodes |-> nodes,
            edge_slot_map |-> g.edge_slot_map, edges |-> g.edges]
  BY <1>5, <1>12, <1>13
<1>15. MigrateNode(state, k) = [graph |-> h, asserts |-> TRUE]
  <2>1. created.node_slot_map = Allocate(m) /\ New!AllocatedId(m) = new
    BY <1>2, <1>12, NewMaps
  <2>2. state.asserts = TRUE
    BY DEF NodesMigrated
  <2>3. [created EXCEPT !.node_slot_map = Remap(@, new, old)] = h
    BY <1>4, <1>5, <2>1, Zenon
  <2>4. MigrateNode(state, k) =
            [graph |-> [created EXCEPT !.node_slot_map = Remap(@, new, old)],
             asserts |-> state.asserts /\ RemapAsserts(created.node_slot_map, new, old)]
    <3>1. AllocatedId(m) = new
      BY <1>2
    <3> QED
      BY <1>1, <1>2, <1>3, <3>1, Zenon DEF MigrateNode
  <2>5. (state.asserts /\ RemapAsserts(created.node_slot_map, new, old)) = TRUE
    BY <1>11, <2>1, <2>2, Zenon
  <2> QED
    BY <2>3, <2>4, <2>5, Zenon
<1>16. /\ nodes = [s \in Indices(max) |-> nodes[s]]
       /\ nodes[k] = New!FreshNode(type)
       /\ \A s \in Indices(k) : nodes[s] = g.nodes[s]
  <2>1. g.nodes = [s \in Indices(max) |-> g.nodes[s]]
    BY <1>1, <1>6 DEF IsNewGraph
  <2>2. k \in Indices(max) /\ \A s \in Indices(k) : s \in Indices(max) /\ s # k
    BY <1>6, <1>8 DEF Indices
  <2> QED
    BY <1>13, <2>1, <2>2
<1>17. \A s \in Indices(k + 1) : s \in Indices(k) \/ s = k
  BY <1>8 DEF Indices
<1>18. /\ \A s \in Indices(k + 1) : r.ids_for_slot[s] = OldNode(s)
       /\ \A s \in Indices(k + 1) : nodes[s].type = NewType(graph.nodes[s].type)
  BY <1>1, <1>6, <1>7, <1>11, <1>16, <1>17, FreshIsNew
<1>19. \A s \in Indices(k + 1) : IsNewNode(nodes[s]) /\ InputsEmpty(nodes[s])
  <2>1. \A s \in Indices(k) : IsNewNode(g.nodes[s]) /\ InputsEmpty(g.nodes[s])
    BY <1>1, <1>6 DEF IsNewGraph, NodesMigrated
  <2> QED
    BY <1>16, <1>17, <2>1, FreshIsNew
<1>20. HasOldNodes(h, k + 1)
  BY <1>11, <1>14, <1>18 DEF HasOldNodes
<1>21. /\ h.node_slot_map = r /\ h.nodes = nodes /\ h.edge_slot_map = g.edge_slot_map
       /\ h.edges = g.edges
       /\ h = [version |-> h.version, node_slot_map |-> h.node_slot_map,
               node_versions |-> h.node_versions, nodes |-> h.nodes,
               edge_slot_map |-> h.edge_slot_map, edges |-> h.edges]
  BY <1>14
<1>22. IsNewGraph(h)
  BY <1>1, <1>6, <1>11, <1>16, <1>19, <1>21 DEF IsNewGraph
<1>23. h.edge_slot_map = EmptyMap(New!MaxEdges)
  BY <1>1, <1>21 DEF NodesMigrated
<1>24. PICK after : after = MigrateNode(state, k)
  OBVIOUS
<1>25. after.graph = h /\ after = [graph |-> after.graph, asserts |-> TRUE]
  BY <1>15, <1>24
<1> QED
  BY <1>11, <1>19, <1>20, <1>21, <1>22, <1>23, <1>24, <1>25 DEF NodesMigrated

(* All nodes of the old graph, in the slots they had.                      *)
LEMMA NodesAreMigrated ==
    ASSUME IsGraph(graph),
           NEW start, start = [graph |-> New!EmptyGraph, asserts |-> TRUE]
    PROVE  NodesMigrated(NodeFold(start, Slots(graph.node_slot_map)), NodeCount)
<1>1. PICK seq, n : seq = Slots(graph.node_slot_map) /\ n = NodeCount
  OBVIOUS
<1>2. n \in Nat
  BY <1>1, GraphAssumption, SlotsAndIds DEF IsGraph, NodeCount
<1>3. DOMAIN seq = 1 .. n /\ \A k \in 1 .. n : seq[k] = k - 1
  BY <1>1 DEF Slots, NodeCount
<1>4. PICK acc : NodeRuns(acc, start, seq, n)
  BY <1>2, <1>3, NodeFolds
<1>5. PICK having : having = {k \in Nat : NodesMigrated(acc[k], k)}
  OBVIOUS
<1>6. 0 \in having
  BY <1>4, <1>5, StartIsEmpty DEF NodeRuns
<1>7. ASSUME NEW k \in 0 .. n, k # n, k \in having
      PROVE  k + 1 \in having
  <2>1. k + 1 \in 1 .. n /\ k \in Indices(NodeCount) /\ (k + 1) - 1 = k /\ k + 1 \in Nat
    BY <1>1, <1>2, <1>7 DEF Indices
  <2>2. acc[k + 1] = MigrateNode(acc[k], k)
    BY <1>3, <1>4, <2>1 DEF NodeRuns
  <2>3. NodesMigrated(acc[k], k)
    BY <1>5, <1>7
  <2>4. NodesMigrated(MigrateNode(acc[k], k), k + 1)
    BY <2>1, <2>3, NodeStep
  <2> QED
    BY <1>5, <2>1, <2>2, <2>4
<1>8. n \in having
  <2>1. HandsOn(having, n)
    BY <1>6, <1>7 DEF HandsOn
  <2>2. n \in 0 .. n
    BY <1>2
  <2> QED
    BY <1>2, <2>1, <2>2, HandedOn
<1> QED
  BY <1>1, <1>4, <1>5, <1>8 DEF NodeRuns

-----------------------------------------------------------------------------
(* What becomes of the edge in a slot: its two new pins, if it survives.   *)
FromNode(s) == PinNode(graph.edges[s].from)
ToNode(s) == PinNode(graph.edges[s].to)
TypeOf(n) == Node(graph, n).type
OutOf(s) == NewOutput(TypeOf(FromNode(s)), PinIndex(graph.edges[s].from))
InOf(s) == NewInput(TypeOf(ToNode(s)), PinIndex(graph.edges[s].to))
Survives(s) == IsValid(OutOf(s)) /\ IsValid(InOf(s))
NewFrom(s) == PinId(FromNode(s), OutOf(s), TRUE)
NewTo(s) == PinId(ToNode(s), InOf(s), FALSE)

LEMMA NewTypeIn ==
    ASSUME NEW type
    PROVE  NewType(type) \in NewNodeTypes
<1>1. NewRegistry \in Seq(NewNodeTypes) /\ Dummy \in NewNodeTypes
  BY MigrationAssumption
<1>2. PICK i : i = IndexOf(type)
  OBVIOUS
<1>3. NewType(type) = IF i \in DOMAIN NewRegistry /\ NewRegistry[i] = type THEN NewRegistry[i] ELSE Dummy
  BY <1>2, Zenon DEF NewType
<1>4. \A j \in DOMAIN NewRegistry : NewRegistry[j] \in NewNodeTypes
  BY <1>1
<1> QED
  BY <1>1, <1>3, <1>4

LEMMA NewIndexIs ==
    ASSUME NEW name, NEW dataType, NEW names, NEW types, NEW n \in Nat, DOMAIN names = 1 .. n,
           NEW i, i = NewIndex(name, dataType, names, types), IsValid(i)
    PROVE  i \in 0 .. n - 1 /\ names[i + 1] = name /\ types[i + 1] = dataType
<1>1. PICK named : named = {j \in DOMAIN names : names[j] = name}
  OBVIOUS
<1>2. PICK first : first = CHOOSE j \in named : \A k \in named : j <= k
  OBVIOUS
<1>3. i = IF named # {} /\ types[first] = dataType THEN first - 1 ELSE Invalid
  BY <1>1, <1>2 DEF NewIndex
<1>4. named # {} /\ types[first] = dataType /\ i = first - 1
  BY <1>3 DEF IsValid, Invalid
<1>5. named \subseteq Nat
  BY <1>1
<1>6. \E j \in named : \A k \in named : j <= k
  BY <1>4, <1>5, LeastOf
<1>7. first \in named
  BY <1>2, <1>6
<1>8. first \in 1 .. n /\ names[first] = name
  BY <1>1, <1>7
<1>9. i \in 0 .. n - 1 /\ i + 1 = first
  BY <1>4, <1>8
<1> QED
  BY <1>4, <1>8, <1>9

LEMMA OldEdgePins ==
    ASSUME IsGraph(graph), EdgesFit(graph), NEW s \in Indices(EdgeCount)
    PROVE  /\ HasEdge(graph, OldEdge(s)) /\ Edge(graph, OldEdge(s)) = graph.edges[s]
           /\ EdgeSlot(graph, OldEdge(s)) = s
           /\ s \in EdgeIds /\ OldEdge(s) \in EdgeIds
           /\ HasNode(graph, FromNode(s)) /\ HasNode(graph, ToNode(s))
           /\ FromNode(s) # ToNode(s)
           /\ FromNode(s) \in Indices(MaxNodes) /\ ToNode(s) \in Indices(MaxNodes)
           /\ TypeOf(FromNode(s)) \in NodeTypes /\ TypeOf(ToNode(s)) \in NodeTypes
           /\ PinIndex(graph.edges[s].from) \in Outputs(graph, FromNode(s))
           /\ PinIndex(graph.edges[s].to) \in Inputs(graph, ToNode(s))
           /\ OutputTypes[TypeOf(FromNode(s))][PinIndex(graph.edges[s].from) + 1]
                  = InputTypes[TypeOf(ToNode(s))][PinIndex(graph.edges[s].to) + 1]
           /\ Node(graph, ToNode(s)).input[PinIndex(graph.edges[s].to)] = OldEdge(s)
<1>1. PICK m, max : m = graph.edge_slot_map /\ max = MaxEdges
  OBVIOUS
<1>2. IsSlotMap(m, max) /\ max \in Nat
  BY <1>1, MaxEdgesIsNat DEF IsGraph
<1>3. PICK e : e = OldEdge(s)
  OBVIOUS
<1>4. /\ e = m.ids_for_slot[s] /\ s \in Indices(m.num_items)
  BY <1>1, <1>3 DEF OldEdge, EdgeCount
<1>5. s \in Indices(max) /\ e \in Indices(max) /\ IsLive(m, e) /\ SlotForId(m, e) = s
  BY <1>2, <1>4, SlotsAndIds
<1>6. HasEdge(graph, e) /\ EdgeSlot(graph, e) = s /\ s \in EdgeIds /\ e \in EdgeIds
  BY <1>1, <1>5 DEF HasEdge, EdgeSlot, EdgeIds
<1>7. Edge(graph, e) = graph.edges[s]
  BY <1>6 DEF Edge
<1>8. PICK from, to : from = graph.edges[s].from /\ to = graph.edges[s].to
  OBVIOUS
<1>9. /\ EdgeFits(graph, e)
      /\ HasNode(graph, PinNode(from)) /\ HasNode(graph, PinNode(to))
      /\ PinNode(from) # PinNode(to)
      /\ PinNode(from) \in Indices(MaxNodes) /\ PinIndex(from) \in Outputs(graph, PinNode(from))
      /\ PinNode(to) \in Indices(MaxNodes) /\ PinIndex(to) \in Inputs(graph, PinNode(to))
      /\ Node(graph, PinNode(to)).input[PinIndex(to)] = e
  <2>1. HasEdge(graph, e) /\ Edge(graph, e).from = from /\ Edge(graph, e).to = to
    BY <1>6, <1>7, <1>8
  <2>2. PICK f, t : f = Edge(graph, e).from /\ t = Edge(graph, e).to
    OBVIOUS
  <2>3. /\ EdgeFits(graph, e)
        /\ HasNode(graph, PinNode(f)) /\ HasNode(graph, PinNode(t))
        /\ PinNode(f) # PinNode(t)
        /\ PinNode(f) \in Indices(MaxNodes) /\ PinIndex(f) \in Outputs(graph, PinNode(f))
        /\ PinNode(t) \in Indices(MaxNodes) /\ PinIndex(t) \in Inputs(graph, PinNode(t))
        /\ Node(graph, PinNode(t)).input[PinIndex(t)] = e
    BY <2>1, <2>2, EdgePins, Zenon
  <2>4. f = from /\ t = to
    BY <2>1, <2>2
  <2> QED
    BY <2>3, <2>4, Zenon
<1>10. PinsMatch(graph, from, to)
  BY <1>7, <1>8, <1>9, Zenon DEF EdgeFits
<1>11. OutputTypes[TypeOf(PinNode(from))][PinIndex(from) + 1] = InputTypes[TypeOf(PinNode(to))][PinIndex(to) + 1]
  BY <1>10, Zenon DEF PinsMatch, TypesMatch, TypeOf
<1>12. TypeOf(PinNode(from)) \in NodeTypes /\ TypeOf(PinNode(to)) \in NodeTypes
  BY <1>9, NodeInSlot DEF IsNode, TypeOf
<1> QED
  BY <1>3, <1>6, <1>7, <1>8, <1>9, <1>11, <1>12, Zenon DEF FromNode, ToNode

LEMMA SurvivingPins ==
    ASSUME IsGraph(graph), EdgesFit(graph), NEW s \in Indices(EdgeCount), Survives(s),
           NEW f, f = NewType(TypeOf(FromNode(s))), NEW t, t = NewType(TypeOf(ToNode(s)))
    PROVE  /\ f \in NewNodeTypes /\ t \in NewNodeTypes
           /\ OutOf(s) \in 0 .. New!NumOutputs(f) - 1 /\ InOf(s) \in 0 .. New!NumInputs(t) - 1
           /\ OutOf(s) \in 0 .. 16 /\ InOf(s) \in 0 .. 16
           /\ NewOutputTypes[f][OutOf(s) + 1] = NewInputTypes[t][InOf(s) + 1]
           /\ NewInputNames[t][InOf(s) + 1] = InputNames[TypeOf(ToNode(s))][PinIndex(graph.edges[s].to) + 1]
           /\ NewInputTypes[t][InOf(s) + 1] = InputTypes[TypeOf(ToNode(s))][PinIndex(graph.edges[s].to) + 1]
           /\ PinNode(NewFrom(s)) = FromNode(s) /\ PinIndex(NewFrom(s)) = OutOf(s)
           /\ PinNode(NewTo(s)) = ToNode(s) /\ PinIndex(NewTo(s)) = InOf(s)
           /\ New!Directed(NewFrom(s), NewTo(s))
<1>1. f \in NewNodeTypes /\ t \in NewNodeTypes
  BY NewTypeIn
<1>2. PICK outs, ins : outs = New!NumOutputs(f) /\ ins = New!NumInputs(t)
  OBVIOUS
<1>3. /\ outs \in 0 .. 16 /\ ins \in 0 .. 16
      /\ DOMAIN NewOutputNames[f] = 1 .. outs /\ DOMAIN NewInputNames[t] = 1 .. ins
  <2>1. /\ outs \in 0 .. 16 /\ ins \in 0 .. 16
        /\ DOMAIN NewOutputTypes[f] = 1 .. outs /\ DOMAIN NewInputTypes[t] = 1 .. ins
    BY <1>1, <1>2, NewCounts
  <2>2. /\ DOMAIN NewOutputNames[f] = DOMAIN NewOutputTypes[f]
        /\ DOMAIN NewInputNames[t] = DOMAIN NewInputTypes[t]
    BY <1>1, MigrationAssumption
  <2> QED
    BY <2>1, <2>2
<1>4. PICK from, to : from = graph.edges[s].from /\ to = graph.edges[s].to
  OBVIOUS
<1>5. /\ OutOf(s) = NewIndex(OutputNames[TypeOf(FromNode(s))][PinIndex(from) + 1],
                             OutputTypes[TypeOf(FromNode(s))][PinIndex(from) + 1],
                             NewOutputNames[f], NewOutputTypes[f])
      /\ InOf(s) = NewIndex(InputNames[TypeOf(ToNode(s))][PinIndex(to) + 1],
                            InputTypes[TypeOf(ToNode(s))][PinIndex(to) + 1],
                            NewInputNames[t], NewInputTypes[t])
  BY <1>4, Zenon DEF OutOf, InOf, NewOutput, NewInput
<1>6. IsValid(OutOf(s)) /\ IsValid(InOf(s)) /\ outs \in Nat /\ ins \in Nat
  BY <1>3 DEF Survives
<1>7. /\ OutOf(s) \in 0 .. outs - 1
      /\ NewOutputTypes[f][OutOf(s) + 1] = OutputTypes[TypeOf(FromNode(s))][PinIndex(from) + 1]
  BY <1>3, <1>5, <1>6, NewIndexIs
<1>8. /\ InOf(s) \in 0 .. ins - 1
      /\ NewInputNames[t][InOf(s) + 1] = InputNames[TypeOf(ToNode(s))][PinIndex(to) + 1]
      /\ NewInputTypes[t][InOf(s) + 1] = InputTypes[TypeOf(ToNode(s))][PinIndex(to) + 1]
  <2>1. PICK name, dataType, names, types :
            /\ name = InputNames[TypeOf(ToNode(s))][PinIndex(to) + 1]
            /\ dataType = InputTypes[TypeOf(ToNode(s))][PinIndex(to) + 1]
            /\ names = NewInputNames[t] /\ types = NewInputTypes[t]
    OBVIOUS
  <2>2. PICK i : i = InOf(s)
    OBVIOUS
  <2>3. i = NewIndex(name, dataType, names, types)
    BY <1>5, <2>1, <2>2, Zenon
  <2>4. IsValid(i) /\ ins \in Nat /\ DOMAIN names = 1 .. ins
    BY <1>3, <1>6, <2>1, <2>2, Zenon
  <2>5. i \in 0 .. ins - 1 /\ names[i + 1] = name /\ types[i + 1] = dataType
    BY <2>3, <2>4, NewIndexIs
  <2> QED
    BY <2>1, <2>2, <2>5, Zenon
<1>9. OutOf(s) \in 0 .. 16 /\ InOf(s) \in 0 .. 16
  <2>1. \A n \in 0 .. 16 : \A i \in 0 .. n - 1 : i \in 0 .. 16
    OBVIOUS
  <2> QED
    BY <1>3, <1>7, <1>8, <2>1, Zenon
<1>10. FromNode(s) \in Nat /\ ToNode(s) \in Nat
  BY OldEdgePins, GraphAssumption DEF Indices
<1>11. /\ PinNode(NewFrom(s)) = FromNode(s) /\ PinIndex(NewFrom(s)) = OutOf(s)
       /\ IsValid(NewFrom(s)) /\ IsOutput(NewFrom(s)) = TRUE
       /\ PinNode(NewTo(s)) = ToNode(s) /\ PinIndex(NewTo(s)) = InOf(s)
       /\ IsValid(NewTo(s)) /\ IsOutput(NewTo(s)) = FALSE
  BY <1>9, <1>10, PinDecodes DEF NewFrom, NewTo
<1>12. New!Directed(NewFrom(s), NewTo(s))
  BY <1>11, NewWrites DEF Directed
<1>13. OutputTypes[TypeOf(FromNode(s))][PinIndex(from) + 1] = InputTypes[TypeOf(ToNode(s))][PinIndex(to) + 1]
  BY <1>4, OldEdgePins
<1>14. NewOutputTypes[f][OutOf(s) + 1] = NewInputTypes[t][InOf(s) + 1]
  BY <1>7, <1>8, <1>13
<1> QED
  BY <1>1, <1>2, <1>4, <1>7, <1>8, <1>9, <1>11, <1>12, <1>14, Zenon

(* No two edges that survive come to the same input pin: as the old graph  *)
(* has one edge per input, and two inputs of a node differ in name or type.*)
LEMMA OwnNewInput ==
    ASSUME IsGraph(graph), EdgesFit(graph), InputsDiffer,
           NEW s \in Indices(EdgeCount), NEW r \in Indices(EdgeCount), Survives(s), Survives(r), NewTo(s) = NewTo(r)
    PROVE  s = r
<1>1. PICK n : n = ToNode(s)
  OBVIOUS
<1>2. PICK old : old = TypeOf(n)
  OBVIOUS
<1>3. PICK t : t = NewType(old)
  OBVIOUS
<1>4. ToNode(r) = n /\ InOf(r) = InOf(s)
  <2>1. PinNode(NewTo(s)) = n /\ PinIndex(NewTo(s)) = InOf(s)
    BY <1>1, SurvivingPins
  <2>2. PinNode(NewTo(r)) = ToNode(r) /\ PinIndex(NewTo(r)) = InOf(r)
    BY SurvivingPins
  <2> QED
    BY <2>1, <2>2
<1>5. PICK i, j : i = PinIndex(graph.edges[s].to) /\ j = PinIndex(graph.edges[r].to)
  OBVIOUS
<1>6. /\ NewInputNames[t][InOf(s) + 1] = InputNames[old][i + 1]
      /\ NewInputTypes[t][InOf(s) + 1] = InputTypes[old][i + 1]
  BY <1>1, <1>2, <1>3, <1>5, SurvivingPins
<1>7. /\ NewInputNames[t][InOf(r) + 1] = InputNames[old][j + 1]
      /\ NewInputTypes[t][InOf(r) + 1] = InputTypes[old][j + 1]
  BY <1>2, <1>3, <1>4, <1>5, SurvivingPins
<1>8. InputNames[old][i + 1] = InputNames[old][j + 1] /\ InputTypes[old][i + 1] = InputTypes[old][j + 1]
  BY <1>4, <1>6, <1>7
<1>9. /\ old \in NodeTypes /\ i \in Inputs(graph, n) /\ j \in Inputs(graph, n)
      /\ Node(graph, n).input[i] = OldEdge(s) /\ Node(graph, n).input[j] = OldEdge(r)
  BY <1>1, <1>2, <1>4, <1>5, OldEdgePins
<1>10. i + 1 \in DOMAIN InputTypes[old] /\ j + 1 \in DOMAIN InputTypes[old]
  <2>1. PICK c : c = NumInputs(old)
    OBVIOUS
  <2>2. c \in 0 .. 16 /\ i \in 0 .. c - 1 /\ j \in 0 .. c - 1
    BY <1>2, <1>9, <2>1, PinCounts DEF Inputs, TypeOf, MaxPins
  <2>3. DOMAIN InputTypes[old] = 1 .. c
    <3>1. InputTypes[old] \in Seq(DataTypes)
      BY <1>9, GraphAssumption
    <3>2. c = Len(InputTypes[old])
      BY <2>1 DEF NumInputs
    <3> QED
      BY <3>1, <3>2
  <2> QED
    BY <2>2, <2>3
<1>11. i + 1 = j + 1
  BY <1>8, <1>9, <1>10 DEF InputsDiffer
<1>12. i = j
  <2>1. i \in Int /\ j \in Int
    BY <1>9 DEF Inputs
  <2> QED
    BY <1>11, <2>1
<1>13. OldEdge(s) = OldEdge(r)
  BY <1>9, <1>12
<1>14. EdgeSlot(graph, OldEdge(s)) = s /\ EdgeSlot(graph, OldEdge(r)) = r
  BY OldEdgePins
<1> QED
  BY <1>13, <1>14

-----------------------------------------------------------------------------
(* Writing to the new graph.                                               *)
SameMaps(g, h) == h.node_slot_map = g.node_slot_map /\ h.edge_slot_map = g.edge_slot_map

WritesNode(g, h, slot, r) == h = [g EXCEPT !.nodes = [@ EXCEPT ![slot] = r]]
WritesEdge(g, h, slot, r) == h = [g EXCEPT !.edges = [@ EXCEPT ![slot] = r]]

NodeReplaced(g, h, slot, r) ==
    /\ IsNewGraph(h) /\ SameMaps(g, h) /\ h.edges = g.edges
    /\ \A s \in Indices(MaxNodes) : h.nodes[s] = IF s = slot THEN r ELSE g.nodes[s]

EdgeReplaced(g, h, slot, r) ==
    /\ IsNewGraph(h) /\ SameMaps(g, h) /\ h.nodes = g.nodes
    /\ \A s \in Indices(New!MaxEdges) : h.edges[s] = IF s = slot THEN r ELSE g.edges[s]

LEMMA NewNodeWrite ==
    ASSUME NEW g, IsNewGraph(g), NEW slot, NEW r,
           slot \in Indices(g.node_slot_map.num_items) => IsNewNode(r),
           NEW h, WritesNode(g, h, slot, r)
    PROVE  NodeReplaced(g, h, slot, r)
<1>1. PICK nodes : nodes = [g.nodes EXCEPT ![slot] = r]
  OBVIOUS
<1>2. g.nodes = [s \in Indices(MaxNodes) |-> g.nodes[s]]
  BY DEF IsNewGraph
<1>3. nodes = [s \in Indices(MaxNodes) |-> IF s = slot THEN r ELSE g.nodes[s]]
  BY <1>1, <1>2
<1>4. g = [version |-> g.version, node_slot_map |-> g.node_slot_map,
           node_versions |-> g.node_versions, nodes |-> g.nodes,
           edge_slot_map |-> g.edge_slot_map, edges |-> g.edges]
  BY DEF IsNewGraph
<1>5. h = [version |-> g.version, node_slot_map |-> g.node_slot_map,
           node_versions |-> g.node_versions, nodes |-> nodes,
           edge_slot_map |-> g.edge_slot_map, edges |-> g.edges]
  BY <1>1, <1>4 DEF WritesNode
<1>6. /\ h.nodes = nodes /\ h.edges = g.edges
      /\ h.node_slot_map = g.node_slot_map /\ h.edge_slot_map = g.edge_slot_map
      /\ h = [version |-> h.version, node_slot_map |-> h.node_slot_map,
              node_versions |-> h.node_versions, nodes |-> h.nodes,
              edge_slot_map |-> h.edge_slot_map, edges |-> h.edges]
  BY <1>5
<1>7. IsSlotMap(g.node_slot_map, MaxNodes) /\ IsSlotMap(g.edge_slot_map, New!MaxEdges)
  BY DEF IsNewGraph
<1>8. \A s \in Indices(g.node_slot_map.num_items) : s \in Indices(MaxNodes)
  BY <1>7, GraphAssumption, SlotsAndIds
<1>9. \A s \in Indices(g.node_slot_map.num_items) : IsNewNode(nodes[s])
  <2>1. \A s \in Indices(g.node_slot_map.num_items) : IsNewNode(g.nodes[s])
    BY Zenon DEF IsNewGraph
  <2> QED
    BY <1>3, <1>8, <2>1
<1>10. nodes = [s \in Indices(MaxNodes) |-> nodes[s]]
  BY <1>3
<1>11. IsNewGraph(h)
  BY <1>6, <1>9, <1>10 DEF IsNewGraph
<1> QED
  BY <1>3, <1>6, <1>11 DEF SameMaps, NodeReplaced

LEMMA NewEdgeWrite ==
    ASSUME NEW g, IsNewGraph(g), NEW slot, NEW r,
           slot \in Indices(New!MaxEdges) => IsNewEdge(r),
           NEW h, WritesEdge(g, h, slot, r)
    PROVE  EdgeReplaced(g, h, slot, r)
<1>1. PICK edges, max : edges = [g.edges EXCEPT ![slot] = r] /\ max = New!MaxEdges
  OBVIOUS
<1>2. g.edges = [s \in Indices(max) |-> g.edges[s]]
  BY <1>1 DEF IsNewGraph
<1>3. edges = [s \in Indices(max) |-> IF s = slot THEN r ELSE g.edges[s]]
  BY <1>1, <1>2
<1>4. g = [version |-> g.version, node_slot_map |-> g.node_slot_map,
           node_versions |-> g.node_versions, nodes |-> g.nodes,
           edge_slot_map |-> g.edge_slot_map, edges |-> g.edges]
  BY DEF IsNewGraph
<1>5. h = [version |-> g.version, node_slot_map |-> g.node_slot_map,
           node_versions |-> g.node_versions, nodes |-> g.nodes,
           edge_slot_map |-> g.edge_slot_map, edges |-> edges]
  BY <1>1, <1>4 DEF WritesEdge
<1>6. /\ h.nodes = g.nodes /\ h.edges = edges
      /\ h.node_slot_map = g.node_slot_map /\ h.edge_slot_map = g.edge_slot_map
      /\ h = [version |-> h.version, node_slot_map |-> h.node_slot_map,
              node_versions |-> h.node_versions, nodes |-> h.nodes,
              edge_slot_map |-> h.edge_slot_map, edges |-> h.edges]
  BY <1>5
<1>7. \A s \in Indices(max) : IsNewEdge(edges[s])
  <2>1. \A s \in Indices(max) : IsNewEdge(g.edges[s])
    BY <1>1, Zenon DEF IsNewGraph
  <2> QED
    BY <1>1, <1>3, <2>1
<1>8. edges = [s \in Indices(max) |-> edges[s]]
  BY <1>3
<1>9. IsNewGraph(h)
  BY <1>1, <1>6, <1>7, <1>8 DEF IsNewGraph
<1> QED
  BY <1>1, <1>3, <1>6, <1>9 DEF SameMaps, EdgeReplaced

(* What is written to links changes neither the ends of an edge nor the    *)
(* type or the inputs of a node.                                           *)
LinksOnly(g, h) ==
    /\ IsNewGraph(h) /\ SameMaps(g, h)
    /\ \A s \in Indices(New!MaxEdges) :
          h.edges[s].from = g.edges[s].from /\ h.edges[s].to = g.edges[s].to
    /\ \A s \in Indices(g.node_slot_map.num_items) :
          h.nodes[s].type = g.nodes[s].type /\ h.nodes[s].input = g.nodes[s].input

LEMMA NewLinkWrites ==
    ASSUME NEW g, IsNewGraph(g), NEW at, NEW value
    PROVE  LinksOnly(g, SetNext(g, at, value)) /\ LinksOnly(g, SetPrev(g, at, value))
<1>1. PICK slot, max, used : /\ slot = at.slot /\ max = New!MaxEdges
                             /\ used = Indices(g.node_slot_map.num_items)
  OBVIOUS
<1>2. PICK h, p : h = SetNext(g, at, value) /\ p = SetPrev(g, at, value)
  OBVIOUS
<1>3. CASE at.inEdge
  <2> DEFINE old  == g.edges[at.slot]
             next == [old EXCEPT !.next = value]
             prev == [old EXCEPT !.prev = value]
  <2>2. WritesEdge(g, h, at.slot, next)
    BY <1>2, <1>3 DEF SetNext, WritesEdge
  <2>3. WritesEdge(g, p, at.slot, prev)
    BY <1>2, <1>3 DEF SetPrev, WritesEdge
  <2>1. old = g.edges[slot] /\ next = [old EXCEPT !.next = value] /\ prev = [old EXCEPT !.prev = value]
    BY <1>1
  <2> HIDE DEF old, next, prev
  <2>4. ASSUME slot \in Indices(max)
        PROVE  /\ IsNewEdge(next) /\ next.from = old.from /\ next.to = old.to
               /\ IsNewEdge(prev) /\ prev.from = old.from /\ prev.to = old.to
    <3>1. IsNewEdge(old)
      BY <1>1, <2>1, <2>4 DEF IsNewGraph
    <3> QED
      BY <2>1, <3>1 DEF IsNewEdge
  <2>5. /\ IsNewGraph(h) /\ SameMaps(g, h) /\ h.nodes = g.nodes
        /\ \A s \in Indices(max) : h.edges[s] = IF s = slot THEN next ELSE g.edges[s]
    <3>1. slot \in Indices(New!MaxEdges) => IsNewEdge(next)
      BY <1>1, <2>4
    <3>2. WritesEdge(g, h, slot, next)
      BY <1>1, <2>2
    <3>3. EdgeReplaced(g, h, slot, next)
      BY <3>1, <3>2, NewEdgeWrite
    <3> QED
      BY <1>1, <3>3 DEF EdgeReplaced
  <2>6. /\ IsNewGraph(p) /\ SameMaps(g, p) /\ p.nodes = g.nodes
        /\ \A s \in Indices(max) : p.edges[s] = IF s = slot THEN prev ELSE g.edges[s]
    <3>1. slot \in Indices(New!MaxEdges) => IsNewEdge(prev)
      BY <1>1, <2>4
    <3>2. WritesEdge(g, p, slot, prev)
      BY <1>1, <2>3
    <3>3. EdgeReplaced(g, p, slot, prev)
      BY <3>1, <3>2, NewEdgeWrite
    <3> QED
      BY <1>1, <3>3 DEF EdgeReplaced
  <2> QED
    BY <1>1, <1>2, <2>1, <2>4, <2>5, <2>6 DEF LinksOnly
<1>4. CASE ~at.inEdge
  <2> DEFINE old  == g.nodes[at.slot]
             next == [old EXCEPT !.output[at.pin].next = value]
             prev == [old EXCEPT !.output[at.pin].prev = value]
  <2>4. WritesNode(g, h, at.slot, next)
    BY <1>2, <1>4 DEF SetNext, WritesNode
  <2>5. WritesNode(g, p, at.slot, prev)
    BY <1>2, <1>4 DEF SetPrev, WritesNode
  <2>2. PICK nexts, prevs : /\ nexts = [old.output EXCEPT ![at.pin].next = value]
                            /\ prevs = [old.output EXCEPT ![at.pin].prev = value]
    OBVIOUS
  <2>1. old = g.nodes[slot]
    BY <1>1
  <2>3. next = [old EXCEPT !.output = nexts] /\ prev = [old EXCEPT !.output = prevs]
    BY <2>2
  <2> HIDE DEF old, next, prev
  <2>6. ASSUME slot \in used
        PROVE  /\ IsNewNode(next) /\ next.type = old.type /\ next.input = old.input
               /\ IsNewNode(prev) /\ prev.type = old.type /\ prev.input = old.input
    <3>1. IsNewNode(old)
      BY <1>1, <2>1, <2>6 DEF IsNewGraph
    <3>2. /\ next = [type |-> old.type, input |-> old.input, output |-> nexts]
          /\ prev = [type |-> old.type, input |-> old.input, output |-> prevs]
      BY <2>3, <3>1 DEF IsNewNode
    <3> QED
      BY <3>1, <3>2 DEF IsNewNode
  <2>7. /\ IsNewGraph(h) /\ SameMaps(g, h) /\ h.edges = g.edges
        /\ \A s \in Indices(MaxNodes) : h.nodes[s] = IF s = slot THEN next ELSE g.nodes[s]
    <3>1. slot \in Indices(g.node_slot_map.num_items) => IsNewNode(next)
      BY <1>1, <2>6
    <3>2. WritesNode(g, h, slot, next)
      BY <1>1, <2>4
    <3>3. NodeReplaced(g, h, slot, next)
      BY <3>1, <3>2, NewNodeWrite
    <3> QED
      BY <3>3 DEF NodeReplaced
  <2>8. /\ IsNewGraph(p) /\ SameMaps(g, p) /\ p.edges = g.edges
        /\ \A s \in Indices(MaxNodes) : p.nodes[s] = IF s = slot THEN prev ELSE g.nodes[s]
    <3>1. slot \in Indices(g.node_slot_map.num_items) => IsNewNode(prev)
      BY <1>1, <2>6
    <3>2. WritesNode(g, p, slot, prev)
      BY <1>1, <2>5
    <3>3. NodeReplaced(g, p, slot, prev)
      BY <3>1, <3>2, NewNodeWrite
    <3> QED
      BY <3>3 DEF NodeReplaced
  <2>9. used \subseteq Indices(MaxNodes)
    BY <1>1, GraphAssumption, SlotsAndIds DEF IsNewGraph
  <2> QED
    BY <1>1, <1>2, <2>1, <2>6, <2>7, <2>8, <2>9 DEF LinksOnly
<1> QED
  BY <1>3, <1>4

LEMMA LinksOnlyTwice ==
    ASSUME NEW g, NEW h, NEW k, LinksOnly(g, h), LinksOnly(h, k)
    PROVE  LinksOnly(g, k)
BY DEF LinksOnly, SameMaps

(* hgraph_connect in the new graph, when it connects.                      *)
NewlyConnected(g, h, m, from, to, at) ==
    /\ IsNewGraph(h)
    /\ h.node_slot_map = g.node_slot_map /\ h.edge_slot_map = Allocate(m)
    /\ h.edges[m.num_items].from = from /\ h.edges[m.num_items].to = to
    /\ \A s \in Indices(New!MaxEdges) : s # m.num_items =>
          h.edges[s].from = g.edges[s].from /\ h.edges[s].to = g.edges[s].to
    /\ \A s \in Indices(g.node_slot_map.num_items) :
          /\ h.nodes[s].type = g.nodes[s].type
          /\ h.nodes[s].input =
                IF s = at THEN [g.nodes[s].input EXCEPT ![PinIndex(to)] = AllocatedId(m)]
                ELSE g.nodes[s].input

LEMMA NewConnectIs ==
    ASSUME NEW g, IsNewGraph(g), NEW from, NEW to, New!CanConnect(g, from, to),
           NEW m, m = g.edge_slot_map, ~IsFull(m), NEW at, at = NodeSlot(g, PinNode(to)),
           NEW h, h = New!Connect(g, from, to)
    PROVE  NewlyConnected(g, h, m, from, to, at)
<1>1. PICK n, max, e, tail : /\ n = m.num_items /\ max = New!MaxEdges /\ e = AllocatedId(m)
                             /\ tail = OutputPin(g, from).prev
  OBVIOUS
<1>2. max \in Nat /\ IsSlotMap(m, max)
  BY <1>1, NewEdgesAreNat DEF IsNewGraph
<1>3. AllocatedSlot(m) = n /\ n \in Indices(max) /\ IsSlotMap(Allocate(m), max)
  BY <1>1, <1>2, AllocateMakesLive, AllocateIsSlotMap
<1>4. PICK item : item = [from |-> from, to |-> to, prev |-> tail, next |-> Invalid]
  OBVIOUS
<1>5. PICK grown : grown = [g EXCEPT !.edge_slot_map = Allocate(m)]
  OBVIOUS
<1>6. PICK added : added = [g EXCEPT !.edge_slot_map = Allocate(m), !.edges[n] = item]
  OBVIOUS
<1>7. PICK first : first = SetInput(added, to, e)
  OBVIOUS
<1>8. PICK second : second = SetNext(first, Resolve(added, from, tail), e)
  OBVIOUS
<1>9. h = SetPrev(second, Resolve(g, from, Invalid), e)
  <2>1. ~New!IsFull(m) /\ New!Allocate(m) = Allocate(m) /\ New!AllocatedId(m) = e
        /\ New!AllocatedSlot(m) = n /\ New!Invalid = Invalid
    BY <1>1, <1>3, NewMaps
  <2>2. New!OutputPin(g, from).prev = tail
    BY <1>1, NewWrites
  <2>3. h = New!SetPrev(New!SetNext(New!SetInput(added, to, e), New!Resolve(added, from, tail), e),
                        New!Resolve(g, from, New!Invalid), e)
    <3>1. added = [g EXCEPT !.edge_slot_map = New!Allocate(@),
                            !.edges[New!AllocatedSlot(g.edge_slot_map)] =
                                [from |-> from, to |-> to, prev |-> tail, next |-> New!Invalid]]
      <4>1. /\ New!Allocate(g.edge_slot_map) = Allocate(m) /\ New!AllocatedSlot(g.edge_slot_map) = n
            /\ [from |-> from, to |-> to, prev |-> tail, next |-> New!Invalid] = item
        BY <1>4, <2>1
      <4> QED
        BY <1>6, <4>1, Zenon
    <3> QED
      BY <2>1, <2>2, <3>1, Zenon DEF New!Connect
  <2>4. /\ New!SetInput(added, to, e) = first
        /\ New!SetNext(first, New!Resolve(added, from, tail), e) = second
    BY <1>7, <1>8, NewWrites, Zenon
  <2>5. New!Resolve(g, from, New!Invalid) = Resolve(g, from, Invalid)
    BY <2>1, NewWrites, Zenon
  <2>6. h = New!SetPrev(second, Resolve(g, from, Invalid), e)
    BY <2>3, <2>4, <2>5, Zenon
  <2> QED
    BY <2>6, NewWrites, Zenon
<1>10. /\ IsNewGraph(grown) /\ grown.edges = g.edges /\ grown.nodes = g.nodes
       /\ grown.node_slot_map = g.node_slot_map /\ grown.edge_slot_map = Allocate(m)
  <2>1. g = [version |-> g.version, node_slot_map |-> g.node_slot_map,
             node_versions |-> g.node_versions, nodes |-> g.nodes,
             edge_slot_map |-> g.edge_slot_map, edges |-> g.edges]
    BY DEF IsNewGraph
  <2>2. grown = [version |-> g.version, node_slot_map |-> g.node_slot_map,
                 node_versions |-> g.node_versions, nodes |-> g.nodes,
                 edge_slot_map |-> Allocate(m), edges |-> g.edges]
    BY <1>5, <2>1
  <2>3. /\ grown.edges = g.edges /\ grown.nodes = g.nodes
        /\ grown.node_slot_map = g.node_slot_map /\ grown.edge_slot_map = Allocate(m)
        /\ grown = [version |-> grown.version, node_slot_map |-> grown.node_slot_map,
                    node_versions |-> grown.node_versions, nodes |-> grown.nodes,
                    edge_slot_map |-> grown.edge_slot_map, edges |-> grown.edges]
    BY <2>2
  <2>4. IsNewGraph(grown)
    BY <1>1, <1>3, <2>3 DEF IsNewGraph
  <2> QED
    BY <2>3, <2>4
<1>11. /\ IsNewGraph(added) /\ SameMaps(grown, added) /\ added.nodes = g.nodes
       /\ \A s \in Indices(max) : added.edges[s] = IF s = n THEN item ELSE g.edges[s]
  <2>1. IsNewEdge(item)
    BY <1>4 DEF IsNewEdge
  <2>2. WritesEdge(grown, added, n, item)
    <3>1. PICK edges : edges = [g.edges EXCEPT ![n] = item]
      OBVIOUS
    <3>2. added = [g EXCEPT !.edge_slot_map = Allocate(m), !.edges = edges]
      BY <1>6, <3>1, Zenon
    <3>3. [grown EXCEPT !.edges = [@ EXCEPT ![n] = item]] = [grown EXCEPT !.edges = edges]
      BY <1>10, <3>1, Zenon
    <3>4. g = [version |-> g.version, node_slot_map |-> g.node_slot_map,
               node_versions |-> g.node_versions, nodes |-> g.nodes,
               edge_slot_map |-> g.edge_slot_map, edges |-> g.edges]
      BY DEF IsNewGraph
    <3>5. [grown EXCEPT !.edges = edges] = [g EXCEPT !.edge_slot_map = Allocate(m), !.edges = edges]
      BY <1>5, <3>4
    <3> QED
      BY <3>2, <3>3, <3>5, Zenon DEF WritesEdge
  <2>3. EdgeReplaced(grown, added, n, item)
    BY <1>10, <2>1, <2>2, NewEdgeWrite
  <2> QED
    BY <1>1, <1>10, <2>3 DEF EdgeReplaced
<1>12. PICK old, inputs : old = g.nodes[at] /\ inputs = [old.input EXCEPT ![PinIndex(to)] = e]
  OBVIOUS
<1>13. PICK new : new = [old EXCEPT !.input = inputs]
  OBVIOUS
<1>14. WritesNode(added, first, at, new)
  <2>1. NodeSlot(added, PinNode(to)) = at
    BY <1>10, <1>11 DEF NodeSlot, SameMaps
  <2> QED
    BY <1>7, <1>11, <1>12, <1>13, <2>1 DEF SetInput, WritesNode
<1>15. PICK used : used = Indices(g.node_slot_map.num_items)
  OBVIOUS
<1>16. ASSUME at \in used
       PROVE  IsNewNode(new) /\ new.type = old.type /\ new.input = inputs
  <2>1. IsNewNode(old)
    BY <1>12, <1>15, <1>16 DEF IsNewGraph
  <2>2. new = [type |-> old.type, input |-> inputs, output |-> old.output]
    BY <1>13, <2>1 DEF IsNewNode
  <2>3. inputs = [i \in 0 .. New!NumInputs(old.type) - 1 |-> inputs[i]]
    BY <1>12, <2>1 DEF IsNewNode
  <2> QED
    BY <2>2, <2>3 DEF IsNewNode
<1>17. /\ IsNewGraph(first) /\ SameMaps(added, first) /\ first.edges = added.edges
       /\ \A s \in Indices(MaxNodes) : first.nodes[s] = IF s = at THEN new ELSE g.nodes[s]
  <2>1. Indices(added.node_slot_map.num_items) = used
    BY <1>10, <1>11, <1>15 DEF SameMaps
  <2> QED
    <3>1. at \in Indices(added.node_slot_map.num_items) => IsNewNode(new)
      BY <1>16, <2>1
    <3>2. NodeReplaced(added, first, at, new)
      BY <1>11, <1>14, <3>1, NewNodeWrite
    <3> QED
      BY <1>11, <3>2 DEF NodeReplaced
<1>18. LinksOnly(first, h)
  BY <1>8, <1>9, <1>17, NewLinkWrites, LinksOnlyTwice DEF LinksOnly
<1>19. used \subseteq Indices(MaxNodes)
  BY <1>15, GraphAssumption, SlotsAndIds DEF IsNewGraph
<1>20. h.node_slot_map = g.node_slot_map /\ h.edge_slot_map = Allocate(m) /\ IsNewGraph(h)
  BY <1>10, <1>11, <1>17, <1>18 DEF LinksOnly, SameMaps
<1>21. \A s \in Indices(max) : /\ h.edges[s].from = IF s = n THEN from ELSE g.edges[s].from
                               /\ h.edges[s].to = IF s = n THEN to ELSE g.edges[s].to
  <2>1. item.from = from /\ item.to = to
    BY <1>4
  <2> QED
    BY <1>1, <1>11, <1>17, <1>18, <2>1 DEF LinksOnly
<1>22. \A s \in used : /\ h.nodes[s].type = g.nodes[s].type
                       /\ h.nodes[s].input = IF s = at THEN inputs ELSE g.nodes[s].input
  <2>1. first.node_slot_map = g.node_slot_map
    BY <1>10, <1>11, <1>17 DEF SameMaps
  <2> QED
    BY <1>12, <1>15, <1>16, <1>17, <1>18, <1>19, <2>1 DEF LinksOnly
<1>23. h.edges[m.num_items].from = from /\ h.edges[m.num_items].to = to
  BY <1>1, <1>3, <1>21
<1>24. \A s \in Indices(New!MaxEdges) : s # m.num_items =>
          h.edges[s].from = g.edges[s].from /\ h.edges[s].to = g.edges[s].to
  BY <1>1, <1>21
<1>25. \A s \in Indices(g.node_slot_map.num_items) :
          /\ h.nodes[s].type = g.nodes[s].type
          /\ h.nodes[s].input =
                IF s = at THEN [g.nodes[s].input EXCEPT ![PinIndex(to)] = AllocatedId(m)]
                ELSE g.nodes[s].input
  BY <1>1, <1>12, <1>15, <1>22
<1> QED
  BY <1>20, <1>23, <1>24, <1>25, Zenon DEF NewlyConnected

-----------------------------------------------------------------------------
(* The edges of the first k slots that survive are there, under their ids  *)
(* and between the same nodes, and no others; an input pin is taken only   *)
(* by one of them.                                                         *)
AllFit ==
    /\ InputsDiffer
    /\ \A s \in Indices(EdgeCount) : Survives(s) => OldEdge(s) < New!MaxEdges

EdgeMigrated(g, s) ==
    /\ HasEdge(g, OldEdge(s))
    /\ Edge(g, OldEdge(s)).from = NewFrom(s) /\ Edge(g, OldEdge(s)).to = NewTo(s)

ComesFrom(k, e) == \E s \in Indices(k) : Survives(s) /\ e = OldEdge(s)

TakenBy(k, n, i) == \E s \in Indices(k) : Survives(s) /\ ToNode(s) = n /\ InOf(s) = i

InputsTaken(g, k, slot) ==
    \A i \in 0 .. New!NumInputs(g.nodes[slot].type) - 1 :
        IsValid(g.nodes[slot].input[i]) => TakenBy(k, OldNode(slot), i)

EdgesMigrated(state, k) ==
    /\ state = [graph |-> state.graph, asserts |-> TRUE]
    /\ IsNewGraph(state.graph) /\ HasOldNodes(state.graph, NodeCount)
    /\ RestIsLow(state.graph.edge_slot_map)
    /\ \A s \in Indices(k) : Survives(s) => EdgeMigrated(state.graph, s)
    /\ \A e : HasEdge(state.graph, e) => ComesFrom(k, e)
    /\ \A slot \in Indices(NodeCount) : InputsTaken(state.graph, k, slot)

LEMMA NoEdgesYet ==
    ASSUME NEW state, NodesMigrated(state, NodeCount)
    PROVE  EdgesMigrated(state, 0)
<1>1. PICK g, max : g = state.graph /\ max = New!MaxEdges
  OBVIOUS
<1>2. /\ state = [graph |-> state.graph, asserts |-> TRUE]
      /\ IsNewGraph(g) /\ HasOldNodes(g, NodeCount) /\ g.edge_slot_map = EmptyMap(max)
      /\ \A slot \in Indices(NodeCount) : InputsEmpty(g.nodes[slot])
  BY <1>1, Zenon DEF NodesMigrated
<1>3. max \in Nat
  BY <1>1, NewEdgesAreNat
<1>4. RestIsLow(g.edge_slot_map)
  BY <1>2, <1>3, EmptyRestIsLow
<1>5. Indices(0) = {} /\ EmptyMap(max).num_items = 0
  BY DEF Indices, EmptyMap
<1>6. \A e : ~HasEdge(g, e)
  <2>1. IsSlotMap(EmptyMap(max), max)
    BY <1>3, EmptyIsSlotMap
  <2>2. \A e : ~IsLive(EmptyMap(max), e)
    BY <1>3, <1>5, <2>1, SlotsAndIds
  <2> QED
    BY <1>2, <2>2 DEF HasEdge
<1>7. \A slot \in Indices(NodeCount) : InputsTaken(g, 0, slot)
  BY <1>2 DEF InputsTaken, InputsEmpty, IsValid, Invalid
<1> QED
  BY <1>1, <1>2, <1>4, <1>5, <1>6, <1>7 DEF EdgesMigrated

LEMMA OldNodesThere ==
    ASSUME IsGraph(graph), NEW g, IsNewGraph(g), HasOldNodes(g, NodeCount)
    PROVE  /\ \A n : HasNode(g, n) <=> HasNode(graph, n)
           /\ \A n : HasNode(graph, n) =>
                 /\ NodeSlot(g, n) = NodeSlot(graph, n) /\ NodeSlot(g, n) \in Indices(NodeCount)
                 /\ OldNode(NodeSlot(g, n)) = n /\ n \in Indices(MaxNodes)
                 /\ Node(g, n).type = NewType(TypeOf(n))
<1>1. PICK m, w, max, used : /\ m = graph.node_slot_map /\ w = g.node_slot_map /\ max = MaxNodes
                             /\ used = Indices(NodeCount)
  OBVIOUS
<1>2. /\ max \in Nat /\ IsSlotMap(m, max) /\ IsSlotMap(w, max)
      /\ Indices(m.num_items) = used /\ Indices(w.num_items) = used
      /\ \A s \in used : w.ids_for_slot[s] = m.ids_for_slot[s]
  BY <1>1, GraphAssumption DEF IsGraph, IsNewGraph, HasOldNodes, OldNode, NodeCount
<1>3. /\ \A s \in used : /\ IsLive(m, m.ids_for_slot[s]) /\ SlotForId(m, m.ids_for_slot[s]) = s
                         /\ m.ids_for_slot[s] \in Indices(max)
      /\ \A n : IsLive(m, n) => SlotForId(m, n) \in used /\ m.ids_for_slot[SlotForId(m, n)] = n
  BY <1>2, SlotsAndIds
<1>4. /\ \A s \in used : IsLive(w, w.ids_for_slot[s]) /\ SlotForId(w, w.ids_for_slot[s]) = s
      /\ \A n : IsLive(w, n) => SlotForId(w, n) \in used /\ w.ids_for_slot[SlotForId(w, n)] = n
  BY <1>2, SlotsAndIds
<1>5. ASSUME NEW n, IsLive(m, n)
      PROVE  /\ IsLive(w, n) /\ SlotForId(w, n) = SlotForId(m, n) /\ SlotForId(w, n) \in used
             /\ m.ids_for_slot[SlotForId(w, n)] = n /\ n \in Indices(max)
  <2>1. PICK s : s = SlotForId(m, n)
    OBVIOUS
  <2>2. s \in used /\ m.ids_for_slot[s] = n /\ w.ids_for_slot[s] = n
    BY <1>2, <1>3, <1>5, <2>1
  <2> QED
    BY <1>3, <1>4, <2>1, <2>2
<1>6. ASSUME NEW n, IsLive(w, n)
      PROVE  IsLive(m, n)
  <2>1. PICK s : s = SlotForId(w, n)
    OBVIOUS
  <2>2. s \in used /\ w.ids_for_slot[s] = n /\ m.ids_for_slot[s] = n
    BY <1>2, <1>4, <1>6, <2>1
  <2> QED
    BY <1>3, <2>2
<1>7. /\ \A n : HasNode(g, n) = IsLive(w, n) /\ HasNode(graph, n) = IsLive(m, n)
      /\ \A n : NodeSlot(g, n) = SlotForId(w, n) /\ NodeSlot(graph, n) = SlotForId(m, n)
  BY <1>1 DEF HasNode, NodeSlot
<1>8. ASSUME NEW n, HasNode(graph, n)
      PROVE  Node(g, n).type = NewType(TypeOf(n))
  <2>1. PICK s : s = NodeSlot(g, n)
    OBVIOUS
  <2>2. s \in used /\ NodeSlot(graph, n) = s
    BY <1>5, <1>7, <1>8, <2>1
  <2>3. g.nodes[s].type = NewType(graph.nodes[s].type)
    BY <1>1, <2>2 DEF HasOldNodes
  <2> QED
    BY <2>1, <2>2, <2>3 DEF Node, TypeOf
<1> QED
  BY <1>1, <1>5, <1>6, <1>7, <1>8 DEF OldNode

LEMMA CanConnectAgain ==
    ASSUME IsGraph(graph), EdgesFit(graph), AllFit, NEW k \in Indices(EdgeCount), Survives(k),
           NEW state, EdgesMigrated(state, k), NEW g, g = state.graph
    PROVE  New!CanConnect(g, NewFrom(k), NewTo(k))
<1>1. PICK from, to, f, t : from = NewFrom(k) /\ to = NewTo(k) /\ f = FromNode(k) /\ t = ToNode(k)
  OBVIOUS
<1>2. PICK ft, tt : ft = NewType(TypeOf(f)) /\ tt = NewType(TypeOf(t))
  OBVIOUS
<1>3. IsNewGraph(g) /\ HasOldNodes(g, NodeCount)
  BY DEF EdgesMigrated
<1>4. HasNode(graph, f) /\ HasNode(graph, t) /\ f # t
  BY <1>1, OldEdgePins
<1>5. /\ HasNode(g, f) /\ HasNode(g, t) /\ Node(g, f).type = ft /\ Node(g, t).type = tt
      /\ NodeSlot(g, t) \in Indices(NodeCount) /\ OldNode(NodeSlot(g, t)) = t
  BY <1>2, <1>3, <1>4, OldNodesThere
<1>6. /\ PinNode(from) = f /\ PinIndex(from) = OutOf(k) /\ PinNode(to) = t /\ PinIndex(to) = InOf(k)
      /\ New!Directed(from, to)
      /\ OutOf(k) \in 0 .. New!NumOutputs(ft) - 1 /\ InOf(k) \in 0 .. New!NumInputs(tt) - 1
      /\ NewOutputTypes[ft][OutOf(k) + 1] = NewInputTypes[tt][InOf(k) + 1]
      /\ ft \in NewNodeTypes /\ tt \in NewNodeTypes
  BY <1>1, <1>2, SurvivingPins, Zenon
<1>7. New!JoinsNodes(g, from, to)
  BY <1>4, <1>5, <1>6, NewWrites DEF JoinsNodes
<1>8. New!PinsMatch(g, from, to)
  <2>1. New!NumOutputs(ft) \in 0 .. 16 /\ New!NumInputs(tt) \in 0 .. 16
    BY <1>6, NewCounts
  <2>2. OutOf(k) < New!NumOutputs(ft) /\ InOf(k) < New!NumInputs(tt)
    <3>1. \A n \in 0 .. 16 : \A i \in 0 .. n - 1 : i < n
      OBVIOUS
    <3> QED
      BY <1>6, <2>1, <3>1, Zenon
  <2>3. New!PinNode(from) = f /\ New!PinNode(to) = t
        /\ New!PinIndex(from) = OutOf(k) /\ New!PinIndex(to) = InOf(k)
    BY <1>6, NewPins, Zenon
  <2>4. New!Node(g, f).type = ft /\ New!Node(g, t).type = tt
    BY <1>5, NewLookups, Zenon
  <2> QED
    BY <1>6, <2>2, <2>3, <2>4, Zenon DEF New!PinsMatch, New!TypesMatch
<1>9. New!InputIsFree(g, to)
  <2> SUFFICES ASSUME IsValid(Node(g, t).input[InOf(k)]) PROVE FALSE
    BY <1>6, NewWrites DEF InputIsFree
  <2>1. PICK slot : slot = NodeSlot(g, t)
    OBVIOUS
  <2>2. slot \in Indices(NodeCount) /\ OldNode(slot) = t /\ Node(g, t) = g.nodes[slot]
    BY <1>5, <2>1 DEF Node
  <2>3. InputsTaken(g, k, slot)
    BY <2>2 DEF EdgesMigrated
  <2>4. InOf(k) \in 0 .. New!NumInputs(g.nodes[slot].type) - 1 /\ IsValid(g.nodes[slot].input[InOf(k)])
    BY <1>5, <1>6, <2>2
  <2>5. TakenBy(k, t, InOf(k))
    BY <2>2, <2>3, <2>4, Zenon DEF InputsTaken
  <2>6. PICK s \in Indices(k) : Survives(s) /\ ToNode(s) = t /\ InOf(s) = InOf(k)
    BY <2>5 DEF TakenBy
  <2>7. NewTo(s) = NewTo(k)
    BY <1>1, <2>6 DEF NewTo
  <2>8. EdgeCount \in Nat
    BY MaxEdgesIsNat, SlotsAndIds DEF IsGraph, EdgeCount
  <2>9. s \in Indices(EdgeCount) /\ s # k
    BY <2>8 DEF Indices
  <2> QED
    BY <2>6, <2>7, <2>9, OwnNewInput DEF AllFit
<1> QED
  BY <1>1, <1>6, <1>7, <1>8, <1>9 DEF New!CanConnect

(* hgraph_migration_execute for one edge that survives: it can be          *)
(* connected, there is room, and its id can be had.                        *)
LEMMA EdgeHasRoom ==
    ASSUME IsGraph(graph), EdgesFit(graph), AllFit, NEW k \in Indices(EdgeCount), Survives(k),
           NEW state, EdgesMigrated(state, k), NEW m, m = state.graph.edge_slot_map,
           NEW max, max = New!MaxEdges
    PROVE  /\ max \in Nat /\ IsSlotMap(m, max) /\ RestIsLow(m)
           /\ OldEdge(k) \in Indices(max) /\ OldEdge(k) \notin LiveIds(m)
           /\ ~IsFull(m)
<1>1. max \in Nat /\ IsSlotMap(m, max) /\ RestIsLow(m)
  BY NewEdgesAreNat DEF EdgesMigrated, IsNewGraph
<1>2. PICK old : old = OldEdge(k)
  OBVIOUS
<1>3. old \in Indices(max)
  <2>1. old < max
    BY <1>2 DEF AllFit
  <2>2. old \in EdgeIds
    BY <1>2, OldEdgePins
  <2> QED
    BY <1>1, <2>1, <2>2, MaxEdgesIsNat DEF EdgeIds, Indices
<1>4. old \notin LiveIds(m)
  <2> SUFFICES ASSUME old \in LiveIds(m) PROVE FALSE
    OBVIOUS
  <2>1. HasEdge(state.graph, old)
    BY <1>1, LiveIdsAre DEF HasEdge
  <2>2. PICK s \in Indices(k) : old = OldEdge(s)
    BY <2>1 DEF EdgesMigrated, ComesFrom
  <2>3. EdgeCount \in Nat
    BY MaxEdgesIsNat, SlotsAndIds DEF IsGraph, EdgeCount
  <2>4. s \in Indices(EdgeCount) /\ s # k
    BY <2>3 DEF Indices
  <2>5. EdgeSlot(graph, OldEdge(s)) = s /\ EdgeSlot(graph, OldEdge(k)) = k
    BY <2>4, OldEdgePins
  <2> QED
    BY <1>2, <2>2, <2>4, <2>5
<1>5. ~IsFull(m)
  <2> SUFFICES ASSUME IsFull(m) PROVE FALSE
    OBVIOUS
  <2>1. m.max_items = max /\ m.num_items = max /\ m.slots_for_id \in [Indices(max) -> Indices(max)]
    BY <1>1, MapFields DEF IsSlotMap, IsFull
  <2>2. m.slots_for_id[old] < m.num_items
    <3>1. m.slots_for_id[old] \in Indices(max)
      BY <1>3, <2>1
    <3> QED
      BY <1>1, <2>1, <3>1 DEF Indices
  <2> QED
    BY <1>1, <1>3, <1>4, <2>2, LiveIdsAre
<1> QED
  BY <1>1, <1>2, <1>3, <1>4, <1>5

LEMMA EdgeConnected ==
    ASSUME IsGraph(graph), EdgesFit(graph), AllFit, NEW k \in Indices(EdgeCount), Survives(k),
           NEW state, EdgesMigrated(state, k)
    PROVE  EdgesMigrated(MigrateEdge(state, k), k + 1)
<1>1. PICK g, m, max, old, new : /\ g = state.graph /\ m = g.edge_slot_map /\ max = New!MaxEdges
                                 /\ old = OldEdge(k) /\ new = AllocatedId(m)
  OBVIOUS
<1>2. PICK from, to, f, t : from = NewFrom(k) /\ to = NewTo(k) /\ f = FromNode(k) /\ t = ToNode(k)
  OBVIOUS
<1>3. PICK made, r, h : /\ made = New!Connect(g, from, to) /\ r = Remap(Allocate(m), new, old)
                        /\ h = [made EXCEPT !.edge_slot_map = r]
  OBVIOUS
<1>4. PICK n, at, in : n = m.num_items /\ at = NodeSlot(g, t) /\ in = InOf(k)
  OBVIOUS
<1>5. /\ state = [graph |-> g, asserts |-> TRUE]
      /\ IsNewGraph(g) /\ HasOldNodes(g, NodeCount)
      /\ \A s \in Indices(k) : Survives(s) => EdgeMigrated(g, s)
      /\ \A e : HasEdge(g, e) => ComesFrom(k, e)
      /\ \A slot \in Indices(NodeCount) : InputsTaken(g, k, slot)
  BY <1>1, Zenon DEF EdgesMigrated
<1>6. /\ max \in Nat /\ IsSlotMap(m, max) /\ RestIsLow(m)
      /\ old \in Indices(max) /\ old \notin LiveIds(m) /\ ~IsFull(m)
  BY <1>1, EdgeHasRoom
<1>7. New!CanConnect(g, from, to)
  BY <1>1, <1>2, CanConnectAgain
<1>8. PinNode(to) = t /\ PinIndex(to) = in
  BY <1>2, <1>4, SurvivingPins
<1>9. new \in Indices(max) /\ IsValid(new) /\ n \in Indices(max)
  <2>1. new \in Indices(max) /\ n \in Indices(max)
    BY <1>1, <1>4, <1>6, AllocateMakesLive
  <2> QED
    BY <1>6, <2>1 DEF IsValid, Indices
<1>10. /\ RemapAsserts(Allocate(m), new, old)
       /\ IsSlotMap(r, max) /\ RestIsLow(r)
       /\ LiveIds(r) = LiveIds(m) \union {old}
       /\ SlotForId(r, old) = n
       /\ \A id \in LiveIds(m) : SlotForId(r, id) = SlotForId(m, id)
  BY <1>1, <1>3, <1>4, <1>6, Remapped
<1>11. /\ IsNewGraph(made)
       /\ made.node_slot_map = g.node_slot_map /\ made.edge_slot_map = Allocate(m)
       /\ made.edges[n].from = from /\ made.edges[n].to = to
       /\ \A s \in Indices(max) : s # n =>
             made.edges[s].from = g.edges[s].from /\ made.edges[s].to = g.edges[s].to
       /\ \A s \in Indices(g.node_slot_map.num_items) :
             /\ made.nodes[s].type = g.nodes[s].type
             /\ made.nodes[s].input =
                   IF s = at THEN [g.nodes[s].input EXCEPT ![in] = new] ELSE g.nodes[s].input
  <2>1. m = g.edge_slot_map /\ at = NodeSlot(g, PinNode(to)) /\ made = New!Connect(g, from, to)
    BY <1>1, <1>3, <1>4, <1>8, Zenon
  <2>2. NewlyConnected(g, made, m, from, to, at)
    BY <1>5, <1>6, <1>7, <2>1, NewConnectIs, Zenon
  <2>3. max = New!MaxEdges /\ n = m.num_items /\ in = PinIndex(to) /\ new = AllocatedId(m)
    BY <1>1, <1>4, <1>8, Zenon
  <2>4. IsNewGraph(made) /\ made.node_slot_map = g.node_slot_map /\ made.edge_slot_map = Allocate(m)
    BY <2>2, Zenon DEF NewlyConnected
  <2>5. made.edges[n].from = from /\ made.edges[n].to = to
    BY <2>2, <2>3, Zenon DEF NewlyConnected
  <2>6. \A s \in Indices(max) : s # n =>
           made.edges[s].from = g.edges[s].from /\ made.edges[s].to = g.edges[s].to
    BY <2>2, <2>3, Zenon DEF NewlyConnected
  <2>7. \A s \in Indices(g.node_slot_map.num_items) :
           /\ made.nodes[s].type = g.nodes[s].type
           /\ made.nodes[s].input =
                 IF s = at THEN [g.nodes[s].input EXCEPT ![in] = new] ELSE g.nodes[s].input
    <3>1. \A s \in Indices(g.node_slot_map.num_items) :
             /\ made.nodes[s].type = g.nodes[s].type
             /\ made.nodes[s].input =
                   IF s = at THEN [g.nodes[s].input EXCEPT ![PinIndex(to)] = AllocatedId(m)]
                   ELSE g.nodes[s].input
      BY <2>2, Zenon DEF NewlyConnected
    <3> QED
      BY <2>3, <3>1
  <2> QED
    BY <2>4, <2>5, <2>6, <2>7, Zenon
<1>12. /\ h.node_slot_map = g.node_slot_map /\ h.edge_slot_map = r
       /\ h.nodes = made.nodes /\ h.edges = made.edges /\ IsNewGraph(h)
  <2>1. made = [version |-> made.version, node_slot_map |-> made.node_slot_map,
                node_versions |-> made.node_versions, nodes |-> made.nodes,
                edge_slot_map |-> made.edge_slot_map, edges |-> made.edges]
    BY <1>11 DEF IsNewGraph
  <2>2. h = [version |-> made.version, node_slot_map |-> g.node_slot_map,
             node_versions |-> made.node_versions, nodes |-> made.nodes,
             edge_slot_map |-> r, edges |-> made.edges]
    BY <1>3, <1>11, <2>1
  <2>3. /\ h.node_slot_map = made.node_slot_map /\ h.edge_slot_map = r
        /\ h.nodes = made.nodes /\ h.edges = made.edges
        /\ h = [version |-> h.version, node_slot_map |-> h.node_slot_map,
                node_versions |-> h.node_versions, nodes |-> h.nodes,
                edge_slot_map |-> h.edge_slot_map, edges |-> h.edges]
    BY <1>11, <2>2
  <2>4. IsNewGraph(h)
    BY <1>1, <1>10, <1>11, <2>3 DEF IsNewGraph
  <2> QED
    BY <1>11, <2>3, <2>4
<1>13. MigrateEdge(state, k) = [graph |-> h, asserts |-> TRUE]
  <2>1. New!ConnectResult(g, from, to) = new
    <3>1. New!Directed(from, to) /\ New!JoinsNodes(g, from, to)
      BY <1>7, Zenon DEF New!CanConnect
    <3>2. New!AllocatedId(g.edge_slot_map) = new
      BY <1>1, NewMaps
    <3> QED
      BY <1>7, <3>1, <3>2 DEF New!ConnectResult
  <2>2. IdForSlot(graph.edge_slot_map, k) = old
    <3>1. IsSlotMap(graph.edge_slot_map, MaxEdges)
      BY DEF IsGraph
    <3> QED
      BY <1>1, <3>1, MaxEdgesIsNat, SlotsAndIds DEF OldEdge, EdgeCount
  <2>3. PICK out : out = OutOf(k)
    OBVIOUS
  <2>4. IsValid(out) /\ IsValid(in)
    BY <1>4, <2>3 DEF Survives
  <2>5. MigrateEdge(state, k) =
            IF ~IsValid(out) \/ ~IsValid(in) THEN state
            ELSE IF ~IsValid(new) \/ ~RemapAsserts(made.edge_slot_map, new, old)
            THEN [state EXCEPT !.asserts = FALSE]
            ELSE [state EXCEPT !.graph = [made EXCEPT !.edge_slot_map = Remap(@, new, old)]]
    <3>1. NewOutput(Node(graph, PinNode(graph.edges[k].from)).type, PinIndex(graph.edges[k].from)) = out
      BY <2>3, Zenon DEF OutOf, TypeOf, FromNode
    <3>2. NewInput(Node(graph, PinNode(graph.edges[k].to)).type, PinIndex(graph.edges[k].to)) = in
      BY <1>4, Zenon DEF InOf, TypeOf, ToNode
    <3>3. /\ PinId(PinNode(graph.edges[k].from), out, TRUE) = from
          /\ PinId(PinNode(graph.edges[k].to), in, FALSE) = to
      BY <1>2, <1>4, <2>3, Zenon DEF NewFrom, NewTo, FromNode, ToNode
    <3>4. New!ConnectResult(state.graph, from, to) = new /\ New!Connect(state.graph, from, to) = made
      BY <1>1, <1>3, <2>1, Zenon
    <3> QED
      BY <2>2, <3>1, <3>2, <3>3, <3>4, Zenon DEF MigrateEdge
  <2>6. MigrateEdge(state, k) = [state EXCEPT !.graph = [made EXCEPT !.edge_slot_map = Remap(@, new, old)]]
    BY <1>9, <1>10, <1>11, <2>4, <2>5, Zenon
  <2>7. [made EXCEPT !.edge_slot_map = Remap(@, new, old)] = h
    BY <1>3, <1>11, Zenon
  <2>8. MigrateEdge(state, k) = [state EXCEPT !.graph = h]
    BY <2>6, <2>7, Zenon
  <2> QED
    BY <1>5, <2>8
<1>14. PICK used : used = Indices(NodeCount)
  OBVIOUS
<1>15. Indices(g.node_slot_map.num_items) = used /\ g.node_slot_map.num_items = NodeCount
  BY <1>5, <1>14 DEF HasOldNodes
<1>16. HasOldNodes(h, NodeCount)
  BY <1>5, <1>11, <1>12, <1>14, <1>15 DEF HasOldNodes
<1>17. k \in Nat /\ \A s \in Indices(k + 1) : s \in Indices(k) \/ s = k
  <2>1. EdgeCount \in Nat
    BY MaxEdgesIsNat, SlotsAndIds DEF IsGraph, EdgeCount
  <2> QED
    BY <2>1 DEF Indices
<1>18. \A s \in Indices(k) : s \in Indices(k + 1)
  BY <1>17 DEF Indices
<1>19. k \in Indices(k + 1)
  BY <1>17 DEF Indices
<1>20. \A e : HasEdge(h, e) <=> (HasEdge(g, e) \/ e = old)
  BY <1>1, <1>6, <1>10, <1>12, LiveIdsAre DEF HasEdge
<1>21. ASSUME NEW e, HasEdge(g, e)
       PROVE  Edge(h, e).from = Edge(g, e).from /\ Edge(h, e).to = Edge(g, e).to
  <2>1. IsLive(m, e) /\ e \in LiveIds(m)
    BY <1>1, <1>6, <1>21, LiveIdsAre DEF HasEdge
  <2>2. PICK s : s = SlotForId(m, e)
    OBVIOUS
  <2>3. s \in Indices(max) /\ s \in Indices(n)
    BY <1>4, <1>6, <2>1, <2>2, LookupRange
  <2>4. s # n
    BY <1>6, <1>9, <2>3 DEF Indices
  <2>5. EdgeSlot(h, e) = s /\ EdgeSlot(g, e) = s
    BY <1>1, <1>10, <1>12, <2>1, <2>2 DEF EdgeSlot
  <2> QED
    BY <1>11, <1>12, <2>3, <2>4, <2>5 DEF Edge
<1>22. ASSUME NEW s \in Indices(k + 1), Survives(s)
       PROVE  EdgeMigrated(h, s)
  <2>1. CASE s = k
    <3>1. EdgeSlot(h, old) = n
      BY <1>10, <1>12 DEF EdgeSlot
    <3>2. Edge(h, old).from = from /\ Edge(h, old).to = to
      BY <1>11, <1>12, <3>1 DEF Edge
    <3> QED
      BY <1>1, <1>2, <1>20, <2>1, <3>2 DEF EdgeMigrated
  <2>2. CASE s # k
    <3>1. EdgeMigrated(g, s)
      BY <1>5, <1>17, <1>22, <2>2
    <3> QED
      BY <1>20, <1>21, <3>1 DEF EdgeMigrated
  <2> QED
    BY <2>1, <2>2
<1>23. ASSUME NEW e, HasEdge(h, e)
       PROVE  ComesFrom(k + 1, e)
  <2>1. CASE e = old
    BY <1>1, <1>19, <2>1 DEF ComesFrom
  <2>2. CASE e # old
    BY <1>5, <1>18, <1>20, <1>23, <2>2 DEF ComesFrom
  <2> QED
    BY <2>1, <2>2
<1>24. \A id, i : TakenBy(k, id, i) => TakenBy(k + 1, id, i)
  BY <1>18 DEF TakenBy
<1>25. HasNode(graph, t)
  BY <1>2, OldEdgePins
<1>26. at \in used /\ OldNode(at) = t
  BY <1>4, <1>5, <1>14, <1>25, OldNodesThere
<1>27. ASSUME NEW slot \in used
       PROVE  InputsTaken(h, k + 1, slot)
  <2>1. InputsTaken(g, k, slot)
    BY <1>5, <1>14
  <2>2. /\ h.nodes[slot].type = g.nodes[slot].type
        /\ h.nodes[slot].input =
              IF slot = at THEN [g.nodes[slot].input EXCEPT ![in] = new] ELSE g.nodes[slot].input
    BY <1>11, <1>12, <1>15
  <2>3. PICK count, inputs, now : /\ count = New!NumInputs(g.nodes[slot].type)
                                  /\ inputs = g.nodes[slot].input /\ now = h.nodes[slot].input
    OBVIOUS
  <2>4. inputs = [i \in 0 .. count - 1 |-> inputs[i]]
    <3>1. IsNewNode(g.nodes[slot])
      BY <1>5, <1>15 DEF IsNewGraph
    <3> QED
      BY <2>3, <3>1, Zenon DEF IsNewNode
  <2>5. ASSUME NEW i \in 0 .. count - 1, IsValid(now[i])
        PROVE  TakenBy(k + 1, OldNode(slot), i)
    <3>1. CASE slot = at /\ i = in
      <4>1. TakenBy(k + 1, t, in)
        BY <1>2, <1>4, <1>19 DEF TakenBy
      <4> QED
        BY <1>26, <3>1, <4>1
    <3>2. CASE ~(slot = at /\ i = in)
      <4>1. now[i] = inputs[i]
        BY <2>2, <2>3, <2>4, <3>2
      <4>2. TakenBy(k, OldNode(slot), i)
        BY <2>1, <2>3, <2>5, <4>1 DEF InputsTaken
      <4> QED
        BY <1>24, <4>2
    <3> QED
      BY <3>1, <3>2
  <2> QED
    BY <2>2, <2>3, <2>5, Zenon DEF InputsTaken
<1>28. PICK after : after = MigrateEdge(state, k)
  OBVIOUS
<1>29. after.graph = h /\ after = [graph |-> after.graph, asserts |-> TRUE]
  BY <1>13, <1>28
<1>30. EdgesMigrated(after, k + 1)
  <2>1. RestIsLow(after.graph.edge_slot_map)
    BY <1>10, <1>12, <1>29
  <2>2. IsNewGraph(after.graph) /\ HasOldNodes(after.graph, NodeCount)
    BY <1>12, <1>16, <1>29
  <2>3. \A s \in Indices(k + 1) : Survives(s) => EdgeMigrated(after.graph, s)
    BY <1>22, <1>29
  <2>4. \A e : HasEdge(after.graph, e) => ComesFrom(k + 1, e)
    BY <1>23, <1>29
  <2>5. \A slot \in Indices(NodeCount) : InputsTaken(after.graph, k + 1, slot)
    BY <1>14, <1>27, <1>29
  <2> QED
    BY <1>29, <2>1, <2>2, <2>3, <2>4, <2>5 DEF EdgesMigrated
<1> QED
  BY <1>28, <1>30

LEMMA EdgeStep ==
    ASSUME IsGraph(graph), EdgesFit(graph), AllFit, NEW k \in Indices(EdgeCount),
           NEW state, EdgesMigrated(state, k)
    PROVE  EdgesMigrated(MigrateEdge(state, k), k + 1)
<1>1. CASE Survives(k)
  BY <1>1, EdgeConnected
<1>2. CASE ~Survives(k)
  <2>1. MigrateEdge(state, k) = state
    <3>1. ~IsValid(OutOf(k)) \/ ~IsValid(InOf(k))
      BY <1>2 DEF Survives
    <3>2. /\ OutOf(k) = NewOutput(Node(graph, PinNode(graph.edges[k].from)).type, PinIndex(graph.edges[k].from))
          /\ InOf(k) = NewInput(Node(graph, PinNode(graph.edges[k].to)).type, PinIndex(graph.edges[k].to))
      BY Zenon DEF OutOf, InOf, TypeOf, FromNode, ToNode
    <3>3. \/ ~IsValid(NewOutput(Node(graph, PinNode(graph.edges[k].from)).type, PinIndex(graph.edges[k].from)))
          \/ ~IsValid(NewInput(Node(graph, PinNode(graph.edges[k].to)).type, PinIndex(graph.edges[k].to)))
      BY <3>1, <3>2, Zenon
    <3> QED
      BY <3>3, Zenon DEF MigrateEdge
  <2>2. k \in Nat /\ \A s \in Indices(k + 1) : s \in Indices(k) \/ s = k
    <3>1. EdgeCount \in Nat
      BY MaxEdgesIsNat, SlotsAndIds DEF IsGraph, EdgeCount
    <3> QED
      BY <3>1 DEF Indices
  <2>3. \A s \in Indices(k) : s \in Indices(k + 1)
    BY <2>2 DEF Indices
  <2>4. \A e : ComesFrom(k, e) => ComesFrom(k + 1, e)
    BY <2>3 DEF ComesFrom
  <2>5. \A n, i : TakenBy(k, n, i) => TakenBy(k + 1, n, i)
    BY <2>3 DEF TakenBy
  <2>6. \A slot \in Indices(NodeCount) : InputsTaken(state.graph, k + 1, slot)
    <3>1. \A slot \in Indices(NodeCount) : InputsTaken(state.graph, k, slot)
      BY Zenon DEF EdgesMigrated
    <3> QED
      BY <2>5, <3>1, Zenon DEF InputsTaken
  <2>7. \A s \in Indices(k + 1) : Survives(s) => EdgeMigrated(state.graph, s)
    BY <1>2, <2>2 DEF EdgesMigrated
  <2>8. \A e : HasEdge(state.graph, e) => ComesFrom(k + 1, e)
    BY <2>4 DEF EdgesMigrated
  <2> QED
    BY <2>1, <2>6, <2>7, <2>8 DEF EdgesMigrated
<1> QED
  BY <1>1, <1>2

(* All edges of the old graph, and no assertion has failed.                *)
LEMMA EdgesAreMigrated ==
    ASSUME IsGraph(graph), EdgesFit(graph), AllFit,
           NEW start, NodesMigrated(start, NodeCount)
    PROVE  EdgesMigrated(EdgeFold(start, Slots(graph.edge_slot_map)), EdgeCount)
<1>1. PICK seq, n : seq = Slots(graph.edge_slot_map) /\ n = EdgeCount
  OBVIOUS
<1>2. n \in Nat
  BY <1>1, MaxEdgesIsNat, SlotsAndIds DEF IsGraph, EdgeCount
<1>3. DOMAIN seq = 1 .. n /\ \A k \in 1 .. n : seq[k] = k - 1
  BY <1>1 DEF Slots, EdgeCount
<1>4. PICK acc : EdgeRuns(acc, start, seq, n)
  BY <1>2, <1>3, EdgeFolds
<1>5. PICK having : having = {k \in Nat : EdgesMigrated(acc[k], k)}
  OBVIOUS
<1>6. 0 \in having
  BY <1>4, <1>5, NoEdgesYet DEF EdgeRuns
<1>7. ASSUME NEW k \in 0 .. n, k # n, k \in having
      PROVE  k + 1 \in having
  <2>1. k + 1 \in 1 .. n /\ k \in Indices(EdgeCount) /\ (k + 1) - 1 = k /\ k + 1 \in Nat
    BY <1>1, <1>2, <1>7 DEF Indices
  <2>2. acc[k + 1] = MigrateEdge(acc[k], k)
    BY <1>3, <1>4, <2>1 DEF EdgeRuns
  <2>3. EdgesMigrated(acc[k], k)
    BY <1>5, <1>7
  <2>4. EdgesMigrated(MigrateEdge(acc[k], k), k + 1)
    BY <2>1, <2>3, EdgeStep
  <2> QED
    BY <1>5, <2>1, <2>2, <2>4
<1>8. n \in having
  <2>1. HandsOn(having, n)
    BY <1>6, <1>7 DEF HandsOn
  <2>2. n \in 0 .. n
    BY <1>2
  <2> QED
    BY <1>2, <2>1, <2>2, HandedOn
<1> QED
  BY <1>1, <1>4, <1>5, <1>8 DEF EdgeRuns

-----------------------------------------------------------------------------
(* hgraph_destroy_node of a dummy: the last node moves to its slot.        *)
LEMMA NewNodeFreed ==
    ASSUME NEW g, IsNewGraph(g), NEW id, HasNode(g, id),
           NEW h, h = New!FreeNode(g, id)
    PROVE  /\ IsNewGraph(h)
           /\ h.edge_slot_map = g.edge_slot_map /\ h.edges = g.edges
           /\ h.node_slot_map.num_items = g.node_slot_map.num_items - 1
           /\ \A n : HasNode(h, n) <=> HasNode(g, n) /\ n # id
           /\ \A n : HasNode(g, n) /\ n # id => Node(h, n) = Node(g, n)
           /\ \A s \in Indices(MaxNodes) : s # NodeSlot(g, id) => h.nodes[s] = g.nodes[s]
<1>1. PICK old, map, dst, src : /\ old = g.node_slot_map /\ map = Free(old, id)
                                /\ dst = FreeDst(old, id) /\ src = FreeSrc(old, id)
  OBVIOUS
<1>2. PICK nodes : nodes = [g.nodes EXCEPT ![dst] = g.nodes[src]]
  OBVIOUS
<1>3. /\ g = [version |-> g.version, node_slot_map |-> g.node_slot_map,
              node_versions |-> g.node_versions, nodes |-> g.nodes,
              edge_slot_map |-> g.edge_slot_map, edges |-> g.edges]
      /\ g.nodes = [s \in Indices(MaxNodes) |-> g.nodes[s]]
      /\ IsSlotMap(old, MaxNodes) /\ IsSlotMap(g.edge_slot_map, New!MaxEdges)
      /\ \A s \in Indices(old.num_items) : IsNewNode(g.nodes[s])
  BY <1>1 DEF IsNewGraph
<1>4. h = [version |-> g.version + 1, node_slot_map |-> map,
           node_versions |-> g.node_versions, nodes |-> nodes,
           edge_slot_map |-> g.edge_slot_map, edges |-> g.edges]
  <2>1. h = FreeNode(g, id)
    BY NewWrites
  <2>2. h = [g EXCEPT !.node_slot_map = map, !.nodes = nodes, !.version = @ + 1]
    BY <1>1, <1>2, <2>1, Zenon DEF FreeNode
  <2> QED
    BY <1>3, <2>2
<1>5. /\ h.node_slot_map = map /\ h.nodes = nodes
      /\ h.edge_slot_map = g.edge_slot_map /\ h.edges = g.edges
      /\ h = [version |-> h.version, node_slot_map |-> h.node_slot_map,
              node_versions |-> h.node_versions, nodes |-> h.nodes,
              edge_slot_map |-> h.edge_slot_map, edges |-> h.edges]
  BY <1>4
<1>6. nodes = [s \in Indices(MaxNodes) |-> IF s = dst THEN g.nodes[src] ELSE g.nodes[s]]
  BY <1>2, <1>3
<1>7. IsLive(old, id) /\ MaxNodes \in Nat
  BY <1>1, GraphAssumption DEF HasNode
<1>8. IsSlotMap(map, MaxNodes)
  BY <1>1, <1>3, <1>7, FreeIsSlotMap
<1>9. /\ src \in Indices(old.num_items)
      /\ Indices(map.num_items) \subseteq Indices(old.num_items)
      /\ Indices(old.num_items) \subseteq Indices(MaxNodes)
  BY <1>1, <1>3, <1>7, FreeShrinks
<1>10. map.num_items = old.num_items - 1
  <2>1. old = [max_items |-> old.max_items, num_items |-> old.num_items,
               slots_for_id |-> old.slots_for_id, ids_for_slot |-> old.ids_for_slot]
    BY <1>3 DEF IsSlotMap, MapType
  <2> QED
    BY <1>1, <1>7, <2>1 DEF Free
<1>11. \A s \in Indices(map.num_items) : IsNewNode(nodes[s])
  BY <1>3, <1>6, <1>9
<1>12. nodes = [s \in Indices(MaxNodes) |-> nodes[s]]
  BY <1>6
<1>13. /\ h.edges = [s \in Indices(New!MaxEdges) |-> h.edges[s]]
       /\ \A s \in Indices(New!MaxEdges) : IsNewEdge(h.edges[s])
  BY <1>5, Zenon DEF IsNewGraph
<1>14. IsNewGraph(h)
  BY <1>3, <1>5, <1>8, <1>11, <1>12, <1>13 DEF IsNewGraph
<1>15. /\ dst = NodeSlot(g, id) /\ dst \in Indices(MaxNodes)
       /\ LiveIds(map) = LiveIds(old) \ {id}
       /\ \A n \in LiveIds(old) \ {id} :
             IF SlotForId(old, n) = src
             THEN SlotForId(map, n) = dst
             ELSE SlotForId(map, n) = SlotForId(old, n) /\ SlotForId(old, n) # dst
  BY <1>1, <1>3, <1>7, FreeMovesLast DEF FreeDst, NodeSlot
<1>16. /\ \A n : n \in LiveIds(old) <=> IsLive(old, n)
       /\ \A n : n \in LiveIds(map) <=> IsLive(map, n)
       /\ \A n : IsLive(old, n) => SlotForId(old, n) \in Indices(MaxNodes)
  BY <1>3, <1>7, <1>8, LiveIdsAre, LookupRange
<1>17. \A n : IsLive(map, n) <=> IsLive(old, n) /\ n # id
  BY <1>15, <1>16
<1>18. ASSUME NEW n, IsLive(old, n), n # id
       PROVE  nodes[SlotForId(map, n)] = g.nodes[SlotForId(old, n)]
  BY <1>6, <1>15, <1>16, <1>18
<1> QED
  BY <1>1, <1>5, <1>6, <1>10, <1>14, <1>15, <1>17, <1>18 DEF HasNode, Node, NodeSlot

(* After k steps the nodes below the slot have been looked at, each step   *)
(* has passed one node or dropped one, and what was dropped are dummies.   *)
DummiesDropped(base, state, k) ==
    /\ state = [graph |-> state.graph, slot |-> state.slot]
    /\ IsNewGraph(state.graph)
    /\ state.graph.edge_slot_map = base.edge_slot_map /\ state.graph.edges = base.edges
    /\ state.slot \in Nat
    /\ state.slot + (NodeCount - state.graph.node_slot_map.num_items) = k
    /\ \A s \in Indices(state.slot) : state.graph.nodes[s].type # Dummy
    /\ \A n : HasNode(state.graph, n) => HasNode(base, n) /\ Node(state.graph, n) = Node(base, n)
    /\ \A n : HasNode(base, n) /\ Node(base, n).type # Dummy => HasNode(state.graph, n)

LEMMA DropStep ==
    ASSUME NEW base, NEW k \in Indices(NodeCount), NodeCount \in Nat, NEW x,
           NEW state, DummiesDropped(base, state, k)
    PROVE  DummiesDropped(base, DropDummy(state, x), k + 1)
<1>1. PICK g, p, m, num, all : /\ g = state.graph /\ p = state.slot /\ m = g.node_slot_map
                               /\ num = m.num_items /\ all = NodeCount
  OBVIOUS
<1>2. /\ state = [graph |-> g, slot |-> p]
      /\ IsNewGraph(g) /\ g.edge_slot_map = base.edge_slot_map /\ g.edges = base.edges
      /\ p \in Nat /\ p + (all - num) = k
      /\ \A s \in Indices(p) : g.nodes[s].type # Dummy
      /\ \A n : HasNode(g, n) => HasNode(base, n) /\ Node(g, n) = Node(base, n)
      /\ \A n : HasNode(base, n) /\ Node(base, n).type # Dummy => HasNode(g, n)
  BY <1>1, Zenon DEF DummiesDropped
<1>3. IsSlotMap(m, MaxNodes) /\ MaxNodes \in Nat
  BY <1>1, <1>2, GraphAssumption DEF IsNewGraph
<1>4. num \in 0 .. MaxNodes
  BY <1>1, <1>3, SlotsAndIds
<1>5. p \in Indices(num) /\ p < num
  BY <1>1, <1>2, <1>4 DEF Indices
<1>6. PICK id : id = m.ids_for_slot[p]
  OBVIOUS
<1>7. IdForSlot(m, p) = id /\ HasNode(g, id) /\ NodeSlot(g, id) = p /\ Node(g, id) = g.nodes[p]
  <2>1. IdForSlot(m, p) = id /\ IsLive(m, id) /\ SlotForId(m, id) = p
    BY <1>1, <1>3, <1>5, <1>6, SlotsAndIds
  <2> QED
    BY <1>1, <2>1 DEF HasNode, NodeSlot, Node
<1>8. CASE g.nodes[p].type = Dummy
  <2>1. PICK h : h = New!FreeNode(g, id)
    OBVIOUS
  <2>2. /\ IsNewGraph(h)
        /\ h.edge_slot_map = g.edge_slot_map /\ h.edges = g.edges
        /\ h.node_slot_map.num_items = num - 1
        /\ \A n : HasNode(h, n) <=> HasNode(g, n) /\ n # id
        /\ \A n : HasNode(g, n) /\ n # id => Node(h, n) = Node(g, n)
        /\ \A s \in Indices(MaxNodes) : s # p => h.nodes[s] = g.nodes[s]
    BY <1>1, <1>2, <1>7, <2>1, NewNodeFreed
  <2>3. DropDummy(state, x) = [graph |-> h, slot |-> p]
    <3>1. DropDummy(state, x) =
              [state EXCEPT !.graph = New!FreeNode(@, IdForSlot(@.node_slot_map, state.slot))]
      BY <1>1, <1>8, Zenon DEF DropDummy
    <3>2. New!FreeNode(state.graph, IdForSlot(state.graph.node_slot_map, state.slot)) = h
      BY <1>1, <1>7, <2>1, Zenon
    <3>3. DropDummy(state, x) = [state EXCEPT !.graph = h]
      BY <3>1, <3>2, Zenon
    <3> QED
      BY <1>2, <3>3
  <2>4. p + (all - (num - 1)) = k + 1
    BY <1>1, <1>2, <1>4
  <2>5. \A s \in Indices(p) : h.nodes[s].type # Dummy
    <3>1. \A s \in Indices(p) : s \in Indices(MaxNodes) /\ s # p
      BY <1>2, <1>3, <1>4, <1>5 DEF Indices
    <3> QED
      BY <1>2, <2>2, <3>1
  <2>6. \A n : HasNode(h, n) => HasNode(base, n) /\ Node(h, n) = Node(base, n)
    BY <1>2, <2>2
  <2>7. \A n : HasNode(base, n) /\ Node(base, n).type # Dummy => HasNode(h, n)
    <3>1. HasNode(base, id) /\ Node(base, id).type = Dummy
      BY <1>2, <1>7, <1>8
    <3> QED
      BY <1>2, <2>2, <3>1
  <2>8. PICK after : after = DropDummy(state, x)
    OBVIOUS
  <2>9. after.graph = h /\ after.slot = p /\ after = [graph |-> after.graph, slot |-> after.slot]
    BY <2>3, <2>8
  <2> QED
    BY <1>1, <1>2, <2>2, <2>4, <2>5, <2>6, <2>7, <2>8, <2>9 DEF DummiesDropped
<1>9. CASE g.nodes[p].type # Dummy
  <2>1. DropDummy(state, x) = [graph |-> g, slot |-> p + 1]
    <3>1. DropDummy(state, x) = [state EXCEPT !.slot = @ + 1]
      BY <1>1, <1>9, Zenon DEF DropDummy
    <3> QED
      BY <1>2, <3>1
  <2>2. p + 1 \in Nat /\ (p + 1) + (all - num) = k + 1
    BY <1>1, <1>2, <1>4
  <2>3. \A s \in Indices(p + 1) : s \in Indices(p) \/ s = p
    BY <1>2 DEF Indices
  <2>4. \A s \in Indices(p + 1) : g.nodes[s].type # Dummy
    BY <1>2, <1>9, <2>3
  <2>5. PICK after : after = DropDummy(state, x)
    OBVIOUS
  <2>6. after.graph = g /\ after.slot = p + 1 /\ after = [graph |-> after.graph, slot |-> after.slot]
    BY <2>1, <2>5
  <2> QED
    BY <1>1, <1>2, <2>2, <2>4, <2>5, <2>6 DEF DummiesDropped
<1> QED
  BY <1>8, <1>9

(* All dummies and nothing else.                                           *)
LEMMA DummiesAreDropped ==
    ASSUME NEW base, IsNewGraph(base), base.node_slot_map.num_items = NodeCount, NodeCount \in Nat,
           NEW done, done = DummyFold([graph |-> base, slot |-> 0], Slots(base.node_slot_map))
    PROVE  /\ IsNewGraph(done.graph)
           /\ done.graph.edge_slot_map = base.edge_slot_map /\ done.graph.edges = base.edges
           /\ \A n : HasNode(done.graph, n) <=> HasNode(base, n) /\ Node(base, n).type # Dummy
           /\ \A n : HasNode(done.graph, n) => Node(done.graph, n) = Node(base, n)
<1>1. PICK seq, n, start : /\ seq = Slots(base.node_slot_map) /\ n = NodeCount
                           /\ start = [graph |-> base, slot |-> 0]
  OBVIOUS
<1>2. DOMAIN seq = 1 .. n /\ n \in Nat
  BY <1>1 DEF Slots
<1>3. PICK acc : DummyRuns(acc, start, seq, n)
  BY <1>2, DummyFolds
<1>4. PICK having : having = {k \in Nat : DummiesDropped(base, acc[k], k)}
  OBVIOUS
<1>5. 0 \in having
  <2>1. /\ start.graph = base /\ start.slot = 0
        /\ start = [graph |-> start.graph, slot |-> start.slot]
    BY <1>1
  <2>2. 0 \in Nat /\ 0 + (NodeCount - base.node_slot_map.num_items) = 0 /\ Indices(0) = {}
    BY DEF Indices
  <2>3. DummiesDropped(base, start, 0)
    BY <2>1, <2>2 DEF DummiesDropped
  <2> QED
    BY <1>3, <1>4, <2>3 DEF DummyRuns
<1>6. ASSUME NEW k \in 0 .. n, k # n, k \in having
      PROVE  k + 1 \in having
  <2>1. k + 1 \in 1 .. n /\ k \in Indices(NodeCount) /\ (k + 1) - 1 = k /\ k + 1 \in Nat
    BY <1>1, <1>2, <1>6 DEF Indices
  <2>2. acc[k + 1] = DropDummy(acc[k], seq[k + 1])
    BY <1>3, <2>1 DEF DummyRuns
  <2>3. DummiesDropped(base, acc[k], k)
    BY <1>4, <1>6
  <2>4. DummiesDropped(base, DropDummy(acc[k], seq[k + 1]), k + 1)
    BY <2>1, <2>3, DropStep
  <2> QED
    BY <1>4, <2>1, <2>2, <2>4
<1>7. DummiesDropped(base, done, n)
  <2>1. HandsOn(having, n)
    BY <1>5, <1>6 DEF HandsOn
  <2>2. n \in 0 .. n
    BY <1>2
  <2>3. n \in having
    BY <1>2, <2>1, <2>2, HandedOn
  <2> QED
    BY <1>1, <1>3, <1>4, <2>3 DEF DummyRuns
<1>8. PICK g, p : g = done.graph /\ p = done.slot
  OBVIOUS
<1>9. /\ IsNewGraph(g) /\ g.edge_slot_map = base.edge_slot_map /\ g.edges = base.edges
      /\ p \in Nat /\ p + (n - g.node_slot_map.num_items) = n
      /\ \A s \in Indices(p) : g.nodes[s].type # Dummy
      /\ \A id : HasNode(g, id) => HasNode(base, id) /\ Node(g, id) = Node(base, id)
      /\ \A id : HasNode(base, id) /\ Node(base, id).type # Dummy => HasNode(g, id)
  BY <1>1, <1>7, <1>8, Zenon DEF DummiesDropped
<1>10. IsSlotMap(g.node_slot_map, MaxNodes) /\ MaxNodes \in Nat
  BY <1>9, GraphAssumption DEF IsNewGraph
<1>11. p = g.node_slot_map.num_items
  <2>1. g.node_slot_map.num_items \in 0 .. MaxNodes
    BY <1>10, SlotsAndIds
  <2> QED
    BY <1>2, <1>9, <1>10, <2>1
<1>12. ASSUME NEW id, HasNode(g, id)
       PROVE  Node(g, id).type # Dummy
  <2>1. NodeSlot(g, id) \in Indices(p)
    BY <1>10, <1>11, <1>12, SlotsAndIds DEF HasNode, NodeSlot
  <2> QED
    BY <1>9, <2>1 DEF Node
<1> QED
  BY <1>8, <1>9, <1>12

-----------------------------------------------------------------------------
(* KeptEdges are the edges of the slots that survive.                      *)
LEMMA KeptAre ==
    ASSUME IsGraph(graph), EdgesFit(graph)
    PROVE  /\ \A s \in Indices(EdgeCount) : Survives(s) => OldEdge(s) \in KeptEdges
           /\ \A e \in KeptEdges : \E s \in Indices(EdgeCount) :
                 Survives(s) /\ e = OldEdge(s) /\ Edge(graph, e) = graph.edges[s]
<1>1. ASSUME NEW e, NEW s, Edge(graph, e) = graph.edges[s]
      PROVE  e \in KeptEdges <=> e \in LiveEdges /\ Survives(s)
  <2>1. PICK from, to : from = graph.edges[s].from /\ to = graph.edges[s].to
    OBVIOUS
  <2>2. /\ OutOf(s) = NewOutput(Node(graph, PinNode(from)).type, PinIndex(from))
        /\ InOf(s) = NewInput(Node(graph, PinNode(to)).type, PinIndex(to))
    BY <2>1, Zenon DEF OutOf, InOf, FromNode, ToNode, TypeOf
  <2>3. e \in KeptEdges <=>
            /\ e \in LiveEdges
            /\ NewOutput(Node(graph, PinNode(from)).type, PinIndex(from)) >= 0
            /\ NewInput(Node(graph, PinNode(to)).type, PinIndex(to)) >= 0
    BY <1>1, <2>1 DEF KeptEdges
  <2> QED
    BY <2>2, <2>3, Zenon DEF Survives, IsValid
<1>2. ASSUME NEW s \in Indices(EdgeCount), Survives(s)
      PROVE  OldEdge(s) \in KeptEdges
  <2>1. HasEdge(graph, OldEdge(s)) /\ Edge(graph, OldEdge(s)) = graph.edges[s]
    BY OldEdgePins
  <2>2. OldEdge(s) \in LiveEdges
    BY <2>1, LiveAre
  <2> QED
    BY <1>1, <1>2, <2>1, <2>2
<1>3. ASSUME NEW e \in KeptEdges
      PROVE  \E s \in Indices(EdgeCount) :
                 Survives(s) /\ e = OldEdge(s) /\ Edge(graph, e) = graph.edges[s]
  <2>1. e \in LiveEdges
    BY DEF KeptEdges
  <2>2. IsLive(graph.edge_slot_map, e)
    BY <2>1, LiveAre DEF HasEdge
  <2>3. PICK s : s = EdgeSlot(graph, e)
    OBVIOUS
  <2>4. IsSlotMap(graph.edge_slot_map, MaxEdges) /\ MaxEdges \in Nat
    BY MaxEdgesIsNat DEF IsGraph
  <2>5. s \in Indices(EdgeCount) /\ e = OldEdge(s)
    BY <2>2, <2>3, <2>4, SlotsAndIds DEF EdgeSlot, EdgeCount, OldEdge
  <2>6. Edge(graph, e) = graph.edges[s]
    BY <2>3 DEF Edge
  <2> QED
    BY <1>1, <2>1, <2>5, <2>6
<1> QED
  BY <1>2, <1>3

LEMMA FitMeansAllFit ==
    ASSUME IsGraph(graph), EdgesFit(graph), CanSurvive
    PROVE  AllFit
BY KeptAre DEF CanSurvive, IdsFit, AllFit

-----------------------------------------------------------------------------
(* Whether or not the ids fit, the new graph is a graph: the passes over   *)
(* the edges and the dummies write its fields and add or remove none.      *)
SameShape(g, h) == DOMAIN h = DOMAIN g /\ h.node_slot_map = g.node_slot_map

(* h is g with one of its arrays, or its map of edges, replaced.           *)
SetsNodes(g, h, x) == h = [g EXCEPT !.nodes = x]
SetsEdges(g, h, x) == h = [g EXCEPT !.edges = x]
SetsEdgeMap(g, h, x) == h = [g EXCEPT !.edge_slot_map = x]

LEMMA SetKeepsShape ==
    ASSUME NEW g, NEW h, NEW x, DOMAIN g = DOMAIN New!EmptyGraph,
           SetsNodes(g, h, x) \/ SetsEdges(g, h, x) \/ SetsEdgeMap(g, h, x)
    PROVE  SameShape(g, h)
<1>1. "node_slot_map" \in DOMAIN g
  BY DEF New!EmptyGraph
<1>2. CASE SetsNodes(g, h, x)
  <2>1. DOMAIN [g EXCEPT !.nodes = x] = DOMAIN g
    OBVIOUS
  <2>2. [g EXCEPT !.nodes = x].node_slot_map = g.node_slot_map
    BY <1>1
  <2> QED
    BY <1>2, <2>1, <2>2, Zenon DEF SetsNodes, SameShape
<1>3. CASE SetsEdges(g, h, x)
  <2>1. DOMAIN [g EXCEPT !.edges = x] = DOMAIN g
    OBVIOUS
  <2>2. [g EXCEPT !.edges = x].node_slot_map = g.node_slot_map
    BY <1>1
  <2> QED
    BY <1>3, <2>1, <2>2, Zenon DEF SetsEdges, SameShape
<1>4. CASE SetsEdgeMap(g, h, x)
  <2>1. DOMAIN [g EXCEPT !.edge_slot_map = x] = DOMAIN g
    OBVIOUS
  <2>2. [g EXCEPT !.edge_slot_map = x].node_slot_map = g.node_slot_map
    BY <1>1
  <2> QED
    BY <1>4, <2>1, <2>2, Zenon DEF SetsEdgeMap, SameShape
<1> QED
  BY <1>2, <1>3, <1>4, Zenon

LEMMA WriteKeepsShape ==
    ASSUME NEW g, NEW h, NEW slot, NEW r, DOMAIN g = DOMAIN New!EmptyGraph,
           WritesNode(g, h, slot, r) \/ WritesEdge(g, h, slot, r)
    PROVE  SameShape(g, h)
<1>1. PICK nodes, edges : /\ nodes = [g.nodes EXCEPT ![slot] = r]
                          /\ edges = [g.edges EXCEPT ![slot] = r]
  OBVIOUS
<1>2. SetsNodes(g, h, nodes) \/ SetsEdges(g, h, edges)
  BY <1>1, Zenon DEF WritesNode, WritesEdge, SetsNodes, SetsEdges
<1> QED
  BY <1>2, SetKeepsShape, Zenon

LEMMA LinksKeepShape ==
    ASSUME NEW g, NEW at, NEW value, DOMAIN g = DOMAIN New!EmptyGraph
    PROVE  /\ SameShape(g, SetNext(g, at, value)) /\ SameShape(g, SetPrev(g, at, value))
           /\ SameShape(g, SetInput(g, at, value))
<1>1. SameShape(g, SetNext(g, at, value))
  <2> DEFINE edge == [g.edges[at.slot] EXCEPT !.next = value]
             node == [g.nodes[at.slot] EXCEPT !.output[at.pin].next = value]
  <2>1. CASE at.inEdge
    <3>1. WritesEdge(g, SetNext(g, at, value), at.slot, edge)
      BY <2>1 DEF SetNext, WritesEdge
    <3> HIDE DEF edge
    <3> QED
      BY <3>1, WriteKeepsShape, Zenon
  <2>2. CASE ~at.inEdge
    <3>1. WritesNode(g, SetNext(g, at, value), at.slot, node)
      BY <2>2 DEF SetNext, WritesNode
    <3> HIDE DEF node
    <3> QED
      BY <3>1, WriteKeepsShape, Zenon
  <2> QED
    BY <2>1, <2>2
<1>2. SameShape(g, SetPrev(g, at, value))
  <2> DEFINE edge == [g.edges[at.slot] EXCEPT !.prev = value]
             node == [g.nodes[at.slot] EXCEPT !.output[at.pin].prev = value]
  <2>1. CASE at.inEdge
    <3>1. WritesEdge(g, SetPrev(g, at, value), at.slot, edge)
      BY <2>1 DEF SetPrev, WritesEdge
    <3> HIDE DEF edge
    <3> QED
      BY <3>1, WriteKeepsShape, Zenon
  <2>2. CASE ~at.inEdge
    <3>1. WritesNode(g, SetPrev(g, at, value), at.slot, node)
      BY <2>2 DEF SetPrev, WritesNode
    <3> HIDE DEF node
    <3> QED
      BY <3>1, WriteKeepsShape, Zenon
  <2> QED
    BY <2>1, <2>2
<1>3. SameShape(g, SetInput(g, at, value))
  <2> DEFINE slot == NodeSlot(g, PinNode(at))
             node == [g.nodes[slot] EXCEPT !.input[PinIndex(at)] = value]
  <2>1. WritesNode(g, SetInput(g, at, value), slot, node)
    BY DEF SetInput, WritesNode
  <2> HIDE DEF slot, node
  <2> QED
    BY <2>1, WriteKeepsShape, Zenon
<1> QED
  BY <1>1, <1>2, <1>3

LEMMA ShapeTwice ==
    ASSUME NEW g, NEW h, NEW k, SameShape(g, h), SameShape(h, k)
    PROVE  SameShape(g, k)
BY DEF SameShape

LEMMA ConnectKeepsShape ==
    ASSUME NEW g, NEW from, NEW to, DOMAIN g = DOMAIN New!EmptyGraph
    PROVE  SameShape(g, New!Connect(g, from, to))
<1>1. CASE ~New!CanConnect(g, from, to) \/ New!IsFull(g.edge_slot_map)
  BY <1>1, Zenon DEF New!Connect, SameShape
<1>2. CASE ~(~New!CanConnect(g, from, to) \/ New!IsFull(g.edge_slot_map))
  <2>1. PICK e, tail, map, n : /\ e = New!AllocatedId(g.edge_slot_map)
                               /\ tail = New!OutputPin(g, from).prev
                               /\ map = New!Allocate(g.edge_slot_map)
                               /\ n = New!AllocatedSlot(g.edge_slot_map)
    OBVIOUS
  <2>2. PICK item : item = [from |-> from, to |-> to, prev |-> tail, next |-> New!Invalid]
    OBVIOUS
  <2>3. PICK grown : grown = [g EXCEPT !.edge_slot_map = map]
    OBVIOUS
  <2>4. PICK added : added = [g EXCEPT !.edge_slot_map = map, !.edges[n] = item]
    OBVIOUS
  <2>5. PICK first : first = New!SetInput(added, to, e)
    OBVIOUS
  <2>6. PICK second : second = New!SetNext(first, New!Resolve(added, from, tail), e)
    OBVIOUS
  <2>7. New!Connect(g, from, to) = New!SetPrev(second, New!Resolve(g, from, New!Invalid), e)
    <3>1. added = [g EXCEPT !.edge_slot_map = New!Allocate(@),
                            !.edges[New!AllocatedSlot(g.edge_slot_map)] =
                                [from |-> from, to |-> to, prev |-> tail, next |-> New!Invalid]]
      BY <2>1, <2>2, <2>4, Zenon
    <3> QED
      BY <1>2, <2>1, <2>5, <2>6, <3>1, Zenon DEF New!Connect
  <2>8. SameShape(g, added)
    <3>1. PICK edges : edges = [g.edges EXCEPT ![n] = item]
      OBVIOUS
    <3>2. SameShape(g, grown)
      <4>1. SetsEdgeMap(g, grown, map)
        BY <2>3, Zenon DEF SetsEdgeMap
      <4> QED
        BY <4>1, SetKeepsShape, Zenon
    <3>3. DOMAIN grown = DOMAIN New!EmptyGraph
      BY <3>2 DEF SameShape
    <3>4. grown.edges = g.edges
      BY <2>3
    <3>5. SetsEdges(grown, added, edges)
      BY <2>3, <2>4, <3>1, <3>4 DEF SetsEdges
    <3>6. SameShape(grown, added)
      BY <3>3, <3>5, SetKeepsShape, Zenon
    <3> QED
      BY <3>2, <3>6, ShapeTwice
  <2>9. SameShape(added, first)
    BY <2>5, <2>8, LinksKeepShape, NewWrites DEF SameShape
  <2>10. SameShape(g, first) /\ DOMAIN first = DOMAIN New!EmptyGraph
    BY <2>8, <2>9, ShapeTwice DEF SameShape
  <2>11. SameShape(first, second)
    BY <2>6, <2>10, LinksKeepShape, NewWrites
  <2>12. SameShape(g, second) /\ DOMAIN second = DOMAIN New!EmptyGraph
    BY <2>10, <2>11, ShapeTwice DEF SameShape
  <2>13. SameShape(second, New!Connect(g, from, to))
    BY <2>7, <2>12, LinksKeepShape, NewWrites
  <2> QED
    BY <2>12, <2>13, ShapeTwice
<1> QED
  BY <1>1, <1>2

KeepsShape(g, state) == "graph" \in DOMAIN state /\ SameShape(g, state.graph)

LEMMA EdgeStepKeepsShape ==
    ASSUME NEW g, DOMAIN g = DOMAIN New!EmptyGraph, NEW state, KeepsShape(g, state), NEW slot
    PROVE  KeepsShape(g, MigrateEdge(state, slot))
<1>1. PICK edge, old : edge = graph.edges[slot] /\ old = IdForSlot(graph.edge_slot_map, slot)
  OBVIOUS
<1>2. PICK out, in : /\ out = NewOutput(Node(graph, PinNode(edge.from)).type, PinIndex(edge.from))
                     /\ in = NewInput(Node(graph, PinNode(edge.to)).type, PinIndex(edge.to))
  OBVIOUS
<1>3. PICK from, to : /\ from = PinId(PinNode(edge.from), out, TRUE)
                      /\ to = PinId(PinNode(edge.to), in, FALSE)
  OBVIOUS
<1>4. PICK new, made : /\ new = New!ConnectResult(state.graph, from, to)
                       /\ made = New!Connect(state.graph, from, to)
  OBVIOUS
<1>5. PICK h : h = [made EXCEPT !.edge_slot_map = Remap(@, new, old)]
  OBVIOUS
<1>6. MigrateEdge(state, slot) =
          IF ~IsValid(out) \/ ~IsValid(in) THEN state
          ELSE IF ~IsValid(new) \/ ~RemapAsserts(made.edge_slot_map, new, old)
          THEN [state EXCEPT !.asserts = FALSE]
          ELSE [state EXCEPT !.graph = h]
  BY <1>1, <1>2, <1>3, <1>4, <1>5, Zenon DEF MigrateEdge
<1>7. MigrateEdge(state, slot) \in {state, [state EXCEPT !.asserts = FALSE], [state EXCEPT !.graph = h]}
  BY <1>6, Zenon
<1>8. DOMAIN state.graph = DOMAIN New!EmptyGraph /\ "graph" \in DOMAIN state /\ SameShape(g, state.graph)
  BY Zenon DEF KeepsShape, SameShape
<1>9. SameShape(state.graph, made)
  BY <1>4, <1>8, ConnectKeepsShape
<1>10. SameShape(g, h)
  <2>1. SameShape(g, made) /\ DOMAIN made = DOMAIN New!EmptyGraph
    BY <1>8, <1>9, ShapeTwice DEF SameShape
  <2>2. PICK map : map = Remap(made.edge_slot_map, new, old)
    OBVIOUS
  <2>3. SetsEdgeMap(made, h, map)
    BY <1>5, <2>2, Zenon DEF SetsEdgeMap
  <2>4. SameShape(made, h)
    BY <2>1, <2>3, SetKeepsShape, Zenon
  <2> QED
    BY <2>1, <2>4, ShapeTwice
<1>11. /\ "graph" \in DOMAIN [state EXCEPT !.asserts = FALSE] /\ "graph" \in DOMAIN [state EXCEPT !.graph = h]
       /\ [state EXCEPT !.asserts = FALSE].graph = state.graph /\ [state EXCEPT !.graph = h].graph = h
  BY <1>8
<1> QED
  BY <1>7, <1>8, <1>10, <1>11, Zenon DEF KeepsShape

LEMMA EdgesKeepShape ==
    ASSUME IsGraph(graph), NEW g, DOMAIN g = DOMAIN New!EmptyGraph,
           NEW start, KeepsShape(g, start)
    PROVE  KeepsShape(g, EdgeFold(start, Slots(graph.edge_slot_map)))
<1>1. PICK seq, n : seq = Slots(graph.edge_slot_map) /\ n = EdgeCount
  OBVIOUS
<1>2. n \in Nat
  BY <1>1, MaxEdgesIsNat, SlotsAndIds DEF IsGraph, EdgeCount
<1>3. DOMAIN seq = 1 .. n
  BY <1>1 DEF Slots, EdgeCount
<1>4. PICK acc : EdgeRuns(acc, start, seq, n)
  BY <1>2, <1>3, EdgeFolds
<1>5. PICK having : having = {k \in Nat : KeepsShape(g, acc[k])}
  OBVIOUS
<1>6. 0 \in having
  BY <1>4, <1>5 DEF EdgeRuns
<1>7. ASSUME NEW k \in 0 .. n, k # n, k \in having
      PROVE  k + 1 \in having
  <2>1. k + 1 \in 1 .. n /\ (k + 1) - 1 = k /\ k + 1 \in Nat
    BY <1>2, <1>7
  <2>2. acc[k + 1] = MigrateEdge(acc[k], seq[k + 1])
    BY <1>4, <2>1 DEF EdgeRuns
  <2>3. KeepsShape(g, acc[k])
    BY <1>5, <1>7
  <2>4. KeepsShape(g, MigrateEdge(acc[k], seq[k + 1]))
    BY <2>3, EdgeStepKeepsShape
  <2> QED
    BY <1>5, <2>1, <2>2, <2>4
<1>8. n \in having
  <2>1. HandsOn(having, n)
    BY <1>6, <1>7 DEF HandsOn
  <2>2. n \in 0 .. n
    BY <1>2
  <2> QED
    BY <1>2, <2>1, <2>2, HandedOn
<1> QED
  BY <1>1, <1>4, <1>5, <1>8 DEF EdgeRuns

HoldsGraph(state) == "graph" \in DOMAIN state /\ DOMAIN state.graph = DOMAIN New!EmptyGraph

LEMMA DropKeepsGraph ==
    ASSUME NEW state, HoldsGraph(state), NEW x
    PROVE  HoldsGraph(DropDummy(state, x))
<1>1. PICK g, id : g = state.graph /\ id = IdForSlot(g.node_slot_map, state.slot)
  OBVIOUS
<1>2. PICK h : h = New!FreeNode(g, id)
  OBVIOUS
<1>3. DOMAIN h = DOMAIN g
  <2>1. PICK map, nodes, version : h = [g EXCEPT !.node_slot_map = map, !.nodes = nodes, !.version = version]
    <3>1. PICK map, nodes, version :
              /\ map = Free(g.node_slot_map, id) /\ version = g.version + 1
              /\ nodes = [g.nodes EXCEPT ![FreeDst(g.node_slot_map, id)] =
                             g.nodes[FreeSrc(g.node_slot_map, id)]]
      OBVIOUS
    <3>2. FreeNode(g, id) = [g EXCEPT !.node_slot_map = map, !.nodes = nodes, !.version = version]
      BY <3>1 DEF FreeNode
    <3>3. h = FreeNode(g, id)
      BY <1>2, NewWrites
    <3> QED
      BY <3>2, <3>3
  <2> QED
    BY <2>1
<1>4. CASE g.nodes[state.slot].type = Dummy
  <2>1. state.graph.nodes[state.slot].type = Dummy
    BY <1>1, <1>4
  <2>2. DropDummy(state, x) = [state EXCEPT !.graph = New!FreeNode(@, IdForSlot(@.node_slot_map, state.slot))]
    BY <2>1, Zenon DEF DropDummy
  <2>3. New!FreeNode(state.graph, IdForSlot(state.graph.node_slot_map, state.slot)) = h
    BY <1>1, <1>2, Zenon
  <2>4. DropDummy(state, x) = [state EXCEPT !.graph = h]
    BY <2>2, <2>3, Zenon
  <2>5. "graph" \in DOMAIN state /\ DOMAIN g = DOMAIN New!EmptyGraph
    BY <1>1, Zenon DEF HoldsGraph
  <2>6. "graph" \in DOMAIN [state EXCEPT !.graph = h] /\ [state EXCEPT !.graph = h].graph = h
    BY <2>5
  <2> QED
    BY <1>3, <2>4, <2>5, <2>6, Zenon DEF HoldsGraph
<1>5. CASE g.nodes[state.slot].type # Dummy
  <2>1. state.graph.nodes[state.slot].type # Dummy
    BY <1>1, <1>5
  <2>2. PICK next : next = state.slot + 1
    OBVIOUS
  <2>3. DropDummy(state, x) = [state EXCEPT !.slot = next]
    BY <2>1, <2>2, Zenon DEF DropDummy
  <2>4. "graph" \in DOMAIN state
    BY Zenon DEF HoldsGraph
  <2>5. "graph" \in DOMAIN [state EXCEPT !.slot = next] /\ [state EXCEPT !.slot = next].graph = state.graph
    BY <2>4
  <2> QED
    BY <2>3, <2>5, Zenon DEF HoldsGraph
<1> QED
  BY <1>4, <1>5

LEMMA DropsKeepGraph ==
    ASSUME NEW base, base.node_slot_map.num_items \in Nat, NEW start, HoldsGraph(start)
    PROVE  HoldsGraph(DummyFold(start, Slots(base.node_slot_map)))
<1>1. PICK seq, n : seq = Slots(base.node_slot_map) /\ n = base.node_slot_map.num_items
  OBVIOUS
<1>2. DOMAIN seq = 1 .. n /\ n \in Nat
  BY <1>1 DEF Slots
<1>3. PICK acc : DummyRuns(acc, start, seq, n)
  BY <1>2, DummyFolds
<1>4. PICK having : having = {k \in Nat : HoldsGraph(acc[k])}
  OBVIOUS
<1>5. 0 \in having
  BY <1>3, <1>4 DEF DummyRuns
<1>6. ASSUME NEW k \in 0 .. n, k # n, k \in having
      PROVE  k + 1 \in having
  <2>1. k + 1 \in 1 .. n /\ (k + 1) - 1 = k /\ k + 1 \in Nat
    BY <1>2, <1>6
  <2>2. acc[k + 1] = DropDummy(acc[k], seq[k + 1])
    BY <1>3, <2>1 DEF DummyRuns
  <2>3. HoldsGraph(acc[k])
    BY <1>4, <1>6
  <2>4. HoldsGraph(DropDummy(acc[k], seq[k + 1]))
    BY <2>3, DropKeepsGraph
  <2> QED
    BY <1>4, <2>1, <2>2, <2>4
<1>7. n \in having
  <2>1. HandsOn(having, n)
    BY <1>5, <1>6 DEF HandsOn
  <2>2. n \in 0 .. n
    BY <1>2
  <2> QED
    BY <1>2, <2>1, <2>2, HandedOn
<1> QED
  BY <1>1, <1>3, <1>4, <1>7 DEF DummyRuns

-----------------------------------------------------------------------------
(* hgraph_migration_execute as its three passes.                           *)
MigratedBy(nodes, edges, done) ==
    /\ nodes = NodeFold([graph |-> New!EmptyGraph, asserts |-> TRUE], Slots(graph.node_slot_map))
    /\ edges = EdgeFold(nodes, Slots(graph.edge_slot_map))
    /\ done = DummyFold([graph |-> edges.graph, slot |-> 0], Slots(edges.graph.node_slot_map))

LEMMA MigrateIs ==
    ASSUME Migrate
    PROVE  /\ target = NoNode /\ UNCHANGED vars
           /\ \E nodes, edges, done : /\ MigratedBy(nodes, edges, done)
                                      /\ target' = done.graph /\ asserts' = edges.asserts
<1>1. PICK nodes, edges, done :
          /\ nodes = NodeFold([graph |-> New!EmptyGraph, asserts |-> TRUE], Slots(graph.node_slot_map))
          /\ edges = EdgeFold(nodes, Slots(graph.edge_slot_map))
          /\ done = DummyFold([graph |-> edges.graph, slot |-> 0], Slots(edges.graph.node_slot_map))
  BY Zenon
<1>2. target' = done.graph /\ asserts' = edges.asserts /\ target = NoNode /\ UNCHANGED vars
  BY <1>1, Zenon DEF Migrate, NodeFold, EdgeFold, DummyFold
<1>3. MigratedBy(nodes, edges, done)
  BY <1>1, Zenon DEF MigratedBy
<1> QED
  BY <1>2, <1>3

LEMMA MigratedIsGraph ==
    ASSUME IsGraph(graph), NEW nodes, NEW edges, NEW done, MigratedBy(nodes, edges, done)
    PROVE  NodesMigrated(nodes, NodeCount) /\ done.graph # NoNode
<1>1. PICK start : start = [graph |-> New!EmptyGraph, asserts |-> TRUE]
  OBVIOUS
<1>2. /\ nodes = NodeFold(start, Slots(graph.node_slot_map))
      /\ edges = EdgeFold(nodes, Slots(graph.edge_slot_map))
      /\ done = DummyFold([graph |-> edges.graph, slot |-> 0], Slots(edges.graph.node_slot_map))
  BY <1>1, Zenon DEF MigratedBy
<1>3. NodesMigrated(nodes, NodeCount)
  BY <1>1, <1>2, NodesAreMigrated
<1>4. PICK g : g = nodes.graph
  OBVIOUS
<1>5. /\ nodes = [graph |-> g, asserts |-> TRUE] /\ g.node_slot_map.num_items = NodeCount
      /\ IsNewGraph(g)
  BY <1>3, <1>4, Zenon DEF NodesMigrated, HasOldNodes
<1>6. DOMAIN g = DOMAIN New!EmptyGraph
  BY <1>5 DEF IsNewGraph, New!EmptyGraph
<1>7. KeepsShape(g, nodes)
  BY <1>4, <1>5 DEF KeepsShape, SameShape
<1>8. KeepsShape(g, edges)
  BY <1>2, <1>6, <1>7, EdgesKeepShape
<1>9. edges.graph.node_slot_map.num_items \in Nat
  <2>1. NodeCount \in Nat
    BY GraphAssumption, SlotsAndIds DEF IsGraph, NodeCount
  <2> QED
    BY <1>5, <1>8, <2>1 DEF KeepsShape, SameShape
<1>10. PICK from : from = [graph |-> edges.graph, slot |-> 0]
  OBVIOUS
<1>11. HoldsGraph(from)
  BY <1>6, <1>8, <1>10 DEF KeepsShape, SameShape, HoldsGraph
<1>12. HoldsGraph(done)
  BY <1>2, <1>9, <1>10, <1>11, DropsKeepGraph
<1>13. DOMAIN done.graph = DOMAIN New!EmptyGraph
  BY <1>12 DEF HoldsGraph
<1>14. DOMAIN New!EmptyGraph # DOMAIN NoNode
  BY DEF New!EmptyGraph, NoNode
<1> QED
  BY <1>3, <1>13, <1>14

(* What survives a migration, in the graph that it has made.               *)
KeepsSurvivors(t) ==
    /\ LiveIds(t.node_slot_map) = KeptNodes
    /\ \A n \in KeptNodes : Node(t, n).type = NewType(Node(graph, n).type)
    /\ LiveIds(t.edge_slot_map) = KeptEdges
    /\ \A e \in KeptEdges :
          /\ PinNode(Edge(t, e).from) = PinNode(Edge(graph, e).from)
          /\ PinNode(Edge(t, e).to) = PinNode(Edge(graph, e).to)

LEMMA MigratedKeepsSurvivors ==
    ASSUME IsGraph(graph), EdgesFit(graph), CanSurvive,
           NEW nodes, NEW edges, NEW done, MigratedBy(nodes, edges, done)
    PROVE  edges.asserts = TRUE /\ KeepsSurvivors(done.graph)
<1>1. EdgesMigrated(edges, EdgeCount)
  <2>1. NodesMigrated(nodes, NodeCount) /\ AllFit
    BY MigratedIsGraph, FitMeansAllFit
  <2>2. edges = EdgeFold(nodes, Slots(graph.edge_slot_map))
    BY Zenon DEF MigratedBy
  <2> QED
    BY <2>1, <2>2, EdgesAreMigrated
<1>2. PICK base, t : base = edges.graph /\ t = done.graph
  OBVIOUS
<1>3. /\ edges = [graph |-> base, asserts |-> TRUE]
      /\ IsNewGraph(base) /\ HasOldNodes(base, NodeCount)
      /\ \A s \in Indices(EdgeCount) : Survives(s) => EdgeMigrated(base, s)
      /\ \A e : HasEdge(base, e) => ComesFrom(EdgeCount, e)
  BY <1>1, <1>2, Zenon DEF EdgesMigrated
<1>4. base.node_slot_map.num_items = NodeCount /\ NodeCount \in Nat
  BY <1>3, GraphAssumption, SlotsAndIds DEF IsGraph, NodeCount, HasOldNodes
<1>5. done = DummyFold([graph |-> base, slot |-> 0], Slots(base.node_slot_map))
  BY <1>2, Zenon DEF MigratedBy
<1>6. /\ IsNewGraph(t)
      /\ t.edge_slot_map = base.edge_slot_map /\ t.edges = base.edges
      /\ \A n : HasNode(t, n) <=> HasNode(base, n) /\ Node(base, n).type # Dummy
      /\ \A n : HasNode(t, n) => Node(t, n) = Node(base, n)
  BY <1>2, <1>3, <1>4, <1>5, DummiesAreDropped
<1>7. /\ \A n : n \in LiveIds(t.node_slot_map) <=> HasNode(t, n)
      /\ \A e : e \in LiveIds(t.edge_slot_map) <=> HasEdge(t, e)
  BY <1>6, GraphAssumption, NewEdgesAreNat, LiveIdsAre DEF IsNewGraph, HasNode, HasEdge
<1>8. /\ \A n : HasNode(base, n) <=> HasNode(graph, n)
      /\ \A n : HasNode(graph, n) => Node(base, n).type = NewType(Node(graph, n).type)
  BY <1>3, OldNodesThere DEF TypeOf
<1>9. \A n : n \in KeptNodes <=> HasNode(graph, n) /\ NewType(Node(graph, n).type) # Dummy
  BY LiveAre DEF KeptNodes
<1>10. \A n : n \in LiveIds(t.node_slot_map) <=> n \in KeptNodes
  BY <1>6, <1>7, <1>8, <1>9
<1>11. \A n \in KeptNodes : Node(t, n).type = NewType(Node(graph, n).type)
  BY <1>6, <1>8, <1>9
<1>12. \A e : HasEdge(t, e) = HasEdge(base, e) /\ Edge(t, e) = Edge(base, e)
  BY <1>6 DEF HasEdge, Edge, EdgeSlot
<1>13. ASSUME NEW e, HasEdge(t, e)
       PROVE  e \in KeptEdges
  BY <1>3, <1>12, <1>13, KeptAre DEF ComesFrom
<1>14. ASSUME NEW e \in KeptEdges
       PROVE  /\ HasEdge(t, e)
              /\ PinNode(Edge(t, e).from) = PinNode(Edge(graph, e).from)
              /\ PinNode(Edge(t, e).to) = PinNode(Edge(graph, e).to)
  <2>1. PICK s \in Indices(EdgeCount) : Survives(s) /\ e = OldEdge(s) /\ Edge(graph, e) = graph.edges[s]
    BY KeptAre
  <2>2. HasEdge(base, e) /\ Edge(base, e).from = NewFrom(s) /\ Edge(base, e).to = NewTo(s)
    BY <1>3, <2>1 DEF EdgeMigrated
  <2>3. PinNode(NewFrom(s)) = FromNode(s) /\ PinNode(NewTo(s)) = ToNode(s)
    BY <2>1, SurvivingPins
  <2>4. FromNode(s) = PinNode(Edge(graph, e).from) /\ ToNode(s) = PinNode(Edge(graph, e).to)
    BY <2>1, Zenon DEF FromNode, ToNode
  <2> QED
    BY <1>12, <2>2, <2>3, <2>4
<1>15. \A e : e \in LiveIds(t.edge_slot_map) <=> e \in KeptEdges
  BY <1>7, <1>13, <1>14
<1>16. LiveIds(t.node_slot_map) = KeptNodes /\ LiveIds(t.edge_slot_map) = KeptEdges
  BY <1>10, <1>15
<1>17. KeepsSurvivors(t)
  BY <1>11, <1>14, <1>16, Zenon DEF KeepsSurvivors
<1> QED
  BY <1>2, <1>3, <1>17

-----------------------------------------------------------------------------
(* Until the migration the old graph is well linked and nothing has failed; *)
(* after it nothing moves.                                                 *)
MigrationInv ==
    /\ EdgeInv
    /\ target = NoNode => asserts = TRUE
    /\ MigrationAsserts /\ SurvivorsKeepIds

LEMMA InitMigrates == FileInit => MigrationInv
BY InitEdges DEF FileInit, MigrationInit, MigrationInv, MigrationAsserts, SurvivorsKeepIds, Migrated

(* The properties look at the old graph, the new one and the assertions.   *)
LEMMA SameGraphsSame ==
    ASSUME UNCHANGED graph
    PROVE  /\ CanSurvive' <=> CanSurvive
           /\ SurvivorsKeepIds' <=> (target' # NoNode /\ CanSurvive => KeepsSurvivors(target'))
<1>1. graph' = graph
  OBVIOUS
<1>2. LiveNodes' = LiveNodes /\ LiveEdges' = LiveEdges
  BY <1>1, Zenon DEF LiveNodes, LiveEdges
<1>3. KeptNodes' = KeptNodes
  BY <1>1, <1>2, Zenon DEF KeptNodes
<1>4. KeptEdges' = KeptEdges
  BY <1>1, <1>2, Zenon DEF KeptEdges
<1>5. CanSurvive' <=> CanSurvive
  BY <1>4, Zenon DEF CanSurvive, IdsFit, InputsDiffer
<1>6. SurvivorsKeepIds' <=> (target' # NoNode /\ CanSurvive => KeepsSurvivors(target'))
  BY <1>1, <1>3, <1>4, <1>5, Zenon DEF SurvivorsKeepIds, Migrated, KeepsSurvivors
<1> QED
  BY <1>5, <1>6

LEMMA StandingStill ==
    ASSUME MigrationInv, UNCHANGED migrationVars
    PROVE  MigrationInv'
<1>1. graph' = graph /\ target' = target /\ asserts' = asserts /\ UNCHANGED vars
  BY DEF migrationVars, vars
<1>2. EdgeInv'
  BY <1>1, EdgesAreInductive DEF MigrationInv
<1>3. SurvivorsKeepIds <=> (target # NoNode /\ CanSurvive => KeepsSurvivors(target))
  BY Zenon DEF SurvivorsKeepIds, Migrated, KeepsSurvivors
<1>4. SurvivorsKeepIds' /\ MigrationAsserts'
  BY <1>1, <1>3, SameGraphsSame DEF MigrationInv, MigrationAsserts
<1> QED
  BY <1>1, <1>2, <1>4 DEF MigrationInv

LEMMA EditingKeeps ==
    ASSUME MigrationInv, target = NoNode, Next, UNCHANGED <<target, asserts>>
    PROVE  MigrationInv'
<1>1. EdgeInv'
  BY EdgesAreInductive DEF MigrationInv
<1>2. target' = NoNode /\ asserts' = TRUE
  BY DEF MigrationInv
<1>3. MigrationAsserts' /\ SurvivorsKeepIds'
  BY <1>2 DEF MigrationAsserts, SurvivorsKeepIds, Migrated
<1> QED
  BY <1>1, <1>2, <1>3 DEF MigrationInv

LEMMA MigratingKeeps ==
    ASSUME MigrationInv, Migrate
    PROVE  MigrationInv'
<1>1. UNCHANGED vars
  BY MigrateIs
<1>2. PICK nodes, edges, done : /\ MigratedBy(nodes, edges, done)
                                /\ target' = done.graph /\ asserts' = edges.asserts
  BY MigrateIs
<1>3. IsGraph(graph) /\ EdgesFit(graph)
  BY DEF MigrationInv, EdgeInv, IsLinked
<1>4. target' # NoNode
  BY <1>2, <1>3, MigratedIsGraph
<1>5. CanSurvive => asserts' = TRUE /\ KeepsSurvivors(target')
  BY <1>2, <1>3, MigratedKeepsSurvivors
<1>6. graph' = graph
  BY <1>1 DEF vars
<1>7. MigrationAsserts' /\ SurvivorsKeepIds'
  BY <1>5, <1>6, SameGraphsSame DEF MigrationAsserts
<1>8. EdgeInv'
  BY <1>1, EdgesAreInductive DEF MigrationInv
<1> QED
  BY <1>4, <1>7, <1>8 DEF MigrationInv

LEMMA MigrationIsInductive == MigrationInv /\ [FileNext]_fileVars => MigrationInv'
<1> SUFFICES ASSUME MigrationInv, [FileNext]_fileVars PROVE MigrationInv'
  OBVIOUS
<1>1. CASE UNCHANGED fileVars
  BY <1>1, StandingStill DEF fileVars
<1>2. CASE MigrationNext
  BY <1>2, EditingKeeps, MigratingKeeps DEF MigrationNext
<1>3. CASE SaveGraph
  BY <1>3, StandingStill DEF SaveGraph
<1>4. CASE LoadGraph
  <2>1. UNCHANGED migrationVars
    BY <1>4, Zenon DEF LoadGraph
  <2> QED
    BY <2>1, StandingStill
<1> QED
  BY <1>1, <1>2, <1>3, <1>4 DEF FileNext

(* For any two registries and any graph the editor can come to: the        *)
(* assertions of hgraph_slot_map_swap_id and of hgraph_migration_execute   *)
(* hold, if the new edge table has the ids of the edges that survive and   *)
(* the inputs of a type differ in name or data type.                       *)
THEOREM MigrationAssertsHold == FileSpec => []MigrationAsserts
<1>1. MigrationInv => MigrationAsserts
  BY DEF MigrationInv
<1> QED
  BY <1>1, InitMigrates, MigrationIsInductive, PTL DEF FileSpec

(* And the new graph has the nodes whose types and the edges whose pins    *)
(* survive, no others, under their old ids and between the same nodes.     *)
THEOREM SurvivorsKept == FileSpec => []SurvivorsKeepIds
<1>1. MigrationInv => SurvivorsKeepIds
  BY DEF MigrationInv
<1> QED
  BY <1>1, InitMigrates, MigrationIsInductive, PTL DEF FileSpec
=============================================================================
