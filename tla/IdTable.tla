------------------------------ MODULE IdTable ------------------------------
(***************************************************************************)
(* What a slot map and the array it indexes promise together, with no      *)
(* slots in sight: a table from ids to items.  Graph nodes and graph edges *)
(* are both kept in one.  An item keeps its id, whatever is removed around *)
(* it, until it is removed itself or renamed.                              *)
(***************************************************************************)
EXTENDS Integers

CONSTANTS MaxItems, Items

VARIABLES table,     \* a function from the live ids to their items
          result     \* the id the last insertion returned

TableIds == 0 .. MaxItems - 1

Init == table = [id \in {} |-> id] /\ result = -1

Insert(item) ==
    \/ \E id \in TableIds \ DOMAIN table :
          /\ table' = [i \in DOMAIN table \union {id} |->
                          IF i = id THEN item ELSE table[i]]
          /\ result' = id
    \/ DOMAIN table = TableIds /\ result' = -1 /\ UNCHANGED table

Remove(id) ==
    /\ table' = [i \in DOMAIN table \ {id} |-> table[i]]
    /\ UNCHANGED result

Rename(old, new) ==
    /\ old \in DOMAIN table /\ new \in TableIds \ DOMAIN table
    /\ table' = [i \in (DOMAIN table \ {old}) \union {new} |->
                    IF i = new THEN table[old] ELSE table[i]]
    /\ UNCHANGED result

Next ==
    \/ \E item \in Items : Insert(item)
    \/ \E id \in TableIds : Remove(id)
    \/ \E old, new \in TableIds : Rename(old, new)

Spec == Init /\ [][Next]_<<table, result>>
=============================================================================
