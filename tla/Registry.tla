------------------------------ MODULE Registry ------------------------------
(***************************************************************************)
(* hgraph/src/registry.c with ptr_table.c, hash.h and mem_layout.h: plugins *)
(* register node types with a builder, which collects the data types of    *)
(* their attributes and pins in an open-addressing hash table; the registry *)
(* built from it numbers the types, lays out the nodes and finds the       *)
(* numbers again by the address of a definition.  The hash of an address   *)
(* is anything.  Names, which only lie in a pool of their own, are left    *)
(* out.                                                                    *)
(***************************************************************************)
EXTENDS Integers, FiniteSets, SequencesExt

CONSTANTS DataTypes,                         \* addresses of data types
          NodeTypes, Dummy,                  \* addresses of node types
          Attributes,                        \* node type |-> data types
          InputPins, OutputPins,             \* node type |-> <<data type, required>>s
          DataLayout, NodeLayout,            \* address |-> size and alignment
          MaxDataTypes, MaxNodeTypes,        \* hgraph_registry_config_t
          HashBits,                          \* how many bits of a hash are used
          Hashes,                            \* functions from addresses to lowest and highest bits
          NULL

VARIABLES hash,             \* the one of Hashes that this process has
          builder,          \* hgraph_registry_builder_t
          registry          \* what has been built from it

registryVars == <<hash, builder, registry>>

AllNodeTypes == NodeTypes \union {Dummy}
Addresses == DataTypes \union AllNodeTypes

Invalid == -1

(* hash_size *)
HashSize[exp \in 0 .. HashBits] == IF exp = 0 THEN 1 ELSE 2 * HashSize[exp - 1]

(* NULL is the address of nothing, hgraph_dummy_node is no plugin's and    *)
(* has neither attributes nor pins, a data type is aligned to something,   *)
(* and the tables do not need more bits than a hash has.                   *)
ASSUME RegistryAssumption ==
    /\ MaxDataTypes \in Nat \ {0} /\ MaxNodeTypes \in Nat \ {0}
    /\ HashBits \in Nat
    /\ MaxDataTypes < HashSize[HashBits] /\ MaxNodeTypes + 1 < HashSize[HashBits]
    /\ Dummy \notin NodeTypes /\ NULL \notin Addresses
    /\ Attributes \in [AllNodeTypes -> Seq(DataTypes)]
    /\ InputPins \in [AllNodeTypes -> Seq(DataTypes \X BOOLEAN)]
    /\ OutputPins \in [AllNodeTypes -> Seq(DataTypes \X BOOLEAN)]
    /\ Attributes[Dummy] = <<>> /\ InputPins[Dummy] = <<>> /\ OutputPins[Dummy] = <<>>
    /\ DataLayout \in [DataTypes -> [size : Nat, alignment : Nat \ {0}]]
    /\ NodeLayout \in [AllNodeTypes -> [size : Nat, alignment : Nat]]
    /\ \A h \in Hashes : h \in [Addresses -> [low : Nat, high : Nat]]

-----------------------------------------------------------------------------
(* hash.h.  hash_exp(0) is undefined: whatever it gives, it is a size.     *)
Exps(n) == IF n = 0 THEN 0 .. HashBits
           ELSE {exp \in 1 .. HashBits : HashSize[exp - 1] <= n /\ n < HashSize[exp]}

HashExp(n) == CHOOSE e \in Exps(n) : TRUE

(* Mutant: the step is not made odd. *)
StepAny(h, exp) == h.high \div HashSize[HashBits - exp]

Step(h, exp) ==
    LET bits == h.high \div HashSize[HashBits - exp]
    IN  IF bits % 2 = 1 THEN bits ELSE bits + 1

(* The slot of the k-th call of hash_msi, k > 0. *)
Probe(h, exp, k) == (h.low + k * Step(h, exp)) % HashSize[exp]

(* The loops of hgraph_registry_add_type and of ptr_table.c: the first slot *)
(* that is empty or holds the key.  The probes repeat after as many as     *)
(* there are slots; if none will do the loop does not end.                 *)
Hits(keys, exp, key) == {k \in 1 .. HashSize[exp] : keys[Probe(hash[key], exp, k)] \in {NULL, key}}

SlotOf(keys, exp, key) ==
    LET hits == Hits(keys, exp, key)
    IN  IF hits = {} THEN Invalid
        ELSE Probe(hash[key], exp, CHOOSE k \in hits : \A j \in hits : k <= j)

(* hgraph_ptr_table_t: keys and values by slot. *)
EmptyTable(exp) == [exp    |-> exp,
                    keys   |-> [slot \in 0 .. HashSize[exp] - 1 |-> NULL],
                    values |-> [slot \in 0 .. HashSize[exp] - 1 |-> Invalid]]

(* Mutant: every key is put at its first slot. *)
PutAtFirst(table, key, value) ==
    LET slot == Probe(hash[key], table.exp, 1)
    IN  [table EXCEPT !.keys[slot] = key, !.values[slot] = value]

Put(table, key, value) ==
    LET slot == SlotOf(table.keys, table.exp, key)
    IN  [table EXCEPT !.keys[slot] = key, !.values[slot] = value]

Lookup(table, key) ==
    LET slot == SlotOf(table.keys, table.exp, key)
    IN  IF slot = Invalid \/ table.keys[slot] = NULL THEN Invalid ELSE table.values[slot]

-----------------------------------------------------------------------------
(* mem_layout.h: blocks one after the other, each at its alignment; an     *)
(* alignment of 0, which only a block of size 0 has, gives the offset 0.   *)
Block(size, alignment) == [size |-> size, alignment |-> alignment]

AlignUp(offset, alignment) ==
    IF alignment = 0 THEN 0 ELSE ((offset + alignment - 1) \div alignment) * alignment

(* Mutant: the block is put where the last one ended. *)
ReserveUnaligned(layout, block) ==
    [offsets |-> Append(layout.offsets, layout.size), size |-> layout.size + block.size]

Reserve(layout, block) ==
    LET offset == AlignUp(layout.size, block.alignment)
    IN  [offsets |-> Append(layout.offsets, offset), size |-> offset + block.size]

Layout(blocks) == FoldLeft(Reserve, [offsets |-> <<>>, size |-> 0], blocks)

-----------------------------------------------------------------------------
PinTypes(pins) == [j \in DOMAIN pins |-> pins[j][1]]
TypesOf(type) == Attributes[type] \o PinTypes(InputPins[type]) \o PinTypes(OutputPins[type])

(* Mutant: the type is added without looking for it. *)
AddDataTypeAgain(b, type) ==
    LET free == {s \in DOMAIN b.data_types : b.data_types[s] = NULL}
    IN  IF free = {} THEN b
        ELSE [b EXCEPT !.data_types[CHOOSE s \in free : \A r \in free : s <= r] = type,
                       !.num_data_types = @ + 1]

(* hgraph_registry_add_type *)
AddDataType(b, type) ==
    LET slot == SlotOf(b.data_types, b.exp, type)
    IN  IF slot = Invalid \/ b.data_types[slot] = type THEN b
        ELSE [b EXCEPT !.data_types[slot] = type, !.num_data_types = @ + 1]

WithNodeType(b, type) ==
    [FoldLeft(AddDataType, b, TypesOf(type)) EXCEPT !.node_types = Append(@, type)]

(* hgraph_registry_builder_init *)
FreshBuilder ==
    LET exp == HashExp(MaxDataTypes)
    IN  WithNodeType([node_types |-> <<>>, num_data_types |-> 0, exp |-> exp,
                      data_types |-> [slot \in 0 .. HashSize[exp] - 1 |-> NULL]], Dummy)

Init ==
    /\ hash \in Hashes
    /\ builder = FreshBuilder
    /\ registry = NULL

(* A reload: the plugins register all over, in any order. *)
BuilderInit ==
    /\ registry # NULL
    /\ builder' = FreshBuilder /\ registry' = NULL /\ UNCHANGED hash

(* hgraph_registry_builder_add, until the application builds the registry. *)
(* The guards on the numbers are the assertions.                           *)
BuilderAdd(type) ==
    /\ registry = NULL
    /\ Len(builder.node_types) < MaxNodeTypes + 1
    /\ builder' = WithNodeType(builder, type)
    /\ builder'.num_data_types <= MaxDataTypes
    /\ UNCHANGED <<hash, registry>>

-----------------------------------------------------------------------------
(* hgraph_registry_init.  sizeof and _Alignof of hgraph_node_t, of an edge *)
(* id and of a link of two ids:                                            *)
NodeHeader == Block(16, 8)
InputBlock == Block(4, 4)
OutputBlock == Block(8, 4)

(* The data types get their numbers in the order of their slots. *)
WithUsed(types, type) == IF type = NULL THEN types ELSE Append(types, type)

NumberedTypes ==
    FoldLeft(WithUsed, <<>>, [k \in 1 .. HashSize[builder.exp] |-> builder.data_types[k - 1]])

(* The definitions and their numbers, counted from 0. *)
PutNumbered(table, numbered) == Put(table, numbered[1], numbered[2])

TableOf(definitions, exp) ==
    FoldLeft(PutNumbered, EmptyTable(exp),
             [k \in DOMAIN definitions |-> <<definitions[k], k - 1>>])

Required(pins) == {j - 1 : j \in {j \in DOMAIN pins : pins[j][2]}}

NodeBlocks(type) ==
    <<NodeHeader>>
        \o [j \in DOMAIN Attributes[type] |-> DataLayout[Attributes[type][j]]]
        \o [j \in DOMAIN InputPins[type] |-> InputBlock]
        \o [j \in DOMAIN OutputPins[type] |-> OutputBlock]

PipelineBlocks(type) ==
    <<NodeLayout[type]>> \o [j \in DOMAIN OutputPins[type] |-> DataLayout[OutputPins[type][j][1]]]

(* vars: the attributes, then the input pins, then the output pins. *)
NodeInfo(type, dataTable) ==
    LET node == Layout(NodeBlocks(type))
        data == Layout(PipelineBlocks(type))
    IN  [definition         |-> type,
         vars               |-> [j \in DOMAIN TypesOf(type) |->
                                    [type   |-> Lookup(dataTable, TypesOf(type)[j]),
                                     offset |-> node.offsets[j + 1]]],
         output_buffers     |-> Tail(data.offsets),
         required_inputs    |-> Required(InputPins[type]),
         required_outputs   |-> Required(OutputPins[type]),
         size               |-> node.size,
         pipeline_data_size |-> data.size]

RegistryInit ==
    /\ registry = NULL
    /\ \E exp \in Exps(builder.num_data_types) :
          LET dataTable == TableOf(NumberedTypes, exp)
              infos == [k \in DOMAIN builder.node_types |-> NodeInfo(builder.node_types[k], dataTable)]
          IN  registry' = [data_types              |-> NumberedTypes,
                           node_types              |-> infos,
                           data_type_by_definition |-> dataTable,
                           node_type_by_definition |->
                               TableOf(builder.node_types, HashExp(Len(builder.node_types))),
                           max_node_size           |-> Max({infos[k].size : k \in DOMAIN infos}),
                           max_edges_per_node      |->
                               Max({Len(InputPins[infos[k].definition]) : k \in DOMAIN infos})]
    /\ UNCHANGED <<hash, builder>>

(* hgraph_registry_iterate: the dummy is not shown. *)
Iterate == [k \in 1 .. Len(registry.node_types) - 1 |-> registry.node_types[k + 1].definition]

Next ==
    \/ BuilderInit
    \/ \E type \in NodeTypes : BuilderAdd(type)
    \/ RegistryInit

Spec == Init /\ [][Next]_registryVars

-----------------------------------------------------------------------------
Built == registry # NULL

(* Every data type of the registered node types is in the builder's table  *)
(* exactly once and counted once, whatever collides with it and however    *)
(* often it is met.                                                        *)
DataTypesAreCollectedOnce ==
    /\ \A slot, other \in DOMAIN builder.data_types :
          builder.data_types[slot] = builder.data_types[other] /\ slot # other =>
              builder.data_types[slot] = NULL
    /\ {builder.data_types[s] : s \in DOMAIN builder.data_types} \ {NULL}
          = UNION {ToSet(TypesOf(builder.node_types[k])) : k \in DOMAIN builder.node_types}
    /\ builder.num_data_types = Cardinality(ToSet(NumberedTypes))

(* A lookup ends, also of a node type of another registry, which must not  *)
(* be found (hgraph_create_node and hgraph_migration rely on it); and so   *)
(* does the search for the place of another data type.                     *)
LookupsEnd ==
    /\ \A type \in DataTypes : Hits(builder.data_types, builder.exp, type) # {}
    /\ Built =>
        \A type \in NodeTypes :
            LET table == registry.node_type_by_definition
            IN  /\ Hits(table.keys, table.exp, type) # {}
                /\ (Lookup(table, type) = Invalid) = (type \notin ToSet(Iterate))

(* A definition leads to the information made from it, and an attribute or *)
(* a pin to the data type it was declared with: types are compared by      *)
(* these numbers when pins are connected.                                  *)
DefinitionsAreFound ==
    Built =>
        \A k \in DOMAIN registry.node_types :
            LET info  == registry.node_types[k]
                index == Lookup(registry.node_type_by_definition, info.definition)
            IN  /\ index # Invalid
                /\ registry.node_types[index + 1].definition = info.definition
                /\ \A j \in DOMAIN info.vars :
                      /\ info.vars[j].type # Invalid
                      /\ registry.data_types[info.vars[j].type + 1] = TypesOf(info.definition)[j]

(* The parts of a node, and those of its data in a pipeline, are aligned,  *)
(* lie one behind the other and end where the size says; no node is larger *)
(* than the room a graph has for each.                                     *)
Fits(blocks, offsets, size) ==
    \A i \in DOMAIN blocks :
        /\ blocks[i].alignment # 0 => offsets[i] % blocks[i].alignment = 0
        /\ offsets[i] + blocks[i].size <= size
        /\ \A j \in 1 .. i - 1 : offsets[j] + blocks[j].size <= offsets[i]

NodesAreLaidOut ==
    Built =>
        \A k \in DOMAIN registry.node_types :
            LET info == registry.node_types[k]
                node == NodeBlocks(info.definition)
                data == PipelineBlocks(info.definition)
            IN  /\ Fits(node, <<0>> \o [j \in DOMAIN info.vars |-> info.vars[j].offset], info.size)
                /\ Fits(data, <<0>> \o info.output_buffers, info.pipeline_data_size)
                /\ info.size <= registry.max_node_size
=============================================================================
