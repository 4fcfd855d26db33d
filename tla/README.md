# A verification project for heditor

heditor is an editor for data-flow graphs. `hgraph` keeps graphs of typed nodes,
migrates them between plugin versions, stores them in files and executes them
as pipelines; `heditor` draws and edits them and runs a pipeline on a worker
thread. This directory holds TLA+ models of its core, the TLC runs that check
them and TLAPS proofs about them.

## Inventory

| Component (source) | State | Operations | Who calls it |
|---|---|---|---|
| Slot map (`hgraph/src/slot_map.c`) | `slots_for_id`, `ids_for_slot`, `num_items` | init, allocate, free (swap with last), swap_id, two lookups | graph, migration |
| Graph (`hgraph/src/graph.c`) | two slot maps, node and edge arrays, edge lists inside nodes and edges, versions | create/destroy node, connect/disconnect, iteration, names, attributes | editor, io, migration; read by pipeline |
| Migration (`hgraph/src/migration.c`) | a plan per node type and pin | init (match types and pins by name), execute (copy a graph) | the editor's reload |
| Pipeline (`hgraph/src/pipeline.c`) | a meta per slot, a stack of ready nodes, received/sent bit sets, scratch zone | init (with transfer), execute, cleanup, the node API | the runner's worker |
| Runner and queue (`heditor/src/pipeline_runner.c`, `hthread.c`) | ring of two commands, two signals, three atomics | execute, stop, pause, resume, terminate; the worker and its watcher | user interface and worker thread |
| Registry (`registry.c`, `ptr_table.c`) | types, pins, tables by pointer | builder, init, lookup | everything in hgraph |
| Files (`io.c`, `slip.c`, `heditor/src/io.c`) | none | write and read graphs, framing, positions | the editor's save and open |
| Application (`app.c`, `command.c`, `editor.c`) | documents, command buffer, dialogs, bound pipeline, two registries | frame, commands, save, open, Play, reload, quit | the user |
| Node type menu (`node_type_menu.c`) | entries in one block | build, flatten, draw | the application's reload, the editor |
| Allocators (`allocator/`) | chunks, positions | alloc, checkpoint, reset | the application |
| Core nodes, widgets, node-editor binding, paths, configuration, entry | little or none | callbacks, drawing, glue | the above |

The behaviours that are hard to test: ids and slots shuffled by long sequences
of edits; edge lists threaded through an array whose elements move; two threads
over a ring guarded by atomics and signals; callbacks that may abort or fail at
every point of an execution; a graph edited between and, in a small window of
the application, during executions; dialogs and commands that refer to documents
by index or by "active" and are answered frames later; files read with another
set of types than they were written with; a reload that rebuilds every graph. `PROJECT.json`
lists each hazard at its line with the properties that watch it.

What makes each component correct:

* slot map: the arrays are inverse permutations; an id leads to its own item
  until it is freed or renamed;
* graph: edges, input pins and output lists agree; no edge outlives its nodes;
  an (id, version) pair names one node for good; destroying a node returns;
* migration: what the new registry still has survives, under its old ids;
* pipeline: a node runs once, after its producers, with its inputs, unless the
  execution is cut short; an execution ends; stale pipelines are refused;
* scratch memory: blocks in use are apart;
* runner: commands arrive in order, none is slept through, stop and terminate
  take effect;
* registry: a type is collected once and found again whatever its hash; nodes
  and their data are laid out without overlap; the menu offers each type once;
* files: what is loaded is what was saved, less what is no longer known;
* application: unsaved work is not lost unasked, a document is marked clean
  only as it is in its file, the worker's graph and pipeline are left alone, pipelines are cleaned up
  exactly once.

## Modules

* `SlotMap` - operators from map to map, one per function of `slot_map.c`, on
  a record with the fields of `hgraph_slot_map_t`.
* `SlotStore` - a slot map with its owner's array as a state machine, with the
  write after `allocate` and the copy after `free` as `graph.c` does them.
  `IdTable` is what it promises: a table from ids to items.
* `GraphOps` - the graph as a record with the fields of `hgraph_s` and its
  functions as operators, so that Migration can hold two graphs. `Graph` makes
  it a state machine: the calls are steps, except that `hgraph_destroy_node`
  is one step per iteration of its loops (`destroying` is its stack frame).
  A call may name any pin: of any node id, with any index that is an input's or
  an output's of some type, or one too large (`Pins`).
  A rejected call changes nothing and is a stuttering step. `Multigraph` is the
  abstract specification: nodes and edges under ids, removal of a node with its
  edges in one step. The refinement mapping reads the ids that are live.
* `GraphShape` - what a graph looks like when its edges are linked as the calls
  of `graph.c` leave them: pins and edges agree, and a sequence of edges lies
  behind every output pin. The graphs that `Pipeline` begins with are of this
  kind, and the proofs about `Graph` say that every call keeps it.
* `Migration` - `hgraph_migration_init` as operators on two registries and
  `hgraph_migration_execute` as one step that folds over the old graph's slots,
  from any state that `Graph` reaches. `asserts` records whether the C
  assertions on the way held; `CanSurvive` says when they must (see below).
* `Pipeline` - `hgraph_pipeline_init` and `hgraph_pipeline_execute` over
  `Graph`. Every call out of the code is a step: each call of the watcher with
  either answer, each callback with any of its effects (`Output`, and `Spoil`
  for failed allocations and rejected reports), each look at a slot of a
  scheduling loop, each node that the first loop resets before it calls its
  `begin_pipeline` (`ResetNode`). An execution that is cut short leaves its
  metas behind, and during the first loop of the next one reset nodes stand
  beside stale ones. `ReadyNodesAreScheduled`, `ProducersRunFirst` and
  `ReceivedIsSent` therefore speak of the time after that loop (`Begun`): they
  are false of the code before, where no callback can tell, as `begin_pipeline`
  has no inputs and outputs. Between executions the graph is edited by the actions of
  `Graph`.
* `ScratchZone` - the two-ended allocator that the callbacks of a pipeline use.
* `PipelineRunner` - the user-interface thread and the worker over
  `hed_spsc_queue_t`. Each atomic operation is a step; a signal's wait and
  reset are one, as both happen under its mutex. The pipeline is seen as any
  number of calls of `pipeline_watcher`, which go on after one was answered with
  false: the callback that was told may report again, and `end_pipeline` and the
  last event do not look at the answer. `refused` remembers it, since an execution
  is "aborted" only after a refusal, though it may finish after one. `unread`, `overdrawn`, `unwaited` are
  history variables: nothing reads them but properties.
* `RunnerContract` - the same runner as its caller sees it: pipelines sent, one
  executed at a time, one that arrives meanwhile forgotten. `PipelineRunner`
  is shown to implement it, and `App` is built on it.
* `App` - one step per stage of `frame` (menu, tabs, drawing, hot keys, dialogs)
  and per command, with the steps of `RunnerContract`'s worker between any two.
  A graph's content is the edit that made it and how many loads and reloads have
  left something out of it since (`lost`): either may do so, unmarked, as the
  registry decides. `Graph(document)` is the address the code compares. A queued
  creation may fail (the document is marked all the same) or be rejected, with an
  invalid id or with the id 0. Files fail to open, fail in their middle, or hold a content.
  `frame` holds the local variables, among them `active`, the document that was
  active before the commands. `asked`, `confirmed`, `doubled` and the flags
  `early` and `switching` are history variables.
* `Slip` - the framing of an attribute's bytes: writer, reader, end and skip.
* `GraphFile` - saving and loading over the states `Migration` knows: a graph
  with any history is written in slot order and read with the new registry.
  Attribute values pass through `Slip` byte by byte; a stream that is out of
  step fails the load. Types, attributes and pins are found by name, unknown
  nodes become dummies and are dropped, an edge of a slot without a node ends the
  load, positions are dealt out by slot.
* `Registry` - the builder and the registry, with both hash tables probed as
  `hash_msi` does for any hash of an address, and `mem_layout.h` in full.
* `NodeTypeMenu` - the tree of groups built from a `Registry`, its flattened
  form, and the walk of `show_create_node_menu` over it.

`MC*` modules hold registries, graphs and bounds for TLC. Definitions whose
comment begins with "Mutant" are plausible mistakes: each run's properties are
known to fail when one of them takes the place of the definition after it.

## Runs

| Run | Bounds | What it shows |
|---|---|---|
| `slot_store` | 4 slots, 2 items | all 8 thousand states: the arrays stay inverse; the store implements `IdTable` |
| `graph_fan` | 4 nodes, 5 creations or destructions | lists of up to three edges, unlinked at head, middle and tail; ids recycled; the graph implements `Multigraph`; destroying a node returns, with up to three edges in its list and in any slots |
| `graph_loop` | 3 nodes of an input and an output | every edge in use at once: capacity is enough for what can be connected |
| `graph_connect` | 2 nodes of 2+2 pins, 3 versions | **violation**: a rejected `hgraph_connect` returns 0, a valid id |
| `migration` | 3 nodes, 6 versions, values of 2 bytes | ids and slots shuffled first; a type lost, a pin and an attribute moved, another attribute's type changed: the rest survives a migration under its ids, and a save and a load with its values and positions |
| `migration_order` | 3 nodes | **violation**: types in another order are not found |
| `migration_pins` | 3 nodes | **violation**: pins and lists keep the ids from before the swap |
| `runner` | 4 calls, worker 2 reads beyond empty | both threads interleaved at every atomic step, through fill-up, pause, stop, terminate, restart, with watcher calls after a refusal; the runner implements `RunnerContract` |
| `pipeline` | five graphs of up to 3 nodes, 2 edits | fan-out, cycles over optional and required inputs, two sources; aborts and failures everywhere, and what they leave to the next execution |
| `scratch_zone` | 15 bytes, alignment 4, sizes 1, 3, 4, 6 | all allocation orders, zone end unaligned |
| `app` | 2 documents, 1 path, 6 inputs | 7.7 million states: closing, saving, opening, Play, edits, reloads and quits in every order, with the worker in between |
| `registry` | 3 data types, 3 node types, tables of up to 8 slots | every order of registration, every collision of hashes, reloads; lookups end and find what was put, layouts do not overlap, the menu is complete |

Bounds. `MaxVersion` bounds creations and destructions of nodes: with one more
than there are slots, slots are full, freed and reused, which is where ids and
slots part. Three edges are the shortest list with a head, a middle and a tail.
`MaxCalls` fills the ring of two twice, or once with a restart. `MaxOverdraw`
bounds how often the worker reads from an empty ring (see below). `MaxEdits`
of two lets a node be destroyed and its id be used again between executions.
`MaxInputs` counts what the user does, over any number of frames: six inputs
edit two documents, open a dialog for one and act on the other before it is
answered, or play twice with an edit and a reload between. A frame takes one
click, as the mouse gives one, and one hot key. Two documents are enough for
a closed one to move the other. The bytes of attributes are those that mean something to
the framing, alone and in front of what follows them. The low bits of a hash
range over half of the table, the high ones give the steps 1, 3 and 7: probes
wrap around and meet. All bounds are guards of the modules, never of a
configuration's constraint.

Deadlock is not checked where the system may rest: a graph with all versions
spent, a finished migration or load, a runner whose worker has left, a program
that has ended. In `SlotStore`, `ScratchZone` and `Registry` some operation is
always possible, and it is checked.

### Fairness

* `Graph`: `WF(DestroyStep)`. The loop runs in its caller's thread.
* `Pipeline`: `WF(Proceed)`, the code's own steps, including a callback's
  return and the watcher's answer. No fairness for starting an execution, for
  edits, or for what a callback does besides returning.
* `PipelineRunner`: weak fairness of the rest of a call that has begun
  (`Produce`, `Join`) and of the worker, and strong fairness of the end of an
  execution after a refusal (`StoppedAfterRefusal`). A callback that was told to
  end returns in the end, after however many reports, and after it
  `pipeline.c` makes as many calls as there are nodes; weak fairness would not do,
  as the end is not possible while the watcher is being called. Nobody has to call
  anything.
* `App`, `GraphFile` and `Registry` state safety only and assume no fairness.

### The command queue

The model reaches states that the code's author hardly meant. A producer that
adds to `count` and is suspended before it raises `data_ready` leaves the
signal raised after the consumer has taken the command without it; the next
wait returns at once and the worker reads a slot nobody wrote: an old command,
or null, which `pipeline_runner_entry` takes for a pipeline. In the mirror
image `pipeline_runner_terminate` overwrites an unread command.
And `pipeline_runner_terminate` may wait for ever: with both slots taken it
waits for space, while the worker may leave its loop because of `should_run`.
No document of the repository promises otherwise, so these are not findings;
the properties say how far things go: `OverdrawsOnlyOnStaleSignals` that
reading too much needs such a left-over signal, `RingHoldsUnread`,
`NoLostWakeup`, `TerminateReturns` and `StopEndsThePipeline` what holds
until it happens. A stop does end its pipeline, but not at once: the worker still
answers calls of the watcher, and takes what the user sends next for commands to
the same pipeline. A pause among them that is never resumed keeps the stopped
pipeline running, so `StopEndsThePipeline` is about behaviours in which no pause
is for ever; and since the end of such a pause can overdraw the ring, after which
the watcher may go round in old commands, it promises no more than the end of the
pipeline or an overdrawn ring.

### The application and the worker

`app.c` keeps the user interface off a running graph by looking at
`current_state`, which the worker stores only when it takes a command. Between
Play and that store the state is still "stopped": the tab is drawn as editable,
and a second Play rebuilds a pipeline that is on its way. The properties of `App`
show that these windows, and the frame in which a tab is about to be switched,
are all there is: `ExecutedGraphIsLeftAlone` excepts `early` and `switching`,
`ExecutedPipelineIsLive` excepts `doubled`, `CreatedWhereDrawn` excepts
`switching`, and each fails without its exception. A closed document's graph
can still be executed; the next New or Open initialises it in place.

Met while modelling, and not the subject of a run:

* A graph is told by its address. After a closed document is opened again, or
  after two reloads, another graph has the address of `pipeline_bound_graph`,
  and the data of the old pipeline's nodes may be handed to nodes of other types.
* A type whose group ends in a slash is put under an entry of a type already in
  that group (both have an empty label), which the editor does not open.
* `node_type_menu_init` asks for less than it writes: the terminators of the
  root's and of the types' empty labels are not counted.
* A chunk of the arena ends after its memory by the size of its header.
* `hgraph_init` sizes the edge table by the node type with most inputs. If the
  new registry's has fewer, an edge that survives may have an id beyond the new
  table, and `hgraph_slot_map_swap_id` asserts. Nothing in `registry.c` keeps a
  type from having two inputs of one name and data type; migration takes both
  for the first, and the second edge cannot be connected. `CanSurvive` (`IdsFit`
  and `InputsDiffer`) excepts both cases from `MigrationAsserts` and
  `SurvivorsKeepIds`; the registries of the run are such that it always holds.
* A reload drops the nodes and edges that the new registry does not know and
  marks no document for it, and a load does the same. A clean document may have
  less than its file, and the next save writes that; `CleanMeansSaved` names a
  reload as the only change of a clean document.
* `fclose` is not checked when a document is saved.

## Proofs

`tlapm` checks every theorem for all values of the constants. Every invariant
that a run checks of the slot store, `Graph`, `Pipeline`, `ScratchZone`,
`PipelineRunner`, `App`, `Registry` and `Migration` is a theorem, and so are the three refinements, of
`IdTable`, `Multigraph` and `RunnerContract`, and the action properties of `Graph`, `SlotStore`
and `App`. `GraphInv`, `EdgeInv`, `PipelineInv`, `RunnerInv` and `AppInv`,
the inductive invariants below, held in TLC's runs before they were proved.

* `SlotMapProofs`: lemmas about the operators of `SlotMap`: each keeps
  `IsSlotMap`; which ids are live after it; where `Free` and `SwapId` leave the
  others. They are stated for any map, and cited below and later for graphs.
* `SlotStoreProofs`: `StoreIsSafe` (`TypeOK` with `InverseArrays`, inductive
  together), `StoreKeepsItems`, and `StoreImplementsTable`: each step of the
  store is a step of `IdTable` or a stutter, under the lemmas above.
* `GraphProofs`: `GraphIsTyped`, that `TypeOK` always holds of `Graph`, and
  `GraphVersionsAreFresh`, the property `VersionsAreFresh`. `TypeOK` speaks of
  live nodes and edges only and is not inductive; `GraphInv` says of every slot
  in use, rather than of every live id, that it holds an item of its type, and
  that the versions of ids lag behind the graph's. Each of the small writes of
  `hgraph_connect` and `hgraph_disconnect` keeps it, at whatever link they are
  made, so the lists' shape is not needed. A destruction that has begun keeps
  its node live, for only its own end frees a node. Fresh versions then follow
  because `hgraph_create_node` alone brings an id to life.
  Its second half proves `GraphInputsAgree`, `GraphCanConnectIsEnough`,
  `GraphOutputListsAreComplete` and `GraphImplementsMultigraph`. `EdgeInv` is
  `GraphInv` with `IsLinked` of `GraphShape` (every edge joins two pins that
  `hgraph_connect` accepts and is the one its input has; the edges of an output
  pin form a finite sequence that the links follow both ways) and, during a
  destruction, that the pins passed so far have no edges left. The properties
  walk the links and count; the sequences turn a walk into an index, so that
  linking at the head and unlinking at the head, in the middle or at the tail
  are insertions into and removals from a sequence. Capacity is an injection of edges
  into inputs. For the refinement, each iteration of `hgraph_destroy_node`
  removes one edge of `Multigraph` and its end removes a node without any.
* `PipelineProofs`: the six invariants of `Pipeline`. `PipelineInv` adds to
  `EdgeInv` that every meta, stale or not, remembers a node that once had its
  id and version and data of that node's type (`DataInv`: versions only grow,
  and `TypesStay` says that a node keeps its type); that equal versions of graph and
  pipeline mean that the metas are the graph's slots (`MatchInv`: connecting and
  disconnecting move no slot); and, of an execution, `Runs`. The properties name
  producers through the inputs of nodes; `Runs` goes along the edges instead,
  where `hgraph_pipeline_node_output` goes along lists, which `LinksAre` shows to
  be the same. `ProducersRunFirst` is inductive only with the chain that
  explains it, and only from the end of the first loop on: `ResetSoFar` says that
  the nodes before the loop's slot are as new, so that all are when it ends,
  whatever the others were before. A node leaves the first state when its inputs have received
  (`LeavesWhenReady`), what has received was sent (`Flows`,
  `ReceivesByEdges`), and what has sent has returned unless it is executing
  (`SendsInTurn`), which no node is while others are scheduled.
  `NoNodeIsForgotten` needs to know at every step who will look at a ready node:
  the rest of the loop, or an edge of the node that executes (`Looked`).
  The module ends with the scratch memory of an execution: `ZoneIsSafe`, that
  `ZoneTypeOK` and `BlocksAreApart` always hold. `BlocksAreApart` alone is not inductive, as an allocation compares
  pointers and not blocks; `Frontiers` adds that step blocks lie below
  `step_alloc_ptr`, execution blocks above `execution_alloc_ptr`, and that the
  two have not crossed. Rounding is used only through a lemma that says which
  way it moves.
* `PipelineRunnerProofs`: the three invariants of the ring,
  `RunnerOverdrawsOnlyOnStaleSignals`, `RunnerRingHoldsUnread` and
  `RunnerLosesNoWakeup`, for any number of calls. They speak of what is left
  between calls; `RunnerInv` accounts for it at every atomic step of either
  thread: how many commands are written, counted and read, and which signal
  is owed by whom. `RunnerImplementsContract`: every step of either thread is a
  step of `RunnerContract`, which `App` is built on, or a stutter. It rests on
  `ContractInv` besides: a command that was let into the ring had found room for
  it, which bounds the pipelines under way; what lies at the head of the ring
  was sent; and `current_state` is where the worker is. The mapping counts the
  pipelines on their way; lemmas say how an append and a read change the count.
* `AppProofs`: the four invariants and three action properties of `App`. One
  invariant serves them all. `AppInv` says where each index and address held
  across a step comes from: which document a dialog, a command or a frame's
  local stands for, and what the worker can hold while the user interface acts.
* `RegistryProofs`: the four invariants of `Registry`, for every hash of the
  addresses. `RegistryInv` says of the builder's table that each key lies where
  a search for it ends, that fewer slots are in use than there are, and that the
  keys are the types met so far; of a finished registry it has the
  properties themselves, for nothing changes it. A search ends because the step
  of `hash_msi` is odd and a table's size a power of two: two probes of one slot
  would make the size divide their distance, so that the first `HashSize` probes
  visit every slot and come to a free one (`SearchEnds`). A put keeps every
  key where its search ends, as it only fills a slot at which no search
  for another key had stopped (`PutKeepsPlaces`). The layout is by induction on
  the blocks: each begins, rounded up, where the last one ended.
* `MigrationProofs`: the two invariants of `Migration`, in the specification of
  `GraphFile` that contains it, for any two registries and a graph with any
  history. `MigrationInv` is `EdgeInv` of the old graph until it is migrated and
  the properties afterwards; the work is in the three passes. Of the nodes,
  `NodesMigrated` says that after k steps the first k slots hold the old ids in
  the old order, and that among the slots not in use none holds an id above
  itself (`RestIsLow`): so the id that is allocated next is below the number of
  items, as `hgraph_slot_map_swap_id` asserts although the one is an id and the
  other counts slots. Of the edges,
  `EdgesMigrated` says which are there and that an input pin is taken only by
  one of them, so that every edge that survives can be connected again (its pins
  match in the new types, and two edges never come to one new input). The pins
  and lists of the new graph hold ids from before the swap, so it is not linked as
  `GraphShape` has it; the proof shows that migration never goes along them.
  Of the dummies, `DummiesDropped` says that each step passes a node
  or frees one, and that the slots passed hold none. Where `CanSurvive` is false
  it is shown only that a graph comes out.

The proofs assume what the modules' `ASSUME`s say and no more, and TLC
evaluates each `ASSUME` in a run. Folds are the community modules', unfolded to
a function over the indices; what holds after each step of one is shown by a
least counterexample (`LeastOf`, `HandedOn`). Sizes are natural numbers, the alignment is
positive (that it is a power of two is not needed), pins and types fit the
limits the code has for them. `RegistryAssumption` has tables that do not need
more bits than a hash has, data types with an alignment and a dummy without pins,
as in `registry.c`, and `MigrationAssumption` has the same of the new registry. One says more: `GraphsAssumption` of `Pipeline`
has the graphs to begin with be linked as the calls of `graph.c` leave them,
which `GraphProofs` proves of every call; it lets a run begin with graphs
that take many calls to make.

Only model-checked:

* `GraphFile` (`FileKeepsTheGraph`, `PositionsFollowNodes`) and `NodeTypeMenu`
  (`MenuOffersEveryType`). What their properties say is the result of recursive
  functions over a stream or a tree, and of folds over what those return. No
  theorem of the library gives induction over those here, for its induction
  theorems take an operator as a parameter; each such fact needs an argument of
  its own by a least counterexample, as those about the folds of `Pipeline`,
  `Registry` and `Migration` have, and these are not written.
* All liveness (`DestroyReturns`, `ExecutionEnds`, `TerminateReturns` and
  `StopEndsThePipeline`): temporal reasoning under fairness needs ENABLED, which
  is out of its reach too.

## Not modelled

* The arena and the counting allocator: planned, see below.
* Names of nodes, the encoding of numbers and strings, file headers, the pool of
  names: payload. Attributes are modelled in files only; in a graph they move
  with their slot, and migration copies them by a plan that is left out. The
  values that flow along edges, node statuses and statistics are left out.
* Iteration callbacks that edit the graph they iterate: no caller does.
* In `App`: which nodes and edges a reload or a load drops (that is
  `Migration` and `GraphFile`), drawing and selection, the reload of the
  application's own module, write errors found by `fclose` alone, no documents
  allowed at all (`max_documents` of 0, with which `app.c` starts at index -1).
* In `PipelineRunner`: positions beyond 2^31. In `ScratchZone`: the statistics, which nothing uses.
* Widgets, drawing, core nodes, paths, configuration, entry points, vendored
  code: no state that outlives a call, or not this project's code.

## Plan

1. Done: `SlotMap`, `SlotStore`/`IdTable`, `GraphOps`, `Graph`/`Multigraph`,
   `Migration`, `Pipeline`, `ScratchZone`, `PipelineRunner`/`RunnerContract`,
   `App`, `Slip`/`GraphFile`, `Registry`/`NodeTypeMenu`; the proofs of the slot
   store, the scratch zone, `Graph`, `Pipeline`, `PipelineRunner`, `App`,
   `Registry` and `Migration`.
2. Proofs of `GraphFile`: its passes over nodes, edges and dummies are those of
   `Migration`; the bytes of attributes need an argument about `Slip`.
3. A graph that is initialised again in place under `Pipeline`.
4. An abstract data-flow specification that `Pipeline` implements; the arena.
