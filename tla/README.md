# Verification of the cross-device transaction processor

TLA+ models of the query executor of this repository: how a query graph is
flattened, how its columns are loaded, how its vertices are run one after the
other or by several devices at once, what the shared dictionaries of buffers
hold meanwhile, and what the kernels of two queries compute; of the older
executor beside it, which passes morsels from device to device; and of the
runtime library: barriers, allocators, hash maps, and the files it keeps the
columns of a table in. TLC checks the models on small instances, TLAPS proves
what matters most for every instance.

Paths below are relative to `src/`.

## 1. The system

| component | state | operations | hard because |
|---|---|---|---|
| device threads of the exchange (`runtime_layer/morsel_driven/exchange.cpp` 87-137, 193-231) | `m[i]`, `start_processing[i]`, `ready[i]`, `processed[i]`, `process_vertex[i]` | coordinator `process_in_device`, worker `process_op` | one condition variable for both directions; two writes outside the mutex; a last notification after the unlock |
| exchange executor (`exchange.cpp`) | lock-free `ex_processing_queue`, `ready_for_next_step` of every edge, the dag, the dictionaries | `form_lockfree_processing_queue`, `transfer_op`, `process_op`, `execute_exchange_graph` | devices race for vertices, spin on each other's results, move each other's buffers, share the alias counter |
| query graph (`runtime_layer/classes/primitive_graph.cpp`, `primitive_node.cpp`) | dag with `data_pointer` on the edges, `pID`/`dID`, `input_data`, `output_data` on the vertices; `process_queue` | `execute_graph`, `set_input`, `prepare_output_buffer`, `load_data`, `display_result` | one field holds keys first and aliases later; buffers move between devices |
| alias counter (`runtime_layer/runtime_globals.cpp`) | `total_data_set_in_device` | `get_alias` | unprotected; survives from one query to the next |
| data dictionaries (`opencl_layer/data_interface.hpp`, `cpp_layer/data_interface.hpp`) | `mDataDictionary` of each layer | `add_data`, `get_data`, `delete_data`, `transfer_data` | one inserts, the other assigns; look-ups are not compared with `end()` |
| kernel execution (`opencl_layer/execution_interface.hpp`, `cpp_layer/execution_interface.hpp`) | none | `execute` | returns early without telling anybody |
| kernel dictionary, OpenCL environment, task layer | compiled kernels, devices and their names, tasks | `add_kernel`, `setup_environment`, ... | shared map, naming of devices |
| kernels (`kernels/*.cl`) and C++ primitives (`cpp_layer/operations`) | buffers | one function per primitive | hash kernels: probing, two work items on one slot; bitmaps and widths that the two layers read in their own ways |
| barriers (`TPCH/common/runtime/Barrier.hpp`) | `cntr` and `round` of every barrier of a tree | `wait`, `create`, `destroy` | re-used at once by fast threads while slow ones have not left; a finalizer that waits at the next barrier |
| worker group (`TPCH/common/runtime/Concurrency.hpp`) | workers and their barriers | `run` | counts the places at the barriers on its own |
| memory pool (`TPCH/common/runtime/MemoryPool.*`) | `start` and `end` of the current chunk as two atomics, the chunks | `allocate` of three allocators, `setSource`, `reset` | lock-free allocation next to a refill under a mutex; sizes padded twice |
| hash maps (`TPCH/common/runtime/Hashmap.hpp`) | one word per bucket, pointer and tags; `next` of the entries | `insert`, `insertAll`, `findOne`, `findOrCreate`, `clear` | lock-free insertion, lookups beside it |
| column store (`TPCH/common/runtime/Import.cpp`, `Mmap.hpp`) | a file for each column | `parseColumns`, `writeBinary`, `readBinary` | a start that dies while it writes is judged by the next one |
| morsel pipeline (`mapper-additional/data_parallelism.h`) | queue, `fetched_until`, `processed_until`, sizes and names on the edges | `run`, `transfer_data`, `process_data` | two threads per operation without a lock, nothing waits for the operation before |
| rest of `TPCH/common` | stack, partitioned deque, types, algebra | library classes | used by one thread |

The parts meet as follows. A query fills `data_scan` (key to column), builds a
dag and puts a key on every edge that leaves the scan vertex. The executor
flattens the dag with `topological_sort`. `load_data` places the columns in both
dictionaries under fresh aliases and rewrites the edges. For every further
vertex `set_input` collects the aliases of its in-edges, moving a buffer that is
on another device, `prepare_output_buffer` creates the output and writes its
alias on the out-edges, and `execute_node` runs the kernel in the OpenCL or the
C++ layer. `execute_graph` does this in one thread. `execute_exchange_graph`
puts the vertices into a lock-free queue and starts a coordinator and a worker
per device; the dag, both dictionaries and the alias counter are shared by all of
them and protected by nothing.

What makes each part correct:

- *handshake*: each vertex the coordinator hands over is executed exactly once
  and answered before the coordinator goes on; nothing is written while the
  other thread uses it; nobody sleeps through a notification; after the marker
  the worker is joined.
- *exchange*: a device executes what it popped, once, after its producers, with
  its inputs in place; no two outputs share an alias; every operation runs; the
  spins end.
- *query graph*: every look-up finds its buffer, kernels start on the inputs
  their producers left, and what is displayed are the results the query asked
  for, on any placement.
- *loading*: each scan edge leads to its own column.
- *barriers*: nobody goes on before everybody came, one thread runs the finalizer
  while all others stand still and learns that it did, no round is confused with
  another; every barrier of the tree gets as many as it counts.
- *memory*: no byte is given out twice, and none that was not obtained.
- *hash maps*: no insert undoes another one, a lookup beside inserts answers as if
  the table stood still, the filter of tags hides nothing, every call ends.
- *kernels*: the join finds each key where it is and no other, and query_6 shows
  the same, and the right, numbers in both layers.
- *morsel pipeline*: a morsel is processed after it has come, each one once, and
  the two threads of an operation end.
- *column store*: a relation in use has columns of one size that hold what the
  `.tbl` file held.

The hazards, each at its line and with the properties that watch it, are in
`PROJECT.json`.

## 2. The modules

| module | models |
|---|---|
| `DeviceRendezvous` | abstract: what coordinator and worker of a device promise each other |
| `DeviceHandshake` | the two threads with mutex, condition variable and flags; implements `DeviceRendezvous` |
| `DataDictionary` | the dictionaries as functions, what a buffer holds |
| `ScanLoad` | `load_data` and `place_data` |
| `QueryGraph` | the steps of one vertex, used by both executors: `set_input`, `prepare_output_buffer`, `execute_node` |
| `GraphExecutor` | `execute_graph`, one thread |
| `ExchangeExecutor` | `execute_exchange_graph`, one thread of control per device |
| `HashJoin`, `Query6` | the kernels of two queries on their data |
| `MorselPipeline` | `morsel_driven::run`: devices with two threads each on a chain of operations |
| `BarrierPromise` | abstract: one barrier for all threads of a group |
| `HierarchicBarrier` | `wait` of a tree of barriers; implements `BarrierPromise` |
| `BarrierTree` | the tree `create` builds and the way `destroy` walks it, as operators |
| `WorkerGroup` | `WorkerGroup::run`: places at the barriers, and their end; uses `BarrierTree` |
| `GlobalPool`, `Allocator` | the pool all workers share, and the allocator each of them has on top of it |
| `EntryStore` | abstract: a set of entries, lookups that take effect at one moment |
| `Hashmap` | chains with tagged heads, filled by threads; implements `EntryStore` |
| `ColumnCache` | `parseColumns` over starts and deaths of the program |
| `DeviceHandshakeProofs`, `QueryGraphProofs`, `GraphProofs`, `ExchangeProofs`, `BarrierProofs` (with `WorkerGroup`), `LibraryProofs` (`Allocator`, `GlobalPool`, `ColumnCache`), `OperatorProofs` (`Hashmap`, `HashJoin`, `Query6`), `MorselPipelineProofs` | theorems |
| `Ranks` | no code: the order in which what is left to do goes down, for the proofs that runs end |
| `MC...` | instances for TLC |

`QueryGraph` extends `ScanLoad` and `DataDictionary`; `GraphExecutor` and
`ExchangeExecutor` extend `QueryGraph`. `MCKernels` and `MCLibrary` put modules
that share nothing into one run: a behaviour is one of the module that `part`
selects, the others stay in an initial state.

**DeviceHandshake.** The coordinator's `cpc` follows lines 92-136: take a vertex,
set `ready` under the mutex, notify, wait for `processed`, reset it, and after
the loop once more with `INT_MAX`. A critical section of the coordinator is one
step that needs the mutex free. The worker takes the mutex when its wait ends and
keeps it until line 228, so its section is several steps (`locked`, `executed`).
A wait that finds its flag down adds the thread to `waiting`; `notify_one`
removes any one member; `SpuriousWakeup` removes one for no reason.

**ScanLoad.** One action per round of the loop over `data_scan`, in the order of
`std::map`. Keys and aliases are plain numbers in the same variable
`data_pointer`, as in the code. The queries before this one are represented by
the counter they left and by their buffers, which nobody deletes.

**QueryGraph.** What a buffer holds is abstracted to what a query can tell
apart: a column as loaded, the result of a vertex on its right inputs, zeros, or
something wrong. `Expected(e)` is what the reader of `e` should find.
`SetInput` is one round of the loop of `set_input`; the move is
`transfer_data`: read, insert at the target, erase at the source. A look-up that
fails is undefined behaviour: `MissesInput` and `ExecuteIsUndefined` name the
cases, the executors let them crash or go on with a failed OpenCL call, which
leaves the zeros of `calloc` or does not run the kernel.
The order of the vertices is any order `topological_sort` may return.

**GraphExecutor.** `stage` is the position in one round of `execute_graph`. The
device of each operation is chosen once, by the query (`set_device`), and
`execution_environment` selects the layer.

**ExchangeExecutor.** `DeviceHandshake` shows that the coordinator and the worker
of a device take turns, so here a device has one `pc`: `check` (the loop
condition), `pop`, `await` (the spin), `input` (rounds of `set_input`, then the
read of the alias counter), `output`, `execute`, `publish`. What is one step and
what is not follows what can interfere: `empty()` and `pop()` are two steps,
`get_alias` is a read and a write, every round of `set_input` is a step, a call
on the dictionaries is one step. The spin is one step, taken when all flags are
up: flags only ever go up, so the pass that ends the spin sees them all.
Publishing all out-edges is one step for the same reason. `process_vertex`
starts with any value of `HeapGarbage`: in the code it is `new`-ed and not
initialised. `queued`, `runs`, `popped` and `missed` are history variables that
nothing reads but the properties.

**HierarchicBarrier.** A thread that is the last at a barrier calls `wait` of the
parent inside the finalizer; its stack of frames is the path from its leaf to the
barrier it stands for, so `standsFor` is the whole stack. Every operation on an
atomic is a step: the load of `round`, the `fetch_sub`, the store of `cntr`,
`round++`, the load that ends the spin. Loads that do not end it change nothing.
The tree is a constant with the properties of a tree; `MCHierarchicBarrier` takes
it from `BarrierTree` (`GroupParent`, `GroupCount`), so the instance has the shape
`create` gives it, with the caller of `run` at the last barrier. `came`, `arrived`, `released` and `finalizer`
are history.

**WorkerGroup.** The rounds of the loop of `run`, then one step for every call of
the recursive `destroy`. `create` has no concurrency and no state of its own, it
is the operators of `BarrierTree`; what it is asked is whether its numbering and
the one of `run` agree, for every size of the group.

**GlobalPool.** Every load, store and compare-and-swap on `start` and `end` is a
step, the mutex is a variable. `compare_exchange_weak` may fail for no reason.
The kernel places a chunk anywhere it does not overlap another one, so a new chunk
lies above or below the old one, directly behind it or far away: this is what the
order of the two stores depends on. The atomics are sequentially consistent, as
they are in the code. Names that `Allocator` has as well are prefixed, as `MCLibrary`
extends both: `poolStart` and `poolEnd` are `start` and `end`, `chunkSize` is
`allocSize`. So it is in `ColumnCache`.

**Allocator.** One thread, one step per call. The pieces come from the pool, at any
address. `free` is a number here, of which `TypeOK` says that it never goes below
zero, where the `size_t` of the code would wrap.

**Hashmap.** A hash is an element of a set, and constants say which bucket and which
tag it has, so that keys can collide in the bucket, in the tag or in the whole hash.
Every load and compare-and-swap of a head word is a step, every `next` a walk reads,
and `nrEntries += n` is two. `compare_exchange_weak` may fail for no reason. A thread
writes `next` of its entry together with its load of the head: nobody else reaches
the entry before it is swapped in. `findOrCreate` and `clear` need the table alone,
as their callers do. The pairs of classes and methods with and without tags differ in
`UseTags`. `chain` and `right` are history; `chain` is also where the refinement
mapping takes the set `stored` of `EntryStore` from. A lookup takes effect when it
reads the head.

**HashJoin.** The work items of `hashBuild` run in any order, test and write of a slot
are two steps. `BuildParts` and `ProbeParts` are the numbers written into the
kernels, `Ratio` the one by which `execute_node` gets the number of work items from
the size of the input: nothing in the code makes the three agree, and the model
does not either. What is behind a buffer has any value. An item of `hashProbe` reads
what nobody writes and is one step.

**Query6.** One step per kernel where the items write words of their own; the items of
`aggregate_block` add to one word and are steps. A bitmap is the set of its bits, a
word has `Block` bits as well. `AsInts` is what reading a column of 64 bits as `int`
gives; `Number` is the sign of an `int`, which the C++ layer compares with and OpenCL
does not; `Flag` is what shifting down the highest bit gives in either layer. The sum of
a block is a recursive function over its positions, `SumUpTo`.

**MorselPipeline.** Per device three places: `thread_processing` (`Executes`), and the
two threads it starts, `transfer_data` and `process_data`. Sizes are in morsels of the
operation that reads. `present` is what the data dictionary has of an edge, `right`
what has been filled, and with the right data. The order of the queue is the one
`create_bfs_execution_pipeline` gives. A failing call or an exception ends the program
(`failed`). `late` is history: the operations that were taken before one they read
had ended.

**ColumnCache.** A version of the table is a number, and each value of a file is the
version it was written from, or 0. `Die` ends a start between any two steps, also
between two places of one `memcpy`, which writes in any order. `Replace` makes a new
`.tbl` file while the program is down. `mkdir`, `open`, `posix_fallocate` and the
comparison of sizes are what the code makes of them, with the test of `mkdir` the
wrong way round.

## 3. The runs

| run | instance | shows |
|---|---|---|
| `handshake` | one device, three vertices, any number of rounds | exclusive unlocked writes, no lost wake-up, current answers, the refinement of `DeviceRendezvous` with its liveness: every vertex handed over is executed and answered |
| `scan_load_query1` | the second graph of query_1: 15 columns, 8 aggregations; the counter at 14, as the first graph leaves it | *violated*: see below |
| `graph` | the shape of query_6 in small: 4 operations, 3 columns, 2 devices, all 16 placements, both layers, 3 counters, all flattenings | types, right results and right inputs of every kernel, as far as no earlier reader has moved one away; it ends, and crashes for no other reason |
| `exchange_tree` | graph of `test_exchange_graph.cpp`, 2 devices, any garbage in `process_vertex` | producers first, one device never misses, vertices stay with their device, repeats come last, inputs in place in a tree, every operation runs |
| `exchange_repeat`, `exchange_fan_out` | 2 devices; the tree, and a graph with one result that two operations read | *violated*, one promise each |
| `kernels` | join: 3 work items with 2 keys each, 2 parts of the probe side; query_6: two blocks of 4 rows and one row more, both layers | types, no key lost, the join is right, query_6 shows what its kernels are to compute |
| `query6_statement` | the same tables | *violated* |
| `morsel_pipeline` | 2 devices, 3 selections and 2 logical operations, 4 morsels, of which 2 make one of a bitmap | types; right morsels and no error up to the first operation that is taken too early; whoever ends, however early it was taken, has processed exactly its morsels; termination |
| `hierarchic_barrier` | 4 threads, barriers of 3: one full leaf, one for the rest, a root; `round` of one bit; any number of rounds | finalizer alone, nobody lapped, one thread told, the refinement of `BarrierPromise` with its liveness, no deadlock |
| `hashmap` | 2 threads, 3 entries of 2 keys in one bucket, with tags; cleared and filled again | whole chains, tags that cover them, a size that does not overestimate, the refinement of `EntryStore`, every call ends |
| `library` | `Allocator`: 4 allocations of 3 sizes, pieces at 9 addresses of every alignment; `GlobalPool`: 2 threads, 4 allocations, 3 places for chunks; `WorkerGroup`: groups of 1 to 30, barriers of 3; `ColumnCache`: 3 columns, versions of 1 to 3 rows, 4 starts that fail or die | types of all four; disjoint blocks within their pieces and chunks; barriers that get as many as they count, each freed once; columns of one size, zeros only in the last one, one failing start |

The type invariants of the other modules, and invariants such as `EntriesOccurOnce`,
are theorems (section 4) and not checked a second time by a run.

Deadlock is checked in `hierarchic_barrier`, whose threads come back for ever, and
in no other run: the allocators, the pool and the starts are cut off by their bounds,
and all other programs end, and a state in which they have ended has no successor.
That they come to that state, and not to another one in which nothing moves, is what
`ImplementsRendezvous`, `QueryFinishes`, `EveryOperationRuns`, `TimelyOperationsEnd`
and `CallsEnd` say.

**Bounds.** One device pair is enough for the handshake: devices share nothing in
it. Three vertices are more than the two (this round's and the last one's) that a
stale answer needs; the number of rounds is not bounded. In the graphs, two
devices are the least for a race and all races of the findings are between two;
four operations are enough for a fan-out, a join after it, and a device that is
idle when the queue drains. The tree needs no more than the test has. The queue
has its real capacity of 20; `EveryOperationRuns` holds up to it. What is pushed
beyond it is dropped, as the result of `push` is ignored (`Pushed`); a graph of 21
operations has more orders than can be enumerated. The counters of `graph` are 0,
exactly the number of columns, and beyond. No counter of the query models is cut
off.

A one-bit `round` is the hardest case: if one bit is enough, a byte is. Four
threads and a fan-in of 3 are the least with a full leaf, a partly filled one and a
level above; a group of 5 with a fan-in of 2, which has three levels, was also
checked, and the proof covers every tree. Thirty threads and a fan-in of 3 make up
to four levels with all remainders; the code's 8 changes only the base of the
arithmetic. In the pool the chunks grow from 2 to 8 and are smaller than two requests, so that
every second call refills (with three threads: 12 million states, no violation); the
proof has no bound. `Alignment` of the allocator is 4 instead of 64, and the addresses
and sizes cover all remainders; one size is more than twice the first piece.

For the hash map three entries are the least at which an insert can lose against
another one while a lookup is in the middle of the chain; two of them have the same
key, the third has another hash and another tag in the same bucket. The join has the
proportions of `main` (96 parts, 32 keys each) in small: as many items as parts, a
probe side with one item too many, one with a rest; and a build side that is too
short. Blocks of 4 rows instead of 32 change only the width of a word: the tables
have rows that pass all tests, that fail one, and a product that overflows. The morsel
pipeline needs a second logical operation for one that reads another's result and a
selection at the same time. Three columns are a first, a last and one between; two
deaths, one of them over files of another version, already give every kind of file
there is.

**Fairness.** In the handshake, weak fairness of the two threads: the mutex has
no third contender and neither thread can be disabled forever by the other one
taking it. Nothing is assumed of the transfer before a vertex is handed over, of
the end of the loop, or of spurious wake-ups. `execute_graph` is one thread that
runs when it can. In the exchange, weak fairness of each device: devices are
operating-system threads, they block only in the spin, whose end is stable once
it is possible. In the barrier, weak fairness of every thread that is in `wait`: it
runs or spins and is an operating-system thread. That a thread comes to the barrier
at all is not assumed; the promise is only that when all have come, all leave. In the
hash map, weak fairness of each thread that is in a call, and strong fairness of the
compare-and-swap that succeeds: the processor does not fail it for no reason for ever.
That a call is made is not assumed. In the morsel pipeline, weak fairness of each of
the three threads of a device, none of which holds a lock. The allocators, the worker
group, the kernels and the column store have safety properties only.

### What the violated runs found

- `scan_load_query1`: `load_data` compares `data_pointer` also of edges it has
  already rewritten. The second graph of query_1 starts with the counter at 14
  and keys 1 to 15: column 1 gets alias 15, and when key 15 is loaded, the edge
  of column 1 is taken for it. `ScanEdgesHoldTheirColumn` is the property, and
  `AliasesClearKeys` the condition under which it is proved for every graph; `graph`
  starts with counters that meet it.
- `exchange_repeat`: a failed `pop` is not noticed and the device executes its
  last vertex again, with its inputs appended a second time.
- `exchange_fan_out`: a device moves a shared buffer away from another device
  that is about to execute its own reader.
- `query6_statement`: both bounds of a `between` are tested from below,
  `(c1 <= x) && (c2 < x)`, in the kernel (`selection_between_block.cl:10`) and in the
  primitive (`primitives.cpp:22`), so that the dates and discounts behind the upper
  bound are selected. `TPCH::get_data` hands out every column as `int`, which makes
  two of each `Numeric` of 64 bits, and 24 is compared with hundredths. With the
  columns of TPC-H only lower halves exceed the bound of discount, and only upper halves,
  which are 0, are below the one of quantity: no position passes both, and the answer
  is 0. The sum itself stays on the device: the edge to the
  end vertex comes from the product. `AnswersAreRight` shows that apart from this the
  bits of the bitmaps lead to the right rows, in both layers.

Some more things the code does not guarantee are premises, not runs.

- `NoneDeprived` in `graph`: `transfer_data` moves a buffer, so that a later reader of
  the same buffer looks for it where it no longer is (`primitive_graph.cpp:174`), with
  a look-up nobody compares with `end()`. Such a vertex is `Deprived`. With OpenCL the
  kernels that start before the first one get what they should, the C++ layer,
  which keeps a copy, is right with every placement that finishes. `QueryFinishes` says
  that a deprived vertex is all that can crash the loop.
- `TreeInputsArrive`: in a graph without fan-out, as long as no two devices were in
  `get_alias` at once and got one alias (`AliasesAreDistinct`) and no pop failed, every
  input is in place. The unprotected counter can really give one alias twice, and even
  go back; no property says that it does not.
- `TimelyResultsAreRight` is about the operations before the first that was taken late
  (`InTime`): `run` takes an operation from the queue when a device is idle, not when its
  inputs are made. A late one replaces the name of a buffer that has none, and throws; or
  reads what is not computed yet; or takes a size that is not settled, and its threads
  fail, or wait for morsels that never come. What a late one never does is to end as if
  nothing had happened: `EndedAreWhole`, which has no premise, says that an operation
  that ends has processed exactly its morsels, no fewer for having been sized by an old
  value of an edge, and no more. Whether their contents are right is not in it.

## 4. The proofs

All are safety, or what is safety in a liveness property, for every value of the constants that satisfies the named
assumptions.

| assumption | says |
|---|---|
| `MarkerIsNoVertex` | the marker is no vertex |
| `ScanAssumption` | edges leave vertices, in-edges are edges, keys are numbers |
| `GraphAssumption` | an edge enters one vertex, once; every vertex but the scan has in-edges; edges of the scan have keys of columns; nothing leaves the end vertex |
| `ExecutorAssumption` | finitely many vertices, two layers, a placement gives each operation a device |
| `ExchangeAssumption` | finitely many vertices and devices, the capacity is a number, garbage is an index |
| `MorselAssumption` | there are two selections; the rows are whole words of a bitmap; `None` is no device and no number |
| `BarrierAssumption` | barriers and threads form a finite tree, every barrier has a member, `threadCount` is the number of members, `round` has two values or more; that `create` builds such a tree is `CreateBuildsATree` |
| `FanInAssumption`, `MaxSizeAssumption` | a barrier is for more than one, a group has a thread |
| `AllocatorAssumption` | alignment and sizes are positive numbers |
| `PoolAssumption` | sizes, addresses and the header are positive numbers, `Nobody` is no thread |
| `StoreAssumption` | there is a column, every version has a row |
| `HashmapAssumption` | the maps from entries to keys, hashes, buckets and tags are functions, the entries are finitely many |
| `HashJoinAssumption` | arrays are finite, not empty and hold numbers; numbers of parts are positive |
| `Query6Assumption` | a word has an even number of bits (the halves of a 64 bit value fall into one block); 2 to that power is a positive number, which the provers, who have no exponentiation, cannot find out; a table is a sequence of rows |

All are assumed by their modules but those of the pool and of the column store, which
are premises of the theorems; `MCLibrary` asserts them (`LibraryAssumption`).

Some theorems have premises beside these, each a condition that the code does not
ensure and without which TLC finds the property violated:
`AliasesClearKeys` (loading, and whatever reads a column), `OneReader`
(`InputsArrive`), `StraysAreServed` (`NoDeadlock`), `NoneDeprived` or the C++
layer inside `ResultsAreRight` and `KernelsStartOnRightInputs`, and `InTime` inside
`TimelyResultsAreRight`. Three more are harmless
and only the proofs of progress need them: there are finitely many columns
(`IsFiniteSet(Columns)`, in `RunsEnd` and `LoopEnds`), the graph has an order
(`TopologicalOrders(Vertex) # {}`, in `LoopNeverBlocks`), and there is a device
(`Devices # {}`, in `NobodyWaits`).

**DeviceHandshakeProofs.** The invariants of the handshake are not inductive:
nothing in them says that the worker is outside its section while the
coordinator prepares a vertex. `IInv` adds, for every place of the coordinator,
where the worker can be and which of the two flags can be up. In particular,
between two rounds both flags are down, and in a round the vertex is handed over
(`ready`), in work (the mutex is held), or answered (`processed`). From it follow
`TypeCorrect`, `NoDataRace`, `WakeupsReachTheirThread` and `AnswersAreCurrent`,
and `Implements`: under `Phase` every step of the two threads is a step of
`DeviceRendezvous` or a stutter.

**QueryGraphProofs.** `LoadIsRight`, and what the steps of one vertex do, for both
executors. `ScanInv` says of every scan edge that it
still has its key while that is to be loaded, and afterwards leads to its column
under an alias no later round takes for a key. The last part needs `Clear`: the
counter is past all keys, or the keys are 1 to n and the aliases are handed out
in step with them. The insert into the dictionary does place the column because
no buffer has an alias the counter has not reached.

**GraphProofs.** That a kernel starts on the right inputs says nothing of the buffers of
edges further down the graph, so the invariant has to, in two layers. `Shape` is where the
loop is: the vertices it is through with are a prefix of the order, their out-edges lead
to aliases the counter has handed out, vertices not come to have neither inputs nor
outputs, the current one has the inputs `set_input` has been through and, once they are
complete, the newest buffer as its output. This needs nothing of what buffers hold and
gives `TypeCorrect`. `Content` is what they hold. `Distinct`: edges lead to
one buffer only when they have one source. `Waiting`: until an operation has
taken an edge, its buffer is on the device of its source and nowhere else, unless a reader
that came earlier took it to another one (`MovedAway`). `Arrived`: what the current vertex
has taken is on its device, unless it is `Deprived`. Where the buffers are follows
without looking at the rest of the queue; what they hold needs that no vertex so far was
deprived (`NoneDeprived`), as such a vertex leaves something wrong, which spreads.
`HostCopies` replaces both in the C++ layer, where the copy on the host
stays. The step between the state and the order of the queue is `ReadInVain`: a buffer that
was moved away is one that an earlier place of the queue took, which is what `Deprived`
says. The order of the flattening is used once more: the source of an in-edge is done. From
it `ResultsRight`, `KernelsStartRight`, and `NothingIsMissing`: the look-ups the code
does not compare with `end()` fail at a deprived vertex only.

**ExchangeProofs.** The invariant has five parts beside the types.
`ReadyIsProduced` and `InputsWereReady` connect the flag on an edge with the
execution of its source and with the devices past their spin; they give
`ConsumersWait`. `Flow` says that what is queued was not taken and nothing is
taken twice; it gives `DevicesKeepApart`. `LastTaken` says that a pop has failed
only if the queue is empty, and that then the device that took the last vertex
is past its pops for good; it gives `OneDeviceNeverMisses`.
`OnceUnlessMissed` says that before the first failed pop a vertex in hand was
popped by that device and not yet executed; it gives `OnceUntilDrained`.

`InputsArrive` needs a second invariant, `Data`, on top of the first. As long as no pop failed and
no alias was shared (`Good`), it says what `Content` says in the sequential executor, with
many vertices in work: `Waiting`, `Arrived` and `Distinct` as there, `Newest` for each
device that is about to execute, and `Reads` for one that has read the alias counter and
not written it: its alias is the next one, or another device has got it meanwhile, and
then writing it makes `AliasesAreDistinct` false. That condition is on the state and
would be of no use if it could come true again; it cannot, as aliases stay in
`output_data` (`Data` is carried over a step only if `Good` holds after it). `OneReader` is used where a buffer moves: the one edge it
was waiting on is the one that is being taken.

`NoDeadlock` and `AllWasExecuted` are what is safety in `EveryOperationRuns`, for every
graph. The third invariant, `Progress`: the queue holds producers before their readers, and
none that a taken vertex waits for (`InTurn`); what was pushed is there or was taken, with
its producers (`Lots`); and what a device took is executed and published, or in its hands
(`Accounted`). So a device that spins waits for a vertex in the hands of another one; if
that one spins, too, it has an earlier vertex in the topological order, and the earliest of
all such vertices cannot be waiting. A vertex that a failed pop repeats from a fresh
`process_vertex` was not taken from the queue (`Strays`); it has its producers there
if all operations fit, and this, or garbage that is no vertex, is the premise
`StraysAreServed`. It is needed: with a capacity of 2 and the diamond of `MCExchange`, TLC
finds a device whose stray vertex waits for one that was never pushed.

**BarrierProofs.** The properties speak of the root and of the leaves, the
invariant has to speak of every barrier between. `Places` says which
stacks a thread can have at each step. `Counters`: `cntr` of a barrier is the number
of its members that have not come, and for each of those that have there is a thread
that spins there, or is about to reset the counter. `LastIsAlone`: the one that
resets it is the only one and all have come. `HeldIsStill`: a thread holds the
barriers between its leaf and what it stands for; below such a barrier all other
threads spin with the round in hand that their barrier still has, nobody else holds
it, and all counters are reset. `Rounds` connects this with `arrived` and
`released`. `FinalizerIsAlone` is `HeldIsStill` at the root, whose subtree is
everything; `NoLapping` is `HeldIsStill` at the barrier that is being opened,
whatever the number of values of `round`; `OneAnswer` and `Implements` follow from
`Rounds`.

The second half is about the group: for every number of threads and every fan-in,
`create` and `run`, which count on their own, agree. The widths of the levels are
repeated divisions (`WidthIs`, `OneMore`); the i-th of a level belongs to barrier
`(i - 1) \div threadsPerBarrier + 1` of the next (`ParentIs`), which is also what the loop
of `run` counts (`Filling`), a barrier counts a whole portion or the rest
(`CapacityIs`), and what `destroy` collects of a level is the next level in order,
without a repetition (`CollectedIs`), so that each call frees barriers of its own
(`Freeing`). The level theorems are inductions on the level, and are proved by the least
level at which they would fail, as the library's induction theorems cannot be
instantiated. From it `GroupTypeCorrect`, `Filled` and `FreedOnce`.

`CreateBuildsATree` joins the halves: the barriers of `create`, with the threads below
them, satisfy `IsTree`, the premise of the first half, for every number of threads and every
fan-in; `RunGivesPlacesOfTheTree` says that `run` hands out the places of that tree. The
subtree under a node is not defined by recursion but as the least set that holds the node
and goes down from each node in it (`LeastSubtree`): to show something of a whole subtree
is to show that it is true of the node and goes down. With levels that rise by one from
a node to its parent (`Levelled`) this gives the order the first half uses: a node is not
below its members, subtrees with a common node lie in one another (`Comparable`), and
everything is below the root (`AllUnderRoot`). The parents and counts come from `ParentIs` and
`CapacityIs`.

**LibraryProofs.** *Allocator.* `AllocatorInv` adds to the properties that the rest of
the current piece lies in that piece and touches no block. `CutOffIsSafe` is the common
end of both ways through `allocate`: cutting from unused room keeps this. What has to be
shown of the two ways is that the room suffices: for `Refill`, that
`Alignment` bytes are enough for whatever the second padding is.

*GlobalPool.* `PoolIsSafe`. What could go wrong is a compare-and-swap on
`start` that succeeds with a stale `end`. The argument is that `start` passes each
address once: within a chunk it only grows, and chunks do not overlap and have a header
before their data, so that a `start` that is found again is of the same chunk, and
nothing was cut off it meanwhile. `LoadsArePast`: whatever a thread has loaded from
`start` is not a value that `start` has yet to come to. `SwapsAreSafe`: if `start`
still is what a thread about to swap has loaded, nobody refills and there is room.
This is where the order of the two stores is needed: with `end` first below the old
chunk and `start` first above it, no thread sees a `start` of one chunk and a higher
`end` of another that look like room. `StartAndEnd` says where the two are at each
step of a refill: once the old chunk is drained, `start` is its end, and who loaded
that has seen no room.
`PoolTypeCorrect` includes who owns the mutex at which place.

*ColumnCache.* While the `.tbl` file is the same, `InOrder` says that all columns
before one that is there are whole, and so are those before the one that is written:
a start writes them in order and begins anew at the first. This is why a death is
found out in all columns but the last: once the last one is there, nothing is
missing. `Undisturbed` says the same, and more, of a history without deaths: files are
all there or none, those behind the one that is written are not yet, and one start
has failed if the directory is there. `Reading` connects `columnSize` and `diffs` with
the columns read so far: the first one differs from no column, so that `diffs` is 1
exactly as long as one size was seen. From it `OneSize`, which holds of new versions
and deaths alike, `OnlyLast` and `OneFailure`.

**OperatorProofs.** *Hashmap.* `IInv` adds to `ChainsAreLinked` and `TagsCoverTheChain`:
an entry in hand is in no chain, no batch has what another thread has, what is fresh
nobody has, and the entry a lookup has reached is in the chain of its bucket with all
matches it could still return behind it. From it `TypeCorrect`, `NothingIsCutOff`, `NoRings`,
`TheFilterHidesNothing`, and `HashmapKeepsEntries`: each step is a step of
`EntryStore` or a stutter. `SizeStaysBelow` needs to know which entries `nrEntries` lacks.
`Counting` says that each thread has a set of entries it has swapped in and has yet to
count, disjoint from those of the others, and that `nrEntries` is at most the number of
all other entries in chains, also with what a thread between its load and its store is
going to write: the lost update of `nrEntries += n` loses, it never counts twice.

*HashJoin.* The work items of `hashBuild` use no atomic operation, so they must not meet.
`BuildIsRight`: each item stays in its own segment, the slots taken there hold its keys so
far, each in one slot (`Placed`); from the place a key hashes to, up to where it is, no slot
is free (`Runs`); and so it is with the key in hand (`Searching`). That a search ends
before its segment does is a matter of counting: a segment has as many slots as keys, and
`Placed` leaves one for the key in hand. `Regular`, the premise of
the two properties, is the agreement of the three numbers that nothing in the code
makes agree. `ProbeIsRight` says the same of what is found. From it `JoinTypeCorrect`, `KeysKept`, `JoinRight`.

*Query6.* `Bitmaps`, `Products` and `Summing` say what each buffer holds once its kernel
has run. The bit of a row leads back to this row in the materialisation, in spite of
the width that the two layers read differently; with an even width the last position of
a block is the upper half of a value, which is 0, so that what the layers make of the
highest bit (`Flag`) does not show; and the sum is that of the blocks added so far,
whatever their order, cut to a word (`InPortions`: the sum over all positions is the sum
of the sums of the blocks). From it `QueryTypeCorrect` and `AnswersRight`.

**MorselPipelineProofs.** `Control`: where the two threads of a device can be, and that no
two devices have an operation in common. `Sizes`, which holds whenever an operation was
taken: nothing is processed beyond the size, and an operation has ended only at its limit,
which is no less than its true size. That the limit is no more either, which `EndedAreWhole`
needs, is not so: an operation that went by an old size of an edge has a limit of as many
morsels as there are rows, not words of a bitmap. But it never gets there. `NothingBehind`:
the second input of a logical operation is a selection, whose size is right from the
first, so a morsel behind the words of a bitmap exists only while `transfer_data` tries to
copy it out of that input, which fails; and without the morsel `process_data` spins. From
it `OldSizesAreNoticed`. `Timely`, for every operation before the first that was taken late:
one that has ended left its whole result under the
right size (`Complete`), and one in work has processed, of the morsels brought, only those
before the next (`OnTime`), while the morsels of an edge that were brought are those
counted by `fetched_until`, and one more between the two edges of a logical operation
(`Brought`). Without `Complete` an operation could not know the size of its inputs,
without `Brought` it could process what has not come. As inputs have smaller numbers, what
an operation in time reads was in time, too, and nothing a late one does reaches it. From it
`TypeCorrect` and `TimelyResults`, for every number of devices, selections and rows.

**What is left to do goes down.** Something happens in the end if three things are so:
somebody who has not finished has an open guard, each step leaves less to do, and the
scheduler lets whoever can go on go on. The first two are safety, and are proved for five
components; the third is the fairness, and is with TLC. `Ranks` has the measure: a
triple of numbers for each actor, the first place counting most, compared actor by actor.
`FamiliesEnd` in `QueryGraphProofs` shows that over finitely many actors such families cannot
go down for ever.

| component | somebody can go on | each step leaves less |
|---|---|---|
| `GraphExecutor` | `LoopNeverBlocks` | `LoopEnds`: vertices to visit, place in the round, columns or inputs left |
| `ExchangeExecutor` | `NoDeadlock` | `RunsEnd`: columns to load and whether the devices have started, then for each device: queue, place in the round, inputs left |
| `MorselPipeline` | `NobodyWaits` | `ThreadsEnd`: for each thread: queue, place, morsels left |
| `HierarchicBarrier` | `NobodyIsLeftBehind` | `CallsOfWaitEnd`: whether it arrives, spins or opens, then how far up or down the tree it has to go |
| `Hashmap` | a lock-free structure has no guard that waits | `CallsComeForward`: entries not swapped in, place, entries of the chain left |

In the exchange, a device that misses a pop goes on with whatever `process_vertex` holds
and repeats what was done, which looks like more work. But the queue was empty then and
stays so, and the device ends after this round. A pop that finds a vertex begins a round,
too; the queue, which is shorter then, pays for it.

In the pipeline a thread that spins for a morsel can go on only if the other thread of its
device brings it. `Underway` says what makes this so: an operation that is neither queued
nor ended is in work on some device, a buffer that was filled is there, and `transfer_data` is
amid a morsel as long as it has one to bring. The part about one device asks that its operation is in time,
the part about all of them that none was late; without this TLC finds an operation that was taken too early, `transfer_data` through with it, and
`process_data` spinning for a morsel that nobody will bring.

In the tree of barriers no thread knows who it waits for. `Waiting`: who stands still at a
barrier is counted there, or somebody holds the barrier and will open it. `LastGoesOn`: if all
members of a barrier have come, one thread is about to reset it. Of the subtrees in which a
released thread still is, the largest is that of a thread which opens it or has been let
go. If all were inside and stood still, there would be a smallest subtree that nobody
stands for, with a member that has not come: either a smaller one, or a thread outside. A
barrier without members would be full before anybody came, and then nobody would open it,
which is why `IsTree` asks for one; `CreateBuildsATree` shows that `create` builds no such
barrier.

In the hash map, a step of one thread must not set back another one, and a successful
compare-and-swap does: it makes the word that others have loaded stale. But it also takes one
entry from those not yet linked, which all threads count first, so each rank goes down. A
stale word costs one failure, after which the loop is where it was with a fresh one. The
one step that lowers nothing is a `compare_exchange_weak` that fails though the word is
the same; the property names it.

Only model-checked: liveness (`QueryFinishes`, `EveryOperationRuns`,
`TimelyOperationsEnd`, `CallsEnd` of the hash map, and the liveness parts of
`ImplementsRendezvous` and `KeepsPromise`), which is out of the reach of the prover: that an
action whose guard is open is taken, and the step from a rank that only goes down to an end
of it, are left to TLC. `KernelsTypeOK` and
`PartsTypeOK` join the type invariants of modules that share a run; each of those is
proved.

## 5. What is not modelled

- In the executors, sizes, parameters and values: there a kernel is right or wrong as
  a whole. `HashJoin` and `Query6` have the values of two queries, but not the
  executor around them. Of query_1 only the loading is modelled: its kernels and the
  grouping by the host (`query1.cpp:252-264`) are left out.
- `compile_task` is taken to succeed for every operation; the kernel dictionary
  is left out. The scan and display vertices have no kernel: executing one of
  them, which only garbage in `process_vertex` can cause, is undefined.
- Failing OpenCL calls, other than those the model runs into itself.
- The corruption of `std::map` by unprotected concurrent access: dictionary calls
  are atomic, only what they leave in the dictionary is modelled. `transfer_data`
  is atomic as well: with two devices an observer of its intermediate states sees
  a buffer that is there, as before the move.
- Reads of `bool` flags without synchronisation are taken to see the latest value;
  the build has no optimisation level set, so the spin reads memory every time.
- query_6 reads one column in two operations by loading it twice
  (`query6.cpp:50`, "re-using data of data is not currently supported"); the
  reuse of a scan edge's buffer is covered by the fan-out of operations.
- The threads of a worker group: pinning, the task group of TBB and whether it
  runs all workers at the same time, a group of size 0.
- `mmap` that fails, and `ResetableAllocator`, which nothing uses.
- Hash maps: the lookup with SIMD instructions, `HashmapSmall` and `Hashset`, which one
  thread uses, `setSize`, and the hash functions. Atomics are sequentially consistent;
  the code asks for less in the lookups, where only what was swapped in is read.
- Morsel pipeline: the sharing of one operation by two devices (460-536), which `run`
  switches off in line 312; races inside `std::map`. The file is not part of the
  build. A sub-buffer is taken to be the memory of its buffer from an offset on.
- Column store: the parsing of a line, the catalogue of tables, strings. A table without
  rows (`StoreAssumption`): its files cannot be allocated. What the operating system
  loses of a mapping when the machine fails and not only the process.
- The components with status `not_modelled` in `PROJECT.json`, each with its
  reason. Much of the text of the repository has no behaviour to model: the JSON
  library (20406 lines) and what CMake wrote to find the compilers (more than 2600) are
  neither written here nor used by the queries beyond reading a file, and the types,
  hash functions and plan classes of `TPCH/common` are stateless code of one thread.

## 6. Plan

The order is that of importance for the program; done parts are marked.

1. Handshake and rendezvous, with proofs. *Done.*
2. Loading of columns, with proof. *Done.*
3. Sequential executor. *Done*, with proofs.
4. Exchange executor, with proofs of its order, of the confinement of failed
   pops, of the inputs in a tree and of the absence of deadlock. *Done.*
5. `KernelDictionary` and `Environment`: compilation per device from several
   threads, names of devices; composed with the exchange.
6. Hash kernels against a reference definition of the join; the C++ primitives against
   the kernels. *Done* for the hash join and query_6, with proofs; left: the kernels that only
   query_1 uses.
7. `Barrier` and `HierarchicBarrier`: abstract barrier, refinement, proofs; the worker group
   that builds the tree. *Done*, with proofs.
8. `MemoryPool`. *Done*, with proofs.
9. `Hashmap`: concurrent insertion. *Done*, with proofs.
10. Morsel pipeline. *Done* as far as `run` uses it, with proofs; left: sharing of one operation.
11. Column store over deaths of the process. *Done*, with proofs.
12. `Stack`, `PartitionedDeque`: steps of iteration, partitions that cover every
    element once. Date conversions against a reference calendar over bounded inputs.
