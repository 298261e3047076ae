# A TLA+ verification of MapEmbed

This project models the hash tables of this repository in TLA+, checks the models with TLC
on small instances, and proves properties of them with TLAPS for every value of the
constants. The core is the MapEmbed table of `CPU/MapEmbed`; its benchmark driver, the
dynamic perfect hashing table it is compared with and the look-up pipeline for FPGAs are
modelled too, and so are the minimal perfect hash functions of CMPH that it is compared
with: the C library and the hash maps of its C++ port, cxxmph. The other parts are
inventoried below.

## The system and its parts

| part | source | state | operations | here |
|---|---|---|---|---|
| MapEmbed table | `CPU/MapEmbed/MapEmbed.h` | cell values per layer, buckets with their slots and check flags, number of buckets, hash seeds | `insert`, `query`, `extend`, `calculate_bucket_items` (and two figures computed from it) | `MapEmbed` |
| what it promises | | the set of stored pairs | insert, lose during a failing insert, query, count | `HashStore` |
| bitmaps, slot arrays | `MapEmbed.h:149-195, 228-244, 296-311` | bits of an int; order of the slots | rotate, remove in place | by their meaning in `MapEmbed`; as they are in `BucketSlots` |
| benchmark driver | `CPU/MapEmbed/main.cpp` | position in the array of pairs, failure counters | load ten times, load, query, expand, load on | `MapEmbedDriver` |
| dynamic perfect hashing | `CPU/ComparedAlgorithms/DynamicPerfectHashing` | two levels of tables, operation counter `cnt` and limit `M` | `Insert`, `RehashAll`, `Delete`, `Lookup`, `Initialize` | `DynamicPerfectHashing` |
| CMPH constructions | `CPU/ComparedAlgorithms/cmph/cmph-master/src`: `chm.c`, `bmz.c`, `bmz8.c`, `bdz.c`, `bdz_ph.c`, `fch.c`, `chd_ph.c`, `chd.c` and what they call | hash functions, tables of labels or displacements | build, search, dump, load, pack, search packed | `Chm`, `Bmz`, `Bmz8`, `Bdz`, `BdzPh`, `Fch`, `Chd` over `CmphGraph`, `Succinct`, `CmphFormat` |
| CMPH interface | `cmph.c`, `cmph_structs.c` | the configuration, the function | settings, `cmph_new`, `cmph_dump`, `cmph_load`, `cmph_pack`, searches | `Cmph` |
| CMPH on files | `brz.c`, `buffer_manager.c`, `buffer_entry.c` | temporary files, their buffers, sizes of buckets | partition, merge, a function for each bucket | `Brz` |
| hash maps of cxxmph | `cmph-master/cxxmph` | cells, the slack, the index | `insert`, `operator[]`, `find`, `erase`, `clear`, `rehash` | `MphIndex`, `MphMap` |
| what they promise | | a function from keys to data | insert, assign, erase, clear | `UnorderedMap` |
| key sources, command lines, tests, containers nothing uses | `cmph.c:56-291`, `main.c`, `cmph_benchmark.c`, `vstack.c`, `linear_string_map.c`, `cxxmph` tests and benchmarks, `cmph/cmph.c` | | | not modelled: straight-line input and output |
| FPGA look-up | `FPGA/*.v` | pipeline registers, three RAMs, the state machine of port b | hash, read, select; read and write by port b | `LookupTable`, `DualportRAM`, `LookupPipeline` |
| Murmur hash, key generation, SIMD search | `murmur3.h`, `MapEmbed.h` | | | the hash functions are constants of the models; the SIMD branch is not built by any Makefile |

How they interact. The driver calls the table; the table is sequential, and there are no
threads or callbacks. Within the table the parts interact through shared state in a
way that is hard to follow: the cells of all layers choose among the same buckets, the value
of a cell decides where all the pairs of that cell are, a bucket may hold stale copies of
pairs of any cell until it is checked, and `insert` calls itself for the pairs of a cell
that it closes. In the FPGA everything happens on every clock: look-ups move on through
registers, port b of each table goes through its states, and the reset cuts across both. The
FPGA is to hold the cell values that the CPU table computed and to repeat the first half of
`query`. The compared algorithms share nothing with the table.

A user of CMPH makes a configuration for a source of keys, calls the setters in any order,
and `cmph_new` hands over to a construction. Each construction draws hash functions, builds
from them a graph or a set of buckets, and tries again when the draw is no good, in one or
two nested loops with limits. What it returns is written to a file, read back, packed into a
block of memory and searched in it by functions that share no code with those that built it.
`brz`, for key sets larger than memory, writes the keys to temporary files sorted by bucket,
merges these through small buffers, and calls `cmph_new` with `fch` or `bmz8` for each
bucket. `chd` builds on `chd_ph`. In cxxmph, a map keeps new pairs in an ordinary table, the
slack, until a `pack()` finds a new perfect hash function for all of them.

What makes it hard, part by part, and what makes it correct:

- *MapEmbed table.* One insert may move the pairs of a cell, close the cell and send its
  pairs to the next layers, closing more cells. `dispense_kvs` ignores the results of its
  inserts. A lazy `extend()` leaves stale copies that are dropped later, or not at all.
  Correct means: a pair that was inserted is where a query will look for it, unless an
  insert that returned false lost it; moving a cell disturbs no other cell; stale copies
  never come back as pairs; insert returns.
- *Driver.* A failure counter is shared by loops that should each have their own, and a loop
  runs one entry past its range. Correct means: each load stops at the eighth failure, the
  queries notice every loss, and the load after the expansion does not store pairs again.
- *Dynamic perfect hashing.* Two levels of random hash functions, redrawn until they fit,
  and a table-wide rehash in the middle of an insert. Correct means: the set of stored pairs
  is kept by every rehash, no table is read outside its bounds, and the redraw loops can
  end.
- *FPGA look-up.* Four look-ups are in flight in shared registers, half of which are reset
  on one edge and half on another, and port b reads its inputs again on each clock. Correct
  means: a result comes out for every key, in order, four clocks later, and is the cell of
  the layer the CPU would choose, while port b carries out each of its requests once.

- *CMPH constructions.* Randomised algorithms that test their draws (is the graph free of
  cycles, can the core be labelled, does every bucket find room) and go on from the state
  that the failed draw left; labels in two bits, a byte or a compressed sequence; the same
  function computed by three searches over three layouts. Correct means: a function is
  accepted only if it is perfect, the three searches agree, what is packed fits, and each
  construction ends.
- *CMPH on files.* Buckets that come together from several files, read through buffers that
  end in the middle of a key, and attempts that start where the last one failed. Correct
  means: each bucket is made of its keys, all of them, and their numbers are those of
  0 .. m - 1.
- *Hash maps of cxxmph.* Pairs are found by a hash in the slack or by the index that the
  last `pack()` built; erased cells and old indices stay. Correct means: a map.

The list of hazards, each at its line, is in `PROJECT.json`.

## Modules

- `HashStore`: the abstract specification. A set of pairs; an insert adds one; a running
  insert may lose any pair, and then returns false; a query answers one of the stored pairs
  with its key, or none if there is none; a count is at least the number of stored pairs.
- `MapEmbed`: the table, its properties and its inductive invariant.
- `BucketSlots`: extends `MapEmbed` with the code that it abstracts to sets: the loops over
  the slots of a bucket, and the bitmaps of guides.
- `MCMapEmbed`: instances for TLC (pairs, hash functions, layers and cells, symmetry).
- `MapEmbedProofs`: lemmas and theorems about `MapEmbed`: its inductive invariant, that it
  implements `HashStore`, and that the loops over the slots and the bitmaps of `BucketSlots`
  do what `MapEmbed` makes of them.
- `MapEmbedDriver`: main.cpp, composed with `HashStore` as the table (`INSTANCE`), so that
  what it shows holds for every table that keeps the promise, which `MapEmbed` is shown to.
  Its theorems are in `MapEmbedDriverProofs`.
- `DynamicPerfectHashing`: the compared table and its properties; `MCDynamicPerfectHashing`
  has its hash functions for TLC, `DynamicPerfectHashingProofs` its theorems.
- `LookupTable`: what one table of the FPGA promises: a look-up on every clock, whose result
  comes out three clocks later with the value at the time of the look-up, while cells are
  written.
- `DualportRAM`: the table with both ports, the reset, and the client of port b; it
  implements `LookupTable`, as `DualportRAMProofs` proves.
- `LookupPipeline`: the hash stage, three tables and the selection, composed of three
  instances of `LookupTable`; `MCLookupPipeline` has its keys and addresses for TLC,
  `LookupPipelineProofs` its theorems.
- `CmphFormat`: files and packed blocks as sequences of fields with their sizes in bytes.
- `CmphGraph`: the graph of `chm`, `bmz` and `bmz8`, its peeling, and its core.
- `Chm`, `Bmz`, `Bmz8`, `Bdz`, `BdzPh`, `Fch`, `Chd`: one construction each (`Chd` has
  `chd_ph` as well), as operators: an attempt, the function it makes, its file, its packed
  block and the three searches. `Succinct`: the compressed sequence and rank, and the select
  structure that `Chd` stores its tables in. Their loops are recursive functions of the
  number of rounds.
- `Cmph`: the library: the settings and the life of one function, composed of those
  constructions; `MCCmph` has its key sources and hash functions for TLC, `CmphProofs` and
  `CmphPerfectProofs` its theorems.
- `Brz`: the construction on files, over `Fch` and `Bmz8`; `MCBrz` has its key sources.
- `UnorderedMap`: what a hash map promises.
- `MphIndex`: the perfect hash function of cxxmph, as operators; its loops are recursive
  functions of the number of rounds.
- `MphMap`: the three maps of cxxmph; it implements `UnorderedMap`. `MCMphMap` has its keys
  and hash functions.

### How MapEmbed corresponds to the code

State. `cell[<<l, k>>]` is `cell[l][k]`. `bucket[d]` is a record of the check flag and the
set of used slots, each slot a pair with the cell (`layer[]`, `k[]`) it is filed under;
`used` is the size of the set, and the order of the slots is left out. Pairs are instances:
inserting one key twice uses two members of `KV` with the same `KeyOf`. `hash` holds the
hash functions that the random seeds select once, in the constructor. `pending`, `ret` and
`call` are the C++ stack of a running insert: `pending[l]` are the pairs for which the loop
of an overflowing insert is still to call `insert(kv, l)`, and `ret` is the conjunction of
the results so far. `called` (what the client inserted) and `reply` (what the last call
returned) are history.

| action | code |
|---|---|
| `Insert(x)` | the client calls `insert(kv)` |
| `InsertFails` | all layers from `start_layer` on are full, or there is none: return false |
| `InsertDirect` | `insert_kv_to_bucket` checks the bucket and finds room |
| `InsertMoves` | the bucket is full; `collect_kv`, the search for the next cell value, `dispense_kvs` |
| `InsertOverflows` | no value fits; the cell is closed and its pairs go to the loop at line 389 |
| `Return` | the outermost insert returns |
| `Query(q)` | `query(key)`, with the check of the bucket it looks at |
| `extend(lazy)` | `extend`, with all the checks when `lazy` is false |
| `calculate_bucket_items` | the count, with all its checks |

Each step of `InsertStep` is one call of the recursion, and the calls are made depth first,
as on the C++ stack: the deepest layer that has pairs left goes first (`Turn`). The order in
which one loop goes through its pairs depends on the order of the slots, so the model leaves
it open. `collect_kv`'s bitmap of full buckets and `shift_kvs_bitmap` are modelled by what
they mean (which buckets are full, which buckets the pairs need). `BucketSlots` has both as
they are: `TakeOut` is the removal that moves the last slot into the gap, `CollectLoop`
and `CheckLoop` are the loops around it, and `ShiftedBits` is the arithmetic of the rotation.
Its invariants say, in each reachable state, for each bucket and each order of its slots,
that they do what `MapEmbed` takes them to do. The rotation is right up to 16 guides, which
is an assumption (`SizeAssumption`). `query_key_in_bucket` returns the
first match in slot order; the model returns any match.

What the code relies on is a named assumption: `KVAssumption` (finitely many pairs, each
with a key), `SizeAssumption` (layers, cells, slots and pages are not empty, `cell_hash` is
a power of two up to 16, the initial number of buckets is a multiple of `cell_hash`, which
the comment at `extend()` demands) and `HashAssumption` (hash functions return naturals).
Nothing is assumed about how well they spread the keys.

### How MapEmbedDriver corresponds to the code

`phase` says which loop of `basic_test()` runs; `cycle`, `p`, `i`, `fails` and `qfails` are
its variables. A load is the two actions `CallInsert` (the head of the loop and the call)
and `InsertReturned` (the test of its result); between them the table takes its own steps,
`Lose` and `Return` of `HashStore`. `CycleEnds`, `LoadStops` and `ReloadEnds` leave the
three loops that load, by the break or at the last pair; `LookUp` and `QueriesEnd` are the
query loop, which runs to `i <= p`; `Expand` is `extend()` with the prints around it. A
table is new in each cycle. The entry behind the last pair is zero and has the key of pair 0
(`KeyAt`). `loads` is history: what each load that ended counted, and whether a break ended
it.

### How DynamicPerfectHashing corresponds to the code

State. `sub[b]` is the record of sub-table b: `element` is a function on the slots in use,
`length`, `number` and `space` are the fields of the same name, `hash` is the function that
its seed selects. `cnt`, `M`, `size` (`sM`) and `top` belong to the whole table. `list` is
`all_list` in RehashAll and `temp_list` in Insert; its nodes carry where they come from,
since the same key may be in it twice. `pc` says which of the three loops that draw hash
functions runs: `top` (the functions to sub-tables and the test of condition \*\*), `form`
(the functions of all sub-tables, `cur` one after the other) or `sub` (the loop inside
Insert); `idle` is between two calls. `keys` is history: what the client inserted and did
not delete.

| action | code |
|---|---|
| `InsertEndsPhase` | `cnt` exceeds `M`: the new key goes to RehashAll without a search for it |
| `InsertFinds` | the slot holds the key: nothing changes but `cnt` |
| `InsertFillsSlot` | the slot is free |
| `InsertCollides`, `RehashTable` | the slot is taken: the sub-table is emptied into the list and its hash function redrawn |
| `InsertEnlarges`, `RehashTable` | the sub-table is too short, and condition \*\* holds with it enlarged |
| `InsertRehashesAll` | it does not hold: everything is rehashed |
| `DrawTop`, `FormTable` | one turn of the loops of RehashAll |
| `DeleteMisses`, `DeleteFinds` | `Delete`, with the rehash when `cnt` exceeds `M` |
| `Initialize` | `Initialize` |

`rand()` is the choice of a function from `TopHashes` or `SubHashes`. Memory behind an array
that was not reallocated holds any of the keys in `Heap`, or nothing: `InsertRehashesAll`
chooses which of them it reads there, and `ReadBehind` makes the nodes. Two history
variables say what the table should hold: `keys`, those that the client inserted and did not
delete, and `stray`, those that were read from behind an array and not deleted. Values are
left out, since no operation looks at them.

### How DualportRAM and LookupPipeline correspond to the code

The variables of `DualportRAM` are the registers of `Dualport_RAM_4_535.v` (the other two
files differ in their sizes, the constants `Addr`, `Size2` and `Size1`) and of the bench's
client. The flags that are wires and registers of one value are one variable, and so are
`enb` and the client's state. `Clock(ena, a)` is a rising clock edge: all blocks take their
step from the values before it, as non-blocking assignments do.

| action | code |
|---|---|
| `ReadRam`, `FillCache1`, `Output` | the three blocks of port a |
| `Idle`, `Read1`, `Read2`, `Write1`, `Write2`, `Wait` | the states of port b |
| `Client` | `Sketch_tb.v:116-176`, which holds a request until it sees `dob_valid`; here it also reads, and chooses its addresses and data freely |
| `ResetFalls` | the two blocks of port a that are sensitive to the falling edge, and the client |
| `ClockInReset` | all blocks, on a clock edge in reset |
| `ResetRises` | the two blocks that are sensitive to the rising edge: `rst_n` is high, so they take a step as on a clock |

The reset lasts for at least one clock, as in the test bench, where it lasts for 75; the
address inputs of port a are zero in it, since the hash stage is reset too. The first reset
finds the registers with anything in them.

In `LookupPipeline`, `hashed` is the register of the hash stage (a key stands for its three
addresses), `T1`, `T2` and `T3` are the tables with their lines of results, and `result` is
the register of MUX. hash_ctrl declares its outputs `dob_1` to `dob_3` one bit wide
(hash_ctrl.v:28, 39 and 51), so that of a cell read through port b only the lowest bit leaves
it; `DualportRAM` is about a table, whose `dob` is the whole cell, and `LookupPipeline` about
the look-ups, which do not use it. `hash_ctrl.v:90` connects the reset of table 1 to a net that nothing
drives. `net` is what becomes of it: "floating", as in simulation, where the test of an
undefined reset takes the branch without reset, or "low", as a synthesis tool may tie it.
`due` is history: the key of the last clock, and the cells found by those of the four before
it.

### How Cmph and the constructions correspond to the code

A hash state stands for the numbers it gives to the keys, so that `hash_state_new` is the
choice of such a function (`Draw`), and searching, writing and loading it are exact. c is a
fraction. A key source has a configuration it is to be used with, its keys, and the draws
that may be made. `config` is `cmph_config_t`; `left` has the two counters of the nested
loops; `carry` is what one attempt leaves to the next: `disp_table` of `chd_ph`,
`restart_mapping` of `bmz`, `random_table` of `fch`. `mphf` is the function, `image` the
file or the packed block, and `answers` are the values of all keys by the search that
applies: of the function built, of the one loaded, of the packed block.

| action | code |
|---|---|
| `Configure` | the setters of `cmph.c`, in any order |
| `cmph_new` | the choice of the construction, up to its first draw |
| `Draw` | `hash_state_new` for the one or two hash states of an attempt |
| `ChmAttempt`, `BmzAttempt`, `Bmz8Attempt`, `BdzAttempt`, `BdzPhAttempt`, `ChdAttempt` | one turn of the loop: the graph or the buckets, the test, and what follows it: a function, another attempt (`Retry`), another mapping (`Remap`), or none |
| `FchMapping`, `FchSearch` | the two loops of `fch`: a first hash, and the second hashes for it |
| `Dump`, `Load`, `Pack` | `cmph_dump` and `cmph_destroy`; `cmph_load`; `cmph_pack` |

Within an attempt the algorithms are those of the code, in its order where the order shows:
edges of a vertex come newest first, `bmz` labels breadth first and looks ahead as the code
does, `bdz` removes edges through its queue and assigns them backwards, `fch` permutes its
table, `chd_ph` probes from the largest bucket down and leaves those that do not fit for the
next round. `undefined` is the phase after an array was read where it has no entry, an
assertion failed, or a hash was taken modulo the 0 that a byte had cut the number of
vertices of `bmz8` to; the hazards say where that happens.

A packed block is read at byte offsets: an offset gives the first field that starts there,
since a field of no bytes comes before the one it shares its offset with, and one at which
no field starts gives `Garbage`. Files are read field by field.

Named assumptions say what the constants are. `SourceAssumption`: a key source has settings
of the types of the setters and draws of the kind its construction makes. `LimitAssumption`,
`StepAssumption`, `WordAssumption`: bounds are positive. `PrimesAssumption`: for each source
of `chd_ph` or `chd` the search for a prime number of bins ends, with a number that
`check_primality` accepts. A source has fewer keys than `Word`, as `nkeys` is an `unsigned
int`, and `Log2Assumption` says that the logarithm of a number is below it.

### How Brz corresponds to the code

`Draw`, `Partition` (one key, with the flush before it) and `PartitionEnd` are the first
half of `brz_gen_mphf`; `Merge` (one run of keys of one file) and `Generate` (the function
of a bucket that is complete) are the second; `AttemptFails` is the way back to the loop of
`brz_new`. `manager` is `buffer_manager_t`: of each buffer the number of its bytes, the
position in it and whether the file has ended, and the memory that finished buffers gave
back (`avail`). Files keep the sizes of their keys in bytes, so that buffers end where they
do in the code. `ReadGoesWrong` says where a read is undefined. Offsets and sizes are those
of the code; the labels of `fch` are cut to a byte as `brz_copy_partial_fch_mphf` cuts them.

### How MphMap corresponds to the code

`values`, `present`, `slack`, `index` and `size` are the members of `mph_map_base`;
`capacity` is that of the vector, which decides when an insert packs. `minimal` and `square`
are the template parameters: none for `mph_map`, `square` for `dense_hash_map`, `minimal`
for `sparse_hash_map`. `Find(k)` is the set of what `find()` may return, since past the end
of `present_` there may be any bit. `halted` says how the program ended, if it did: by
`exit(-1)` in `pack()`, by an assertion, or by a read through a null pointer. `Insert`,
`Assign` (`operator[]` and an assignment to the result), `Erase`, `Clear` and `Rehash` are
the operations; `Pack` is the `pack()` in them. A thousand seeds are tried: if one of
`Hashes` makes an acyclic graph, it is taken to be found.

Definitions named `wrong_...` are used nowhere. Each is the definition that follows it with
one plausible mistake, and putting it in the place of the correct one makes TLC report the
property it endangers; `PROJECT.json` lists the pairs.

## Properties

- `TypeOK`: types, and the shape of the bucket array.
- `NothingLost`: a pair that was inserted is held where its key is looked up, is on its way
  to a deeper layer, or has all its cells closed.
- `CollectsLiveOnly`: what `collect_kv` takes out of a bucket is stored where its key is
  looked up; stale copies are out of its reach.
- `SlotsExact`: without lazy expansion, slots in use and held pairs are equal in number.
- `CountIsItems`: the count that the driver prints is the number of held pairs. Without lazy
  expansion it follows from `SlotsExact`; with it it fails (see the finding).
- `ClosedForEver`: a key whose cells are all closed is never accepted again.
- `OthersStay`: a pair stays in its bucket unless its own cell changes or the array is
  replaced.
- `InsertReturns`: insert returns.
- `WalksTakeAll`: the loops that remove entries while they walk an array remove all they
  should and no other.
- `BitmapsTurn`: a rotated bitmap holds the guides that the pairs have under the new value.
- `Refinement`: the table implements `HashStore`, under the mapping store = the pairs held
  or on the move, ok = `ret`.

Of the driver:

- `ExpandedLoadToLimit`: the first load, and the load after the expansion, end at the
  failure that reaches the limit and at no other. (Of the loads in between it is false.)
- `QueriesSeeLosses`: the queries after the load miss at least one pair for each insert that
  failed.
- `OnlyOneRepeated`: the load after the expansion stores no pair twice but the one it starts
  with.
- `Ends`: the benchmark ends.

Of dynamic perfect hashing:

- `Exact`: between calls, `Lookup` finds exactly the keys that were inserted and those that
  RehashAll read from behind an array (`stray`), less the deleted ones. Where nothing is read
  there `stray` is empty, and `Lookup` finds exactly the keys of the client.
- `SpaceBound`: between calls, condition \*\* holds; no more than M keys are stored,
  although a failing Delete takes `cnt` beyond M (`WithinM`); and a sub-table counts at
  least the keys it holds and at most its length, although Delete never lowers the count
  (`NumberFits`).
- `OperationsReturn`: the loops that draw hash functions end, unless RehashAll has a key twice
  in its list.
- `LoopsEnd`: they end at any rate. It is violated (`dph_repeat`).

Of a table of the FPGA:

- `Refinement`: it implements `LookupTable`, under the mapping that reads each stage's
  result from the cache register that the stage's address selects.
- `AnswersRequest`: when port b shows an answer, the request is still there and was carried
  out.
- `WritesAsAsked`: a cell changes only to what the present request wants written there.
- `RequestsAnswered`: a request is answered, unless a reset takes it away.

Of the pipeline:

- `FourClocks`: each key gives one result four clocks later, selected from the cells it
  found; no result comes without a key.
- `InStep`: the results of the three tables are those of one key.
- `ResultComesOut`, the part of `FourClocks` that the README of the FPGA promises, fails
  when table 1's reset is tied low.

Of the CMPH library:

- `Perfect`: a function that was built maps different keys to different numbers below its
  size, by each of the three searches (with several keys per bin, at most so many to one).
- `AnswersKept`: writing, loading and packing change no value.
- `AttemptsJudged`: `chm`, `bdz` and `bdz_ph` accept a draw exactly if its graph can be
  peeled, by a reference definition that quantifies over all sets of edges.
- `Terminates`: every step of a construction lowers a measure; with the absence of deadlocks
  that is termination, without any fairness.
- `DefinedElsewhere`: no array is read outside its bounds and no assertion fails but in the
  three cases that its comment names, and what is packed fits the size that the caller is
  told to allocate (`PackFits`).

Of `Brz`, besides the same ones:

- `BucketsWhole`: when the function of a bucket is made, the keys collected are those of the
  bucket, each as often as the source holds it, and none of another bucket.

Of the maps of cxxmph:

- `FindExact`: a key is found exactly if the map holds it, and in the cell that does.
- `OneCellEach`: no key is in two cells, and `size()` counts the cells in use.
- `StopsOnlyWhen`: the program is stopped only where a known fault is: `FaultsOnlyWhen` for
  assertions and crashes, `ExitsOnlyWhen` for `exit(-1)`.
- `Refinement`: the maps implement `UnorderedMap`; where a known fault makes them
  unreliable, the mapping says so.

Each of these modules has its `TypeOK`. `Cmph` and `Brz` check theirs by itself; elsewhere
it is a conjunct of another invariant: of `IInv`, `SpaceBound`, `OnlyOneRepeated`,
`AnswersRequest`, `InStep` and `OneCellEach`.

## Runs

The runs of `MapEmbed` take every assignment of cells to keys that their sizes allow, every
assignment of guides (`ghost`) or of the guides 0 and 1 (`table`, `eager`), and one bucket
hash, which places the cell of layer l and index k at l + k modulo the page size, so that
cells share a bucket before an expansion and part after it.

| run | instance | shows |
|---|---|---|
| `table` | 3 keys, one of them inserted twice, 2 slots, layers of 1 and 2 cells, 4 guides, one expansion in either mode | `TypeOK`, `NothingLost`, `CollectsLiveOnly`, `IInv`, `ClosedForEver`, `OthersStay`, `Refinement`, `WalksTakeAll`, `BitmapsTurn` |
| `eager` | 3 keys, 1 slot, layers of 2, 1 and 1 cells, 4 guides, two eager expansions | `SlotsExact`, `InsertReturns` |
| `ghost` | 4 keys, 1 slot, 2 layers, one lazy expansion | `CountIsItems` is violated |
| `driver` | 4 pairs, 2 cycles, limit 2 | `ExpandedLoadToLimit`, `QueriesSeeLosses`, `OnlyOneRepeated`, `Ends` |
| `dph` | 4 keys, one of which may lie behind the arrays, phases of 3 operations and more, deletes, inserts of stored keys | `Exact`, `SpaceBound`, `OperationsReturn` |
| `dph_repeat` | 3 keys, nothing behind the arrays, no deletes | `LoopsEnd` is violated |
| `ram` | 3 cells, two of which share both cache registers, 2 values | `AnswersRequest`, `WritesAsAsked`, `RequestsAnswered`, `DualportRAM`'s `Refinement` |
| `pipeline` | 2 keys, tables of 2, 1 and 1 cells, the values 0 and 15, the net floating | `FourClocks`, `InStep` |
| `pipeline_reset` | the same, the net low | `ResultComesOut` is violated |
| `cmph` | 16 key sources of one to ten keys for the eight constructions, two attempts and two mappings | `Cmph`'s `TypeOK`, `Perfect`, `DefinedElsewhere`, `AnswersKept`, `AttemptsJudged`, `Terminates` |
| `brz` | 10 key sources of two to eight keys, one to four temporary files, two attempts | `Brz`'s `TypeOK`, `BucketsWhole`, `Perfect`, `DefinedElsewhere`, `AnswersKept`, `Terminates` |
| `mph_map` | 4 keys, two of which share every hash, 2 data, 10 cells | `FindExact`, `OneCellEach`, `StopsOnlyWhen`, `MphMap`'s `Refinement` |

The bounds of `MapEmbed`. `MaxBuckets` limits the expansions and is the only bound in the
model; the number of pairs bounds the rest, since cell values only rise. A bucket overflows
with N + 1 pairs, so the four pairs of `table` with N = 2, and the three of `eager` with N =
1, fill a bucket, move a cell, close it, and move the pairs on; in `table` the two pairs of
one key never part, so that they and a third pair of their guide close a cell at once, and
then the next one, and an insert fails. In `eager` the overflow of two keys with the same
cells and guide goes down three layers and fails. An expansion is possible at any point
between two inserts. Four guides leave the values 1 and 2 to move to and 3 for a closed
cell; guides that are equal or adjacent give moves that a neighbour blocks, and moves that
it does not; `ghost` has them all. Keys are interchangeable, since all hash functions are
tried, and so are the copies of a repeated key: `table` and `ghost` use that as symmetry,
`eager`, which checks liveness, does not.

The bounds of `MapEmbedDriver`. Limit 2 stands for the eight failures: a load can end by its
break or at its last pair, with no failure, one, or two. Two cycles stand for ten: there is
a first one and a later one. With four pairs a load may break at each position, the last one
included, and the load after the expansion still has pairs to insert.

The bounds of `DynamicPerfectHashing`. `MaxLate` bounds how far failing deletes take `cnt`
beyond M, which the code does not bound. The factors c, SM, the least count 4 and the
threshold's 32 and 4 are constants; with the small values of `dph` a phase can be three
operations long, and four keys fill a sub-table, collide, enlarge it, violate condition \*\*
and end phases. The hash functions map all keys apart, all together, or (to sub-tables) the
first one apart from the others: with sizes that change at each rehash this gives equal and
different sub-tables, fitting and colliding draws. `Heap` has one key. The threshold is so
low that an enlargement can exceed it while that key is not in the table, deleted or not
inserted yet, so that RehashAll can store it; with a higher one, all keys are stored when
that happens. The client is not restricted: that a key comes to be in the list twice, when
the client ends a phase with a stored one or a stored one is read behind an array, is part of
the runs, and `OperationsReturn` says that no other loop goes on for ever.

The bounds of `DualportRAM` and `LookupPipeline`. Three cells are enough for two that share
both cache registers and one that shares none with them, and two values for a register that
was overwritten to show. Nothing counts, so that no bound cuts the runs short: they cover
every sequence of look-ups, requests and resets. In `LookupPipeline` two keys share their
cells in two tables and not in the third; 15 is the full cell. `ResetClocks` is the least
length of a reset. With the net floating three clocks are needed for the results in table 1
to run out (with two, one would come out as the result of no key); the test bench has 75.

The bounds of `Cmph`. `Limit` cuts the numbers of attempts (10 to 1000) and mappings (20 to
100) to two, so that a first, a last and a failed one of each occur. Three or four keys get
all pairs of values for which different graphs arise, with loops, double edges, cycles and
chains; a first key takes one of a few, since vertices are interchangeable up to the order
in which the code goes through them. The bow tie and the ring of ten keys are for the core
of `bmz` with its heuristic; `chd_ph eight` makes the displacements fill more than one entry
of the select table, of which every second is kept (`STEP_SELECT_TABLE`) instead of every
128th; two keys per bin, a single key, a key that occurs twice, one or two empty bins, and
the number of vertices that wraps to 0 in `bmz8` are sources of their own. `Log2` is the
table of the logarithms of the numbers of keys, in thousandths. `Word`, the 2^32 of the
labels and of `nkeys`, is out of reach.

The bounds of `Brz`. A bucket is full at 4 keys instead of 255 (`MAX_BUCKET_SIZE`), and
memory is some 20 bytes, of which keys of five bytes and more fill one to four files; b is 2
to 4, instead of the least 64, so that there are two buckets or three.

The bounds of `MphMap`. `MinPack` is 2 instead of 256: a full vector of three cells packs.
`MaxCells` bounds the vector; nine cells are what three keys need after a pack, and one more
can be added. `k_` is 4 instead of 128, so that a rank table has several entries. The
hash functions keep all keys apart, make a chain of them, or put all on one edge, except
that two keys are never told apart. `MCSeedsWork` checks of them what `MapStopsOnlyWhen`
assumes. Two data show which assignment a pair is from.

Deadlock is checked in every run of the tables: the client can always query or count (or
insert), an insert that was called can always take a step, the loops that draw can always
draw, and the clock can always tick. In `cmph` and `brz` a function that was packed, or a
construction that failed, stays as it is (`Done`). The driver ends, so its run does not
check deadlock; that it ends only there is the property `Ends`. Nor does `mph_map`, where
the program may be ended and the vector is bounded.

Fairness. `FairSpec` demands weak fairness of `InsertStep \/ Return` alone: the table runs
in the thread of its caller, so a call that has begun keeps running. Nothing is assumed of
the client. `FairSpec` of `MapEmbedDriver` demands it of the driver's steps and of `Return`,
which `InsertReturns` justifies. `FairSpec` of `DynamicPerfectHashing` demands that the
loops keep drawing and, for each loop, that a function that fits is drawn eventually while
there is one: the seeds are drawn by `rand()`, independently, so a loop that misses a
fitting function for ever has probability zero. Whether there is one is what
`OperationsReturn` is about. `FairSpec` of `DualportRAM` says that the clock runs.

The findings.

- `ghost`. After a lazy `extend()`, the copy of a pair in a bucket that was not checked yet
  can become permanent: the pair's cell overflows, the pair is taken out of its live bucket,
  and a cell of the next layer maps it to the bucket that holds the copy. `check_bucket`
  keeps the copy, because the pair is looked up in that bucket, but the copy is filed under
  the closed cell and no `collect_kv` will match it again. From then on it takes a slot, and
  `calculate_bucket_items`, printed as "inserted items", counts it, even when the pair is
  lost. Queries are not affected (`Refinement` holds), except that a copy of a pair that
  stays in its bucket is a second match with the same value.
- `dph_repeat`. The insert that ends a phase does not search for its key. If the key is
  stored already, RehashAll has it in its list twice, and takes the two nodes for a
  collision under every hash function: the loop does not end. Everywhere else inserting a
  stored key is harmless, and `dph` does it.
- `pipeline_reset`. Table 1 connects `rst_n`, hash_ctrl's port is `Rst_n`. Tied low, the net
  keeps table 1 in reset, and since MUX looks at the enable of table 1 alone, no result
  comes out at all. Floating, table 1 is never reset, and neither are its contents.

Known faults that no run shows, and what is excluded for each:

- main.cpp sets `fails` to 0 before the ten cycles and again after the expansion only. After
  a first cycle with eight failures, each later cycle and the load whose figures are printed
  stop at their first failure, where the README says "until the 8th insertion failure
  happens". `ExpandedLoadToLimit` leaves those loads out.
- dynamic perfect hashing: Insert raises `space` before it tests condition \*\* (line 271). If
  the test fails, the array keeps its length, and RehashAll reads it up to the new `space` and
  stores what it finds behind it. If that is a key, of an array that was freed or of another
  sub-table's, it comes into the table: a deleted key is back, or one that nobody inserted is
  found. The model does so, and `dph` and `FindsExactly` do not exclude it: `Exact` says that
  nothing else goes wrong in a call that returns, as no key is lost, and none comes in that
  was not read there. A stored key read there is a second node of it, and the loop does not
  end. With the code's factors, nine keys in one sub-table can lead there.
- MUX prefers a cell of 15, the full one, where the query of the CPU skips it. `FourClocks`
  takes the selection as it is.
- `bmz` and `bmz8`: a key whose hashes are both n - 1 is looked up past the labels
  (bmz.c:533). `Perfect` leaves it out (`Misread`).
- `bmz` with c up to 1.14: a core of some breadth overfills the queue (bmz.c:274).
  `chd` with several keys per bin takes bytes for bits (chd.c:127), and with one or two
  empty bins it reads an array that has no entry (select.c:128). `DefinedElsewhere` names
  the three.
- `fch` throws away a function found by its last mapping (fch.c:290), `chd_ph` one found by
  its last probe (chd_ph.c:548), so that it finds none for a single key. The models do so.
- `brz`: an attempt after a failed one keeps its sizes and its output (brz.c:150); a bucket
  without keys has no function, and loading goes wrong (brz.c:601); with several temporary
  files, a length across the end of a buffer, a file that ends with its buffer or a long key
  is read wrongly (buffer_entry.c:72); packing cuts c to an integer (brz.c:752). The
  properties say "first attempt", "no empty bucket", "one file", "whole c".
- cxxmph: a map of exactly two keys cannot be packed, and the program exits
  (mph_index.h:126); a key that was erased while in the slack leaves an entry to a cell with
  the default key (mph_map.h:202); a cleared map asks its old index (mph_index.cc:48); of
  two keys with one 128-bit hash one hides the other (mph_map.h:152). `Outlived`,
  `ErasedDefault` and `Shadowed` say in which states.

## Proofs

Everything here is proved for all values of the constants that the named assumptions of the
modules allow. What a theorem assumes beyond that is in its `ASSUME`, and in the last column.

| module | theorem | states | under |
|---|---|---|---|
| `MapEmbedProofs` | `Invariance` | `IInv` | |
| | `TypeCorrect` | `TypeOK` | |
| | `NoSilentLoss` | `NothingLost` | |
| | `CollectingIsSafe` | `CollectsLiveOnly` | |
| | `ClosedStays` | `ClosedForEver` | |
| | `OthersAreKept` | `OthersStay` | |
| | `Implements` | `Refinement`: `HashStore` | |
| | `SlotsAreExact` | `SlotsExact` | `EagerOnly` |
| | `ExactUntilExpanded` | `SlotsExact` until the first `extend()` | |
| | `CountsItems` | `CountIsItems` | `EagerOnly` |
| | `LoopsTakeAll` | `WalksTakeAll` | |
| | `RotationTurnsGuides` | `BitmapsTurn` | |
| `MapEmbedDriverProofs` | `Invariance` | its `IInv` | |
| | `LoadsStopAtLimit` | `ExpandedLoadToLimit` | |
| | `FailuresAreSeen` | `QueriesSeeLosses` | |
| | `RepeatsOne` | `OnlyOneRepeated` | |
| `DynamicPerfectHashingProofs` | `Invariance` | its `IInv` | |
| | `SpaceBounded` | `SpaceBound` | |
| | `NoKeyLost` | every key of the client is found | |
| | `FindsExactly` | `Exact` | |
| `DualportRAMProofs` | `Invariance` | its `IInv` | |
| | `Answered` | `AnswersRequest` | |
| | `NothingElseWritten` | `WritesAsAsked` | |
| | `Implements` | `Refinement`: `LookupTable` | |
| `LookupPipelineProofs` | `TypeCorrect` | `TypeOK` | |
| | `Invariance` | its `IInv` | `ResetEmpties` |
| | `ResultInTime` | `FourClocks` | `ResetEmpties` |
| | `TablesInStep` | `InStep` | `ResetEmpties` |
| `MphMapProofs` | `MapInvariant` | its `MapInv` | |
| | `MapFindExact` | `FindExact` | |
| | `MapOneCellEach` | `OneCellEach` | |
| | `MapFaults` | `FaultsOnlyWhen` | |
| | `MapStopsOnlyWhen` | `StopsOnlyWhen` | `SeedsWork` |
| | `MapRefinement` | `Refinement`: `UnorderedMap` | |
| `CmphProofs` | `SettingsInvariant` | its `SettingsInv` | |
| | `TypeCorrect` | `TypeOK` | |
| | `ConstructionsEnd` | `Terminates` | |
| | `FunctionInvariant` | its `FunctionInv` | |
| | `AnswersSurvive` | `AnswersKept` | |
| `CmphPerfectProofs` | `SoundInvariant` | its `PerfectInv` | |
| | `FunctionsPerfect` | `Perfect` | `config.algo \in Shown`: fch, chm |

The hypotheses, and why they are there:

- `EagerOnly`: the client expands with `extend(false)` only, as the instance `eager` does.
  Without it both properties are false after an expansion, as `ghost` shows for the count.
  main.cpp expands lazily; `ExactUntilExpanded`, for any client, covers what it prints
  before that.
- `ResetEmpties`: the undriven reset of table 1 floats, and a reset lasts for three clocks.
  The test bench holds it for 75; with the net low there are no results (`pipeline_reset`).

- `SeedsWork`: some seed makes a graph without a cycle of any keys that are not two and share
  no hash. No function has it of every key set one could think of; hash128 has it with a high
  probability, as `pack()` tries a thousand seeds. Only `ExitsOnlyWhen` needs it, and no
  other theorem assumes anything of the hash functions.

Two assumptions were made explicit for the proofs: in `MapEmbedDriver` that `NoKV`, and in
`LookupPipeline` that `None`, is none of the values it is told apart from.

Each `IInv`, `MapInv` and `PerfectInv` was checked by TLC on the instance of its component's
run before it was proved.

### The table

`NothingLost` is not inductive: it does not say under which cell a pair is filed, so a later
move of the cell could leave the pair behind. `IInv` adds what makes it inductive:

- `HeldAtHomeCell`: a held pair is filed under the cell that its key is looked up by;
- `EntriesFiled`: every entry, stale copies included, is filed under a cell of its key below
  which all cells are closed;
- `GuideSelects`: an entry of an open cell that is in one of that cell's buckets is in the
  one its guide selects. This is what keeps stale copies away from `collect_kv`: after a
  doubling the copy is in a bucket of another cell position, and raising the cell moves live
  pairs only;
- `PendingFiled`, `PendingApart`: the pairs on the move are stored for no open cell, have no
  open cell above their layer, and are in one loop only;
- `FiniteBuckets`, `BucketsFit`: sets are finite, and no bucket has more than N entries.

The proof of a step has one lemma for each action (`StartStep`, `FailStep`, `DirectStep`,
`MovesStep`, `OverflowStep`, `ReturnStep`, `QueryStep`, `ExtendStep`, `CountStep`), and
under it one step for each part of `IInv`. They rest on lemmas about the operators: page
arithmetic (`PageBound`, `PageUnique`, `HalfPage`: a hash modulo the doubled page falls on
one of the two copies), guides (`TurnBack`: counting backwards in `check_kvs` agrees with
turning forwards in `dispense_kvs`), the first open layer (`FirstOpen`, `HomeIs`), and
buckets (`Collecting`: what `collect_kv` removes; `Dispensing`: no insert of `dispense_kvs`
finds its bucket full).

That the table implements `HashStore` follows from one observation (`StoredIs`): in a state
of `IInv` the abstract store, the pairs held or on the move, is what was inserted and is on
the move or has an open cell. So the store changes only where `called`, `pending` or the
set of closed keys does, and moves, checks and both ways of expanding are stutters
(`SameStore`). A failing insert of the recursion takes a pair from `pending` whose cells are
closed: that is `Lose`, and sets `ret`, which is the abstract `ok`. `QueryBucket` shows that
what a query finds in the bucket it checks is a pair of the store, and that it finds one if
there is one. `SlotsCovered` counts: the pairs of an idle table have a slot each.

`SlotsExact` needs one more invariant, `NoCopies`: every entry belongs to an open cell and
is in the bucket that its key is looked up in. Then slots and pairs correspond one to one
(`OneSlotEach`).

The loops over the slots are functions of the number of their rounds. That they are what
their equations say, and what they keep, takes an induction over that number: `Induction`
states it for a set of numbers, and `Iterates` shows that the function exists. `CollectInv`
and `CheckInv` say what a loop keeps: no entry is in two slots, what is gone was to be taken
out, and the slots passed hold nothing that is. The entry that is moved into the gap is
looked at in the next round, so slots passed and entries gone are as many as the rounds.

A bitmap is the sum of the powers of two of its guides (`Sums`), which by the same induction
is the sum of those below a place i and 2^i times the sum of those from i on, counted from
there (`SumsSplit`), the first less than 2^i (`SumsBound`). Hence the bit at a place says
whether the guide is in the set (`BitOfSum`). Shifted by a cell value v, the guides below
cell_hash - v make the lower part and the others the part that leaves at the top, which is
less than 2^v: the code's masks cut exactly there, and putting that part back at the bottom
is `(g + v) % cell_hash` for each guide (`Turned`).

### The driver

`IInv` relates the variables of the loops to what the table holds. `Course` says how many
loads have ended in each phase. `Stops`: where `fails` was set to 0 before the load, it is
what the load counted. `Repeats`: no pair behind `p` is stored, so that the load after the
expansion can double only the pair that the load before it stopped at. `Losses` is the
accounting: in a load, the keys that were inserted and are gone outnumber the failures, the
failure that a running insert is about to report included (`LosesNow`), and in the query
loop `qfails` has counted all those below `i`. It needs no more of the table than
`HashStore` promises, so by `Implements` it holds with `MapEmbed`.

### Dynamic perfect hashing

`Contents` says for each loop where the keys of the client are: in the sub-tables (`idle`),
in the list (`top`), in the list and, for the sub-tables already formed, in their slots too
(`form`), or in the list for one sub-table and in the slots for the others (`sub`). They are
exactly `keys \cup stray`, whatever `Heap` is: what RehashAll reads behind an array enters
the list and `stray` in the same step, and leaves both with a delete. `Tidy` is what
holds of a sub-table at any time: its space fits its length, its count covers its keys, and
a key is in its own slot. `Budget` keeps `cnt` above the number of keys, which is at most M.
Condition \*\* is kept because `number`, `length` and hash functions do not enter it, and
every change of `space` is tested (`SameSpaces`). The sum itself stays folded up: that it is
the same for equal spaces is all that is used.

### The FPGA

In `DualportRAM`, `CarriedOut` follows the request of port b through the registers from
state to state; `Handshake` says that the request stands as long as it is needed, which is
what the client's waiting is for. The refinement of `LookupTable` reads the line of results
off the cache registers: `LineMoves` and `ClockMaps` show that a register overwritten by the
next look-up has been passed on in the same clock.

In `LookupPipeline`, `Tracks` says that every stage holds what the history has of its key.
In a reset, table 1 goes on alone; `Drains` says that each clock empties one more place of
its line, which is where the three clocks come from.

### The maps of cxxmph

`MphMapProofs` goes from the index up to the maps.

That an index is perfect (`ResetIsPerfect`) takes four steps. `QueueInv` is the invariant of
the loop that takes edges out of the graph: an edge that is queued and not yet removed is
alone at one of its vertices, and so if all edges are in the queue, each has a vertex that
none of the later ones has (`QueueComesApart`). Labels are assigned in the reverse order:
`LabelInv` says that the edges labelled so far sum up to the position of a vertex that is
marked for them alone, and that no unmarked vertex has a label (`AssigningLabels`; the three
thirds of the vertices make an edge's vertices distinct, and its labels add up modulo 3 as
`LabelSum` says). The vertices chosen are then exactly those with a label, and their ranks,
counted from the rank table, are the numbers below the number of keys (`RankCounts`,
`RanksOfLabelled`), whatever `k_` is. `IndexInv` is what remains when clear() has freed the
rank table: answers in range, for any key.

`MapInv` is what makes the properties of the maps inductive. `Located`: a live cell is the one
its key is looked up in, by the index or by the slack, or another key of its hash has the
slack entry. `Erased`: erased cells hold the default key, so they can be mistaken for that
key only (`ErasedDefault`). `Apart` and `Counted` are `OneCellEach`. `Answer` lists all that
`find()` may return in such a state, the garbage past the end included (`FindAnswers`), and
`FindExact` is a consequence.

Operations rest on `PackDoes`: a `pack()` either ends the program and changes nothing but
what was added, or moves every live cell to where the new index looks for it, with the same
pairs and as many of them (`Moved`). One lemma for each operation says that it keeps `MapInv`
(`AddKeeps`, `AssignKeeps`, `EraseKeeps`, `ClearKeeps`, `RehashKeeps`), one that it stops
only for a reason (`AddStops`, `StopsKeep`), and one what it does to the contents (`AddMaps`,
`AssignMaps`, `EraseMaps`, `RehashMaps`), of which `NextMaps` makes the refinement.

### CMPH

`SettingsInv` adds to the types what each phase works with: the source is one that the
configuration is for (`MadeFor`), and attempts, mappings and second hashes that are left are
within the bounds of the algorithm. A step of a construction has one of five outcomes,
whatever the algorithm computed (`AttemptOutcomes`, `SearchOutcomes`), and each of them
makes `Measure` smaller: a try less is worth more than a whole attempt (`FuelTry`), a
mapping less more than all its tries (`FuelRound`). So no construction loops for ever, and
that is proved as an action property, without liveness.

`AnswersKept` is about layouts. A loaded function is equal to the one that was dumped
(`FunctionLoaded`), and a packed one gives the same numbers as the one in memory
(`FunctionPacked`), for all eight algorithms. Both hold of functions that are `WellFormed`:
records with the fields of their algorithm, and tables as large as the sizes kept with them
say. `FunctionInv` says that a function always is one, which is what the constructions are
asked for (`GraphServes`, `BdzServes`, `FchServes`, `ChdServes`). Offsets in a packed block
are sums of the sizes before a field (`FieldStartsFacts`); if the fields before the last
have bytes, the field at the offset of field i is field i (`FieldsAt`), and each
`*_search_packed` is shown to compute the offsets of the fields that `*_pack` wrote. The
structures nest: a compressed sequence with its select structure is found at any offset
(`SeqAt`), and the packed `chd_ph` function within the packed `chd` function
(`ChdPhPackedAt`).

`Perfect` is proved for the algorithms in `Shown`, in `CmphPerfectProofs`. `PerfectInv` says
it of what is in the file as well, since an answer after `Load` is one of what was dumped;
`TableInv` that the table of `fch` lists all positions between two tries. With
`FunctionLoaded` and `FunctionPacked` they are inductive, and what remains is that an attempt
that succeeds has found a perfect function (`BuildsSound`).

- `chm` (`ChmPerfect`). A set of edges is stuck if none of them has an end that it alone of
  the set meets. Peeling takes no edge of a stuck set, and when it ends, what is left is one
  (`PeelingFacts`); so a graph that is peeled away has no stuck set. Hence n vertices that
  hang together carry n - 1 edges at least and, without a stuck set, at most
  (`ForestSmall`). The traversal keeps `Walked`: the components that are done are closed
  under edges and their labels add up; the one at hand is a tree, so a new vertex has one
  edge to it (`TreeGrows`), which its label makes right. What is left of the walk is `Toil`,
  which every round makes less (`StepWalked`), so the rounds that `chm_assign` has are
  enough. The labels of a key's ends then sum up to its place in the source, which is less
  than `Word`.
- `fch` (`FchPerfect`). `Lists`: the table is a permutation of the positions, and its first
  `filled` entries are the positions taken (`TakenAre`); a bucket that collides gives back
  what it took (`DisplaceFacts`), so the keys of different buckets, displaced, stay apart
  (`Apart`, `SearchedFacts`). That each key falls into one of the buckets takes
  `Log2Assumption` and the least value of c (`BucketRange`).

### Only model-checked

- Liveness (`InsertReturns`, `Ends`, `OperationsReturn`, `RequestsAnswered`) is out of the
  prover's reach.
- `Perfect` of `Cmph` for the algorithms that are not in `Shown`, `AttemptsJudged` and
  `DefinedElsewhere`, and all of `Brz`.

## Plan

1. Done: `HashStore`, `MapEmbed`, their runs, the inductive invariant and the theorems
   above.
2. Done: `MapEmbedDriver`, main.cpp over an abstract table.
3. Done: `DynamicPerfectHashing`.
4. Done: `LookupTable`, `DualportRAM`, `LookupPipeline`.
5. Done: `BucketSlots`, the arrays and bitmaps behind the sets of `MapEmbed`.
6. Done: the CMPH library (`Cmph` over the modules of the constructions), `Brz`, and the
   hash maps of cxxmph (`MphMap`, `MphIndex`, `UnorderedMap`).
7. Done: the theorems above.
8. Done: the proofs of the maps of cxxmph, from the construction of the index to the
   refinement of `UnorderedMap`.
9. Done: the loops of the CMPH constructions as recursive functions, and the proofs that
   every construction ends and that files and packed blocks keep every value.
10. Done: that the functions of `chm` and `fch` are perfect.

## Not modelled

Murmur and Jenkins hash: models draw their values. Key generation and the key sources of
CMPH: models take the sequence of keys. The SIMD branch, which no build selects, and
`place_buckets1` of chd_ph, which nothing calls. Copying and comparing maps of cxxmph. The
setters of `brz`, whose limits on b the small instances have to break. Command lines, tests,
benchmarks, timing and printing.
