------------------------------ MODULE MapEmbed ------------------------------
(***************************************************************************)
(* The MapEmbed hash table of CPU/MapEmbed/MapEmbed.h.                     *)
(*                                                                         *)
(* A key is mapped, layer after layer, to one cell of the layer; the value *)
(* of that cell rotates the key's guide, and the guide and the cell choose *)
(* one bucket.  When the bucket is full, the pairs of the cell are moved   *)
(* together by raising the cell's value; a cell that reaches cell_full is  *)
(* closed for ever and its pairs go on to the next layer.                  *)
(*                                                                         *)
(* A bucket is the set of its used slots: an entry is a pair with the cell *)
(* it was stored for (the code's layer[] and k[]).  Pairs are instances:   *)
(* two inserts of one key are two members of KV, so no two slots of a      *)
(* bucket hold the same entry and `used' is the cardinality of the set.    *)
(* The order of the slots is left out; where it matters (which of several  *)
(* pairs goes first) the choice is nondeterministic.                       *)
(*                                                                         *)
(* A definition named wrong_... is the definition after it with one       *)
(* plausible mistake.  Nothing uses it: putting it in the place of the     *)
(* correct one shows that a property can fail.                             *)
(***************************************************************************)
EXTENDS Integers, FiniteSets, FiniteSetsExt

CONSTANTS
    KV,             \* the pairs the client inserts, kvPairs[]
    Key, KeyOf,     \* their keys, KeyOf[x] the key of pair x
    NoKV,           \* no pair
    cell_layer,     \* number of layers
    cell_number,    \* cell_number[l] cells in layer l
    cell_hash,      \* 2^cell_bit: values of a cell, guides, pages of buckets
    N,              \* slots of a bucket
    Page,           \* initial bucket_number / cell_hash
    Hashes,         \* the hash functions that the random seeds may select
    LazyModes,      \* the arguments the client gives extend()
    MaxBuckets      \* BOUND: no extend() beyond this many buckets

cell_full == cell_hash - 1

Layers == 0 .. cell_layer - 1
Guides == 0 .. cell_hash - 1
Cell == UNION {{l} \X (0 .. cell_number[l] - 1) : l \in Layers}

ASSUME KVAssumption == IsFiniteSet(KV) /\ NoKV \notin KV /\ KeyOf \in [KV -> Key]

\* cell_bit is at least 1, and at most 4 for the bitmaps of collect_kv and
\* shift_kvs_bitmap to be rotations; initial_bucket_number is a multiple of
\* cell_hash (the note at extend()).
ASSUME SizeAssumption ==
    /\ cell_layer \in Nat \ {0}
    /\ cell_number \in [Layers -> Nat \ {0}]
    /\ cell_hash \in {2, 4, 8, 16}
    /\ N \in Nat \ {0}
    /\ Page \in Nat \ {0}
    /\ LazyModes \subseteq BOOLEAN
    /\ MaxBuckets \in Nat

\* h.cell[l], h.guide and h.bucket[g] are MurmurHash3_x86_32 under the seeds
\* seed_hash_to_cell[l], seed_hash_to_guide and seed_hash_to_bucket[g].  The
\* last one hashes a cell's ID, which is unique to the cell.
ASSUME HashAssumption ==
    Hashes \subseteq [cell : [Layers -> [Key -> Nat]],
                      guide : [Key -> Nat],
                      bucket : [Guides -> [Cell -> Nat]]]

VARIABLES
    hash,           \* the selected hash functions
    cell,           \* cell[l, k]: value of cell k of layer l
    bucket,         \* bucket[d]: its entries, and whether it was checked
                    \* since the last extend()
    bucket_number,
    pending,        \* pending[l]: pairs that insert(_, l) is still to be
                    \* called for, in the loop of an overflowing insert
    ret,            \* conjunction of the results of the running insert
    call,           \* argument of the running insert, or NoKV
    called,         \* pairs the client has inserted so far
    reply           \* answer of the last call that returned

vars == <<hash, cell, bucket, bucket_number, pending, ret, call, called, reply>>

-----------------------------------------------------------------------------
(* Hashing of a key q.  c stands for the cell values and ps for the page   *)
(* size: both change within one operation.                                 *)

PageSize == bucket_number \div cell_hash

calculate_cell(q, l) == <<l, hash.cell[l][q] % cell_number[l]>>

calculate_guide(q, v) == ((hash.guide[q] % cell_hash) + v) % cell_hash

calculate_bucket_from_cell(ps, g, a) == (hash.bucket[g][a] % ps) + g * ps

calculate_bucket(c, ps, q, a) ==
    calculate_bucket_from_cell(ps, calculate_guide(q, c[a]), a)

\* The layers from s on whose cell for q is not full.
OpenLayers(c, q, s) ==
    {l \in Layers : l >= s /\ c[calculate_cell(q, l)] # cell_full}

HomeCell(c, q, s) == calculate_cell(q, Min(OpenLayers(c, q, s)))

query_bucket(c, ps, q) ==
    IF OpenLayers(c, q, 0) = {}
    THEN -1
    ELSE calculate_bucket(c, ps, q, HomeCell(c, q, 0))

-----------------------------------------------------------------------------
(* Buckets.                                                                *)

Entry == [kv : KV, at : Cell]
Entries(S, a) == {[kv |-> x, at |-> a] : x \in S}

\* check_bucket(d) on bucket b, when its check flag is down.
check_bucket(c, ps, d, b) ==
    IF b.check
    THEN b
    ELSE [items |-> {e \in b.items : query_bucket(c, ps, KeyOf[e.kv]) = d},
          check |-> TRUE]

HasRoom(b) == Cardinality(b.items) < N

\* insert_kv_to_bucket for each of the entries new: those that come when the
\* bucket is full are dropped.
insert_kv_to_bucket(c, ps, d, b, new) ==
    LET b1 == check_bucket(c, ps, d, b)
        room == N - Cardinality(b1.items)
        kept == IF Cardinality(new) <= room
                THEN new
                ELSE CHOOSE S \in SUBSET new : Cardinality(S) = room
    IN  [b1 EXCEPT !.items = @ \cup kept]

-----------------------------------------------------------------------------
(* Moving the pairs of a cell.                                             *)

cell_bucket(ps, a) == {calculate_bucket_from_cell(ps, g, a) : g \in Guides}

\* Compares the cell's layer and forgets its index.
wrong_AtCell(b, a) == {e \in b.items : e.at[1] = a[1]}

AtCell(b, a) == {e \in b.items : e.at = a}

\* collect_kv: the pairs stored for cell a, and the buckets without them.
collect_kv(bkt, ps, a) ==
    {e.kv : e \in UNION {AtCell(bkt[d], a) : d \in cell_bucket(ps, a)}}

Collected(bkt, ps, a) ==
    [d \in DOMAIN bkt |->
        IF d \in cell_bucket(ps, a)
        THEN [bkt[d] EXCEPT !.items = @ \ AtCell(bkt[d], a)]
        ELSE bkt[d]]

bucket_empty(bkt, ps, g, a) ==
    N - Cardinality(bkt[calculate_bucket_from_cell(ps, g, a)].items)

\* The two filters of the search for a new cell value v: no pair goes to a
\* full bucket (the bitmaps), and every bucket has room for what it gets.
kvs_initial_guide(x) == calculate_guide(KeyOf[x], 0)

shift_kvs_bitmap(kvs, v) == {(kvs_initial_guide(x) + v) % cell_hash : x \in kvs}

kvs_guide_bucket_count(kvs, g) ==
    Cardinality({x \in kvs : kvs_initial_guide(x) = g})

\* Turns the guides the wrong way.
wrong_check_kvs(bkt, ps, a, kvs, v) ==
    \A i \in Guides :
        kvs_guide_bucket_count(kvs, (i + v) % cell_hash)
            <= bucket_empty(bkt, ps, i, a)

check_kvs(bkt, ps, a, kvs, v) ==
    \A i \in Guides :
        kvs_guide_bucket_count(kvs, (i + cell_hash - v) % cell_hash)
            <= bucket_empty(bkt, ps, i, a)

CellValueFits(bkt, ps, a, kvs, v) ==
    /\ \A g \in shift_kvs_bitmap(kvs, v) : bucket_empty(bkt, ps, g, a) > 0
    /\ check_kvs(bkt, ps, a, kvs, v)

NextCellValues(bkt, ps, a, kvs) ==
    {v \in cell[a] + 1 .. cell_full - 1 : CellValueFits(bkt, ps, a, kvs, v)}

\* dispense_kvs: each pair to the bucket of its guide under the new value.
wrong_kvs_now_guide(x, v) == kvs_initial_guide(x)
kvs_now_guide(x, v) == (kvs_initial_guide(x) + v) % cell_hash

dispense_kvs(c, bkt, ps, a, kvs) ==
    [d \in DOMAIN bkt |->
        LET mine == {x \in kvs :
                d = calculate_bucket_from_cell(ps, kvs_now_guide(x, c[a]), a)}
        IN  IF mine = {}
            THEN bkt[d]
            ELSE insert_kv_to_bucket(c, ps, d, bkt[d], Entries(mine, a))]

-----------------------------------------------------------------------------
(* Operations.  A call of insert is the steps between Insert and Return:   *)
(* one step for each call of the recursion, depth first, so the deepest    *)
(* layer that still has pairs to insert goes first.                        *)

NoReply == [op |-> "none"]
Idle == call = NoKV

InFlight == UNION {pending[l] : l \in 0 .. cell_layer}

\* The deepest loop still running: insert(x, s) is its next call.
Turn(s) == \A l \in 0 .. cell_layer : pending[l] # {} => l <= s

Insert(x) ==
    /\ Idle
    /\ x \notin called
    /\ called' = called \cup {x}
    /\ call' = x
    /\ ret' = TRUE
    /\ pending' = [pending EXCEPT ![0] = {x}]
    /\ reply' = NoReply
    /\ UNCHANGED <<hash, cell, bucket, bucket_number>>

\* Every layer from s on is full for x, or there is none: insert returns false.
InsertFails(x, s) ==
    /\ OpenLayers(cell, KeyOf[x], s) = {}
    /\ pending' = [pending EXCEPT ![s] = @ \ {x}]
    /\ ret' = FALSE
    /\ UNCHANGED <<hash, cell, bucket, bucket_number, call, called, reply>>

\* The target bucket once insert_kv_to_bucket has checked it.
TargetChecked(d) ==
    [bucket EXCEPT ![d] = check_bucket(cell, PageSize, d, @)]

\* The result of the last call of the loop replaces those before it.
wrong_InsertDirect(x, s) ==
    /\ OpenLayers(cell, KeyOf[x], s) # {}
    /\ LET a == HomeCell(cell, KeyOf[x], s)
           d == calculate_bucket(cell, PageSize, KeyOf[x], a)
       IN  /\ HasRoom(TargetChecked(d)[d])
           /\ bucket' = [bucket EXCEPT ![d] =
                insert_kv_to_bucket(cell, PageSize, d, @, Entries({x}, a))]
    /\ pending' = [pending EXCEPT ![s] = @ \ {x}]
    /\ ret' = TRUE
    /\ UNCHANGED <<hash, cell, bucket_number, call, called, reply>>

InsertDirect(x, s) ==
    /\ OpenLayers(cell, KeyOf[x], s) # {}
    /\ LET a == HomeCell(cell, KeyOf[x], s)
           d == calculate_bucket(cell, PageSize, KeyOf[x], a)
       IN  /\ HasRoom(TargetChecked(d)[d])
           /\ bucket' = [bucket EXCEPT ![d] =
                insert_kv_to_bucket(cell, PageSize, d, @, Entries({x}, a))]
    /\ pending' = [pending EXCEPT ![s] = @ \ {x}]
    /\ UNCHANGED <<hash, cell, bucket_number, ret, call, called, reply>>

\* The bucket is full: the pairs of the cell are taken out and dispensed again
\* under the next value of the cell for which they all fit.
InsertMoves(x, s) ==
    /\ OpenLayers(cell, KeyOf[x], s) # {}
    /\ LET a == HomeCell(cell, KeyOf[x], s)
           d == calculate_bucket(cell, PageSize, KeyOf[x], a)
           b1 == TargetChecked(d)
           kvs == {x} \cup collect_kv(b1, PageSize, a)
           b2 == Collected(b1, PageSize, a)
           fits == NextCellValues(b2, PageSize, a, kvs)
       IN  /\ ~HasRoom(b1[d])
           /\ fits # {}
           /\ cell' = [cell EXCEPT ![a] = Min(fits)]
           /\ bucket' = dispense_kvs(cell', b2, PageSize, a, kvs)
    /\ pending' = [pending EXCEPT ![s] = @ \ {x}]
    /\ UNCHANGED <<hash, bucket_number, ret, call, called, reply>>

\* The pairs are inserted again from the cell's own layer, before the cell is
\* closed.
wrong_InsertOverflows(x, s) ==
    /\ OpenLayers(cell, KeyOf[x], s) # {}
    /\ LET a == HomeCell(cell, KeyOf[x], s)
           d == calculate_bucket(cell, PageSize, KeyOf[x], a)
           b1 == TargetChecked(d)
           kvs == {x} \cup collect_kv(b1, PageSize, a)
           b2 == Collected(b1, PageSize, a)
       IN  /\ ~HasRoom(b1[d])
           /\ NextCellValues(b2, PageSize, a, kvs) = {}
           /\ bucket' = b2
           /\ pending' = [pending EXCEPT ![s] = @ \ {x}, ![a[1]] = kvs]
    /\ UNCHANGED <<hash, cell, bucket_number, ret, call, called, reply>>

\* No value is left: the cell is closed, and each of its pairs is to be
\* inserted from the next layer on.
InsertOverflows(x, s) ==
    /\ OpenLayers(cell, KeyOf[x], s) # {}
    /\ LET a == HomeCell(cell, KeyOf[x], s)
           d == calculate_bucket(cell, PageSize, KeyOf[x], a)
           b1 == TargetChecked(d)
           kvs == {x} \cup collect_kv(b1, PageSize, a)
           b2 == Collected(b1, PageSize, a)
       IN  /\ ~HasRoom(b1[d])
           /\ NextCellValues(b2, PageSize, a, kvs) = {}
           /\ cell' = [cell EXCEPT ![a] = cell_full]
           /\ bucket' = b2
           /\ pending' = [pending EXCEPT ![s] = @ \ {x}, ![a[1] + 1] = kvs]
    /\ UNCHANGED <<hash, bucket_number, ret, call, called, reply>>

InsertStep ==
    \E s \in 0 .. cell_layer : Turn(s) /\ \E x \in pending[s] :
        \/ InsertFails(x, s)
        \/ InsertDirect(x, s)
        \/ InsertMoves(x, s)
        \/ InsertOverflows(x, s)

Return ==
    /\ ~Idle
    /\ InFlight = {}
    /\ call' = NoKV
    /\ reply' = [op |-> "insert", kv |-> call, ok |-> ret]
    /\ UNCHANGED <<hash, cell, bucket, bucket_number, pending, ret, called>>

\* The pairs with key q in a bucket.
Matches(b, q) == {e.kv : e \in {f \in b.items : KeyOf[f.kv] = q}}

\* query(q): the first open layer decides on the bucket, which is checked.
QueryReply(q, x) == [op |-> "query", key |-> q, kv |-> x]

Query(q) ==
    /\ Idle
    /\ LET d == query_bucket(cell, PageSize, q)
       IN  \/ /\ d = -1
              /\ reply' = QueryReply(q, NoKV)
              /\ UNCHANGED bucket
           \/ /\ d # -1
              /\ bucket' = TargetChecked(d)
              /\ LET found == Matches(TargetChecked(d)[d], q)
                 IN  \/ \E x \in found : reply' = QueryReply(q, x)
                     \/ found = {} /\ reply' = QueryReply(q, NoKV)
    /\ UNCHANGED <<hash, cell, bucket_number, pending, ret, call, called>>

\* The bucket that slot j of the doubled array is copied from: each page is
\* doubled in place, its second half a copy of the first.
wrong_CopiedFrom(j) == j % bucket_number
CopiedFrom(j) ==
    (j \div (2 * PageSize)) * PageSize + ((j % (2 * PageSize)) % PageSize)

Doubled ==
    [j \in 0 .. 2 * bucket_number - 1 |->
        [items |-> bucket[CopiedFrom(j)].items, check |-> FALSE]]

\* Raises the flags, without the checks.
wrong_AllChecked(c, ps, bkt) == [d \in DOMAIN bkt |-> [bkt[d] EXCEPT !.check = TRUE]]

AllChecked(c, ps, bkt) ==
    [d \in DOMAIN bkt |-> check_bucket(c, ps, d, bkt[d])]

\* Opens the cells again.
wrong_extend_open(lazy) ==
    /\ Idle
    /\ 2 * bucket_number <= MaxBuckets
    /\ bucket_number' = 2 * bucket_number
    /\ cell' = [a \in Cell |-> 0]
    /\ bucket' = IF lazy THEN Doubled ELSE AllChecked(cell, 2 * PageSize, Doubled)
    /\ UNCHANGED <<hash, pending, ret, call, called, reply>>

\* Leaves bucket_number as it was.
wrong_extend_number(lazy) ==
    /\ Idle
    /\ 2 * bucket_number <= MaxBuckets
    /\ bucket' = IF lazy THEN Doubled ELSE AllChecked(cell, 2 * PageSize, Doubled)
    /\ UNCHANGED <<hash, cell, bucket_number, pending, ret, call, called, reply>>

extend(lazy) ==
    /\ Idle
    /\ 2 * bucket_number <= MaxBuckets
    /\ bucket_number' = 2 * bucket_number
    /\ bucket' = IF lazy THEN Doubled ELSE AllChecked(cell, 2 * PageSize, Doubled)
    /\ UNCHANGED <<hash, cell, pending, ret, call, called, reply>>

\* calculate_bucket_items, with the sum over all buckets.
UsedSlots(bkt) == Cardinality(UNION {{d} \X bkt[d].items : d \in DOMAIN bkt})

calculate_bucket_items ==
    /\ Idle
    /\ bucket' = AllChecked(cell, PageSize, bucket)
    /\ reply' = [op |-> "count", n |-> UsedSlots(bucket')]
    /\ UNCHANGED <<hash, cell, bucket_number, pending, ret, call, called>>

Init ==
    /\ hash \in Hashes
    /\ cell = [a \in Cell |-> 0]
    /\ bucket_number = cell_hash * Page
    /\ bucket = [d \in 0 .. bucket_number - 1 |-> [items |-> {}, check |-> TRUE]]
    /\ pending = [l \in 0 .. cell_layer |-> {}]
    /\ ret = TRUE
    /\ call = NoKV
    /\ called = {}
    /\ reply = NoReply

Next ==
    \/ \E x \in KV : Insert(x)
    \/ InsertStep
    \/ Return
    \/ \E q \in Key : Query(q)
    \/ \E lazy \in LazyModes : extend(lazy)
    \/ calculate_bucket_items

Spec == Init /\ [][Next]_vars

\* The table runs in one thread: a call that was made keeps running.  What the
\* client does next is its own choice.
FairSpec == Spec /\ WF_vars(InsertStep \/ Return)

-----------------------------------------------------------------------------
(* Properties.                                                             *)

Buckets == 0 .. bucket_number - 1

\* The types of the state, and the shape that extend() keeps: cell_hash pages
\* of equal size.
TypeOK ==
    /\ hash \in Hashes
    /\ cell \in [Cell -> 0 .. cell_full]
    /\ bucket_number \in Nat /\ PageSize > 0
    /\ bucket_number = cell_hash * PageSize
    /\ bucket \in [Buckets -> [items : SUBSET Entry, check : BOOLEAN]]
    /\ pending \in [0 .. cell_layer -> SUBSET KV]
    /\ ret \in BOOLEAN
    /\ call \in KV \cup {NoKV}
    /\ called \subseteq KV
    /\ reply.op \in {"none", "insert", "query", "count"}

Closed(q) == OpenLayers(cell, q, 0) = {}

Home(x) == query_bucket(cell, PageSize, KeyOf[x])

\* A pair is held when it is in the bucket that its key is looked up in.
Held(x) == ~Closed(KeyOf[x]) /\ \E e \in bucket[Home(x)].items : e.kv = x

\* No pair is dropped silently: whatever moves, overflows, checks and
\* expansions came in between, a pair that was inserted is found where a query
\* looks for it, is on its way to a deeper layer, or has all its cells closed.
NothingLost ==
    \A x \in called : x \in InFlight \/ Held(x) \/ Closed(KeyOf[x])

\* Moving the pairs of a cell never asks a bucket for more than its N slots
\* (dispense_kvs does not look at the results of its inserts).
BucketsFit == \A d \in Buckets : Cardinality(bucket[d].items) <= N

\* What collect_kv takes out of a bucket is stored where its key is looked up:
\* it never moves a copy that a lazy extend() left behind, so it collects no
\* pair twice, although it reads buckets that were not checked.
CollectsLiveOnly ==
    \A d \in Buckets : \A e \in bucket[d].items :
        cell[e.at] # cell_full /\ d \in cell_bucket(PageSize, e.at)
            => Home(e.kv) = d

\* Without lazy expansion each held pair takes exactly one slot, so that the
\* number of slots in use is the number of pairs held.
SlotsExact ==
    UsedSlots(bucket) = Cardinality({x \in called : Held(x) /\ x \notin InFlight})

\* calculate_bucket_items() counts the pairs in the table (main.cpp prints the
\* number as "inserted items").
CountIsItems ==
    reply.op = "count" => reply.n = Cardinality({x \in called : Held(x)})

\* A key whose cells are all closed is never accepted again: no operation
\* reopens a cell, and extend(), which adds room, does not help it.
ClosedForEver == [][\A q \in Key : Closed(q) => Closed(q)']_vars

\* A pair stays in its slot unless its own cell is moved or closed, or the
\* bucket array is replaced: inserting one pair never disturbs the pairs of
\* other cells.
OthersStay ==
    [][\A x \in called :
        (Held(x) /\ bucket_number' = bucket_number
            /\ cell'[HomeCell(cell, KeyOf[x], 0)] = cell[HomeCell(cell, KeyOf[x], 0)])
        => \E e \in bucket'[Home(x)].items : e.kv = x]_vars

\* A call of insert() returns: the chain of overflows ends.
InsertReturns == ~Idle ~> Idle

-----------------------------------------------------------------------------
(* The inductive invariant.                                                *)

\* The entry of a held pair is filed under the cell its key is looked up by,
\* so that the pair moves when that cell moves.
HeldAtHomeCell ==
    \A x \in called :
        \/ x \in InFlight
        \/ Closed(KeyOf[x])
        \/ [kv |-> x, at |-> HomeCell(cell, KeyOf[x], 0)] \in bucket[Home(x)].items

\* An entry, copies left behind included, is filed under a cell of its key
\* below which all cells are closed.
EntriesFiled ==
    \A d \in Buckets : \A e \in bucket[d].items :
        /\ e.kv \in called
        /\ e.at = calculate_cell(KeyOf[e.kv], e.at[1])
        /\ \A m \in Layers : m < e.at[1]
                => cell[calculate_cell(KeyOf[e.kv], m)] = cell_full

\* An entry of an open cell, in one of the cell's buckets, is in the one that
\* the guide of its key selects.
GuideSelects ==
    \A d \in Buckets : \A e \in bucket[d].items :
        (cell[e.at] # cell_full /\ d \in cell_bucket(PageSize, e.at))
            => d = calculate_bucket(cell, PageSize, KeyOf[e.kv], e.at)

\* A pair to be inserted from layer l on was inserted by the client, has no
\* open cell before l, and is not also stored for an open cell.
PendingFiled ==
    \A l \in 0 .. cell_layer : \A x \in pending[l] :
        /\ x \in called
        /\ \A m \in Layers : m < l => cell[calculate_cell(KeyOf[x], m)] = cell_full
        /\ \A d \in Buckets : \A e \in bucket[d].items :
                e.kv = x => cell[e.at] = cell_full

\* The loops of an overflowing insert work on different pairs, and none runs
\* when no call does.
PendingApart ==
    /\ \A l, m \in 0 .. cell_layer : l # m => pending[l] \cap pending[m] = {}
    /\ Idle => InFlight = {}

FiniteBuckets == \A d \in Buckets : IsFiniteSet(bucket[d].items)

IInv ==
    /\ TypeOK
    /\ HeldAtHomeCell
    /\ EntriesFiled
    /\ GuideSelects
    /\ PendingFiled
    /\ PendingApart
    /\ FiniteBuckets
    /\ BucketsFit

-----------------------------------------------------------------------------
(* What the table implements.                                              *)

Store == INSTANCE HashStore WITH
            store <- {x \in called : x \in InFlight \/ Held(x)},
            ok <- ret

Refinement == Store!Spec
=============================================================================
