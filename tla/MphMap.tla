-------------------------------- MODULE MphMap --------------------------------
(***************************************************************************)
(* The hash maps of cxxmph (cxxmph/mph_map.h): mph_map, dense_hash_map and *)
(* sparse_hash_map, which differ in their index.  A map keeps its pairs in *)
(* a vector of cells.  The cells of the last pack() are found by the       *)
(* perfect hash function of the index, those added since by the "slack",   *)
(* an ordinary table of 128-bit hashes.  The model is of a build with      *)
(* assertions and of trivially copied keys and data.                       *)
(***************************************************************************)
EXTENDS MphIndex

CONSTANTS
    Key,
    DefaultKey,   \* key_type(), which an erased cell holds
    Data,
    DefaultData,
    Hash,         \* hash128 with seed 0 of every key, for the slack
    Hashes,       \* the functions h that seeds give to hash128
    MinPack,      \* 256: more cells than this are packed when they fill the vector
    MaxCells      \* bound: cells of the vector

ASSUME MapAssumption ==
    /\ DefaultKey \in Key
    /\ DefaultData \in Data
    /\ DOMAIN Hash = Key
    /\ Hashes \subseteq [Key -> [1..3 -> Nat]]
    /\ NoHash \notin Hashes
    /\ MinPack \in Nat /\ MaxCells \in Nat

VARIABLES
    minimal, square,  \* the template parameters
    values,           \* values_ and
    present,          \* present_
    capacity,         \* of values_
    slack,            \* from hashes to positions, from 0
    index,
    size,
    halted            \* "no", or what ended the program

vars == <<minimal, square, values, present, capacity, slack, index, size, halted>>
kind == <<minimal, square>>

DefaultValue == [key |-> DefaultKey, data |-> DefaultData]
NoSlack == <<>>

\* What is found where a key is looked up, besides a position in the vector.
End == -1    \* the code's end()
Dead == -2   \* a cell past the end of the vector, with the key in it
Fault == -3  \* a read through the null pointer of a vector without storage

-----------------------------------------------------------------------------
\* The cells an iterator stops at (hollow_iterator.h).
Iterated == {i \in DOMAIN values : present[i]}
Live == {values[i].key : i \in Iterated}

IndexSize(x) == IF minimal THEN x.m ELSE x.n
IndexOf(x, k) == IF minimal THEN minimal_perfect_hash(x, k) ELSE perfect_hash(x, k)

\* Whether the cell is present is not looked at.
wrong_Index(k) ==
    IF Hash[k] \in DOMAIN slack THEN {slack[Hash[k]]}
    ELSE IF IndexSize(index) = 0 THEN {End} ELSE {IndexOf(index, k)}

\* index(): the slack first, and a cell of the index only if it is present.
\* Past the end of present_ there is memory, with any bit, or none.
Index(k) ==
    IF Hash[k] \in DOMAIN slack THEN {slack[Hash[k]]}
    ELSE IF IndexSize(index) = 0 THEN {End}
    ELSE LET id == IndexOf(index, k)
         IN  IF id < Len(present) THEN {IF present[id + 1] THEN id ELSE End}
             ELSE IF capacity = 0 THEN {Fault} ELSE {End, id}

\* find() compares keys; what it returns at the end of the vector is end().
Find(k) ==
    UNION {IF i < 0 THEN {i}
           ELSE IF i < Len(values) THEN {IF values[i + 1].key = k THEN i ELSE End}
           ELSE IF i = Len(values) THEN {End} ELSE {End, Dead} : i \in Index(k)}

-----------------------------------------------------------------------------
Init ==
    /\ minimal \in BOOLEAN
    /\ square \in BOOLEAN
    /\ ~(minimal /\ square)
    /\ values = <<>>
    /\ present = <<>>
    /\ capacity = 0
    /\ slack = NoSlack
    /\ index = EmptyIndex
    /\ size = 0
    /\ halted = "no"

Halt(why) ==
    /\ halted' = why
    /\ UNCHANGED <<kind, values, present, capacity, slack, index, size>>

Running == halted = "no" /\ UNCHANGED kind

\* Cells that were erased are moved too.
wrong_Place(v, p, x) ==
    LET at(i) == {j \in DOMAIN v : IndexOf(x, v[j].key) = i - 1}
    IN  /\ values' = [i \in 1..IndexSize(x) |->
                         IF at(i) = {} THEN DefaultValue ELSE v[Max(at(i))]]
        /\ present' = [i \in 1..IndexSize(x) |-> at(i) # {}]

\* pack() moves every cell of the vector v that is present in p to the place
\* its key has in the new index x.
Place(v, p, x) ==
    LET at(i) == {j \in DOMAIN v : p[j] /\ IndexOf(x, v[j].key) = i - 1}
    IN  /\ values' = [i \in 1..IndexSize(x) |->
                         IF at(i) = {} THEN DefaultValue ELSE v[Max(at(i))]]
        /\ present' = [i \in 1..IndexSize(x) |-> at(i) # {}]

\* push_back doubles the capacity of a full vector.
Grown == IF Len(values) < capacity THEN capacity ELSE IF capacity = 0 THEN 1 ELSE 2 * capacity

\* pack() of the vector v, present in p, with s keys and a capacity of c; the
\* new vector gets factor times its size for capacity.  The assertion about distinct
\* keys, then a thousand seeds: one that works is tried if there is one.
Pack(v, p, s, c, factor) ==
    LET cells == Positions(p)
        keys == [i \in DOMAIN cells |-> v[cells[i]].key]
        distinct == IsInjective(keys) /\ Len(keys) = s
        works == {h \in Hashes : Mapping(keys, h, square)}
        end(why) ==
            /\ values' = v
            /\ present' = p
            /\ capacity' = c
            /\ size' = s
            /\ halted' = why
            /\ UNCHANGED <<slack, index>>
    IN  \/ ~distinct /\ end("assert")
        \/ distinct /\ keys # <<>> /\ works = {} /\ end("exit")
        \/ /\ distinct
           /\ \E x \in IF keys = <<>> THEN {IndexClear(index)}
                       ELSE {Reset(keys, h, square) : h \in works} :
                 /\ Place(v, p, x)
                 /\ index' = x
                 /\ capacity' = factor * IndexSize(x)
           /\ slack' = NoSlack
           /\ size' = s
           /\ UNCHANGED halted

\* The new key is counted after the pack().
wrong_Add(k, d) ==
    LET v == Append(values, [key |-> k, data |-> d])
        p == Append(present, TRUE)
        full == capacity = Len(values) /\ Len(values) > MinPack
    IN  /\ Len(values) < MaxCells
        /\ IF full \/ Hash[k] \in DOMAIN slack
           THEN Pack(v, p, size, Grown, 2)
           ELSE /\ values' = v
                /\ present' = p
                /\ capacity' = Grown
                /\ slack' = [h \in DOMAIN slack \cup {Hash[k]} |->
                                IF h = Hash[k] THEN Len(values) ELSE slack[h]]
                /\ size' = size + 1
                /\ UNCHANGED <<index, halted>>

\* The part of insert() after the key was not found.
Add(k, d) ==
    LET v == Append(values, [key |-> k, data |-> d])
        p == Append(present, TRUE)
        full == capacity = Len(values) /\ Len(values) > MinPack
    IN  /\ Len(values) < MaxCells
        /\ IF full \/ Hash[k] \in DOMAIN slack
           THEN Pack(v, p, size + 1, Grown, 2)
           ELSE /\ values' = v
                /\ present' = p
                /\ capacity' = Grown
                /\ slack' = [h \in DOMAIN slack \cup {Hash[k]} |->
                                IF h = Hash[k] THEN Len(values) ELSE slack[h]]
                /\ size' = size + 1
                /\ UNCHANGED <<index, halted>>

\* A found key is left alone.
Insert(k, d) ==
    /\ Running
    /\ \E f \in Find(k) :
          \/ f = End /\ Add(k, d)
          \/ f = Fault /\ Halt("crash")

\* operator[] and an assignment: to a new pair, to a held one, or to the
\* storage past the end, which no operation reads as a live cell.
Assign(k, d) ==
    /\ Running
    /\ \E f \in Find(k) :
          \/ f = End /\ Add(k, d)
          \/ f = Fault /\ Halt("crash")
          \/ /\ f >= 0
             /\ values' = [values EXCEPT ![f + 1].data = d]
             /\ UNCHANGED <<present, capacity, slack, index, size, halted>>

\* erase() of a key; the two assertions of erase() of an iterator fail for
\* a cell past the end and for one that is not present.
Erase(k) ==
    /\ Running
    /\ \E f \in Find(k) :
          \/ f = Fault /\ Halt("crash")
          \/ f = Dead /\ Halt("assert")
          \/ f >= 0 /\ ~present[f + 1] /\ Halt("assert")
          \/ /\ f >= 0
             /\ present[f + 1]
             /\ present' = [present EXCEPT ![f + 1] = FALSE]
             /\ values' = [values EXCEPT ![f + 1] = DefaultValue]
             /\ size' = size - 1
             /\ UNCHANGED <<capacity, slack, index, halted>>

\* The vectors keep their storage, and the index all but its rank table.
Clear ==
    /\ Running
    /\ values' = <<>>
    /\ present' = <<>>
    /\ slack' = NoSlack
    /\ index' = IndexClear(index)
    /\ size' = 0
    /\ UNCHANGED <<capacity, halted>>

\* rehash(): pack(), which returns at once when the vector is empty, and then
\* the vectors are cut to their sizes.
Rehash ==
    /\ Running
    /\ IF values = <<>>
       THEN /\ capacity' = 0
            /\ slack' = NoSlack
            /\ UNCHANGED <<values, present, index, size, halted>>
       ELSE Pack(values, present, size, capacity, 1)

Next ==
    \/ \E k \in Key, d \in Data : Insert(k, d) \/ Assign(k, d)
    \/ \E k \in Key : Erase(k)
    \/ Clear
    \/ Rehash

Spec == Init /\ [][Next]_vars

-----------------------------------------------------------------------------
\* The types of the state; the slack leads to cells that exist.
TypeOK ==
    /\ minimal \in BOOLEAN /\ square \in BOOLEAN
    /\ values \in Seq([key : Key, data : Data])
    /\ present \in Seq(BOOLEAN)
    /\ Len(present) = Len(values)
    /\ capacity \in Nat
    /\ Len(values) <= capacity
    /\ \A h \in DOMAIN slack : slack[h] \in 0..(Len(values) - 1)
    /\ index.h \in Hashes \cup {NoHash}
    /\ size \in Nat
    /\ halted \in {"no", "exit", "assert", "crash"}

\* A key that shares its hash with another one, of which the slack holds an
\* entry: it is looked up there, whichever key the entry was made for.
Shadowed(k) ==
    /\ Hash[k] \in DOMAIN slack
    /\ \E j \in Key \ {k} : Hash[j] = Hash[k]

\* The index still answers for cells that clear() took away.
Outlived == IndexSize(index) > Len(values)

\* The slack leads the default key to an erased cell, which holds it.
ErasedDefault ==
    /\ Hash[DefaultKey] \in DOMAIN slack
    /\ ~present[slack[Hash[DefaultKey]] + 1]

\* A key is found exactly if the map holds it, and in the cell that does,
\* however the map was packed, thinned out and refilled, but for the three
\* faults above: find() and index(), mph_map.h:212-236.
FindExact ==
    halted = "no" =>
        \A k \in Key :
            \/ /\ k \in Live
               /\ \A f \in Find(k) : f >= 0 /\ present[f + 1] /\ values[f + 1].key = k
            \/ /\ k \notin Live
               /\ Find(k) = {End}
            \/ Shadowed(k)
            \/ Outlived /\ k \notin Live
            \/ ErasedDefault /\ k = DefaultKey

\* No key occupies two present cells, and size() counts them, what
\* the iterators walk: the assertion of pack() (mph_map.h:162).  Two keys of
\* one hash may hide each other, and one of them be added twice.
OneCellEach ==
    /\ TypeOK
    /\ halted = "no" =>
        /\ size = Cardinality(Iterated)
        /\ \A i, j \in DOMAIN values :
              present[i] /\ present[j] /\ values[i].key = values[j].key => i = j

\* An assertion fails or the process crashes only in a map that held two keys
\* of one hash, or over a fault of clear() or erase(): the assertions of
\* mph_map.h:162, 200 and 201.
FaultsOnlyWhen ==
    /\ halted = "assert" =>
          \/ Outlived
          \/ ErasedDefault
          \/ \E k \in Live : Shadowed(k)
    /\ halted = "crash" => Outlived /\ capacity = 0

\* It exits only in a map of exactly two keys (the three thirds of their
\* graph have a single vertex each) or of two keys of one hash: mph_map.h:166.
ExitsOnlyWhen ==
    halted = "exit" =>
        \/ size = 2
        \/ \E j, k \in Live : j # k /\ Hash[j] = Hash[k]

\* The program is ended for those reasons only.
StopsOnlyWhen == ExitsOnlyWhen /\ FaultsOnlyWhen

\* One of the seeds that pack() tries makes a graph without a cycle of the keys,
\* if they are not two and no two share a hash: what is assumed of hash128, which
\* has it with a high probability, where ExitsOnlyWhen is proved.
SeedFound(keys, sq) ==
    \/ Len(keys) = 2
    \/ \E i, j \in DOMAIN keys : i # j /\ Hash[keys[i]] = Hash[keys[j]]
    \/ \E h \in Hashes : Mapping(keys, h, sq)

-----------------------------------------------------------------------------
\* What the map holds.
CellOf(k) == CHOOSE i \in DOMAIN values : present[i] /\ values[i].key = k

Map == INSTANCE UnorderedMap WITH
          contents <- [k \in Live |-> values[CellOf(k)].data],
          reliable <- ~Outlived /\ ~ErasedDefault /\ ~\E k \in Live : Shadowed(k),
          stopped <- halted # "no"

\* The maps are maps: what they hold changes as the abstract map's contents
\* do, through every pack() and rehash(), whenever none of the three
\* faults is there: mph_map.h:9, "drop-in
\* replacement".
Refinement == Map!Spec
=============================================================================
