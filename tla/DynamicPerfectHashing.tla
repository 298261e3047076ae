------------------------ MODULE DynamicPerfectHashing ------------------------
(***************************************************************************)
(* The two-level hash table of                                             *)
(* CPU/ComparedAlgorithms/DynamicPerfectHashing/DynamicPerfectHashing.h.   *)
(*                                                                         *)
(* A first hash function gives each key a sub-table, and the sub-table's   *)
(* own one gives it a slot of its own.  An insert that collides draws a    *)
(* new hash function for the sub-table until the keys part again; one that *)
(* outgrows the sub-table enlarges it; and when the sum of the sub-tables  *)
(* exceeds the threshold (condition ** of the code), or more than M        *)
(* operations were counted, everything is rehashed into new sub-tables.    *)
(*                                                                         *)
(* rand() is the choice of the hash function drawn.  Values are left out:  *)
(* no operation looks at them.                                             *)
(*                                                                         *)
(* A definition named wrong_... is the one after it with one plausible     *)
(* mistake, and is used nowhere.                                           *)
(***************************************************************************)
EXTENDS Integers, FiniteSets, FiniteSetsExt, Functions

CONSTANTS
    Key,            \* the keys of the client, none of them DELETED
    DELETED,        \* the key of an empty slot
    c, SM,          \* M and the number of sub-tables, relative to the keys
    MinCount,       \* least count that M is computed from, 4
    Quadratic,      \* factors of the threshold of isSatisfied(), 32 and 4
    Linear,
    TopHashes,      \* hash functions that the seeds of the table may select
    SubHashes,      \* and those of a sub-table
    Heap,           \* keys that may lie in memory behind an element array
    Deletes,        \* whether the client calls Delete() and Initialize()
    MaxLate         \* BOUND: how far Delete() may take cnt beyond M

ASSUME KeyAssumption == IsFiniteSet(Key) /\ DELETED \notin Key /\ Heap \subseteq Key

ASSUME FactorAssumption ==
    /\ c \in Nat /\ SM \in Nat \ {0} /\ MinCount \in Nat \ {0}
    /\ Quadratic \in Nat /\ Linear \in Nat
    /\ Deletes \in BOOLEAN /\ MaxLate \in Nat

ASSUME DrawAssumption ==
    /\ TopHashes \subseteq [Key -> Nat] /\ TopHashes # {}
    /\ SubHashes \subseteq [Key -> Nat] /\ SubHashes # {}

VARIABLES
    cnt,    \* operations counted since the last RehashAll, and its keys
    M,      \* operations to count before the next one
    size,   \* number of sub-tables
    top,    \* the hash function to sub-tables
    sub,    \* the sub-tables
    list,   \* all_list or temp_list: nodes of the keys to be placed again
    cur,    \* the sub-table that a hash function is being drawn for
    pc,     \* the loop that runs, or "idle" between two calls
    keys,   \* history: the keys that the client inserted and did not delete
    stray   \* history: those that RehashAll took from behind an element array,
            \* and the client did not delete

vars == <<cnt, M, size, top, sub, list, cur, pc, keys, stray>>

-----------------------------------------------------------------------------
(* Sub-tables.  element is a function on the slots in use.                 *)

Tables == 0 .. size - 1

hash_to_table(k) == top[k] % size
table_to_element(t, k) == t.hash[k] % t.space

At(t, i) == IF i \in DOMAIN t.element THEN t.element[i] ELSE DELETED

SpaceFor(length) == 2 * length * (length - 1)

\* A sub-table for n keys, its slots and hash function not set yet.
wrong_NewTable(n) ==
    LET length == IF n > 1 THEN n ELSE 2
    IN  [element |-> <<>>, length |-> length, number |-> n,
         space |-> (length * (length - 1)) \div 2,
         hash |-> CHOOSE h \in SubHashes : TRUE]

NewTable(n) ==
    LET length == IF n > 1 THEN 2 * n ELSE 2
    IN  [element |-> <<>>, length |-> length, number |-> n,
         space |-> SpaceFor(length), hash |-> CHOOSE h \in SubHashes : TRUE]

Longer(length) == IF length > 1 THEN 2 * length ELSE 2

\* Walks the length of the sub-table, instead of its space.
wrong_NodesOf(b, t) ==
    {[key |-> t.element[i], from |-> <<b, i>>] : i \in DOMAIN t.element \cap 0 .. t.length - 1}

\* A node of a list is a key and where it came from: the same key may be in
\* the list twice.
NodesOf(b, t) == {[key |-> t.element[i], from |-> <<b, i>>] : i \in DOMAIN t.element}
NewNode(k) == [key |-> k, from |-> <<-1, 0>>]
KeysIn(nodes) == {n.key : n \in nodes}

AllNodes(tables) == UNION {NodesOf(b, tables[b]) : b \in DOMAIN tables}

\* The slots of sub-table t once the keys K are stored, which do not collide.
Placed(t, K) ==
    [i \in {table_to_element(t, k) : k \in K} |->
        CHOOSE k \in K : table_to_element(t, k) = i]

Spaces(tables) == [b \in DOMAIN tables |-> tables[b].space]
Total(spaces) == FoldFunction(+, 0, spaces)

\* Condition **.
threshold(m, s) == (Quadratic * m * m) \div s + Linear * m
isSatisfied(tables, m, s) == Total(Spaces(tables)) <= threshold(m, s)

-----------------------------------------------------------------------------
(* RehashAll up to its loops: the nodes l are taken out of the table.      *)

RehashAll(l) ==
    /\ list' = l
    /\ cnt' = Cardinality(l)
    /\ M' = (1 + c) * Max({Cardinality(l), MinCount})
    /\ sub' = <<>>
    /\ cur' = 0
    /\ pc' = "top"

\* One turn of the loop that draws the hash function to sub-tables.
DrawTop(h) ==
    /\ pc = "top"
    /\ top' = h
    /\ size' = SM * M
    /\ sub' = [i \in 0 .. size' - 1 |->
            NewTable(Cardinality({n \in list : h[n.key] % size' = i}))]
    /\ pc' = IF isSatisfied(sub', M, size') THEN "form" ELSE "top"
    /\ UNCHANGED <<cnt, M, list, cur, keys, stray>>

new_list(i) == {n \in list : hash_to_table(n.key) = i}

\* In RehashAll a node also collides with another one of the same key.
NodesPart(t, nodes) ==
    \A m, n \in nodes : m # n => table_to_element(t, m.key) # table_to_element(t, n.key)

LastTable == cur + 1 = size

\* One turn of the loop that draws the hash function of sub-table cur.
FormTable(h) ==
    /\ pc = "form"
    /\ LET t == [sub[cur] EXCEPT !.hash = h]
           nodes == new_list(cur)
       IN  IF NodesPart(t, nodes)
           THEN /\ sub' = [sub EXCEPT ![cur] =
                        [t EXCEPT !.element = Placed(t, KeysIn(nodes))]]
                /\ IF LastTable
                   THEN cur' = 0 /\ pc' = "idle" /\ list' = {}
                   ELSE cur' = cur + 1 /\ UNCHANGED <<pc, list>>
           ELSE /\ sub' = [sub EXCEPT ![cur] = [t EXCEPT !.element = <<>>]]
                /\ UNCHANGED <<cur, pc, list>>
    /\ UNCHANGED <<cnt, M, size, top, keys, stray>>

-----------------------------------------------------------------------------
(* Insert.                                                                 *)

PhaseOver == cnt + 1 > M

Inserting(k) ==
    /\ pc = "idle"
    /\ keys' = keys \cup {k}

\* Does not look for the key, stored or not.
InsertEndsPhase(k) ==
    /\ Inserting(k)
    /\ PhaseOver
    /\ RehashAll(AllNodes(sub) \cup {NewNode(k)})
    /\ UNCHANGED <<size, top, stray>>

Holds(t, k) == At(t, table_to_element(t, k)) = k

InsertFinds(k) ==
    /\ Inserting(k)
    /\ ~PhaseOver
    /\ Holds(sub[hash_to_table(k)], k)
    /\ cnt' = cnt + 1
    /\ UNCHANGED <<M, size, top, sub, list, cur, pc, stray>>

\* Goes on with a key that its sub-table does not hold.
InsertsNew(k) ==
    /\ Inserting(k)
    /\ ~PhaseOver
    /\ ~Holds(sub[hash_to_table(k)], k)

\* The sub-table of key k, with k counted.
Counted(k) == [sub[hash_to_table(k)] EXCEPT !.number = @ + 1]

LongEnough(t) == t.number <= t.length

InsertFillsSlot(k) ==
    /\ InsertsNew(k)
    /\ LET t == Counted(k)
           i == table_to_element(t, k)
       IN  /\ LongEnough(t)
           /\ At(t, i) = DELETED
           /\ sub' = [sub EXCEPT ![hash_to_table(k)].number = t.number,
                        ![hash_to_table(k)].element =
                            [j \in DOMAIN @ \cup {i} |-> IF j = i THEN k ELSE @[j]]]
    /\ cnt' = cnt + 1
    /\ UNCHANGED <<M, size, top, list, cur, pc, stray>>

\* The keys of sub-table t and k are to be placed in the emptied table t.
RehashSub(k, t) ==
    LET b == hash_to_table(k)
        nodes == NodesOf(b, sub[b]) \cup {NewNode(k)}
    IN  /\ list' = nodes
        /\ sub' = [sub EXCEPT ![b] =
                [t EXCEPT !.number = Cardinality(nodes), !.element = <<>>]]
        /\ cur' = b
        /\ pc' = "sub"

InsertCollides(k) ==
    /\ InsertsNew(k)
    /\ LET t == Counted(k)
       IN  /\ LongEnough(t)
           /\ At(t, table_to_element(t, k)) # DELETED
           /\ RehashSub(k, t)
    /\ cnt' = cnt + 1
    /\ UNCHANGED <<M, size, top, stray>>

\* The sub-table of k, with k counted and the length doubled.
Enlarged(k) ==
    LET length == Longer(Counted(k).length)
    IN  [Counted(k) EXCEPT !.length = length, !.space = SpaceFor(length)]

\* Looks at the spaces before the sub-table is enlarged.
wrong_EnlargedFits(k) == isSatisfied(sub, M, size)

EnlargedFits(k) ==
    isSatisfied([sub EXCEPT ![hash_to_table(k)] = Enlarged(k)], M, size)

InsertEnlarges(k) ==
    /\ InsertsNew(k)
    /\ ~LongEnough(Counted(k))
    /\ EnlargedFits(k)
    /\ RehashSub(k, Enlarged(k))
    /\ cnt' = cnt + 1
    /\ UNCHANGED <<M, size, top, stray>>

\* RehashAll reads the element array up to the larger space, which it was not
\* given: the keys G that lie there are taken for elements.
ReadBehind(k, G) ==
    {[key |-> g, from |-> <<hash_to_table(k), Counted(k).space>>] : g \in G}

InsertRehashesAll(k) ==
    /\ InsertsNew(k)
    /\ ~LongEnough(Counted(k))
    /\ ~EnlargedFits(k)
    /\ \E G \in SUBSET Heap :
            /\ RehashAll(AllNodes(sub) \cup {NewNode(k)} \cup ReadBehind(k, G))
            /\ stray' = stray \cup G
    /\ UNCHANGED <<size, top>>

\* One turn of the loop of Insert that draws a hash function.  Here nodes of
\* the same key do not collide.
KeysPart(t, K) ==
    \A j, k \in K : j # k => table_to_element(t, j) # table_to_element(t, k)

RehashTable(h) ==
    /\ pc = "sub"
    /\ LET t == [sub[cur] EXCEPT !.hash = h]
       IN  IF KeysPart(t, KeysIn(list))
           THEN /\ sub' = [sub EXCEPT ![cur] =
                        [t EXCEPT !.element = Placed(t, KeysIn(list))]]
                /\ cur' = 0 /\ pc' = "idle" /\ list' = {}
           ELSE /\ sub' = [sub EXCEPT ![cur] = t]
                /\ UNCHANGED <<cur, pc, list>>
    /\ UNCHANGED <<cnt, M, size, top, keys, stray>>

-----------------------------------------------------------------------------
(* Delete and Initialize.  Before the first insert there is no sub-table,  *)
(* and the client has nothing to delete.                                   *)

Deleting ==
    /\ Deletes
    /\ pc = "idle"
    /\ size > 0
    /\ cnt <= M + MaxLate

\* Counts, and returns before the counter is looked at.
DeleteMisses(k) ==
    /\ Deleting
    /\ ~Holds(sub[hash_to_table(k)], k)
    /\ cnt' = cnt + 1
    /\ UNCHANGED <<M, size, top, sub, list, cur, pc, keys, stray>>

Without(k) ==
    LET b == hash_to_table(k)
        i == table_to_element(sub[b], k)
    IN  [sub EXCEPT ![b].element = Restrict(@, DOMAIN @ \ {i})]

DeleteFinds(k) ==
    /\ Deleting
    /\ Holds(sub[hash_to_table(k)], k)
    /\ keys' = keys \ {k} /\ stray' = stray \ {k}
    /\ IF PhaseOver
       THEN RehashAll(AllNodes(Without(k)))
       ELSE /\ cnt' = cnt + 1
            /\ sub' = Without(k)
            /\ UNCHANGED <<M, list, cur, pc>>
    /\ UNCHANGED <<size, top>>

Initialize ==
    /\ Deletes
    /\ pc = "idle"
    /\ RehashAll({})
    /\ size' = 0
    /\ top' \in TopHashes
    /\ keys' = {} /\ stray' = {}

-----------------------------------------------------------------------------
Init ==
    /\ cnt = 0 /\ M = 0 /\ size = 0
    /\ top \in TopHashes
    /\ sub = <<>>
    /\ list = {}
    /\ cur = 0
    /\ pc = "idle"
    /\ keys = {} /\ stray = {}

Insert(k) ==
    \/ InsertEndsPhase(k)
    \/ InsertFinds(k)
    \/ InsertFillsSlot(k)
    \/ InsertCollides(k)
    \/ InsertEnlarges(k)
    \/ InsertRehashesAll(k)

Draw ==
    \/ \E h \in TopHashes : DrawTop(h)
    \/ \E h \in SubHashes : FormTable(h) \/ RehashTable(h)

Next ==
    \/ \E k \in Key : Insert(k) \/ DeleteMisses(k) \/ DeleteFinds(k)
    \/ Initialize
    \/ Draw

Spec == Init /\ [][Next]_vars

\* The loops keep drawing, and the seeds are random: a hash function that fits
\* the keys, if there is one, is drawn eventually.
FittingTop == (\E h \in TopHashes : DrawTop(h)) /\ pc' = "form"
FittingForm == (\E h \in SubHashes : FormTable(h)) /\ cur' # cur
FittingLast ==
    (\E h \in SubHashes : FormTable(h) \/ RehashTable(h)) /\ pc' = "idle"

FairSpec ==
    /\ Spec
    /\ WF_vars(Draw)
    /\ WF_vars(FittingTop) /\ WF_vars(FittingForm) /\ WF_vars(FittingLast)

-----------------------------------------------------------------------------
(* Properties.                                                             *)

Loops == {"top", "form", "sub"}

\* The types of the state, and a place in a sub-table for each element of it.
TypeOK ==
    /\ cnt \in Nat /\ M \in Nat /\ size \in Nat
    /\ top \in TopHashes
    /\ \A b \in DOMAIN sub :
        LET t == sub[b]
        IN  /\ DOMAIN t = {"element", "length", "number", "space", "hash"}
            /\ DOMAIN t.element \subseteq 0 .. t.space - 1
            /\ \A i \in DOMAIN t.element : t.element[i] \in Key
            /\ {t.length, t.number, t.space} \subseteq Nat
            /\ t.hash \in SubHashes
    /\ KeysIn(list) \subseteq Key
    /\ pc \in Loops \cup {"idle"}
    /\ pc \in {"sub", "form"} => cur \in Tables
    /\ pc # "top" => DOMAIN sub = Tables
    /\ keys \subseteq Key /\ stray \subseteq Key

\* Lookup finds exactly the keys that the client inserted and did not delete,
\* and those that RehashAll took from behind an element array, after any
\* sequence of inserts, deletes, collisions, enlargements and rehashes: no
\* other key comes in, and none gets lost, be it one of those.
Lookup(k) == size > 0 /\ Holds(sub[hash_to_table(k)], k)

Exact == pc = "idle" => \A k \in Key : Lookup(k) <=> k \in keys \cup stray

\* A sub-table never holds more keys than it counts, nor counts more than it
\* is long: its space stays quadratic in its keys, so that a hash function
\* that fits them is likely.
NumberFits ==
    pc = "idle" => \A b \in Tables :
        /\ Cardinality(DOMAIN sub[b].element) <= sub[b].number
        /\ sub[b].number <= sub[b].length

\* "The main hash table is to accomodate up to M elements."
WithinM == pc = "idle" => Cardinality(keys \cup stray) <= M

\* Between two calls the table takes space linear in M (condition ** holds) for
\* at most M keys, and each sub-table space quadratic in what it counts.
SpaceBound ==
    /\ TypeOK
    /\ NumberFits
    /\ WithinM
    /\ (pc = "idle" /\ size > 0) => isSatisfied(sub, M, size)

\* RehashAll has a key twice in its list when the operation that ends a phase
\* inserts a stored key, or a stored key is read from behind an array.
Repeated == \E m, n \in list : m # n /\ m.key = n.key

\* Insert, Delete and Initialize return unless a key is in the list twice: all
\* loops that draw hash functions end.
OperationsReturn == (pc \in Loops /\ ~Repeated) ~> pc = "idle"

\* The loops end at any rate: "Loop until  it is injective on sub-hashtable,
\* that is no collision", and an insert of a stored key does nothing.
LoopsEnd == pc \in Loops ~> pc = "idle"
=============================================================================
