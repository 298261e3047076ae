--------------------- MODULE DynamicPerfectHashingProofs ---------------------
(***************************************************************************)
(* Proofs about DynamicPerfectHashing, for all keys, hash functions and    *)
(* factors, and whatever lies behind the element arrays: between two calls *)
(* the space of the table is bounded, and a look-up finds exactly the keys *)
(* that the client inserted and those that came from behind an array, as   *)
(* far as they were not deleted.                                           *)
(***************************************************************************)
EXTENDS DynamicPerfectHashing, FiniteSetTheorems, TLAPS

-----------------------------------------------------------------------------
(* The inductive invariant.                                                *)

\* The types of one sub-table, as TypeOK has them.
TypedTable(t) ==
    /\ DOMAIN t = {"element", "length", "number", "space", "hash"}
    /\ DOMAIN t.element \subseteq 0 .. t.space - 1
    /\ \A i \in DOMAIN t.element : t.element[i] \in Key
    /\ {t.length, t.number, t.space} \subseteq Nat
    /\ t.hash \in SubHashes

\* A sub-table is as large as its length asks for, and counts no fewer keys than
\* it holds and no more than it is long.
Roomy(t) ==
    /\ t.length >= 2 /\ t.space = SpaceFor(t.length)
    /\ Cardinality(DOMAIN t.element) <= t.number
    /\ t.number <= t.length

\* A key is stored in its own sub-table and there in its own slot only.
FiledIn(b, t) ==
    \A i \in DOMAIN t.element :
        hash_to_table(t.element[i]) = b /\ table_to_element(t, t.element[i]) = i

\* What holds of each sub-table, whatever loop runs.
Tidy(b, t) == TypedTable(t) /\ Roomy(t) /\ FiledIn(b, t)
AllTidy == \A b \in DOMAIN sub : Tidy(b, sub[b])

\* What the table holds: the keys of the client and those from behind the arrays.
Held == keys \cup stray

\* The set K has the keys of the client and those from behind the arrays, and
\* no other.
Client(K) == K = Held

\* What the sub-tables find, those left aside whose turn is still to come.
FoundIn(B) == {k \in Key : hash_to_table(k) \in B /\ Holds(sub[hash_to_table(k)], k)}

\* Where the keys are between two calls, and in each of the loops.
AtRest == Client({k \in Key : Lookup(k)})

InTop == M > 0 /\ cur = 0 /\ Client(KeysIn(list))

InForm ==
    /\ Client(KeysIn(list))
    /\ \A b \in Tables : sub[b].number = Cardinality(new_list(b))
    /\ \A b \in Tables : \A i \in DOMAIN sub[b].element : sub[b].element[i] \in KeysIn(list)
    /\ \A k \in KeysIn(list) : hash_to_table(k) < cur => Holds(sub[hash_to_table(k)], k)

InSub ==
    /\ \A k \in KeysIn(list) : hash_to_table(k) = cur
    /\ sub[cur].number = Cardinality(list)
    /\ DOMAIN sub[cur].element = {}
    /\ Client(KeysIn(list) \cup FoundIn(Tables \ {cur}))

Contents ==
    /\ pc = "idle" => AtRest
    /\ pc = "top" => InTop
    /\ pc = "form" => InForm
    /\ pc = "sub" => InSub

\* The counter covers the keys, and M is large enough for them.
Budget ==
    /\ IsFiniteSet(list)
    /\ Cardinality(Held) <= cnt /\ Cardinality(Held) <= M
    /\ pc # "top" => size > 0 \/ M = 0

IInv ==
    /\ TypeOK
    /\ AllTidy
    /\ Contents
    /\ Budget
    /\ (pc # "top" /\ size > 0) => isSatisfied(sub, M, size)

-----------------------------------------------------------------------------
(* Lemmas about numbers and finite sets.                                   *)

\* A remainder is less than its divisor.
LEMMA ModRange == \A x \in Nat, n \in Nat \ {0} : x % n \in 0 .. n - 1
  OBVIOUS

\* A product of positive numbers is positive.
LEMMA Positive == \A m, n \in Nat \ {0} : m * n \in Nat \ {0}
  OBVIOUS

\* A length of two or more asks for some space.
LEMMA SpacePositive == \A n \in Nat : n >= 2 => SpaceFor(n) \in Nat \ {0}
  <1> SUFFICES ASSUME NEW n \in Nat, n >= 2 PROVE SpaceFor(n) \in Nat \ {0}
    OBVIOUS
  <1>1. n \in Nat \ {0} /\ n - 1 \in Nat \ {0} /\ 2 * n \in Nat \ {0}
    OBVIOUS
  <1>2. (2 * n) * (n - 1) \in Nat \ {0}
    BY <1>1, Positive
  <1> QED  BY <1>2 DEF SpaceFor

\* Max of two numbers is one of them and no less than the other.
LEMMA MaxOfTwo ==
    ASSUME NEW m \in Nat, NEW n \in Nat
    PROVE  Max({m, n}) \in {m, n} /\ Max({m, n}) >= m /\ Max({m, n}) >= n
  <1>1. \E x \in {m, n} : \A y \in {m, n} : x >= y
    <2>1. CASE m >= n  BY <2>1
    <2>2. CASE n >= m  BY <2>2
    <2> QED  BY <2>1, <2>2
  <1> QED  BY <1>1 DEF Max

\* M is no less than the keys it is computed from, and positive.
LEMMA MCovers ==
    ASSUME NEW n \in Nat
    PROVE  LET m == (1 + c) * Max({n, MinCount})
           IN  m \in Nat /\ m >= n /\ m > 0
  <1> DEFINE x == Max({n, MinCount})
  <1>1. x \in Nat /\ x >= n /\ x >= MinCount
    BY MaxOfTwo, FactorAssumption
  <1>2. c * x \in Nat
    BY <1>1, FactorAssumption
  <1>3. (1 + c) * x = x + c * x
    BY <1>1, FactorAssumption
  <1> QED  BY <1>1, <1>2, <1>3, FactorAssumption

\* A set of values of a function on a finite set is finite and no larger.
LEMMA FiniteImage ==
    ASSUME NEW S, IsFiniteSet(S), NEW f, DOMAIN f = S, NEW T, T = {f[x] : x \in S}
    PROVE  IsFiniteSet(T) /\ Cardinality(T) <= Cardinality(S)
  <1> DEFINE g == [x \in S |-> f[x]]
  <1>1. g \in Surjection(S, T)
    BY DEF Surjection
  <1> QED  BY <1>1, FS_Surjection

\* A list has no more keys than nodes.
LEMMA KeysFinite ==
    ASSUME NEW L, IsFiniteSet(L)
    PROVE  IsFiniteSet(KeysIn(L)) /\ Cardinality(KeysIn(L)) <= Cardinality(L)
  <1> DEFINE f == [n \in L |-> n.key]
  <1>1. KeysIn(L) = {f[n] : n \in L}
    BY DEF KeysIn
  <1> QED  BY <1>1, FiniteImage

-----------------------------------------------------------------------------
(* Lemmas about one sub-table.                                             *)

\* Each key has a slot in a sub-table, and each table a key.
LEMMA SlotOf ==
    ASSUME NEW t, TypedTable(t), Roomy(t), NEW k \in Key
    PROVE  t.space \in Nat \ {0} /\ table_to_element(t, k) \in 0 .. t.space - 1
  <1>1. t.space \in Nat \ {0}
    BY SpacePositive DEF TypedTable, Roomy
  <1>2. t.hash[k] \in Nat
    BY DrawAssumption DEF TypedTable
  <1> QED  BY <1>1, <1>2, ModRange DEF table_to_element

\* Each key has a sub-table, once there are any.
LEMMA TableOf ==
    ASSUME TypeOK, size > 0, NEW k \in Key
    PROVE  hash_to_table(k) \in Tables
  <1>1. top[k] \in Nat /\ size \in Nat \ {0}
    BY DrawAssumption DEF TypeOK
  <1> QED  BY <1>1, ModRange DEF hash_to_table, Tables

\* DELETED marks the slots that are not in use.
LEMMA FreeSlot ==
    ASSUME NEW t, TypedTable(t), NEW i
    PROVE  At(t, i) = DELETED <=> i \notin DOMAIN t.element
  BY KeyAssumption DEF At, TypedTable

\* A sub-table holds a key if the key is in its slot.
LEMMA HoldsMeans ==
    ASSUME NEW t, TypedTable(t), NEW k \in Key
    PROVE  Holds(t, k) <=> /\ table_to_element(t, k) \in DOMAIN t.element
                           /\ t.element[table_to_element(t, k)] = k
  BY KeyAssumption DEF Holds, At

\* A sub-table that stores a key of its own finds it.
LEMMA FindsStored ==
    ASSUME NEW b, NEW t, Tidy(b, t), NEW i \in DOMAIN t.element
    PROVE  /\ t.element[i] \in Key
           /\ hash_to_table(t.element[i]) = b
           /\ Holds(t, t.element[i])
  BY HoldsMeans DEF Tidy, FiledIn, TypedTable

\* The slots of a sub-table are finitely many, and so are its nodes.
LEMMA NodesFinite ==
    ASSUME NEW b, NEW t, TypedTable(t)
    PROVE  /\ IsFiniteSet(DOMAIN t.element)
           /\ IsFiniteSet(NodesOf(b, t))
           /\ Cardinality(NodesOf(b, t)) <= Cardinality(DOMAIN t.element)
  <1>1. IsFiniteSet(0 .. t.space - 1)
    BY FS_Interval DEF TypedTable
  <1>2. IsFiniteSet(DOMAIN t.element)
    BY <1>1, FS_Subset DEF TypedTable
  <1> DEFINE f == [i \in DOMAIN t.element |-> [key |-> t.element[i], from |-> <<b, i>>]]
  <1>3. NodesOf(b, t) = {f[i] : i \in DOMAIN t.element}
    BY DEF NodesOf
  <1>4. DOMAIN f = DOMAIN t.element
    OBVIOUS
  <1> HIDE DEF f
  <1> QED  BY <1>2, <1>3, <1>4, FiniteImage

\* The keys of the nodes of a sub-table are what it stores.
LEMMA KeysOfNodes ==
    ASSUME NEW b, NEW t
    PROVE  /\ \A i \in DOMAIN t.element : t.element[i] \in KeysIn(NodesOf(b, t))
           /\ \A k \in KeysIn(NodesOf(b, t)) : \E i \in DOMAIN t.element : k = t.element[i]
  <1>1. ASSUME NEW i \in DOMAIN t.element PROVE t.element[i] \in KeysIn(NodesOf(b, t))
    <2> DEFINE n == [key |-> t.element[i], from |-> <<b, i>>]
    <2>1. n \in NodesOf(b, t) /\ n.key = t.element[i]
      BY DEF NodesOf
    <2> QED  BY <2>1 DEF KeysIn
  <1>2. ASSUME NEW k \in KeysIn(NodesOf(b, t))
        PROVE  \E i \in DOMAIN t.element : k = t.element[i]
    <2>1. PICK n \in NodesOf(b, t) : k = n.key
      BY <1>2 DEF KeysIn
    <2>2. PICK i \in DOMAIN t.element : n = [key |-> t.element[i], from |-> <<b, i>>]
      BY <2>1 DEF NodesOf
    <2> QED  BY <2>1, <2>2
  <1> QED  BY <1>1, <1>2

\* The keys of two lists together.
LEMMA KeysOfUnion ==
    \A L1, L2 : KeysIn(L1 \cup L2) = KeysIn(L1) \cup KeysIn(L2)
  <1> SUFFICES ASSUME NEW L1, NEW L2, NEW k
               PROVE  k \in KeysIn(L1 \cup L2) <=> k \in KeysIn(L1) \/ k \in KeysIn(L2)
    BY Zenon
  <1> QED  BY Zenon DEF KeysIn

\* The node that Insert makes has one key.
LEMMA KeyOfNew ==
    ASSUME NEW k
    PROVE  KeysIn({NewNode(k)}) = {k} /\ IsFiniteSet({NewNode(k)})
  <1>1. NewNode(k).key = k
    BY DEF NewNode
  <1>2. KeysIn({NewNode(k)}) = {k}
    BY <1>1, Zenon DEF KeysIn
  <1> QED  BY <1>2, FS_Singleton

\* The keys of a list with the new node.
LEMMA KeysWithNew ==
    ASSUME NEW L, NEW k
    PROVE  KeysIn(L \cup {NewNode(k)}) = KeysIn(L) \cup {k}
  <1>1. KeysIn({NewNode(k)}) = {k}
    BY KeyOfNew
  <1> DEFINE n == {NewNode(k)}
  <1> HIDE DEF n
  <1>2. KeysIn(L \cup n) = KeysIn(L) \cup KeysIn(n)
    BY KeysOfUnion
  <1> QED  BY <1>1, <1>2 DEF n

\* Keys that part are each in a slot of their own once they are placed.
LEMMA PlacedFacts ==
    ASSUME NEW t, TypedTable(t), Roomy(t), NEW K, K \subseteq Key, KeysPart(t, K)
    PROVE  LET E == Placed(t, K)
           IN  /\ DOMAIN E \subseteq 0 .. t.space - 1
               /\ \A k \in K : /\ table_to_element(t, k) \in DOMAIN E
                               /\ E[table_to_element(t, k)] = k
               /\ \A i \in DOMAIN E : E[i] \in K /\ table_to_element(t, E[i]) = i
  <1> DEFINE E == Placed(t, K)
             I == {table_to_element(t, k) : k \in K}
  <1>1. DOMAIN E = I /\ \A i \in I : E[i] = CHOOSE k \in K : table_to_element(t, k) = i
    BY DEF Placed
  <1>2. \A i \in DOMAIN E : E[i] \in K /\ table_to_element(t, E[i]) = i
    BY <1>1
  <1>3. \A k \in K : E[table_to_element(t, k)] = k
    BY <1>1, <1>2 DEF KeysPart
  <1>4. DOMAIN E \subseteq 0 .. t.space - 1
    BY <1>1, SlotOf
  <1> QED  BY <1>1, <1>2, <1>3, <1>4

\* No more slots are used than keys are placed.
LEMMA PlacedCount ==
    ASSUME NEW t, NEW K, IsFiniteSet(K)
    PROVE  /\ IsFiniteSet(DOMAIN Placed(t, K))
           /\ Cardinality(DOMAIN Placed(t, K)) <= Cardinality(K)
  <1> DEFINE f == [k \in K |-> table_to_element(t, k)]
  <1>1. DOMAIN Placed(t, K) = {f[k] : k \in K}
    BY DEF Placed
  <1> QED  BY <1>1, FiniteImage

\* Condition ** looks at the spaces only.
LEMMA SameSpaces ==
    ASSUME NEW s1, NEW s2, DOMAIN s1 = DOMAIN s2,
           \A b \in DOMAIN s1 : s1[b].space = s2[b].space,
           NEW m, NEW n
    PROVE  isSatisfied(s1, m, n) <=> isSatisfied(s2, m, n)
  <1>1. Spaces(s1) = Spaces(s2)
    BY DEF Spaces
  <1> QED  BY <1>1 DEF isSatisfied
-----------------------------------------------------------------------------
(* Lemmas about the whole table.                                           *)

\* A step that replaces one sub-table by a tidy one leaves all tidy.
LEMMA ReplaceTable ==
    ASSUME AllTidy, NEW b \in DOMAIN sub, NEW t, Tidy(b, t),
           sub' = [sub EXCEPT ![b] = t], UNCHANGED <<top, size>>
    PROVE  /\ AllTidy'
           /\ DOMAIN sub' = DOMAIN sub /\ sub'[b] = t
           /\ \A d \in DOMAIN sub \ {b} : sub'[d] = sub[d]
  <1>1. /\ DOMAIN sub' = DOMAIN sub /\ sub'[b] = t
        /\ \A d \in DOMAIN sub \ {b} : sub'[d] = sub[d]
    OBVIOUS
  <1>2. ASSUME NEW d \in DOMAIN sub' PROVE Tidy(d, sub[d])'
    <2>1. PICK u : u = sub'[d] /\ Tidy(d, u)
      BY <1>1 DEF AllTidy
    <2>2. FiledIn(d, sub[d])'
      BY <2>1 DEF Tidy, FiledIn, hash_to_table, table_to_element
    <2> QED  BY <2>1, <2>2 DEF Tidy, TypedTable, Roomy
  <1> QED  BY <1>1, <1>2 DEF AllTidy

\* A sub-table that gives a new hash function and a new place to its keys.
LEMMA WithHash ==
    ASSUME NEW t, TypedTable(t), Roomy(t), NEW h \in SubHashes
    PROVE  LET u == [t EXCEPT !.hash = h]
           IN  /\ DOMAIN u = DOMAIN t /\ u.hash = h /\ u.element = t.element
               /\ u.length = t.length /\ u.number = t.number /\ u.space = t.space
               /\ TypedTable(u) /\ Roomy(u)
  BY DEF TypedTable, Roomy

\* Writing slots leaves the other fields of a sub-table alone.
LEMMA WithElement ==
    ASSUME NEW t, TypedTable(t), Roomy(t), NEW e
    PROVE  LET u == [t EXCEPT !.element = e]
           IN  /\ DOMAIN u = DOMAIN t /\ u.element = e /\ u.hash = t.hash
               /\ u.length = t.length /\ u.number = t.number /\ u.space = t.space
               /\ \A k : table_to_element(u, k) = table_to_element(t, k)
  BY DEF TypedTable, table_to_element

\* The keys K, placed in sub-table b, are what it finds.
LEMMA PlacedTidy ==
    ASSUME NEW b, NEW t, TypedTable(t), Roomy(t), NEW K, K \subseteq Key, IsFiniteSet(K),
           KeysPart(t, K), Cardinality(K) <= t.number,
           \A k \in K : hash_to_table(k) = b
    PROVE  LET u == [t EXCEPT !.element = Placed(t, K)]
           IN  /\ Tidy(b, u)
               /\ \A k \in Key : Holds(u, k) <=> k \in K
               /\ \A i \in DOMAIN u.element : u.element[i] \in K
  <1> DEFINE E == Placed(t, K)
             u == [t EXCEPT !.element = E]
  <1>1. /\ DOMAIN u = DOMAIN t /\ u.element = E /\ u.hash = t.hash
        /\ u.length = t.length /\ u.number = t.number /\ u.space = t.space
        /\ \A k : table_to_element(u, k) = table_to_element(t, k)
    BY WithElement
  <1>2. /\ DOMAIN E \subseteq 0 .. t.space - 1
        /\ \A k \in K : table_to_element(t, k) \in DOMAIN E /\ E[table_to_element(t, k)] = k
        /\ \A i \in DOMAIN E : E[i] \in K /\ table_to_element(t, E[i]) = i
    BY PlacedFacts
  <1>3. Cardinality(DOMAIN E) <= t.number
    <2>1. IsFiniteSet(DOMAIN E) /\ Cardinality(DOMAIN E) <= Cardinality(K)
      BY PlacedCount
    <2>2. Cardinality(DOMAIN E) \in Nat /\ Cardinality(K) \in Nat
      BY <2>1, FS_CardinalityType
    <2> QED  BY <2>1, <2>2 DEF TypedTable
  <1> HIDE DEF E, u
  <1>4. TypedTable(u)
    BY <1>1, <1>2 DEF TypedTable
  <1>5. Roomy(u)
    BY <1>1, <1>3 DEF Roomy
  <1>6. FiledIn(b, u)
    BY <1>1, <1>2 DEF FiledIn
  <1>7. ASSUME NEW k \in Key PROVE Holds(u, k) <=> k \in K
    <2>1. Holds(u, k) <=> table_to_element(t, k) \in DOMAIN E /\ E[table_to_element(t, k)] = k
      BY <1>1, <1>4, HoldsMeans
    <2> QED  BY <1>2, <2>1
  <1>8. Tidy(b, u) /\ (\A k \in Key : Holds(u, k) <=> k \in K)
        /\ \A i \in DOMAIN u.element : u.element[i] \in K
    BY <1>1, <1>2, <1>4, <1>5, <1>6, <1>7 DEF Tidy
  <1> QED  BY <1>8 DEF u, E

\* All nodes of the table are finitely many; their keys are those it finds.
LEMMA AllNodesFacts ==
    ASSUME TypeOK, NEW s, DOMAIN s = Tables, \A b \in Tables : Tidy(b, s[b])
    PROVE  /\ IsFiniteSet(AllNodes(s))
           /\ KeysIn(AllNodes(s)) = {k \in Key : size > 0 /\ Holds(s[hash_to_table(k)], k)}
  <1> DEFINE f == [b \in Tables |-> NodesOf(b, s[b])]
             S == {f[b] : b \in Tables}
  <1>1. IsFiniteSet(S)
    <2>1. IsFiniteSet(Tables)
      BY FS_Interval DEF Tables, TypeOK
    <2>2. DOMAIN f = Tables
      OBVIOUS
    <2> HIDE DEF f
    <2> QED  BY <2>1, <2>2, FiniteImage
  <1>2. \A T \in S : IsFiniteSet(T)
    BY NodesFinite DEF Tidy
  <1>3. AllNodes(s) = UNION S
    BY DEF AllNodes
  <1>4. ASSUME NEW k \in KeysIn(AllNodes(s))
        PROVE  k \in Key /\ size > 0 /\ Holds(s[hash_to_table(k)], k)
    <2>1. PICK n \in AllNodes(s) : k = n.key
      BY <1>4 DEF KeysIn
    <2>2. PICK b \in Tables : n \in NodesOf(b, s[b])
      BY <2>1 DEF AllNodes
    <2>3. k \in KeysIn(NodesOf(b, s[b]))
      BY <2>1, <2>2 DEF KeysIn
    <2>4. PICK i \in DOMAIN s[b].element : k = s[b].element[i]
      BY <2>3, KeysOfNodes
    <2>5. size > 0
      BY <2>2 DEF Tables, TypeOK
    <2> QED  BY <2>2, <2>4, <2>5, FindsStored
  <1>5. ASSUME NEW k \in Key, size > 0, Holds(s[hash_to_table(k)], k)
        PROVE  k \in KeysIn(AllNodes(s))
    <2> DEFINE b == hash_to_table(k)
               i == table_to_element(s[b], k)
    <2>1. b \in Tables
      BY <1>5, TableOf
    <2>2. i \in DOMAIN s[b].element /\ s[b].element[i] = k
      BY <1>5, <2>1, HoldsMeans DEF Tidy
    <2>3. k \in KeysIn(NodesOf(b, s[b]))
      BY <2>2, KeysOfNodes
    <2>4. PICK n \in NodesOf(b, s[b]) : n.key = k
      BY <2>3 DEF KeysIn
    <2>5. n \in AllNodes(s)
      BY <2>1, <2>4 DEF AllNodes
    <2> QED  BY <2>4, <2>5 DEF KeysIn
  <1>6. IsFiniteSet(AllNodes(s))
    BY <1>1, <1>2, <1>3, FS_UNION
  <1> QED  BY <1>4, <1>5, <1>6

\* The keys of the client and from behind the arrays are finitely many.
LEMMA KeysAreFinite ==
    ASSUME TypeOK
    PROVE  IsFiniteSet(Held) /\ Cardinality(Held) \in Nat
  BY KeyAssumption, FS_Subset, FS_CardinalityType DEF TypeOK, Held

\* One key more, or one less.
LEMMA OneMore ==
    ASSUME TypeOK, NEW k
    PROVE  /\ Cardinality(Held \cup {k}) <= Cardinality(Held) + 1
           /\ Cardinality(Held \cup {k}) \in Nat
           /\ Cardinality(Held \ {k}) <= Cardinality(Held)
           /\ Cardinality(Held \ {k}) \in Nat
  <1>1. IsFiniteSet(Held) /\ Cardinality(Held) \in Nat
    BY KeysAreFinite
  <1> QED  BY <1>1, FS_AddElement, FS_RemoveElement, FS_CardinalityType
-----------------------------------------------------------------------------
(* The invariant is inductive: the steps that rehash the whole table.      *)

\* The constructor makes a table without sub-tables.
LEMMA InitStep == Init => IInv
  <1> SUFFICES ASSUME Init PROVE IInv
    OBVIOUS
  <1>1. DOMAIN sub = {} /\ Tables = {} /\ keys = {} /\ list = {}
    BY DEF Init, Tables
  <1>2. TypeOK /\ AllTidy
    BY <1>1 DEF Init, TypeOK, AllTidy, KeysIn
  <1>3. Contents
    BY <1>1 DEF Init, Contents, AtRest, Client, Held, Lookup
  <1>4. Budget
    BY <1>1, FS_EmptySet DEF Init, Budget, Held
  <1> QED  BY <1>2, <1>3, <1>4 DEF Init, IInv

\* RehashAll starts from the nodes l, which have the keys of the client.
LEMMA RehashAllStep ==
    ASSUME IInv, NEW l, IsFiniteSet(l), RehashAll(l),
           top' \in TopHashes, size' \in Nat,
           keys' \subseteq Key, stray' \subseteq Key, KeysIn(l) = keys' \cup stray'
    PROVE  IInv'
  <1> USE DEF RehashAll
  <1>1. cnt' \in Nat /\ M' \in Nat /\ M' >= cnt' /\ M' > 0
    BY FS_CardinalityType, MCovers
  <1>2. DOMAIN sub' = {}
    OBVIOUS
  <1>3. TypeOK'
    BY <1>1, <1>2 DEF TypeOK, Loops
  <1>4. AllTidy'
    BY <1>2 DEF AllTidy
  <1>5. Contents'
    BY <1>1 DEF Contents, InTop, Client, Held
  <1>6. Budget'
    <2>1. Cardinality(Held') \in Nat /\ Cardinality(Held') <= Cardinality(l)
      <3>1. IsFiniteSet(KeysIn(l)) /\ Cardinality(KeysIn(l)) <= Cardinality(l)
        BY KeysFinite
      <3>2. IsFiniteSet(Held') /\ Cardinality(Held') <= Cardinality(KeysIn(l))
        BY <3>1, FS_Subset DEF Held
      <3> QED  BY <3>1, <3>2, FS_CardinalityType
    <2> QED  BY <1>1, <2>1 DEF Budget
  <1> QED  BY <1>3, <1>4, <1>5, <1>6 DEF IInv

\* Between two calls the nodes of the table have the keys of the client.
LEMMA NodesAtRest ==
    ASSUME IInv, pc = "idle"
    PROVE  /\ IsFiniteSet(AllNodes(sub))
           /\ KeysIn(AllNodes(sub)) \subseteq Key
           /\ Client(KeysIn(AllNodes(sub)))
  <1>1. /\ IsFiniteSet(AllNodes(sub))
        /\ KeysIn(AllNodes(sub)) = {k \in Key : Lookup(k)}
    BY AllNodesFacts DEF IInv, TypeOK, AllTidy, Lookup
  <1> QED  BY <1>1 DEF IInv, Contents, AtRest

\* An insert that exceeds M hands the new key to RehashAll.
LEMMA InsertEndsPhaseStep ==
    ASSUME IInv, NEW k \in Key, InsertEndsPhase(k)
    PROVE  IInv'
  <1> DEFINE l == AllNodes(sub) \cup {NewNode(k)}
  <1>1. /\ pc = "idle" /\ keys' = keys \cup {k}
        /\ RehashAll(l) /\ UNCHANGED <<size, top, stray>>
    BY DEF InsertEndsPhase, Inserting
  <1>2. KeysIn(l) = KeysIn(AllNodes(sub)) \cup {k}
    BY KeysWithNew
  <1>3. IsFiniteSet(l)
    BY <1>1, NodesAtRest, KeyOfNew, FS_Union
  <1>4. keys' \subseteq Key /\ stray' \subseteq Key /\ KeysIn(l) = keys' \cup stray'
    BY <1>1, <1>2, NodesAtRest DEF Client, Held, IInv, TypeOK
  <1> HIDE DEF l
  <1> QED  BY <1>1, <1>3, <1>4, RehashAllStep DEF IInv, TypeOK

\* What lies behind the element array may add keys that the client never had;
\* they count as stray.
LEMMA InsertRehashesAllStep ==
    ASSUME IInv, NEW k \in Key, InsertRehashesAll(k)
    PROVE  IInv'
  <1>1. PICK G \in SUBSET Heap :
           /\ RehashAll(AllNodes(sub) \cup {NewNode(k)} \cup ReadBehind(k, G))
           /\ stray' = stray \cup G
    BY DEF InsertRehashesAll
  <1>2. pc = "idle" /\ keys' = keys \cup {k} /\ UNCHANGED <<size, top>>
    BY DEF InsertRehashesAll, InsertsNew, Inserting
  <1> DEFINE node(g) == [key |-> g, from |-> <<hash_to_table(k), Counted(k).space>>]
             garbage == ReadBehind(k, G)
  <1>3. garbage = {node(g) : g \in G}
    BY DEF ReadBehind
  <1> HIDE DEF garbage
  <1>4. KeysIn(garbage) = G
    <2>1. \A g : node(g).key = g
      OBVIOUS
    <2> HIDE DEF node
    <2> QED  BY <1>3, <2>1 DEF KeysIn
  <1>5. IsFiniteSet(garbage)
    <2> DEFINE f == [g \in G |-> node(g)]
    <2>1. garbage = {f[g] : g \in G} /\ DOMAIN f = G
      BY <1>3
    <2>2. IsFiniteSet(G)
      BY KeyAssumption, FS_Subset
    <2> HIDE DEF f
    <2> QED  BY <2>1, <2>2, FiniteImage
  <1> DEFINE l == AllNodes(sub) \cup {NewNode(k)} \cup garbage
  <1>6. KeysIn(l) = KeysIn(AllNodes(sub)) \cup {k} \cup KeysIn(garbage)
    <2> DEFINE l0 == AllNodes(sub) \cup {NewNode(k)}
    <2>1. KeysIn(l0) = KeysIn(AllNodes(sub)) \cup {k}
      BY KeysWithNew
    <2> HIDE DEF l0
    <2>2. KeysIn(l0 \cup garbage) = KeysIn(l0) \cup KeysIn(garbage)
      BY KeysOfUnion
    <2> QED  BY <2>1, <2>2 DEF l0
  <1>7. IsFiniteSet(l)
    <2>1. IsFiniteSet(AllNodes(sub) \cup {NewNode(k)})
      BY <1>2, NodesAtRest, KeyOfNew, FS_Union
    <2> QED  BY <1>5, <2>1, FS_Union
  <1>8. keys' \subseteq Key /\ stray' \subseteq Key /\ KeysIn(l) = keys' \cup stray'
    BY <1>1, <1>2, <1>4, <1>6, NodesAtRest, KeyAssumption DEF Client, Held, IInv, TypeOK
  <1>9. RehashAll(l)
    BY <1>1 DEF garbage
  <1> HIDE DEF l
  <1> QED  BY <1>2, <1>7, <1>8, <1>9, RehashAllStep DEF IInv, TypeOK

\* Initialize() hands no key to RehashAll.
LEMMA InitializeStep ==
    ASSUME IInv, Initialize
    PROVE  IInv'
  <1>1. IsFiniteSet({}) /\ KeysIn({}) = {}
    BY FS_EmptySet DEF KeysIn
  <1> QED  BY <1>1, RehashAllStep DEF Initialize

\* The sub-table of k without it: k was stored nowhere else.
LEMMA WithoutFacts ==
    ASSUME TypeOK, AllTidy, DOMAIN sub = Tables, size > 0, NEW k \in Key,
           Holds(sub[hash_to_table(k)], k)
    PROVE  LET b == hash_to_table(k)
               t == Without(k)[b]
           IN  /\ b \in Tables
               /\ Without(k) = [sub EXCEPT ![b] = t]
               /\ Tidy(b, t) /\ t.space = sub[b].space
               /\ \A q \in Key : Holds(t, q) <=> Holds(sub[b], q) /\ q # k
  <1> DEFINE b == hash_to_table(k)
             i == table_to_element(sub[b], k)
             e == Restrict(sub[b].element, DOMAIN sub[b].element \ {i})
             t == [sub[b] EXCEPT !.element = e]
  <1>1. b \in Tables /\ Tidy(b, sub[b])
    BY TableOf DEF AllTidy
  <1>2. Without(k) = [sub EXCEPT ![b] = t] /\ Without(k)[b] = t
    <2>1. "element" \in DOMAIN sub[b]
      BY <1>1 DEF Tidy, TypedTable
    <2>2. Without(k) = [sub EXCEPT ![b] = t]
      BY <1>1, <2>1 DEF Without
    <2> QED  BY <1>1, <2>2
  <1>3. /\ DOMAIN t = DOMAIN sub[b] /\ t.element = e /\ t.hash = sub[b].hash
        /\ t.length = sub[b].length /\ t.number = sub[b].number /\ t.space = sub[b].space
        /\ \A q : table_to_element(t, q) = table_to_element(sub[b], q)
    BY <1>1, WithElement DEF Tidy
  <1>4. /\ DOMAIN e = DOMAIN sub[b].element \ {i}
        /\ \A j \in DOMAIN e : e[j] = sub[b].element[j]
    BY DEF Restrict
  <1>5. i \in DOMAIN sub[b].element /\ sub[b].element[i] = k
    BY <1>1, HoldsMeans DEF Tidy
  <1>6. Cardinality(DOMAIN e) <= t.number
    <2>1. IsFiniteSet(DOMAIN sub[b].element) /\ Cardinality(DOMAIN sub[b].element) <= t.number
      BY <1>1, <1>3, NodesFinite DEF Tidy, Roomy
    <2>2. IsFiniteSet(DOMAIN e) /\ Cardinality(DOMAIN e) <= Cardinality(DOMAIN sub[b].element)
      BY <1>4, <2>1, FS_Subset
    <2> QED  BY <1>1, <1>3, <2>1, <2>2, FS_CardinalityType DEF Tidy, TypedTable
  <1> HIDE DEF e, t, i, b
  <1>7. Tidy(b, t)
    <2>1. TypedTable(t)
      BY <1>1, <1>3, <1>4 DEF Tidy, TypedTable
    <2>2. Roomy(t)
      BY <1>1, <1>3, <1>6 DEF Tidy, Roomy
    <2>3. FiledIn(b, t)
      BY <1>1, <1>3, <1>4 DEF Tidy, FiledIn
    <2> QED  BY <2>1, <2>2, <2>3 DEF Tidy
  <1>8. ASSUME NEW q \in Key PROVE Holds(t, q) <=> Holds(sub[b], q) /\ q # k
    <2>1. Holds(t, q) <=> /\ table_to_element(sub[b], q) \in DOMAIN e
                          /\ e[table_to_element(sub[b], q)] = q
      BY <1>3, <1>7, HoldsMeans DEF Tidy
    <2>2. Holds(sub[b], q) <=> /\ table_to_element(sub[b], q) \in DOMAIN sub[b].element
                               /\ sub[b].element[table_to_element(sub[b], q)] = q
      BY <1>1, HoldsMeans DEF Tidy
    <2>3. q = k => table_to_element(sub[b], q) = i
      BY DEF i, b
    <2> QED  BY <1>4, <1>5, <2>1, <2>2, <2>3
  <1>9. b = hash_to_table(k) /\ t = Without(k)[b]
    BY <1>2 DEF b
  <1> QED  BY <1>1, <1>2, <1>3, <1>7, <1>8, <1>9
\* A delete that exceeds M hands the other keys to RehashAll.
LEMMA DeleteEndsPhaseStep ==
    ASSUME IInv, NEW k \in Key, DeleteFinds(k), PhaseOver
    PROVE  IInv'
  <1> DEFINE b == hash_to_table(k)
             t == Without(k)[b]
             l == AllNodes(Without(k))
  <1>1. /\ pc = "idle" /\ size > 0 /\ Holds(sub[b], k)
        /\ keys' = keys \ {k} /\ stray' = stray \ {k}
        /\ RehashAll(l) /\ UNCHANGED <<size, top>>
    BY DEF DeleteFinds, Deleting
  <1>2. /\ TypeOK /\ AllTidy /\ DOMAIN sub = Tables
    BY <1>1 DEF IInv, TypeOK
  <1>3. /\ b \in Tables /\ Without(k) = [sub EXCEPT ![b] = t] /\ Tidy(b, t)
        /\ \A q \in Key : Holds(t, q) <=> Holds(sub[b], q) /\ q # k
    BY <1>1, <1>2, WithoutFacts
  <1> HIDE DEF t
  <1>4. DOMAIN Without(k) = Tables /\ \A d \in Tables : Tidy(d, Without(k)[d])
    BY <1>2, <1>3 DEF AllTidy
  <1>5. ASSUME NEW q \in Key
        PROVE  Holds(Without(k)[hash_to_table(q)], q) <=> Lookup(q) /\ q # k
    <2>1. hash_to_table(q) \in Tables
      BY <1>1, <1>2, TableOf
    <2> QED  BY <1>1, <1>2, <1>3, <2>1 DEF Lookup
  <1>6. IsFiniteSet(l) /\ KeysIn(l) = {q \in Key : Lookup(q) /\ q # k}
    BY <1>1, <1>2, <1>4, <1>5, AllNodesFacts
  <1>7. keys' \subseteq Key /\ stray' \subseteq Key /\ KeysIn(l) = keys' \cup stray'
    BY <1>1, <1>2, <1>6 DEF IInv, Contents, AtRest, Client, Held, TypeOK
  <1> HIDE DEF l
  <1> QED  BY <1>1, <1>2, <1>6, <1>7, RehashAllStep DEF TypeOK

-----------------------------------------------------------------------------
(* The steps of a call that touches one sub-table.                         *)

\* A step that changes one sub-table and leaves its space as it was.
LEMMA OneTableStep ==
    ASSUME IInv, pc # "top", size > 0,
           NEW b \in Tables, NEW t, Tidy(b, t), t.space = sub[b].space,
           sub' = [sub EXCEPT ![b] = t], UNCHANGED <<M, size, top>>,
           pc' \in {"idle", "form", "sub"}, pc' # "idle" => cur' \in Tables,
           cnt' \in Nat, keys' \subseteq Key, stray' \subseteq Key, KeysIn(list') \subseteq Key
    PROVE  /\ TypeOK' /\ AllTidy' /\ isSatisfied(sub', M', size')
           /\ DOMAIN sub = Tables /\ DOMAIN sub' = Tables /\ sub'[b] = t
           /\ \A d \in Tables \ {b} : sub'[d] = sub[d]
           /\ \A q \in Key :
                Lookup(q)' <=> IF hash_to_table(q) = b THEN Holds(t, q) ELSE Lookup(q)
  <1>1. TypeOK /\ AllTidy /\ DOMAIN sub = Tables
    BY DEF IInv, TypeOK
  <1>2. /\ AllTidy' /\ DOMAIN sub' = DOMAIN sub /\ sub'[b] = t
        /\ \A d \in DOMAIN sub \ {b} : sub'[d] = sub[d]
    BY <1>1, ReplaceTable
  <1>3. TypeOK'
    <2>1. \A d \in DOMAIN sub' : TypedTable(sub'[d])
      BY <1>1, <1>2 DEF AllTidy, Tidy
    <2> QED  BY <1>1, <1>2, <2>1 DEF TypeOK, TypedTable, Tables, Loops
  <1>4. isSatisfied(sub', M', size')
    <2>1. isSatisfied(sub, M, size)
      BY DEF IInv
    <2>2. \A d \in DOMAIN sub : sub[d].space = sub'[d].space
      BY <1>2
    <2> QED  BY <1>2, <2>1, <2>2, SameSpaces
  <1>5. ASSUME NEW q \in Key
        PROVE  Lookup(q)' <=> IF hash_to_table(q) = b THEN Holds(t, q) ELSE Lookup(q)
    <2>1. hash_to_table(q) \in Tables
      BY <1>1, TableOf
    <2>2. hash_to_table(q)' = hash_to_table(q)
      BY DEF hash_to_table
    <2>3. Lookup(q)' <=> Holds(sub'[hash_to_table(q)], q)
      BY <2>2 DEF Lookup, Holds, At, table_to_element
    <2> QED  BY <1>1, <1>2, <2>1, <2>3 DEF Lookup
  <1> QED  BY <1>1, <1>2, <1>3, <1>4, <1>5

\* A call that leaves the sub-tables as they were.
LEMMA NoTableStep ==
    ASSUME IInv, pc = "idle", UNCHANGED <<M, size, top, sub, list, cur, pc, stray>>,
           cnt' \in Nat, keys \subseteq keys', keys' \subseteq Key,
           \A q \in keys' : q \in keys \/ Lookup(q),
           Cardinality(Held') <= cnt', Cardinality(Held') <= M
    PROVE  IInv'
  <1>1. TypeOK'
    BY DEF IInv, TypeOK, Tables
  <1>2. AllTidy'
    BY DEF IInv, AllTidy, Tidy, TypedTable, Roomy, FiledIn, hash_to_table, table_to_element
  <1>3. Contents'
    <2>1. \A q \in Key : Lookup(q)' <=> Lookup(q)
      BY DEF Lookup, Holds, At, hash_to_table, table_to_element
    <2> QED  BY <2>1 DEF IInv, Contents, AtRest, Client, Held
  <1> QED  BY <1>1, <1>2, <1>3 DEF IInv, Budget

\* A key that is found is one of the client's already, or a stray one.
LEMMA InsertFindsStep ==
    ASSUME IInv, NEW k \in Key, InsertFinds(k)
    PROVE  IInv'
  <1>1. /\ pc = "idle" /\ keys' = keys \cup {k} /\ cnt' = cnt + 1 /\ cnt + 1 <= M
        /\ Holds(sub[hash_to_table(k)], k)
        /\ UNCHANGED <<M, size, top, sub, list, cur, pc, stray>>
    BY DEF InsertFinds, Inserting, PhaseOver, IInv, TypeOK
  <1>2. Lookup(k)
    BY <1>1, FactorAssumption DEF IInv, Budget, TypeOK, Lookup
  <1>3. Cardinality(Held') <= Cardinality(Held) + 1 /\ Cardinality(Held') \in Nat
    <2>1. Held' = Held \cup {k}
      BY <1>1 DEF Held
    <2> QED  BY <2>1, OneMore DEF IInv
  <1>4. Cardinality(Held') <= cnt'
    BY <1>1, <1>3, KeysAreFinite DEF IInv, Budget, TypeOK
  <1> QED  BY <1>1, <1>2, <1>3, <1>4, NoTableStep DEF IInv, TypeOK

\* A failing delete counts and changes nothing else.
LEMMA DeleteMissesStep ==
    ASSUME IInv, NEW k \in Key, DeleteMisses(k)
    PROVE  IInv'
  <1>1. /\ pc = "idle" /\ cnt' = cnt + 1
        /\ UNCHANGED <<M, size, top, sub, list, cur, pc, keys, stray>>
    BY DEF DeleteMisses, Deleting
  <1>2. cnt' \in Nat /\ Cardinality(Held) <= cnt' /\ Cardinality(Held) <= M
    BY <1>1, KeysAreFinite DEF IInv, Budget, TypeOK
  <1>3. Held' = Held
    BY <1>1 DEF Held
  <1> QED  BY <1>1, <1>2, <1>3, NoTableStep DEF IInv, TypeOK

\* A delete clears the slot of the key.
LEMMA DeleteFindsStep ==
    ASSUME IInv, NEW k \in Key, DeleteFinds(k), ~PhaseOver
    PROVE  IInv'
  <1> DEFINE b == hash_to_table(k)
             t == Without(k)[b]
  <1>1. /\ pc = "idle" /\ size > 0 /\ Holds(sub[b], k)
        /\ keys' = keys \ {k} /\ stray' = stray \ {k}
        /\ cnt' = cnt + 1 /\ sub' = Without(k)
        /\ UNCHANGED <<M, list, cur, pc, size, top>>
    BY DEF DeleteFinds, Deleting
  <1>2. /\ TypeOK /\ AllTidy /\ DOMAIN sub = Tables /\ cnt' \in Nat
    BY <1>1 DEF IInv, TypeOK
  <1>3. /\ b \in Tables /\ Without(k) = [sub EXCEPT ![b] = t] /\ Tidy(b, t)
        /\ t.space = sub[b].space
        /\ \A q \in Key : Holds(t, q) <=> Holds(sub[b], q) /\ q # k
    BY <1>1, <1>2, WithoutFacts
  <1> HIDE DEF t
  <1>4. /\ TypeOK' /\ AllTidy' /\ isSatisfied(sub', M', size')
        /\ \A q \in Key : Lookup(q)' <=> IF hash_to_table(q) = b THEN Holds(t, q) ELSE Lookup(q)
    BY <1>1, <1>2, <1>3, OneTableStep DEF TypeOK, IInv
  <1>5. \A q \in Key : Lookup(q)' <=> Lookup(q) /\ q # k
    BY <1>1, <1>3, <1>4 DEF Lookup
  <1>6. Contents'
    BY <1>1, <1>5 DEF IInv, Contents, AtRest, Client, Held
  <1>7. Cardinality(Held') <= Cardinality(Held) /\ Cardinality(Held') \in Nat
    <2>1. Held' = Held \ {k}
      BY <1>1 DEF Held
    <2> QED  BY <1>2, <2>1, OneMore
  <1>8. Budget'
    BY <1>1, <1>2, <1>7, KeysAreFinite DEF IInv, Budget, TypeOK
  <1> QED  BY <1>1, <1>4, <1>6, <1>8 DEF IInv

\* The key that an insert finds no place for is not in the table, and there is
\* room for it in the count.
LEMMA NewKey ==
    ASSUME IInv, NEW k \in Key, InsertsNew(k), cnt' = cnt + 1, stray' = stray
    PROVE  LET b == hash_to_table(k)
           IN  /\ pc = "idle" /\ size > 0
               /\ TypeOK /\ AllTidy /\ DOMAIN sub = Tables
               /\ b \in Tables /\ Tidy(b, sub[b]) /\ ~Holds(sub[b], k)
               /\ keys' = keys \cup {k} /\ keys' \subseteq Key /\ cnt' \in Nat
               /\ Cardinality(Held') <= cnt' /\ Cardinality(Held') <= M
  <1>1. /\ pc = "idle" /\ keys' = keys \cup {k} /\ cnt + 1 <= M
        /\ ~Holds(sub[hash_to_table(k)], k)
        /\ TypeOK /\ AllTidy /\ DOMAIN sub = Tables
    BY DEF InsertsNew, Inserting, PhaseOver, IInv, TypeOK
  <1>2. size > 0
    BY <1>1 DEF IInv, Budget, TypeOK
  <1>3. hash_to_table(k) \in Tables
    BY <1>1, <1>2, TableOf
  <1>4. Cardinality(Held') <= Cardinality(Held) + 1 /\ Cardinality(Held') \in Nat
    <2>1. Held' = Held \cup {k}
      BY <1>1 DEF Held
    <2> QED  BY <1>1, <2>1, OneMore
  <1>5. Cardinality(Held') <= cnt' /\ Cardinality(Held') <= M
    BY <1>1, <1>4, KeysAreFinite DEF IInv, Budget, TypeOK
  <1> QED  BY <1>1, <1>2, <1>3, <1>5 DEF AllTidy, TypeOK

\* What counting a key does to its sub-table.
LEMMA CountedFacts ==
    ASSUME NEW k, TypedTable(sub[hash_to_table(k)])
    PROVE  LET t == sub[hash_to_table(k)]
               u == Counted(k)
           IN  /\ DOMAIN u = DOMAIN t /\ u.number = t.number + 1
               /\ u.element = t.element /\ u.length = t.length
               /\ u.space = t.space /\ u.hash = t.hash
  BY DEF Counted, TypedTable

\* The free slot takes the key.
LEMMA InsertFillsSlotStep ==
    ASSUME IInv, NEW k \in Key, InsertFillsSlot(k)
    PROVE  IInv'
  <1> DEFINE b == hash_to_table(k)
             i == table_to_element(Counted(k), k)
             e == [j \in DOMAIN sub[b].element \cup {i} |->
                        IF j = i THEN k ELSE sub[b].element[j]]
             t == [Counted(k) EXCEPT !.element = e]
  <1>1. /\ cnt' = cnt + 1 /\ InsertsNew(k) /\ UNCHANGED <<M, size, top, list, cur, pc, stray>>
        /\ LongEnough(Counted(k)) /\ At(Counted(k), i) = DELETED
    BY DEF InsertFillsSlot
  <1>2. /\ pc = "idle" /\ size > 0 /\ TypeOK /\ AllTidy /\ DOMAIN sub = Tables
        /\ b \in Tables /\ Tidy(b, sub[b]) /\ ~Holds(sub[b], k)
        /\ keys' = keys \cup {k} /\ keys' \subseteq Key /\ cnt' \in Nat
        /\ Cardinality(Held') <= cnt' /\ Cardinality(Held') <= M
    BY <1>1, NewKey
  <1>3. /\ DOMAIN Counted(k) = DOMAIN sub[b] /\ Counted(k).number = sub[b].number + 1
        /\ Counted(k).element = sub[b].element /\ Counted(k).length = sub[b].length
        /\ Counted(k).space = sub[b].space /\ Counted(k).hash = sub[b].hash
    BY <1>2, CountedFacts DEF Tidy
  <1>4. /\ DOMAIN t = DOMAIN sub[b] /\ t.element = e /\ t.hash = sub[b].hash
        /\ t.length = sub[b].length /\ t.number = sub[b].number + 1
        /\ t.space = sub[b].space
    BY <1>2, <1>3 DEF Tidy, TypedTable
  <1>5. \A q : /\ table_to_element(t, q) = table_to_element(sub[b], q)
               /\ table_to_element(Counted(k), q) = table_to_element(sub[b], q)
    BY <1>3, <1>4 DEF table_to_element
  <1>6. sub' = [sub EXCEPT ![b] = t]
    <2>1. /\ sub' = [sub EXCEPT ![b].number = Counted(k).number, ![b].element = e]
      BY DEF InsertFillsSlot
    <2>2. {"number", "element"} \subseteq DOMAIN sub[b]
      BY <1>2 DEF Tidy, TypedTable
    <2>3. t = [[sub[b] EXCEPT !.number = Counted(k).number] EXCEPT !.element = e]
      BY <1>3, <2>2 DEF Counted
    <2> QED  BY <1>2, <2>1, <2>2, <2>3
  <1>7. i \notin DOMAIN sub[b].element /\ i \in 0 .. sub[b].space - 1
        /\ i = table_to_element(sub[b], k)
    <2>1. i \notin DOMAIN sub[b].element
      BY <1>1, <1>2, <1>3, FreeSlot DEF At, Tidy
    <2> QED  BY <1>2, <1>5, <2>1, SlotOf DEF Tidy
  <1>8. /\ DOMAIN e = DOMAIN sub[b].element \cup {i} /\ e[i] = k
        /\ \A j \in DOMAIN sub[b].element : e[j] = sub[b].element[j]
    BY <1>7
  <1>9. Cardinality(DOMAIN e) <= t.number /\ t.number <= t.length
    <2>1. IsFiniteSet(DOMAIN sub[b].element)
      BY <1>2, NodesFinite DEF Tidy
    <2>2. Cardinality(DOMAIN e) = Cardinality(DOMAIN sub[b].element) + 1
      BY <1>7, <1>8, <2>1, FS_AddElement
    <2>3. Cardinality(DOMAIN sub[b].element) \in Nat
      BY <2>1, FS_CardinalityType
    <2> QED  BY <1>1, <1>2, <1>3, <1>4, <2>2, <2>3 DEF LongEnough, Tidy, TypedTable, Roomy
  <1> HIDE DEF t, e, i, b
  <1>10. Tidy(b, t)
    <2>1. TypedTable(t)
      BY <1>2, <1>4, <1>7, <1>8 DEF Tidy, TypedTable
    <2>2. Roomy(t)
      BY <1>2, <1>4, <1>9 DEF Tidy, Roomy
    <2>3. FiledIn(b, t)
      BY <1>2, <1>4, <1>5, <1>7, <1>8 DEF Tidy, FiledIn, b
    <2> QED  BY <2>1, <2>2, <2>3 DEF Tidy
  <1>11. /\ TypeOK' /\ AllTidy' /\ isSatisfied(sub', M', size')
         /\ \A q \in Key : Lookup(q)' <=> IF hash_to_table(q) = b THEN Holds(t, q) ELSE Lookup(q)
    BY <1>1, <1>2, <1>4, <1>6, <1>10, OneTableStep DEF TypeOK
  <1>12. ASSUME NEW q \in Key PROVE Lookup(q)' <=> Lookup(q) \/ q = k
    <2>1. Holds(t, q) <=> /\ table_to_element(sub[b], q) \in DOMAIN e
                          /\ e[table_to_element(sub[b], q)] = q
      BY <1>4, <1>5, <1>10, HoldsMeans DEF Tidy
    <2>2. Holds(sub[b], q) <=> /\ table_to_element(sub[b], q) \in DOMAIN sub[b].element
                               /\ sub[b].element[table_to_element(sub[b], q)] = q
      BY <1>2, HoldsMeans DEF Tidy
    <2>3. Holds(t, q) <=> Holds(sub[b], q) \/ q = k
      BY <1>7, <1>8, <2>1, <2>2
    <2>4. q = k => hash_to_table(q) = b
      BY DEF b
    <2> QED  BY <1>2, <1>11, <2>3, <2>4 DEF Lookup
  <1>13. Contents'
    BY <1>1, <1>2, <1>12 DEF IInv, Contents, AtRest, Client, Held
  <1>14. Budget'
    BY <1>1, <1>2 DEF IInv, Budget
  <1> QED  BY <1>11, <1>13, <1>14 DEF IInv
-----------------------------------------------------------------------------
(* The steps that empty a sub-table and draw hash functions for it.        *)

\* The keys of the sub-table and k go to a list, which fits in table t.
LEMMA RehashSubStep ==
    ASSUME IInv, NEW k \in Key, InsertsNew(k), NEW t, RehashSub(k, t),
           cnt' = cnt + 1, UNCHANGED <<M, size, top, stray>>,
           DOMAIN t = {"element", "length", "number", "space", "hash"},
           t.length \in Nat, t.length >= 2, t.space = SpaceFor(t.length),
           t.hash \in SubHashes, sub[hash_to_table(k)].number + 1 <= t.length,
           isSatisfied([sub EXCEPT ![hash_to_table(k)] = t], M, size)
    PROVE  IInv'
  <1> DEFINE b == hash_to_table(k)
             nodes == NodesOf(b, sub[b]) \cup {NewNode(k)}
             u == [t EXCEPT !.number = Cardinality(nodes), !.element = <<>>]
  <1>1. /\ pc = "idle" /\ size > 0 /\ TypeOK /\ AllTidy /\ DOMAIN sub = Tables
        /\ b \in Tables /\ Tidy(b, sub[b]) /\ ~Holds(sub[b], k)
        /\ keys' = keys \cup {k} /\ keys' \subseteq Key /\ cnt' \in Nat
        /\ Cardinality(Held') <= cnt' /\ Cardinality(Held') <= M
    BY NewKey
  <1>2. /\ list' = nodes /\ sub' = [sub EXCEPT ![b] = u] /\ cur' = b /\ pc' = "sub"
    BY DEF RehashSub
  <1>3. /\ DOMAIN u = DOMAIN t /\ u.number = Cardinality(nodes) /\ DOMAIN u.element = {}
        /\ u.length = t.length /\ u.space = t.space /\ u.hash = t.hash
    OBVIOUS
  <1>4. IsFiniteSet(nodes) /\ Cardinality(nodes) \in Nat /\ Cardinality(nodes) <= t.length
    <2>1. /\ IsFiniteSet(DOMAIN sub[b].element) /\ IsFiniteSet(NodesOf(b, sub[b]))
          /\ Cardinality(NodesOf(b, sub[b])) <= Cardinality(DOMAIN sub[b].element)
      BY <1>1, NodesFinite DEF Tidy
    <2>2. /\ IsFiniteSet(nodes)
          /\ Cardinality(nodes) <= Cardinality(NodesOf(b, sub[b])) + 1
      <3>1. Cardinality(NodesOf(b, sub[b])) \in Nat
        BY <2>1, FS_CardinalityType
      <3>2. /\ IsFiniteSet(nodes)
            /\ \/ Cardinality(nodes) = Cardinality(NodesOf(b, sub[b]))
               \/ Cardinality(nodes) = Cardinality(NodesOf(b, sub[b])) + 1
        BY <2>1, FS_AddElement
      <3> QED  BY <3>1, <3>2
    <2>3. /\ Cardinality(nodes) \in Nat /\ Cardinality(NodesOf(b, sub[b])) \in Nat
          /\ Cardinality(DOMAIN sub[b].element) \in Nat
      BY <2>1, <2>2, FS_CardinalityType
    <2>4. Cardinality(DOMAIN sub[b].element) <= sub[b].number /\ sub[b].number \in Nat
      BY <1>1 DEF Tidy, Roomy, TypedTable
    <2> QED  BY <2>1, <2>2, <2>3, <2>4
  <1>5. Tidy(b, u)
    <2>1. TypedTable(u)
      BY <1>3, <1>4, SpacePositive DEF TypedTable
    <2>2. Roomy(u)
      BY <1>3, <1>4, FS_EmptySet DEF Roomy
    <2> QED  BY <1>3, <2>1, <2>2 DEF Tidy, FiledIn
  <1> HIDE DEF u
  <1>6. \A q : q \in KeysIn(nodes) <=>
            q = k \/ \E i \in DOMAIN sub[b].element : q = sub[b].element[i]
    <2>1. KeysIn({NewNode(k)}) = {k}
      BY KeyOfNew
    <2>2. KeysIn(nodes) = KeysIn(NodesOf(b, sub[b])) \cup {k}
      BY <2>1, KeysOfUnion, Zenon
    <2>3. \A q : q \in KeysIn(NodesOf(b, sub[b])) <=>
                     \E i \in DOMAIN sub[b].element : q = sub[b].element[i]
      BY KeysOfNodes
    <2> QED  BY <2>2, <2>3
  <1> HIDE DEF nodes
  <1>7. /\ KeysIn(nodes) \subseteq Key
        /\ \A q \in KeysIn(nodes) : hash_to_table(q) = b
        /\ \A q \in Key : q \in KeysIn(nodes) <=> q = k \/ (hash_to_table(q) = b /\ Lookup(q))
    <2>1. ASSUME NEW q \in KeysIn(nodes), q # k
          PROVE  q \in Key /\ hash_to_table(q) = b /\ Lookup(q)
      BY <1>1, <1>6, <2>1, FindsStored DEF Lookup
    <2>2. ASSUME NEW q \in Key, hash_to_table(q) = b, Lookup(q) PROVE q \in KeysIn(nodes)
      BY <1>1, <1>6, <2>2, HoldsMeans DEF Lookup, Tidy
    <2>3. hash_to_table(k) = b /\ k \in KeysIn(nodes)
      BY <1>6
    <2> HIDE DEF b
    <2> QED  BY <2>1, <2>2, <2>3
  <1>8. /\ AllTidy' /\ DOMAIN sub' = Tables /\ sub'[b] = u
        /\ \A d \in Tables \ {b} : sub'[d] = sub[d]
    BY <1>1, <1>2, <1>5, ReplaceTable
  <1> HIDE DEF b
  <1>9. TypeOK'
    <2>1. \A d \in DOMAIN sub' : TypedTable(sub'[d])
      BY <1>1, <1>5, <1>8 DEF AllTidy, Tidy
    <2> QED  BY <1>1, <1>2, <1>7, <1>8, <2>1 DEF TypeOK, TypedTable, Tables, Loops
  <1>10. isSatisfied(sub', M', size')
    <2> DEFINE s == [sub EXCEPT ![b] = t]
    <2>1. DOMAIN s = DOMAIN sub' /\ \A d \in DOMAIN s : s[d].space = sub'[d].space
      BY <1>1, <1>3, <1>8
    <2>2. isSatisfied(s, M, size)
      BY DEF b
    <2> HIDE DEF s
    <2> QED  BY <2>1, <2>2, SameSpaces
  <1>11. InSub'
    <2>1. \A q \in Key : hash_to_table(q) \in Tables /\ hash_to_table(q)' = hash_to_table(q)
      BY <1>1, TableOf DEF hash_to_table
    <2>2. /\ \A q \in KeysIn(list)' : hash_to_table(q)' = cur'
          /\ sub'[cur'].number = Cardinality(list')
          /\ DOMAIN sub'[cur'].element = {}
      BY <1>2, <1>3, <1>7, <1>8, <2>1
    <2>3. \A q \in Key : q \in FoundIn(Tables \ {cur})' <=> hash_to_table(q) # b /\ Lookup(q)
      <3>1. ASSUME NEW q \in Key
            PROVE  q \in FoundIn(Tables \ {cur})' <=>
                       hash_to_table(q) \in Tables \ {b} /\ Holds(sub'[hash_to_table(q)], q)
        BY <1>2, <2>1 DEF FoundIn, Tables, Holds, At, table_to_element
      <3> QED  BY <1>1, <1>8, <2>1, <3>1 DEF Lookup
    <2>4. FoundIn(Tables \ {cur})' \subseteq Key
      BY DEF FoundIn
    <2>5. \A q : q \in (KeysIn(list) \cup FoundIn(Tables \ {cur}))' <=>
                     q \in Key /\ (Lookup(q) \/ q = k)
      BY <1>2, <1>7, <2>3, <2>4
    <2>6. Client({q \in Key : Lookup(q)})
      BY <1>1 DEF IInv, Contents, AtRest
    <2>7. Client(KeysIn(list) \cup FoundIn(Tables \ {cur}))'
      BY <1>1, <2>5, <2>6 DEF Client, Held
    <2> QED  BY <2>2, <2>7 DEF InSub
  <1>12. Contents'
    BY <1>2, <1>11 DEF Contents
  <1>13. Budget'
    BY <1>1, <1>2, <1>4 DEF IInv, Budget
  <1> QED  BY <1>8, <1>9, <1>10, <1>12, <1>13 DEF IInv

\* A collision empties the sub-table into the list.
LEMMA InsertCollidesStep ==
    ASSUME IInv, NEW k \in Key, InsertCollides(k)
    PROVE  IInv'
  <1> DEFINE b == hash_to_table(k)
             t == Counted(k)
  <1>1. /\ InsertsNew(k) /\ RehashSub(k, t) /\ LongEnough(t)
        /\ cnt' = cnt + 1 /\ UNCHANGED <<M, size, top, stray>>
    BY DEF InsertCollides
  <1>2. /\ pc = "idle" /\ size > 0 /\ DOMAIN sub = Tables
        /\ b \in Tables /\ Tidy(b, sub[b])
    BY <1>1, NewKey
  <1>3. /\ DOMAIN t = DOMAIN sub[b] /\ t.number = sub[b].number + 1
        /\ t.length = sub[b].length /\ t.space = sub[b].space /\ t.hash = sub[b].hash
    BY <1>2, CountedFacts DEF Tidy
  <1>4. /\ DOMAIN t = {"element", "length", "number", "space", "hash"}
        /\ t.length \in Nat /\ t.length >= 2 /\ t.space = SpaceFor(t.length)
        /\ t.hash \in SubHashes /\ sub[b].number + 1 <= t.length
    BY <1>1, <1>2, <1>3 DEF Tidy, TypedTable, Roomy, LongEnough
  <1>5. isSatisfied([sub EXCEPT ![b] = t], M, size)
    <2> DEFINE s == [sub EXCEPT ![b] = t]
    <2>1. DOMAIN s = DOMAIN sub /\ \A d \in DOMAIN sub : s[d].space = sub[d].space
      BY <1>2, <1>3
    <2>2. isSatisfied(sub, M, size)
      BY <1>2 DEF IInv
    <2> HIDE DEF s
    <2>3. isSatisfied(s, M, size)
      BY <2>1, <2>2, SameSpaces
    <2> QED  BY <2>3 DEF s
  <1> HIDE DEF t
  <1> QED  BY <1>1, <1>4, <1>5, RehashSubStep

\* An enlarged sub-table is emptied into the list, too.
LEMMA InsertEnlargesStep ==
    ASSUME IInv, NEW k \in Key, InsertEnlarges(k)
    PROVE  IInv'
  <1> DEFINE b == hash_to_table(k)
             t == Enlarged(k)
  <1>1. /\ InsertsNew(k) /\ RehashSub(k, t)
        /\ cnt' = cnt + 1 /\ UNCHANGED <<M, size, top, stray>>
        /\ isSatisfied([sub EXCEPT ![b] = t], M, size)
    BY DEF InsertEnlarges, EnlargedFits
  <1>2. b \in Tables /\ Tidy(b, sub[b])
    BY <1>1, NewKey
  <1>3. /\ DOMAIN Counted(k) = DOMAIN sub[b] /\ Counted(k).length = sub[b].length
        /\ Counted(k).hash = sub[b].hash
    BY <1>2, CountedFacts DEF Tidy
  <1>4. /\ DOMAIN t = DOMAIN sub[b] /\ t.hash = sub[b].hash
        /\ t.length = Longer(sub[b].length) /\ t.space = SpaceFor(t.length)
    BY <1>2, <1>3 DEF Enlarged, Tidy, TypedTable
  <1>5. /\ t.length \in Nat /\ t.length >= 2 /\ sub[b].number + 1 <= t.length
    BY <1>2, <1>4 DEF Longer, Tidy, TypedTable, Roomy
  <1>6. DOMAIN t = {"element", "length", "number", "space", "hash"} /\ t.hash \in SubHashes
    BY <1>2, <1>4 DEF Tidy, TypedTable
  <1> HIDE DEF t
  <1> QED  BY <1>1, <1>4, <1>5, <1>6, RehashSubStep
\* One turn of the loop of Insert: the keys of the list part, or the sub-table
\* stays empty.
LEMMA RehashTableStep ==
    ASSUME IInv, NEW h \in SubHashes, RehashTable(h)
    PROVE  IInv'
  <1> DEFINE K == KeysIn(list)
             t == [sub[cur] EXCEPT !.hash = h]
             u == [t EXCEPT !.element = Placed(t, K)]
  <1>1. /\ pc = "sub" /\ InSub /\ TypeOK /\ AllTidy /\ DOMAIN sub = Tables /\ cur \in Tables
        /\ size > 0
        /\ UNCHANGED <<cnt, M, size, top, keys, stray>>
    BY DEF RehashTable, IInv, Contents, TypeOK, Tables
  <1>2. Tidy(cur, sub[cur])
    BY <1>1 DEF AllTidy
  <1>3. /\ t.element = sub[cur].element /\ t.number = sub[cur].number
        /\ t.space = sub[cur].space /\ TypedTable(t) /\ Roomy(t)
    BY <1>2, WithHash DEF Tidy
  <1> HIDE DEF t
  <1>4. /\ K \subseteq Key /\ IsFiniteSet(K) /\ Cardinality(K) <= t.number
        /\ \A k \in K : hash_to_table(k) = cur
        /\ DOMAIN t.element = {}
    BY <1>1, <1>3, KeysFinite DEF InSub, IInv, Budget, TypeOK
  <1>5. CASE KeysPart(t, K)
    <2>1. /\ sub' = [sub EXCEPT ![cur] = u] /\ cur' = 0 /\ pc' = "idle" /\ list' = {}
      BY <1>1, <1>5 DEF RehashTable, t
    <2>2. Tidy(cur, u) /\ \A k \in Key : Holds(u, k) <=> k \in K
      BY <1>3, <1>4, <1>5, PlacedTidy
    <2>3. u.space = sub[cur].space
      BY <1>3, WithElement
    <2> HIDE DEF u
    <2>4. KeysIn(list') \subseteq Key
      BY <2>1 DEF KeysIn
    <2>5. /\ TypeOK' /\ AllTidy' /\ isSatisfied(sub', M', size')
          /\ \A q \in Key :
                Lookup(q)' <=> IF hash_to_table(q) = cur THEN Holds(u, q) ELSE Lookup(q)
      BY <1>1, <2>1, <2>2, <2>3, <2>4, OneTableStep DEF TypeOK
    <2>6. ASSUME NEW q \in Key PROVE Lookup(q)' <=> q \in K \cup FoundIn(Tables \ {cur})
      <3>1. hash_to_table(q) \in Tables
        BY <1>1, TableOf
      <3> QED  BY <1>1, <1>4, <2>2, <2>5, <3>1 DEF FoundIn, Lookup
    <2>7. Contents'
      BY <1>1, <2>1, <2>6 DEF Contents, AtRest, InSub, Client, Held, TypeOK
    <2>8. Budget'
      BY <1>1, <2>1, FS_EmptySet DEF IInv, Budget, Held
    <2> QED  BY <2>5, <2>7, <2>8 DEF IInv
  <1>6. CASE ~KeysPart(t, K)
    <2>1. sub' = [sub EXCEPT ![cur] = t] /\ UNCHANGED <<cur, pc, list>>
      BY <1>1, <1>6 DEF RehashTable, t
    <2>2. Tidy(cur, t)
      BY <1>3, <1>4 DEF Tidy, FiledIn
    <2>3. /\ TypeOK' /\ AllTidy' /\ isSatisfied(sub', M', size')
          /\ DOMAIN sub' = Tables /\ sub'[cur] = t
          /\ \A d \in Tables \ {cur} : sub'[d] = sub[d]
      BY <1>1, <1>3, <1>4, <2>1, <2>2, OneTableStep DEF TypeOK
    <2>4. FoundIn(Tables \ {cur})' = FoundIn(Tables \ {cur})
      <3>1. \A q \in Key : hash_to_table(q)' = hash_to_table(q)
        BY <1>1 DEF hash_to_table
      <3>2. \A q \in Key : hash_to_table(q) \in Tables \ {cur} =>
                (Holds(sub[hash_to_table(q)], q)' <=> Holds(sub[hash_to_table(q)], q))
        BY <2>3, <3>1 DEF Holds, At, table_to_element
      <3> QED  BY <1>1, <2>1, <3>1, <3>2 DEF FoundIn, Tables
    <2>5. InSub'
      <3>1. \A q \in K : hash_to_table(q)' = hash_to_table(q)
        BY <1>1 DEF hash_to_table
      <3> QED  BY <1>1, <1>3, <1>4, <2>1, <2>3, <2>4, <3>1 DEF InSub, Client, Held
    <2>6. Contents'
      BY <1>1, <2>1, <2>5 DEF Contents
    <2>7. Budget'
      BY <1>1, <2>1 DEF IInv, Budget, Held
    <2> QED  BY <2>3, <2>6, <2>7 DEF IInv
  <1> QED  BY <1>5, <1>6

-----------------------------------------------------------------------------
(* The loops of RehashAll.                                                 *)

\* A new sub-table for n keys is empty and has room for them.
LEMMA NewTableFacts ==
    ASSUME NEW n \in Nat, NEW b
    PROVE  /\ Tidy(b, NewTable(n)) /\ NewTable(n).number = n
           /\ DOMAIN NewTable(n).element = {}
  <1> DEFINE t == NewTable(n)
  <1>1. /\ DOMAIN t = {"element", "length", "number", "space", "hash"}
        /\ t.element = <<>> /\ t.number = n /\ t.space = SpaceFor(t.length)
        /\ t.length = IF n > 1 THEN 2 * n ELSE 2
        /\ t.hash = CHOOSE h \in SubHashes : TRUE
    BY DEF NewTable
  <1>2. t.hash \in SubHashes
    BY <1>1, DrawAssumption
  <1>3. DOMAIN t.element = {} /\ t.length \in Nat /\ t.length >= 2 /\ t.number <= t.length
    BY <1>1
  <1>4. t.space \in Nat
    BY <1>1, <1>3, SpacePositive
  <1> HIDE DEF t
  <1>5. TypedTable(t) /\ Roomy(t) /\ FiledIn(b, t)
    BY <1>1, <1>2, <1>3, <1>4, FS_EmptySet DEF TypedTable, Roomy, FiledIn
  <1> QED  BY <1>1, <1>3, <1>5 DEF Tidy, t

\* One turn of the loop that draws the hash function to sub-tables: new, empty
\* sub-tables that count the keys they are to hold.
LEMMA DrawTopStep ==
    ASSUME IInv, NEW h \in TopHashes, DrawTop(h)
    PROVE  IInv'
  <1> DEFINE part(i) == {n \in list : h[n.key] % size' = i}
  <1>1. /\ pc = "top" /\ top' = h /\ size' = SM * M
        /\ sub' = [i \in 0 .. size' - 1 |-> NewTable(Cardinality(part(i)))]
        /\ pc' = IF isSatisfied(sub', M, size') THEN "form" ELSE "top"
        /\ UNCHANGED <<cnt, M, list, cur, keys, stray>>
    BY DEF DrawTop
  <1>2. TypeOK /\ InTop /\ IsFiniteSet(list)
    BY <1>1 DEF IInv, Contents, Budget
  <1>3. size' \in Nat /\ size' > 0
    BY <1>1, <1>2, Positive, FactorAssumption DEF TypeOK, InTop
  <1>4. \A i : Cardinality(part(i)) \in Nat
    BY <1>2, FS_Subset, FS_CardinalityType
  <1>5. \A i \in Tables' : part(i) = new_list(i)'
    BY <1>1 DEF new_list, hash_to_table, Tables
  <1> HIDE DEF part
  <1>6. /\ DOMAIN sub' = Tables'
        /\ \A i \in Tables' : sub'[i] = NewTable(Cardinality(part(i)))
    BY <1>1 DEF Tables
  <1>7. ASSUME NEW i \in Tables'
        PROVE  /\ TypedTable(sub'[i]) /\ Tidy(i, sub[i])'
               /\ sub'[i].number = Cardinality(new_list(i)')
               /\ DOMAIN sub'[i].element = {}
    <2>1. PICK t : /\ t = sub'[i] /\ Tidy(i, t) /\ t.number = Cardinality(part(i))
                   /\ DOMAIN t.element = {}
      BY <1>4, <1>6, NewTableFacts
    <2> QED  BY <1>5, <2>1 DEF Tidy, TypedTable, Roomy, FiledIn
  <1>8. AllTidy'
    BY <1>6, <1>7 DEF AllTidy
  <1>9. TypeOK'
    <2>1. pc' = "form" => cur' \in Tables'
      BY <1>1, <1>2, <1>3 DEF Tables, InTop
    <2>2. /\ cnt' \in Nat /\ M' \in Nat /\ size' \in Nat /\ top' \in TopHashes
          /\ pc' \in Loops \cup {"idle"} /\ list' = list /\ keys' \subseteq Key /\ stray' \subseteq Key
      BY <1>1, <1>2, <1>3 DEF TypeOK, Loops
    <2>3. \A b \in DOMAIN sub' : TypedTable(sub'[b])
      BY <1>6, <1>7
    <2>4. KeysIn(list)' \subseteq Key
      BY <1>2, <2>2 DEF TypeOK, KeysIn
    <2>5. \A b \in DOMAIN sub' :
            LET t == sub'[b]
            IN  /\ DOMAIN t = {"element", "length", "number", "space", "hash"}
                /\ DOMAIN t.element \subseteq 0 .. t.space - 1
                /\ \A i \in DOMAIN t.element : t.element[i] \in Key
                /\ {t.length, t.number, t.space} \subseteq Nat
                /\ t.hash \in SubHashes
      BY <2>3 DEF TypedTable
    <2>6. pc' # "sub" /\ DOMAIN sub' = Tables'
      BY <1>1, <1>6
    <2> QED  BY <2>1, <2>2, <2>4, <2>5, <2>6, Zenon DEF TypeOK
  <1>10. Contents'
    <2>1. Client(KeysIn(list))'
      BY <1>1, <1>2 DEF InTop, Client, Held
    <2>2. ASSUME NEW k \in KeysIn(list)' PROVE ~(hash_to_table(k)' < cur')
      <3>1. cur' = 0 /\ top'[k] \in Nat
        BY <1>1, <1>2, DrawAssumption DEF InTop, TypeOK
      <3> QED  BY <1>3, <3>1, ModRange DEF hash_to_table
    <2>3. InForm'
      BY <1>7, <2>1, <2>2 DEF InForm
    <2> QED  BY <1>1, <1>2, <2>1, <2>3 DEF Contents, InTop
  <1>11. Budget'
    BY <1>1, <1>3 DEF IInv, Budget, Held
  <1>12. pc' # "top" => isSatisfied(sub', M', size')
    BY <1>1
  <1> QED  BY <1>8, <1>9, <1>10, <1>11, <1>12 DEF IInv
\* Nodes that part have keys that part.
LEMMA NodesKeysPart ==
    ASSUME NEW t, NEW L, NodesPart(t, L)
    PROVE  KeysPart(t, KeysIn(L))
  <1> SUFFICES ASSUME NEW j \in KeysIn(L), NEW k \in KeysIn(L), j # k
               PROVE  table_to_element(t, j) # table_to_element(t, k)
    BY DEF KeysPart
  <1>1. PICK m \in L : m.key = j
    BY DEF KeysIn
  <1>2. PICK n \in L : n.key = k
    BY DEF KeysIn
  <1> QED  BY <1>1, <1>2 DEF NodesPart

\* One turn of the loop that forms the sub-tables: the nodes of this one part, or
\* it is emptied.
LEMMA FormTableStep ==
    ASSUME IInv, NEW h \in SubHashes, FormTable(h)
    PROVE  IInv'
  <1> DEFINE nodes == new_list(cur)
             K == KeysIn(nodes)
             t == [sub[cur] EXCEPT !.hash = h]
             u == IF NodesPart(t, nodes) THEN [t EXCEPT !.element = Placed(t, K)]
                                         ELSE [t EXCEPT !.element = <<>>]
  <1>1. /\ pc = "form" /\ InForm /\ TypeOK /\ AllTidy /\ DOMAIN sub = Tables /\ cur \in Tables
        /\ size > 0 /\ IsFiniteSet(list)
        /\ UNCHANGED <<cnt, M, size, top, keys, stray>>
    BY DEF FormTable, IInv, Contents, TypeOK, Tables, Budget
  <1>2. /\ sub' = [sub EXCEPT ![cur] = u]
        /\ IF NodesPart(t, nodes)
           THEN IF LastTable
                THEN cur' = 0 /\ pc' = "idle" /\ list' = {}
                ELSE cur' = cur + 1 /\ UNCHANGED <<pc, list>>
           ELSE UNCHANGED <<cur, pc, list>>
    BY DEF FormTable
  <1>3. Tidy(cur, sub[cur])
    BY <1>1 DEF AllTidy
  <1>4. /\ t.number = sub[cur].number /\ t.space = sub[cur].space
        /\ TypedTable(t) /\ Roomy(t)
    BY <1>3, WithHash DEF Tidy
  <1> HIDE DEF t
  <1>5. /\ K \subseteq KeysIn(list) /\ K \subseteq Key /\ IsFiniteSet(K)
        /\ Cardinality(K) <= t.number
        /\ \A k : k \in K <=> k \in KeysIn(list) /\ hash_to_table(k) = cur
    <2>1. \A k : k \in K <=> k \in KeysIn(list) /\ hash_to_table(k) = cur
      BY DEF KeysIn, new_list
    <2>2. IsFiniteSet(nodes)
      BY <1>1, FS_Subset DEF new_list
    <2>3. IsFiniteSet(K) /\ Cardinality(K) <= Cardinality(nodes)
      BY <2>2, KeysFinite
    <2>4. KeysIn(list) \subseteq Key /\ sub[cur].number = Cardinality(nodes)
      BY <1>1 DEF TypeOK, InForm
    <2> QED  BY <1>4, <2>1, <2>3, <2>4
  <1>6. /\ Tidy(cur, u) /\ u.space = sub[cur].space /\ u.number = sub[cur].number
        /\ \A i \in DOMAIN u.element : u.element[i] \in K
        /\ NodesPart(t, nodes) => \A k \in Key : Holds(u, k) <=> k \in K
    <2>1. CASE NodesPart(t, nodes)
      <3> DEFINE v == [t EXCEPT !.element = Placed(t, K)]
      <3>1. KeysPart(t, K)
        BY <2>1, NodesKeysPart
      <3>2. /\ Tidy(cur, v)
            /\ \A k \in Key : Holds(v, k) <=> k \in K
            /\ \A i \in DOMAIN v.element : v.element[i] \in K
        BY <1>4, <1>5, <3>1, PlacedTidy
      <3>3. v.space = t.space /\ v.number = t.number
        BY <1>4, WithElement
      <3> HIDE DEF v
      <3> QED  BY <1>4, <2>1, <3>2, <3>3 DEF v
    <2>2. CASE ~NodesPart(t, nodes)
      <3> DEFINE v == [t EXCEPT !.element = <<>>]
      <3>1. /\ DOMAIN v = DOMAIN t /\ v.element = <<>> /\ v.hash = t.hash
            /\ v.length = t.length /\ v.number = t.number /\ v.space = t.space
        BY <1>4, WithElement
      <3>2. DOMAIN v.element = {}
        BY <3>1
      <3> HIDE DEF v
      <3>3. TypedTable(v) /\ Roomy(v) /\ FiledIn(cur, v)
        BY <1>4, <3>1, <3>2, FS_EmptySet DEF TypedTable, Roomy, FiledIn
      <3> QED  BY <1>4, <2>2, <3>1, <3>2, <3>3 DEF Tidy, v
    <2> QED  BY <2>1, <2>2
  <1> HIDE DEF u
  <1>7. /\ pc' \in {"idle", "form", "sub"} /\ (pc' # "idle" => cur' \in Tables)
        /\ KeysIn(list') \subseteq Key
    BY <1>1, <1>2 DEF TypeOK, Tables, LastTable, KeysIn
  <1>8. /\ TypeOK' /\ AllTidy' /\ isSatisfied(sub', M', size')
        /\ DOMAIN sub' = Tables /\ sub'[cur] = u
        /\ \A d \in Tables \ {cur} : sub'[d] = sub[d]
        /\ \A q \in Key :
                Lookup(q)' <=> IF hash_to_table(q) = cur THEN Holds(u, q) ELSE Lookup(q)
    BY <1>1, <1>2, <1>6, <1>7, OneTableStep DEF TypeOK
  <1>9. \A b \in Tables : \A i \in DOMAIN sub'[b].element : sub'[b].element[i] \in KeysIn(list)
    BY <1>1, <1>5, <1>6, <1>8 DEF InForm
  <1>10. \A k \in Key : hash_to_table(k) \in Tables /\ hash_to_table(k)' = hash_to_table(k)
    BY <1>1, TableOf DEF hash_to_table
  <1>11. \A q \in Key : Lookup(q)' => q \in KeysIn(list)
    <2> SUFFICES ASSUME NEW q \in Key, Lookup(q)' PROVE q \in KeysIn(list)
      OBVIOUS
    <2>1. PICK d \in Tables : d = hash_to_table(q)
      BY <1>10
    <2>2. Holds(sub'[d], q)
      BY <1>10, <2>1 DEF Lookup, Holds, At, table_to_element
    <2>3. TypedTable(sub'[d])
      BY <1>1, <1>6, <1>8 DEF AllTidy, Tidy
    <2> QED  BY <1>9, <2>2, <2>3, HoldsMeans
  <1>12. \A q \in KeysIn(list) : hash_to_table(q) < cur => Lookup(q)'
    <2> SUFFICES ASSUME NEW q \in KeysIn(list), hash_to_table(q) < cur PROVE Lookup(q)'
      OBVIOUS
    <2>1. q \in Key /\ cur \in Int /\ hash_to_table(q) \in Int
      BY <1>1, <1>10 DEF TypeOK, Tables
    <2>2. Lookup(q)
      BY <1>1 DEF InForm, Lookup
    <2> QED  BY <1>8, <2>1, <2>2
  <1>13. Budget'
    BY <1>1, <1>2, FS_EmptySet DEF IInv, Budget, Held
  <1>14. Contents'
    <2>1. CASE NodesPart(t, nodes)
      <3>1. \A q \in KeysIn(list) : hash_to_table(q) < cur + 1 => Lookup(q)'
        <4> SUFFICES ASSUME NEW q \in KeysIn(list), hash_to_table(q) < cur + 1 PROVE Lookup(q)'
          OBVIOUS
        <4>1. q \in Key /\ cur \in Int /\ hash_to_table(q) \in Int
          BY <1>1, <1>10 DEF TypeOK, Tables
        <4>2. CASE hash_to_table(q) = cur
          BY <1>5, <1>6, <1>8, <2>1, <4>1, <4>2
        <4> QED  BY <1>12, <4>1, <4>2
      <3>2. CASE LastTable
        <4>1. \A q \in KeysIn(list) : Lookup(q)'
          BY <1>1, <1>10, <3>1, <3>2 DEF LastTable, Tables, TypeOK
        <4>2. AtRest'
          BY <1>1, <1>11, <4>1 DEF AtRest, InForm, Client, Held, TypeOK
        <4> QED  BY <1>2, <2>1, <3>2, <4>2 DEF Contents
      <3>3. CASE ~LastTable
        <4>1. cur' = cur + 1 /\ list' = list /\ pc' = "form"
          BY <1>1, <1>2, <2>1, <3>3
        <4>2. \A q \in KeysIn(list') : hash_to_table(q)' < cur' =>
                    Holds(sub[hash_to_table(q)], q)'
          BY <1>1, <1>10, <3>1, <4>1 DEF Lookup, TypeOK
        <4> QED  BY <1>1, <1>6, <1>8, <1>9, <4>1, <4>2
                 DEF Contents, InForm, Client, Held, Tables, new_list, hash_to_table
      <3> QED  BY <3>2, <3>3
    <2>2. CASE ~NodesPart(t, nodes)
      <3>1. cur' = cur /\ list' = list /\ pc' = "form"
        BY <1>1, <1>2, <2>2
      <3>2. \A q \in KeysIn(list') : hash_to_table(q)' < cur' =>
                  Holds(sub[hash_to_table(q)], q)'
        BY <1>1, <1>10, <1>12, <3>1 DEF Lookup, TypeOK
      <3> QED  BY <1>1, <1>6, <1>8, <1>9, <3>1, <3>2
               DEF Contents, InForm, Client, Held, Tables, new_list, hash_to_table
    <2> QED  BY <2>1, <2>2
  <1> QED  BY <1>8, <1>13, <1>14 DEF IInv

-----------------------------------------------------------------------------
(* The theorems.                                                           *)

\* Every way an insert may go keeps the invariant.
LEMMA InsertStep ==
    ASSUME IInv, NEW k \in Key, Insert(k)
    PROVE  IInv'
  BY InsertEndsPhaseStep, InsertFindsStep, InsertFillsSlotStep, InsertCollidesStep,
     InsertEnlargesStep, InsertRehashesAllStep DEF Insert

\* Every step keeps the invariant.
LEMMA NextStep ==
    ASSUME IInv, [Next]_vars
    PROVE  IInv'
  <1>1. ASSUME NEW k \in Key, Insert(k) PROVE IInv'
    BY <1>1, InsertStep
  <1>2. ASSUME NEW k \in Key, DeleteMisses(k) PROVE IInv'
    BY <1>2, DeleteMissesStep
  <1>3. ASSUME NEW k \in Key, DeleteFinds(k) PROVE IInv'
    BY <1>3, DeleteEndsPhaseStep, DeleteFindsStep
  <1>4. CASE Initialize
    BY <1>4, InitializeStep
  <1>5. ASSUME NEW h \in TopHashes, DrawTop(h) PROVE IInv'
    BY <1>5, DrawTopStep
  <1>6. ASSUME NEW h \in SubHashes, FormTable(h) \/ RehashTable(h) PROVE IInv'
    BY <1>6, FormTableStep, RehashTableStep
  <1>7. CASE UNCHANGED vars
    <2>1. TypeOK'
      BY <1>7 DEF vars, IInv, TypeOK, Tables
    <2>2. AllTidy'
      BY <1>7 DEF vars, IInv, AllTidy, Tidy, TypedTable, Roomy, FiledIn,
         hash_to_table, table_to_element
    <2>3. Contents'
      <3> USE DEF Client, Held
      <3>0. /\ UNCHANGED <<cnt, M, size, top, sub, list, cur, pc, keys, stray>>
            /\ Tables' = Tables
            /\ \A k : hash_to_table(k)' = hash_to_table(k)
            /\ \A b : new_list(b)' = new_list(b)
            /\ \A b, k : Holds(sub[b], k)' = Holds(sub[b], k)
        BY <1>7 DEF vars, Tables, hash_to_table, new_list, Holds, At, table_to_element
      <3> USE <3>0
      <3>1. AtRest => AtRest'
        BY DEF AtRest, Lookup
      <3>2. InTop => InTop'
        BY DEF InTop
      <3>3. InForm => InForm'
        BY DEF InForm
      <3>4. InSub => InSub'
        BY DEF InSub, FoundIn
      <3> QED  BY <3>1, <3>2, <3>3, <3>4 DEF IInv, Contents
    <2>4. Budget'
      BY <1>7 DEF vars, IInv, Budget, Held
    <2> QED  BY <1>7, <2>1, <2>2, <2>3, <2>4 DEF vars, IInv
  <1> QED  BY <1>1, <1>2, <1>3, <1>4, <1>5, <1>6, <1>7 DEF Next, Draw

\* The invariant holds in every reachable state.
THEOREM Invariance == Spec => []IInv
  <1>1. Init => IInv  BY InitStep
  <1>2. IInv /\ [Next]_vars => IInv'  BY NextStep
  <1> QED  BY <1>1, <1>2, PTL DEF Spec

\* Between two calls the table takes space linear in M for at most M keys, and
\* each sub-table space quadratic in what it counts.
THEOREM SpaceBounded == Spec => []SpaceBound
  <1>1. ASSUME IInv PROVE SpaceBound
    <2>1. TypeOK /\ NumberFits
      BY <1>1 DEF IInv, TypeOK, AllTidy, Tidy, Roomy, NumberFits
    <2>2. WithinM /\ ((pc = "idle" /\ size > 0) => isSatisfied(sub, M, size))
      BY <1>1 DEF IInv, Budget, WithinM, Held
    <2> QED  BY <2>1, <2>2 DEF SpaceBound
  <1> QED  BY <1>1, Invariance, PTL

\* No key of the client is ever lost, whatever lies behind the element arrays.
THEOREM NoKeyLost == Spec => [](pc = "idle" => \A k \in keys : Lookup(k))
  <1>1. IInv => (pc = "idle" => \A k \in keys : Lookup(k))
    BY DEF IInv, Contents, AtRest, Client, Held
  <1> QED  BY <1>1, Invariance, PTL

\* Between two calls a look-up finds exactly the keys that the client inserted
\* and those that RehashAll took from behind an element array, as far as the
\* client did not delete them.
THEOREM FindsExactly == Spec => []Exact
  <1>1. IInv => Exact
    BY DEF IInv, Contents, AtRest, Client, Held, Exact, TypeOK
  <1> QED  BY <1>1, Invariance, PTL
=============================================================================
