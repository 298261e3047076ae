----------------------------- MODULE MphMapProofs -----------------------------
(***************************************************************************)
(* Proofs about the hash maps of cxxmph (MphMap, MphIndex), for every set  *)
(* of keys and data, every family of hash functions and every bound.  From *)
(* the bottom up: the queue of edges comes apart when all edges are in it  *)
(* (QueueComesApart); labels assigned in the reverse order give every edge *)
(* a vertex of its own (AssigningLabels); ranks number these vertices      *)
(* (RanksOfLabelled); so an index is perfect for the keys it was built of  *)
(* (ResetIsPerfect).  pack() then moves every live cell to the place where *)
(* it will be looked up (PackDoes), which is the heart of the inductive    *)
(* invariant MapInv; the theorems follow from it.                          *)
(***************************************************************************)
EXTENDS MphMap, FiniteSetTheorems, SequenceTheorems, WellFoundedInduction, TLAPS

-----------------------------------------------------------------------------
(* Numbers.                                                                *)

\* A set of numbers that is not empty has a least one.
LEMMA LeastElement ==
    ASSUME NEW S \in SUBSET Nat, S # {}
    PROVE  \E x \in S : \A y \in S : x <= y
<1>1. PICK x \in S : \A y \in S : ~(<<y, x>> \in OpToRel(<, Nat))
  BY NatLessThanWellFounded, WFMin
<1>2. \A y \in S : ~(<<y, x>> \in {ss \in Nat \X Nat : ss[1] < ss[2]})
  BY <1>1, Zenon DEF OpToRel
<1>3. \A y \in S : x <= y
  <2> TAKE y \in S
  <2>1. x \in Nat /\ y \in Nat /\ <<y, x>> \in Nat \X Nat
    OBVIOUS
  <2>2. ~(<<y, x>>[1] < <<y, x>>[2])
    BY <1>2, <2>1, Zenon
  <2> QED
    BY <2>1, <2>2
<1> QED
  BY <1>3

\* A set that has 0 and with each number the next one has all up to n.
LEMMA Induction ==
    ASSUME NEW n \in Nat, NEW P, 0 \in P, \A i \in 1 .. n : i - 1 \in P => i \in P
    PROVE  0 .. n \subseteq P
<1> DEFINE Rest == {i \in 0 .. n : i \notin P}
<1>1. SUFFICES ASSUME Rest # {} PROVE FALSE
  OBVIOUS
<1>2. \E i \in Rest : \A y \in Rest : i <= y
  <2>1. Rest \in SUBSET Nat
    OBVIOUS
  <2> HIDE DEF Rest
  <2> QED
    BY <1>1, <2>1, LeastElement
<1>3. PICK i \in 0 .. n : i \notin P /\ \A y \in Rest : i <= y
  BY <1>2
<1>4. i # 0 /\ i \in 1 .. n /\ i - 1 \in 0 .. n
  BY <1>3
<1>5. i - 1 \notin P
  BY <1>3, <1>4
<1>6. i - 1 \in Rest
  BY <1>4, <1>5
<1> QED
  BY <1>3, <1>4, <1>6

\* The values of a loop of n rounds that starts with b.
Rounds(f, n, b, step) == f[0] = b /\ \A i \in 1 .. n : f[i] = step[<<i, f[i - 1]>>]

\* Every step has such values.
LEMMA RoundsExist ==
    ASSUME NEW n \in Nat, NEW S, NEW b \in S, NEW step \in [(1 .. n) \X S -> S]
    PROVE  \E f \in [0 .. n -> S] : Rounds(f, n, b, step)
<1> DEFINE Good(m) == \E f \in [0 .. m -> S] :
                         f[0] = b /\ \A i \in 1 .. m : f[i] = step[<<i, f[i - 1]>>]
           P == {m \in 0 .. n : Good(m)}
<1>1. Good(0)
  <2>1. [i \in 0 .. 0 |-> b] \in [0 .. 0 -> S] /\ [i \in 0 .. 0 |-> b][0] = b
    OBVIOUS
  <2>2. 1 .. 0 = {}
    OBVIOUS
  <2> QED
    BY <2>1, <2>2
<1>2. ASSUME NEW m \in 0 .. n, m + 1 \in 0 .. n, Good(m)
      PROVE  Good(m + 1)
  <2>1. PICK f \in [0 .. m -> S] : f[0] = b /\ \A i \in 1 .. m : f[i] = step[<<i, f[i - 1]>>]
    BY <1>2
  <2> DEFINE new == step[<<m + 1, f[m]>>]
             g == [i \in 0 .. m + 1 |-> IF i = m + 1 THEN new ELSE f[i]]
  <2>2. new \in S
    <3>1. f[m] \in S /\ m + 1 \in 1 .. n
      BY <1>2
    <3> QED
      BY <3>1
  <2>3. g \in [0 .. m + 1 -> S]
    <3> HIDE DEF new
    <3> QED
      BY <2>2
  <2>4. g[0] = b /\ g[m + 1] = new /\ g[m] = f[m]
    BY <2>1
  <2>5. \A i \in 1 .. m : g[i] = f[i] /\ g[i - 1] = f[i - 1]
    OBVIOUS
  <2>6. new = step[<<m + 1, f[m]>>]
    OBVIOUS
  <2> HIDE DEF g, new
  <2>7. ASSUME NEW i \in 1 .. m + 1 PROVE g[i] = step[<<i, g[i - 1]>>]
    <3>1. CASE i = m + 1
      <4>1. i - 1 = m
        BY <3>1
      <4> QED
        BY <2>4, <2>6, <3>1, <4>1
    <3>2. CASE i # m + 1
      BY <2>1, <2>5, <3>2
    <3> QED
      BY <3>1, <3>2
  <2> QED
    BY <2>3, <2>4, <2>7
<1>3. 0 \in P
  BY <1>1
<1>4. ASSUME NEW i \in 1 .. n, i - 1 \in P PROVE i \in P
  <2>1. i - 1 \in 0 .. n /\ (i - 1) + 1 = i /\ Good(i - 1)
    BY <1>4
  <2> HIDE DEF Good
  <2>2. Good((i - 1) + 1)
    BY <1>2, <2>1
  <2> QED
    BY <2>1, <2>2
<1>5. 0 .. n \subseteq P
  <2> HIDE DEF P
  <2> QED
    BY <1>3, <1>4, Induction
<1>6. Good(n)
  BY <1>5
<1> QED
  BY <1>6 DEF Rounds

\* A part of a finite set that lacks one of its elements is smaller.
LEMMA Fewer ==
    ASSUME NEW B, IsFiniteSet(B), NEW A \in SUBSET B, NEW x \in B, x \notin A
    PROVE  /\ IsFiniteSet(A)
           /\ Cardinality(A) \in Nat /\ Cardinality(B) \in Nat
           /\ Cardinality(A) < Cardinality(B)
<1>1. Cardinality(A) <= Cardinality(B) /\ Cardinality(A) # Cardinality(B) /\ IsFiniteSet(A)
  BY FS_Subset
<1>2. Cardinality(A) \in Nat /\ Cardinality(B) \in Nat
  BY <1>1, FS_CardinalityType
<1> QED
  BY <1>1, <1>2

-----------------------------------------------------------------------------
(* The positions at which a sequence is true.                              *)

\* No value comes twice in the sequence s.
Distinct(s) == \A i, j \in 1 .. Len(s) : s[i] = s[j] => i = j

\* They are listed once each.
LEMMA PositionsFacts ==
    ASSUME NEW p \in Seq(BOOLEAN), NEW T, T = {i \in DOMAIN p : p[i]}
    PROVE  /\ IsFiniteSet(T) /\ Cardinality(T) \in Nat
           /\ Positions(p) \in [1 .. Cardinality(T) -> T]
           /\ Len(Positions(p)) = Cardinality(T)
           /\ \A i, j \in 1 .. Cardinality(T) : Positions(p)[i] = Positions(p)[j] => i = j
           /\ \A t \in T : \E i \in 1 .. Cardinality(T) : Positions(p)[i] = t
<1>1. T \in SUBSET (1 .. Len(p)) /\ Len(p) \in Nat
  OBVIOUS
<1>2. IsFiniteSet(T) /\ Cardinality(T) \in Nat
  <2>1. IsFiniteSet(1 .. Len(p))
    BY <1>1, FS_Interval
  <2>2. IsFiniteSet(T)
    BY <1>1, <2>1, FS_Subset
  <2> QED
    BY <2>2, FS_CardinalityType
<1> DEFINE c == Cardinality(T)
           place == [i \in T |-> Cardinality(T \cap 1 .. i)]
           nth(n) == CHOOSE i \in T : Cardinality(T \cap 1 .. i) = n
<1>3. Positions(p) = [n \in 1 .. c |-> nth(n)]
  BY DEF Positions
<1>4. \A i \in T : place[i] \in 1 .. c
  <2> TAKE i \in T
  <2>1. T \cap 1 .. i \in SUBSET T /\ i \in T \cap 1 .. i
    BY <1>1
  <2>2. /\ IsFiniteSet(T \cap 1 .. i) /\ Cardinality(T \cap 1 .. i) <= c
    BY <1>2, <2>1, FS_Subset
  <2>3. Cardinality(T \cap 1 .. i) \in Nat /\ Cardinality(T \cap 1 .. i) # 0
    BY <2>1, <2>2, FS_CardinalityType, FS_EmptySet
  <2> QED
    BY <1>2, <2>2, <2>3
<1>5. \A i, j \in T : i < j => place[i] < place[j]
  <2> TAKE i \in T, j \in T
  <2> SUFFICES ASSUME i < j PROVE Cardinality(T \cap 1 .. i) < Cardinality(T \cap 1 .. j)
    OBVIOUS
  <2> DEFINE A == T \cap 1 .. i
             B == T \cap 1 .. j
  <2>1. j \in B /\ j \notin A /\ A \in SUBSET B
    BY <1>1
  <2>2. IsFiniteSet(B)
    BY <1>2, FS_Subset
  <2> HIDE DEF A, B
  <2>3. Cardinality(A) < Cardinality(B)
    BY <2>1, <2>2, Fewer
  <2> QED
    BY <2>3 DEF A, B
<1>6. place \in Injection(T, 1 .. c)
  <2>1. place \in [T -> 1 .. c]
    BY <1>4
  <2>2. \A i, j \in T : i \in Nat /\ j \in Nat /\ place[i] \in Nat /\ place[j] \in Nat
    <3> HIDE DEF place
    <3> QED
      BY <1>1, <1>2, <1>4
  <2> HIDE DEF place, c
  <2>3. \A i, j \in T : place[i] = place[j] => i = j
    BY <1>5, <2>2
  <2> QED
    BY <2>1, <2>3 DEF Injection, IsInjective
<1>7. IsFiniteSet(1 .. c) /\ Cardinality(1 .. c) = c
  BY <1>2, FS_Interval
<1>8. place \in Surjection(T, 1 .. c)
  <2> HIDE DEF place
  <2> QED
    BY <1>6, <1>7, FS_Injection
<1>9. \A n \in 1 .. c : nth(n) \in T /\ Cardinality(T \cap 1 .. nth(n)) = n
  <2> TAKE n \in 1 .. c
  <2>1. \E i \in T : place[i] = n
    <3> HIDE DEF place
    <3> QED
      BY <1>8 DEF Surjection
  <2>2. \E i \in T : Cardinality(T \cap 1 .. i) = n
    BY <2>1
  <2> QED
    BY <2>2
<1>10. \A t \in T : nth(place[t]) = t
  <2> TAKE t \in T
  <2>1. nth(place[t]) \in T /\ place[nth(place[t])] = place[t]
    BY <1>4, <1>9
  <2> HIDE DEF nth, place
  <2> QED
    BY <1>6, <2>1 DEF Injection, IsInjective
<1> HIDE DEF nth, place
<1>11. Positions(p) \in [1 .. c -> T]
  BY <1>3, <1>9
<1>12. Len(Positions(p)) = c
  BY <1>2, <1>3
<1>13. \A i, j \in 1 .. c : Positions(p)[i] = Positions(p)[j] => i = j
  <2> TAKE i \in 1 .. c, j \in 1 .. c
  <2>1. Positions(p)[i] = nth(i) /\ Positions(p)[j] = nth(j)
    BY <1>3
  <2> HIDE DEF c
  <2>2. Cardinality(T \cap 1 .. nth(i)) = i /\ Cardinality(T \cap 1 .. nth(j)) = j
    BY <1>9
  <2> QED
    BY <2>1, <2>2, Zenon
<1>14. \A t \in T : \E i \in 1 .. c : Positions(p)[i] = t
  BY <1>3, <1>4, <1>10
<1> QED
  BY <1>2, <1>11, <1>12, <1>13, <1>14

-----------------------------------------------------------------------------
(* The size of the graph, and its edges.                                   *)

\* A power of two is found for every number.
LEMMA PowerOfTwo ==
    ASSUME NEW k \in Nat \ {0}
    PROVE  nextpoweroftwo(k) \in Nat \ {0}
<1> DEFINE power == CHOOSE g : g = [i \in 0 .. k |-> IF i = 0 THEN 1 ELSE 2 * g[i - 1]]
           step == [w \in (1 .. k) \X Nat |-> 2 * w[2]]
<1>1. PICK f \in [0 .. k -> Nat] : Rounds(f, k, 1, step)
  <2>1. step \in [(1 .. k) \X Nat -> Nat]
    OBVIOUS
  <2> HIDE DEF step
  <2> QED
    BY <2>1, RoundsExist
<1>2. f[0] = 1 /\ \A i \in 1 .. k : f[i] = 2 * f[i - 1]
  <2>1. \A i \in 1 .. k : f[i - 1] \in Nat /\ step[<<i, f[i - 1]>>] = 2 * f[i - 1]
    <3> TAKE i \in 1 .. k
    <3>1. i - 1 \in 0 .. k
      OBVIOUS
    <3>2. f[i - 1] \in Nat
      BY <3>1
    <3> QED
      BY <3>2
  <2> HIDE DEF step
  <2> QED
    BY <1>1, <2>1 DEF Rounds
<1>3. f = [i \in 0 .. k |-> IF i = 0 THEN 1 ELSE 2 * f[i - 1]]
  BY <1>2
<1>4. power = [i \in 0 .. k |-> IF i = 0 THEN 1 ELSE 2 * power[i - 1]]
  BY <1>3
<1> DEFINE S == {p \in {power[i] : i \in 0 .. k} : p >= k}
<1>5. nextpoweroftwo(k) = Min(S)
  BY DEF nextpoweroftwo
<1> HIDE DEF power
<1> DEFINE P == {i \in 0 .. k : power[i] \in Nat /\ power[i] > i}
<1>6. 0 .. k \subseteq P
  <2>1. 0 \in P
    BY <1>4
  <2>2. ASSUME NEW i \in 1 .. k, i - 1 \in P PROVE i \in P
    <3>1. power[i] = 2 * power[i - 1] /\ power[i - 1] \in Nat /\ power[i - 1] > i - 1
      BY <1>4, <2>2
    <3>2. power[i] \in Nat /\ power[i] > i
      BY <3>1
    <3> QED
      BY <3>2
  <2> HIDE DEF P
  <2> QED
    BY <2>1, <2>2, Induction
<1>7. S \in SUBSET Nat /\ power[k] \in S
  BY <1>6
<1>8. PICK x \in S : \A y \in S : x <= y
  <2> HIDE DEF S
  <2> QED
    BY <1>7, LeastElement
<1>9. Min(S) \in S
  <2> HIDE DEF S
  <2> QED
    BY <1>8 DEF Min
<1> QED
  BY <1>5, <1>6, <1>9

\* A third of the vertices is at least one.
LEMMA ThirdIsPositive ==
    ASSUME NEW m \in Nat \ {0}, NEW s \in BOOLEAN
    PROVE  r_(m, s) \in Nat \ {0}
<1> DEFINE r == Ceiling(123 * m, 300)
           odd == IF r % 2 = 0 THEN r + 1 ELSE r
<1>1. r \in Nat \ {0}
  BY DEF Ceiling
<1>2. odd \in Nat \ {0}
  <2> HIDE DEF r
  <2> QED
    BY <1>1
<1>3. r_(m, s) = IF s THEN nextpoweroftwo(odd) ELSE odd
  BY DEF r_
<1> HIDE DEF odd
<1> QED
  BY <1>2, <1>3, PowerOfTwo

\* Each edge has one vertex in each third.
LEMMA EdgeInThirds ==
    ASSUME NEW h \in [Key -> [1 .. 3 -> Nat]], NEW k \in Key, NEW r \in Nat \ {0}
    PROVE  /\ EdgeOf(h, k, r) \in [1 .. 3 -> 0 .. (3 * r - 1)]
           /\ \A i \in 1 .. 3 : EdgeOf(h, k, r)[i] \in ((i - 1) * r) .. (i * r - 1)
<1>1. \A i \in 1 .. 3 : h[k][i] \in Nat
  OBVIOUS
<1>2. \A x \in Nat : x % r \in 0 .. (r - 1)
  OBVIOUS
<1>3. \A i \in 1 .. 3 : (h[k][i] % r) \in 0 .. (r - 1)
  BY <1>1, <1>2
<1>4. \A i \in 1 .. 3 : EdgeOf(h, k, r)[i] = (h[k][i] % r) + (i - 1) * r
  BY DEF EdgeOf
<1>5. \A i \in 1 .. 3 : EdgeOf(h, k, r)[i] \in ((i - 1) * r) .. (i * r - 1)
  <2> TAKE i \in 1 .. 3
  <2> DEFINE x == h[k][i] % r
  <2>1. x \in 0 .. (r - 1) /\ EdgeOf(h, k, r)[i] = x + (i - 1) * r
    BY <1>3, <1>4
  <2> HIDE DEF x
  <2>2. i = 1 \/ i = 2 \/ i = 3
    OBVIOUS
  <2> QED
    BY <2>1, <2>2
<1>6. \A i \in 1 .. 3 : EdgeOf(h, k, r)[i] \in 0 .. (3 * r - 1)
  <2> TAKE i \in 1 .. 3
  <2>1. i = 1 \/ i = 2 \/ i = 3
    OBVIOUS
  <2> QED
    BY <1>5, <2>1
<1> QED
  BY <1>5, <1>6 DEF EdgeOf

\* The thirds have no number in common.
LEMMA ThirdsApart ==
    ASSUME NEW r \in Nat \ {0}, NEW i \in 1 .. 3, NEW j \in 1 .. 3,
           NEW x \in ((i - 1) * r) .. (i * r - 1), x \in ((j - 1) * r) .. (j * r - 1)
    PROVE  i = j
<1>1. x \in Int /\ (i - 1) * r <= x /\ x <= i * r - 1 /\ (j - 1) * r <= x /\ x <= j * r - 1
  OBVIOUS
<1>2. (i = 1 \/ i = 2 \/ i = 3) /\ (j = 1 \/ j = 2 \/ j = 3)
  OBVIOUS
<1>3. CASE i = 1
  BY <1>1, <1>2, <1>3
<1>4. CASE i = 2
  BY <1>1, <1>2, <1>4
<1>5. CASE i = 3
  BY <1>1, <1>2, <1>5
<1> QED
  BY <1>2, <1>3, <1>4, <1>5

\* Edges on n vertices, each with one in each of three parts.
Parted(E, m, n) ==
    /\ E \in [1 .. m -> [1 .. 3 -> 0 .. (n - 1)]]
    /\ \A e, f \in 1 .. m : \A i, j \in 1 .. 3 : E[e][i] = E[f][j] => i = j

\* The edges of keys are.
LEMMA EdgesAreParted ==
    ASSUME NEW h \in [Key -> [1 .. 3 -> Nat]], NEW m \in Nat, NEW keys \in [1 .. m -> Key],
           NEW r \in Nat \ {0}
    PROVE  Parted(Edges(keys, h, r), m, 3 * r)
<1> DEFINE E == Edges(keys, h, r)
<1>1. DOMAIN E = 1 .. m /\ \A e \in 1 .. m : keys[e] \in Key /\ E[e] = EdgeOf(h, keys[e], r)
  BY DEF Edges
<1>2. E = [e \in 1 .. m |-> E[e]]
  BY DEF Edges
<1> HIDE DEF E
<1>3. \A e \in 1 .. m : /\ E[e] \in [1 .. 3 -> 0 .. (3 * r - 1)]
                        /\ \A i \in 1 .. 3 : E[e][i] \in ((i - 1) * r) .. (i * r - 1)
  <2> TAKE e \in 1 .. m
  <2>1. keys[e] \in Key /\ E[e] = EdgeOf(h, keys[e], r)
    BY <1>1
  <2> DEFINE k == keys[e]
  <2>2. k \in Key /\ E[e] = EdgeOf(h, k, r)
    BY <2>1
  <2> HIDE DEF k
  <2>3. /\ EdgeOf(h, k, r) \in [1 .. 3 -> 0 .. (3 * r - 1)]
        /\ \A i \in 1 .. 3 : EdgeOf(h, k, r)[i] \in ((i - 1) * r) .. (i * r - 1)
    BY <2>2, EdgeInThirds
  <2> QED
    BY <2>2, <2>3, Zenon
<1>4. \A e, f \in 1 .. m : \A i, j \in 1 .. 3 : E[e][i] = E[f][j] => i = j
  <2> TAKE e \in 1 .. m, f \in 1 .. m
  <2> TAKE i \in 1 .. 3, j \in 1 .. 3
  <2>1. /\ E[e][i] \in ((i - 1) * r) .. (i * r - 1)
        /\ E[f][j] \in ((j - 1) * r) .. (j * r - 1)
    BY <1>3
  <2> QED
    BY <2>1, ThirdsApart
<1>5. E \in [1 .. m -> [1 .. 3 -> 0 .. (3 * r - 1)]]
  BY <1>2, <1>3
<1> QED
  BY <1>4, <1>5 DEF Parted, E

-----------------------------------------------------------------------------
(* The queue of the edges.                                                 *)

\* At one of its vertices, e meets no other edge of S.
Alone(E, S, e) == \E i \in 1 .. 3 : \A f \in S : E[f][i] = E[e][i] => f = e

\* An edge alone in a set of edges is alone in a smaller one.
LEMMA AloneInFewer ==
    ASSUME NEW E, NEW S, NEW T \in SUBSET S, NEW e, Alone(E, S, e)
    PROVE  Alone(E, T, e)
  BY DEF Alone

\* q1 continues the queue q, by edges that are alone among those live.
Continues(E, m, live, q, q1) ==
    /\ q1 \in Seq(1 .. m)
    /\ Distinct(q1)
    /\ Len(q) <= Len(q1)
    /\ \A t \in 1 .. Len(q) : q1[t] = q[t]
    /\ \A t \in (Len(q) + 1) .. Len(q1) : Alone(E, live, q1[t])

\* The first edge of a vertex of degree one is its only edge.
LEMMA SingleEdge ==
    ASSUME NEW E, NEW m \in Nat, NEW live \in SUBSET (1 .. m), NEW v,
           vertex_degree(E, live, v) = 1
    PROVE  \E x \in live : Touching(E, live, v) = {x} /\ first_edge(E, live, v) = x /\ Alone(E, live, x)
<1>1. Touching(E, live, v) \in SUBSET (1 .. m)
  BY DEF Touching
<1>2. IsFiniteSet(Touching(E, live, v))
  <2>1. IsFiniteSet(1 .. m)
    BY FS_Interval
  <2> QED
    BY <1>1, <2>1, FS_Subset
<1>3. \E x : Touching(E, live, v) = {x}
  BY <1>2, FS_Singleton DEF vertex_degree
<1>4. PICK x : Touching(E, live, v) = {x}
  BY <1>3
<1>5. x \in Touching(E, live, v) /\ x \in Nat
  BY <1>1, <1>4
<1>6. first_edge(E, live, v) = x
  BY <1>4, <1>5 DEF first_edge
<1>7. PICK i \in 1 .. 3 : x \in live /\ E[x][i] = v
  BY <1>5 DEF Touching
<1>8. \A f \in live : E[f][i] = E[x][i] => f = x
  BY <1>4, <1>7 DEF Touching
<1> QED
  BY <1>4, <1>6, <1>7, <1>8 DEF Alone

\* A look at one vertex of a removed edge continues the queue.
LEMMA QueueContinues ==
    ASSUME NEW E, NEW m \in Nat, NEW live \in SUBSET (1 .. m), NEW v,
           NEW q \in Seq(1 .. m), Distinct(q)
    PROVE  Continues(E, m, live, q, Queue(E, live, q, v))
<1>1. CASE Queue(E, live, q, v) = q
  BY <1>1 DEF Continues
<1>2. CASE Queue(E, live, q, v) # q
  <2> DEFINE e == first_edge(E, live, v)
             q1 == Append(q, e)
  <2>1. vertex_degree(E, live, v) = 1 /\ ~Contains(q, e) /\ Queue(E, live, q, v) = q1
    BY <1>2 DEF Queue
  <2>2. e \in live /\ Alone(E, live, e)
    <3>1. PICK x \in live : first_edge(E, live, v) = x /\ Alone(E, live, x)
      BY <2>1, SingleEdge
    <3> QED
      BY <3>1
  <2> HIDE DEF e
  <2>3. e \in 1 .. m
    BY <2>2
  <2>4. /\ q1 \in Seq(1 .. m) /\ Len(q1) = Len(q) + 1 /\ Len(q) \in Nat
        /\ q1[Len(q) + 1] = e /\ \A t \in 1 .. Len(q) : q1[t] = q[t]
    BY <2>3
  <2>5. \A t \in 1 .. Len(q) : q[t] # e
    BY <2>1 DEF Contains
  <2> HIDE DEF q1
  <2>6. Distinct(q1)
    <3> SUFFICES ASSUME NEW i \in 1 .. Len(q1), NEW j \in 1 .. Len(q1), q1[i] = q1[j]
                 PROVE  i = j
      BY DEF Distinct
    <3>1. CASE i \in 1 .. Len(q) /\ j \in 1 .. Len(q)
      BY <2>4, <3>1 DEF Distinct
    <3>2. CASE i = Len(q) + 1 \/ j = Len(q) + 1
      BY <2>4, <2>5, <3>2
    <3> QED
      BY <2>4, <3>1, <3>2
  <2>7. \A t \in (Len(q) + 1) .. Len(q1) : Alone(E, live, q1[t])
    <3> TAKE t \in (Len(q) + 1) .. Len(q1)
    <3>1. t = Len(q) + 1
      BY <2>4
    <3> QED
      BY <2>2, <2>4, <3>1
  <2>8. Len(q) <= Len(q1)
    BY <2>4
  <2> QED
    BY <2>1, <2>4, <2>6, <2>7, <2>8 DEF Continues
<1> QED
  BY <1>1, <1>2

\* Two continuations of a queue are one.
LEMMA ContinuesTwice ==
    ASSUME NEW E, NEW m \in Nat, NEW live, NEW q \in Seq(1 .. m), NEW q1, NEW q2,
           Continues(E, m, live, q, q1), Continues(E, m, live, q1, q2)
    PROVE  Continues(E, m, live, q, q2)
<1>1. /\ Len(q) \in Nat /\ Len(q1) \in Nat /\ Len(q2) \in Nat
      /\ Len(q) <= Len(q1) /\ Len(q1) <= Len(q2)
  BY DEF Continues
<1>2. \A t \in 1 .. Len(q) : q2[t] = q[t]
  <2> TAKE t \in 1 .. Len(q)
  <2>1. t \in 1 .. Len(q1)
    BY <1>1
  <2> QED
    BY <2>1 DEF Continues
<1>3. \A t \in (Len(q) + 1) .. Len(q2) : Alone(E, live, q2[t])
  <2> TAKE t \in (Len(q) + 1) .. Len(q2)
  <2>1. CASE t \in (Len(q1) + 1) .. Len(q2)
    BY <2>1 DEF Continues
  <2>2. CASE t \notin (Len(q1) + 1) .. Len(q2)
    <3>1. t \in 1 .. Len(q1) /\ t \in (Len(q) + 1) .. Len(q1)
      BY <1>1, <2>2
    <3>2. q2[t] = q1[t] /\ Alone(E, live, q1[t])
      BY <3>1 DEF Continues
    <3> QED
      BY <3>2
  <2> QED
    BY <2>1, <2>2
<1>4. q2 \in Seq(1 .. m) /\ Distinct(q2)
  BY DEF Continues
<1>5. Len(q) <= Len(q2)
  BY <1>1
<1> QED
  BY <1>2, <1>3, <1>4, <1>5 DEF Continues

\* The looks at the three vertices of an edge continue it.
LEMMA QueueAllContinues ==
    ASSUME NEW E, NEW m \in Nat, NEW live \in SUBSET (1 .. m), NEW e,
           NEW q \in Seq(1 .. m), Distinct(q)
    PROVE  Continues(E, m, live, q, QueueAll(E, live, q, e))
<1> DEFINE q1 == Queue(E, live, q, E[e][1])
           q2 == Queue(E, live, q1, E[e][2])
           q3 == Queue(E, live, q2, E[e][3])
<1>1. QueueAll(E, live, q, e) = q3
  BY DEF QueueAll
<1>2. Continues(E, m, live, q, q1)
  BY QueueContinues
<1> HIDE DEF q1
<1>3. Continues(E, m, live, q1, q2)
  BY <1>2, QueueContinues DEF Continues
<1> HIDE DEF q2
<1>4. Continues(E, m, live, q2, q3)
  BY <1>3, QueueContinues DEF Continues
<1> HIDE DEF q3
<1>5. q1 \in Seq(1 .. m)
  BY <1>2 DEF Continues
<1>6. Continues(E, m, live, q1, q3)
  BY <1>3, <1>4, <1>5, ContinuesTwice
<1> QED
  BY <1>1, <1>2, <1>6, ContinuesTwice

\* The first t edges of a queue.
FirstOf(q, t) == {q[u] : u \in 1 .. t}

\* The invariant of the loop over the queue: an edge that was removed was alone
\* among those left, an edge that waits is alone among those live.
QueueInv(E, m, s) ==
    /\ s \in [queue : Seq(1 .. m), tail : Nat, live : SUBSET (1 .. m)]
    /\ Distinct(s.queue)
    /\ s.tail <= Len(s.queue)
    /\ s.live = (1 .. m) \ FirstOf(s.queue, s.tail)
    /\ \A t \in 1 .. s.tail : Alone(E, (1 .. m) \ FirstOf(s.queue, t), s.queue[t])
    /\ \A t \in (s.tail + 1) .. Len(s.queue) : Alone(E, s.live, s.queue[t])

\* One pass of the loop that removes edges keeps the invariant of the queue.
LEMMA RemoveTailKeeps ==
    ASSUME NEW E, NEW m \in Nat, NEW s, QueueInv(E, m, s)
    PROVE  /\ QueueInv(E, m, RemoveTail(E, s))
           /\ IF s.tail = Len(s.queue) THEN RemoveTail(E, s) = s
              ELSE RemoveTail(E, s).tail = s.tail + 1
<1>1. CASE s.tail = Len(s.queue)
  BY <1>1 DEF RemoveTail
<1>2. CASE s.tail # Len(s.queue)
  <2> DEFINE t0 == s.tail + 1
             e == s.queue[t0]
             live == s.live \ {e}
             q == s.queue
             q1 == QueueAll(E, live, q, e)
             s1 == [queue |-> q1, tail |-> t0, live |-> live]
  <2>1. RemoveTail(E, s) = s1
    BY <1>2 DEF RemoveTail
  <2>2. /\ q \in Seq(1 .. m) /\ Distinct(q) /\ Len(q) \in Nat
        /\ s.tail \in Nat /\ t0 \in 1 .. Len(q) /\ e \in 1 .. m
    BY <1>2 DEF QueueInv
  <2>3. live \in SUBSET (1 .. m) /\ s.live \in SUBSET (1 .. m) /\ live \in SUBSET s.live
    BY DEF QueueInv
  <2>4. /\ s.live = (1 .. m) \ FirstOf(q, s.tail)
        /\ \A t \in 1 .. s.tail : Alone(E, (1 .. m) \ FirstOf(q, t), q[t])
        /\ \A t \in (s.tail + 1) .. Len(q) : Alone(E, s.live, q[t])
    BY DEF QueueInv
  <2>5. FirstOf(q, t0) = FirstOf(q, s.tail) \cup {e}
    <3>1. \A u : u \in 1 .. t0 <=> u \in 1 .. s.tail \/ u = t0
      BY <2>2
    <3> HIDE DEF t0
    <3> QED
      BY <3>1 DEF FirstOf
  <2> DEFINE tl == s.tail
             lv == s.live
  <2>6. e = q[t0] /\ live = lv \ {e} /\ t0 = tl + 1 /\ tl = s.tail /\ lv = s.live
    OBVIOUS
  <2> HIDE DEF e, live, t0, q, tl, lv
  <2>7. Continues(E, m, live, q, q1)
    BY <2>2, <2>3, QueueAllContinues
  <2> HIDE DEF q1
  <2>8. /\ q1 \in Seq(1 .. m) /\ Distinct(q1) /\ Len(q1) \in Nat /\ Len(q) <= Len(q1)
        /\ \A t \in 1 .. Len(q) : q1[t] = q[t]
        /\ \A t \in (Len(q) + 1) .. Len(q1) : Alone(E, live, q1[t])
    BY <2>7 DEF Continues
  <2>9. \A t \in 0 .. Len(q) : FirstOf(q1, t) = FirstOf(q, t)
    <3> TAKE t \in 0 .. Len(q)
    <3>1. \A u \in 1 .. t : q1[u] = q[u]
      BY <2>2, <2>8
    <3> QED
      BY <3>1 DEF FirstOf
  <2>10. live = (1 .. m) \ FirstOf(q1, t0)
    <3>1. FirstOf(q1, t0) = FirstOf(q, t0)
      BY <2>2, <2>9
    <3> QED
      BY <2>4, <2>5, <2>6, <3>1
  <2>11. \A t \in 1 .. t0 : Alone(E, (1 .. m) \ FirstOf(q1, t), q1[t])
    <3> TAKE t \in 1 .. t0
    <3>0. t \in 1 .. Len(q) /\ t \in 0 .. Len(q)
      BY <2>2
    <3>1. q1[t] = q[t] /\ FirstOf(q1, t) = FirstOf(q, t)
      BY <2>8, <2>9, <3>0
    <3>2. CASE t \in 1 .. tl
      BY <2>4, <2>6, <3>1, <3>2
    <3>3. CASE t \notin 1 .. tl
      <4>1. t = t0
        BY <2>2, <2>6, <3>3
      <4>2. Alone(E, lv, e)
        <5>1. t0 \in (s.tail + 1) .. Len(q)
          BY <2>2, <2>6
        <5>2. Alone(E, s.live, q[t0])
          BY <2>4, <5>1
        <5> QED
          BY <2>6, <5>2
      <4>3. Alone(E, live, e)
        BY <2>3, <2>6, <4>2, AloneInFewer
      <4> QED
        BY <2>6, <2>10, <3>1, <4>1, <4>3
    <3> QED
      BY <3>2, <3>3
  <2>12. \A t \in (t0 + 1) .. Len(q1) : Alone(E, live, q1[t])
    <3> TAKE t \in (t0 + 1) .. Len(q1)
    <3>1. CASE t <= Len(q)
      <4>1. t \in 1 .. Len(q) /\ t \in (tl + 1) .. Len(q)
        BY <2>2, <2>6, <3>1
      <4>2. Alone(E, lv, q[t])
        BY <2>4, <2>6, <4>1
      <4>3. Alone(E, live, q[t])
        BY <2>3, <2>6, <4>2, AloneInFewer
      <4> QED
        BY <2>8, <4>1, <4>3
    <3>2. CASE ~(t <= Len(q))
      <4>1. t \in (Len(q) + 1) .. Len(q1)
        BY <2>2, <2>8, <3>2
      <4> QED
        BY <2>8, <4>1
    <3> QED
      BY <3>1, <3>2
  <2>13. t0 \in Nat /\ t0 <= Len(q1)
    BY <2>2, <2>8
  <2>14. QueueInv(E, m, s1)
    <3>1. s1 \in [queue : Seq(1 .. m), tail : Nat, live : SUBSET (1 .. m)]
      BY <2>3, <2>8, <2>13
    <3>2. s1.queue = q1 /\ s1.tail = t0 /\ s1.live = live
      OBVIOUS
    <3> HIDE DEF s1
    <3> QED
      BY <2>8, <2>10, <2>11, <2>12, <2>13, <3>1, <3>2 DEF QueueInv
  <2>15. s1.tail = tl + 1
    BY <2>6
  <2> QED
    BY <1>2, <2>1, <2>6, <2>14, <2>15
<1> QED
  BY <1>1, <1>2

\* The order in which a graph without a cycle comes apart: each edge has a
\* vertex that it shares with none of those after it.
ComesApart(E, m, q) ==
    /\ q \in [1 .. m -> 1 .. m]
    /\ \A t, u \in 1 .. m : q[t] = q[u] => t = u
    /\ \A e \in 1 .. m : \E t \in 1 .. m : q[t] = e
    /\ \A t \in 1 .. m : \E i \in 1 .. 3 : \A u \in (t + 1) .. m : E[q[u]][i] # E[q[t]][i]

\* What is in the queue when the loop begins.
LEMMA ReadyFacts ==
    ASSUME NEW m \in Nat, NEW E, DOMAIN E = 1 .. m, E \in Seq([1 .. 3 -> Nat])
    PROVE  QueueInv(E, m, [queue |-> Ready(E), tail |-> 0, live |-> DOMAIN E])
<1> DEFINE alone(e) == \E i \in 1 .. 3 : vertex_degree(E, DOMAIN E, E[e][i]) = 1
           p == [e \in DOMAIN E |-> alone(e)]
           T == {e \in DOMAIN p : p[e]}
           q == Positions(p)
           s == [queue |-> q, tail |-> 0, live |-> 1 .. m]
<1>1. Ready(E) = q
  BY DEF Ready
<1>2. \A e \in 1 .. m : alone(e) \in BOOLEAN
  OBVIOUS
<1>3. \A e \in 1 .. m : alone(e) => Alone(E, 1 .. m, e)
  <2> TAKE e \in 1 .. m
  <2> SUFFICES ASSUME NEW i \in 1 .. 3, vertex_degree(E, 1 .. m, E[e][i]) = 1
               PROVE  Alone(E, 1 .. m, e)
    OBVIOUS
  <2>1. PICK x \in 1 .. m : Touching(E, 1 .. m, E[e][i]) = {x} /\ Alone(E, 1 .. m, x)
    BY SingleEdge
  <2>2. e \in Touching(E, 1 .. m, E[e][i])
    BY DEF Touching
  <2> QED
    BY <2>1, <2>2
<1> HIDE DEF alone
<1>4. p \in Seq(BOOLEAN) /\ DOMAIN p = 1 .. m
  BY <1>2
<1>5. T \in SUBSET (1 .. m) /\ \A e \in T : alone(e)
  BY <1>4
<1> HIDE DEF p
<1>6. /\ Cardinality(T) \in Nat /\ q \in [1 .. Cardinality(T) -> T] /\ Len(q) = Cardinality(T)
      /\ \A i, j \in 1 .. Cardinality(T) : q[i] = q[j] => i = j
  BY <1>4, PositionsFacts
<1> HIDE DEF T, q
<1>7. q \in Seq(1 .. m) /\ Distinct(q) /\ \A t \in 1 .. Len(q) : q[t] \in T
  <2> DEFINE c == Cardinality(T)
  <2>1. c \in Nat /\ Len(q) = c /\ q \in [1 .. c -> T] /\ \A i, j \in 1 .. c : q[i] = q[j] => i = j
    BY <1>6
  <2> HIDE DEF c
  <2>2. q \in [1 .. c -> 1 .. m]
    BY <1>5, <2>1
  <2>3. q \in Seq(1 .. m)
    BY <2>1, <2>2
  <2> QED
    BY <2>1, <2>3 DEF Distinct
<1>8. FirstOf(q, 0) = {}
  BY DEF FirstOf
<1>9. QueueInv(E, m, s)
  <2>1. s \in [queue : Seq(1 .. m), tail : Nat, live : SUBSET (1 .. m)]
    BY <1>7
  <2>2. s.queue = q /\ s.tail = 0 /\ s.live = 1 .. m
    OBVIOUS
  <2> HIDE DEF s
  <2>3. \A t \in 1 .. Len(q) : Alone(E, 1 .. m, q[t])
    BY <1>3, <1>5, <1>7
  <2> QED
    BY <1>7, <1>8, <2>1, <2>2, <2>3 DEF QueueInv
<1> QED
  BY <1>1, <1>9

\* When all the edges get into the queue, it is such an order.
LEMMA QueueComesApart ==
    ASSUME NEW m \in Nat, NEW E \in [1 .. m -> [1 .. 3 -> Nat]], Len(GenerateQueue(E)) = m
    PROVE  ComesApart(E, m, GenerateQueue(E))
<1> DEFINE b == [queue |-> Ready(E), tail |-> 0, live |-> DOMAIN E]
           S == {s \in [queue : Seq(1 .. m), tail : Nat, live : SUBSET (1 .. m)] : QueueInv(E, m, s)}
           step == [w \in (1 .. m) \X S |-> RemoveTail(E, w[2])]
           pass == CHOOSE g : g = [i \in 0 .. m |-> IF i = 0 THEN b ELSE RemoveTail(E, g[i - 1])]
<1>1. E \in Seq([1 .. 3 -> Nat]) /\ DOMAIN E = 1 .. m /\ Len(E) = m
  OBVIOUS
<1>2. QueueInv(E, m, b)
  BY <1>1, ReadyFacts
<1>3. b \in S
  <2> HIDE DEF b
  <2> QED
    BY <1>2 DEF QueueInv
<1>4. b.tail = 0
  OBVIOUS
<1>5. GenerateQueue(E) = pass[m].queue
  BY <1>1 DEF GenerateQueue
<1> HIDE DEF b
<1>6. \A s \in S : RemoveTail(E, s) \in S
  <2> TAKE s \in S
  <2>1. QueueInv(E, m, RemoveTail(E, s))
    BY RemoveTailKeeps
  <2> QED
    BY <2>1 DEF QueueInv
<1>7. step \in [(1 .. m) \X S -> S]
  <2> HIDE DEF S
  <2> QED
    BY <1>6
<1>8. \A i \in 1 .. m : \A s \in S : step[<<i, s>>] = RemoveTail(E, s)
  <2> HIDE DEF S
  <2> QED
    OBVIOUS
<1> HIDE DEF S, step
<1>9. PICK f \in [0 .. m -> S] : Rounds(f, m, b, step)
  BY <1>3, <1>7, RoundsExist
<1>10. f = [i \in 0 .. m |-> IF i = 0 THEN b ELSE RemoveTail(E, f[i - 1])]
  <2>1. f[0] = b /\ \A i \in 1 .. m : f[i] = step[<<i, f[i - 1]>>]
    BY <1>9 DEF Rounds
  <2>2. \A i \in 1 .. m : f[i] = RemoveTail(E, f[i - 1])
    <3> TAKE i \in 1 .. m
    <3>1. f[i - 1] \in S
      OBVIOUS
    <3> QED
      BY <1>8, <2>1, <3>1
  <2> QED
    BY <2>1, <2>2
<1>11. pass = [i \in 0 .. m |-> IF i = 0 THEN b ELSE RemoveTail(E, pass[i - 1])]
  BY <1>10
<1> HIDE DEF pass
<1>12. DOMAIN pass = 0 .. m /\ pass[0] = b /\ \A i \in 1 .. m : pass[i] = RemoveTail(E, pass[i - 1])
  BY <1>11
<1> DEFINE Good(i) == /\ QueueInv(E, m, pass[i])
                      /\ pass[i].tail = i \/ pass[i].tail = Len(pass[i].queue)
           P == {i \in 0 .. m : Good(i)}
<1>13. 0 \in P
  BY <1>2, <1>4, <1>12
<1>14. ASSUME NEW i \in 1 .. m, i - 1 \in P PROVE i \in P
  <2> DEFINE s == pass[i - 1]
             s1 == pass[i]
  <2>1. QueueInv(E, m, s) /\ (s.tail = i - 1 \/ s.tail = Len(s.queue)) /\ s1 = RemoveTail(E, s)
    BY <1>12, <1>14
  <2> HIDE DEF s, s1
  <2>2. /\ QueueInv(E, m, s1)
        /\ IF s.tail = Len(s.queue) THEN s1 = s ELSE s1.tail = s.tail + 1
    BY <2>1, RemoveTailKeeps
  <2>3. s1.tail = i \/ s1.tail = Len(s1.queue)
    BY <2>1, <2>2
  <2> QED
    BY <2>2, <2>3 DEF s1
<1>15. 0 .. m \subseteq P
  <2> HIDE DEF P
  <2> QED
    BY <1>13, <1>14, Induction
<1> DEFINE s == pass[m]
           q == s.queue
<1>16. QueueInv(E, m, s) /\ (s.tail = m \/ s.tail = Len(s.queue)) /\ Len(s.queue) = m
  <2>1. m \in P
    BY <1>15
  <2>2. Good(m)
    BY <2>1
  <2> QED
    BY <1>5, <2>2
<1> HIDE DEF s
<1>17. /\ q \in Seq(1 .. m) /\ Len(q) = m /\ Distinct(q) /\ s.tail = m
       /\ \A t \in 1 .. m : Alone(E, (1 .. m) \ FirstOf(q, t), q[t])
  BY <1>16 DEF QueueInv
<1>18. q = GenerateQueue(E)
  BY <1>5 DEF s
<1> HIDE DEF q
<1>19. q \in [1 .. m -> 1 .. m]
  <2>1. q \in Seq(1 .. m) /\ Len(q) = m
    BY <1>17
  <2>2. q \in [1 .. Len(q) -> 1 .. m]
    BY <2>1, LenProperties
  <2> QED
    BY <2>1, <2>2
<1>20. \A t, u \in 1 .. m : q[t] = q[u] => t = u
  BY <1>17 DEF Distinct
<1>21. \A e \in 1 .. m : \E t \in 1 .. m : q[t] = e
  <2>1. q \in Injection(1 .. m, 1 .. m)
    BY <1>19, <1>20 DEF Injection, IsInjective
  <2>2. IsFiniteSet(1 .. m)
    BY FS_Interval
  <2>3. q \in Surjection(1 .. m, 1 .. m)
    BY <2>1, <2>2, FS_Injection
  <2> QED
    BY <2>3 DEF Surjection
<1>22. \A t \in 1 .. m : \E i \in 1 .. 3 : \A u \in (t + 1) .. m : E[q[u]][i] # E[q[t]][i]
  <2> TAKE t \in 1 .. m
  <2>1. PICK i \in 1 .. 3 : \A f1 \in (1 .. m) \ FirstOf(q, t) : E[f1][i] = E[q[t]][i] => f1 = q[t]
    BY <1>17 DEF Alone
  <2>2. \A u \in (t + 1) .. m : u \in 1 .. m /\ q[u] \in (1 .. m) \ FirstOf(q, t) /\ q[u] # q[t]
    BY <1>19, <1>20 DEF FirstOf
  <2>3. \A u \in (t + 1) .. m : E[q[u]][i] # E[q[t]][i]
    BY <2>1, <2>2
  <2> QED
    BY <2>3
<1> QED
  BY <1>18, <1>19, <1>20, <1>21, <1>22 DEF ComesApart

-----------------------------------------------------------------------------
(* The labels.                                                             *)

\* The number of labels, and the vertex that they lead an edge to.
Labels(n) == 4 * Ceiling(n, 4)
Chosen(E, g, e) == E[e][((g[E[e][1]] + g[E[e][2]] + g[E[e][3]]) % 3) + 1]

\* There is a label for every vertex.
LEMMA LabelsSuffice ==
    ASSUME NEW n \in Nat
    PROVE  Labels(n) \in Nat /\ n <= Labels(n)
  BY DEF Labels, Ceiling

\* The invariant of the loop that labels: of the edges done, each has a labelled
\* vertex of its own, and no other vertex has a label.
LabelInv(E, n, done, s) ==
    /\ s \in [g : [0 .. (Labels(n) - 1) -> 0 .. 3], marked : SUBSET Nat]
    /\ \A v : v \in s.marked <=> \E e \in done : \E i \in 1 .. 3 : E[e][i] = v
    /\ \A v \in 0 .. (Labels(n) - 1) : v \notin s.marked => s.g[v] = 3
    /\ \A e \in done : s.g[Chosen(E, s.g, e)] # 3
    /\ \A e, f \in done : Chosen(E, s.g, e) = Chosen(E, s.g, f) => e = f
    /\ \A v \in 0 .. (Labels(n) - 1) : s.g[v] # 3 => \E e \in done : Chosen(E, s.g, e) = v

\* Which label makes three sum up to a position.
LEMMA LabelSum ==
    ASSUME NEW p \in 1 .. 3, NEW sum \in 0 .. 6
    PROVE  /\ (5 + p - sum) % 3 \in 0 .. 2
           /\ ((sum + ((5 + p - sum) % 3)) % 3) + 1 = p
<1>1. p = 1 \/ p = 2 \/ p = 3
  OBVIOUS
<1>2. sum = 0 \/ sum = 1 \/ sum = 2 \/ sum = 3 \/ sum = 4 \/ sum = 5 \/ sum = 6
  OBVIOUS
<1> QED
  BY <1>1, <1>2

\* The vertex of an edge is one of its three.
LEMMA ChosenIsOne ==
    ASSUME NEW E, NEW e, NEW g,
           g[E[e][1]] \in 0 .. 3, g[E[e][2]] \in 0 .. 3, g[E[e][3]] \in 0 .. 3
    PROVE  \E i \in 1 .. 3 : Chosen(E, g, e) = E[e][i]
<1> DEFINE x == g[E[e][1]] + g[E[e][2]] + g[E[e][3]]
<1>1. x \in Nat
  OBVIOUS
<1>2. Chosen(E, g, e) = E[e][(x % 3) + 1]
  BY DEF Chosen
<1> HIDE DEF x
<1>3. (x % 3) + 1 \in 1 .. 3
  BY <1>1
<1> QED
  BY <1>2, <1>3

\* Labelling an edge makes it point to a vertex of its own, and leaves the others alone.
LEMMA AssignEdgeKeeps ==
    ASSUME NEW m \in Nat, NEW n \in Nat, NEW E, Parted(E, m, n),
           NEW done \in SUBSET (1 .. m), NEW s, LabelInv(E, n, done, s),
           NEW e \in 1 .. m, \E i \in 1 .. 3 : \A f \in done : E[f][i] # E[e][i]
    PROVE  LabelInv(E, n, done \cup {e}, AssignEdge(s, E[e]))
<1> DEFINE V == 0 .. (Labels(n) - 1)
           a == E[e]
           g == s.g
           marked == s.marked
           p == IF a[1] \notin marked THEN 1 ELSE IF a[2] \notin marked THEN 2 ELSE 3
           ap == a[p]
           sum == g[a[1]] + g[a[2]] + g[a[3]] - g[ap]
           x == (5 + p - sum) % 3
           g1 == [g EXCEPT ![ap] = x]
           marked1 == marked \cup {a[1], a[2], a[3]}
           s1 == [g |-> g1, marked |-> marked1]
<1>1. AssignEdge(s, E[e]) = s1
  BY DEF AssignEdge
<1>2. /\ g \in [V -> 0 .. 3] /\ marked \in SUBSET Nat
      /\ \A v : v \in marked <=> \E f \in done : \E i \in 1 .. 3 : E[f][i] = v
      /\ \A v \in V : v \notin marked => g[v] = 3
      /\ \A f \in done : g[Chosen(E, g, f)] # 3
      /\ \A f, f1 \in done : Chosen(E, g, f) = Chosen(E, g, f1) => f = f1
      /\ \A v \in V : g[v] # 3 => \E f \in done : Chosen(E, g, f) = v
  BY DEF LabelInv
<1>3. \A f \in 1 .. m : \A i \in 1 .. 3 : E[f][i] \in V /\ E[f][i] \in Nat
  <2>1. n \in Nat /\ Labels(n) \in Nat /\ n <= Labels(n)
    BY LabelsSuffice
  <2>2. \A f \in 1 .. m : \A i \in 1 .. 3 : E[f][i] \in 0 .. (n - 1)
    BY DEF Parted
  <2> QED
    BY <2>1, <2>2
<1>4. a[1] \in V /\ a[2] \in V /\ a[3] \in V /\ a[1] \in Nat /\ a[2] \in Nat /\ a[3] \in Nat
  BY <1>3
<1>5. a[1] # a[2] /\ a[1] # a[3] /\ a[2] # a[3]
  BY DEF Parted
<1>6. p \in 1 .. 3 /\ ap \notin marked
  <2>1. PICK i \in 1 .. 3 : \A f \in done : E[f][i] # a[i]
    OBVIOUS
  <2>2. a[i] \notin marked
    <3> SUFFICES ASSUME a[i] \in marked PROVE FALSE
      OBVIOUS
    <3>1. PICK f \in done, j \in 1 .. 3 : E[f][j] = a[i]
      BY <1>2
    <3>2. i = j
      BY <3>1 DEF Parted
    <3> QED
      BY <2>1, <3>1, <3>2
  <2>3. i = 1 \/ i = 2 \/ i = 3
    OBVIOUS
  <2> QED
    BY <2>2, <2>3
<1>7. p = 1 \/ p = 2 \/ p = 3
  BY <1>6
<1>8. ap = a[p] /\ ap \in V /\ g[ap] = 3
  <2>1. ap \in V
    BY <1>4, <1>7
  <2> QED
    BY <1>2, <1>6, <2>1
<1>9. sum \in 0 .. 6
  <2>1. g[a[1]] \in 0 .. 3 /\ g[a[2]] \in 0 .. 3 /\ g[a[3]] \in 0 .. 3
    BY <1>2, <1>4
  <2> DEFINE y1 == g[a[1]]
             y2 == g[a[2]]
             y3 == g[a[3]]
             y == g[ap]
  <2>2. y = y1 \/ y = y2 \/ y = y3
    BY <1>7
  <2>3. sum = y1 + y2 + y3 - y /\ y1 \in 0 .. 3 /\ y2 \in 0 .. 3 /\ y3 \in 0 .. 3
    BY <2>1
  <2> HIDE DEF y, y1, y2, y3, sum
  <2> QED
    BY <2>2, <2>3
<1> DEFINE sm == sum
<1>10. x = (5 + p - sm) % 3 /\ sm \in 0 .. 6
  BY <1>9
<1> HIDE DEF sm
<1>11. x \in 0 .. 2 /\ ((sm + x) % 3) + 1 = p
  <2> HIDE DEF x, p
  <2> QED
    BY <1>6, <1>10, LabelSum
<1>12. sm = g[a[1]] + g[a[2]] + g[a[3]] - g[ap]
  BY DEF sm
<1> HIDE DEF x, sum, marked
<1>13. /\ g1 \in [V -> 0 .. 3] /\ g1[ap] = x
       /\ \A v \in V : v # ap => g1[v] = g[v]
  <2>1. g \in [V -> 0 .. 3] /\ ap \in V /\ x \in 0 .. 3
    BY <1>2, <1>8, <1>11
  <2> HIDE DEF g, ap, V
  <2> QED
    BY <2>1
<1> HIDE DEF g1, g
<1>14. g1[a[1]] + g1[a[2]] + g1[a[3]] = sm + x
  <2>1. /\ g[a[1]] \in 0 .. 3 /\ g[a[2]] \in 0 .. 3 /\ g[a[3]] \in 0 .. 3
        /\ g1[a[1]] \in 0 .. 3 /\ g1[a[2]] \in 0 .. 3 /\ g1[a[3]] \in 0 .. 3
    BY <1>2, <1>4, <1>13
  <2>2. /\ ap = a[1] => g1[a[1]] = x /\ g1[a[2]] = g[a[2]] /\ g1[a[3]] = g[a[3]]
        /\ ap = a[2] => g1[a[1]] = g[a[1]] /\ g1[a[2]] = x /\ g1[a[3]] = g[a[3]]
        /\ ap = a[3] => g1[a[1]] = g[a[1]] /\ g1[a[2]] = g[a[2]] /\ g1[a[3]] = x
    <3> HIDE DEF a, ap, V
    <3> QED
      BY <1>4, <1>5, <1>13
  <2>3. ap = a[1] \/ ap = a[2] \/ ap = a[3]
    BY <1>7
  <2> DEFINE y1 == g[a[1]]
             y2 == g[a[2]]
             y3 == g[a[3]]
             z1 == g1[a[1]]
             z2 == g1[a[2]]
             z3 == g1[a[3]]
             y == g[ap]
  <2>4. /\ y1 \in 0 .. 3 /\ y2 \in 0 .. 3 /\ y3 \in 0 .. 3
        /\ sm = y1 + y2 + y3 - y /\ x \in 0 .. 2
        /\ \/ z1 = x /\ z2 = y2 /\ z3 = y3 /\ y = y1
           \/ z1 = y1 /\ z2 = x /\ z3 = y3 /\ y = y2
           \/ z1 = y1 /\ z2 = y2 /\ z3 = x /\ y = y3
    BY <1>11, <1>12, <2>1, <2>2, <2>3
  <2>5. g1[a[1]] + g1[a[2]] + g1[a[3]] = z1 + z2 + z3
    OBVIOUS
  <2> HIDE DEF y, y1, y2, y3, z1, z2, z3
  <2>6. z1 + z2 + z3 = sm + x
    BY <2>4
  <2> QED
    BY <2>5, <2>6
<1>15. Chosen(E, g1, e) = ap
  BY <1>8, <1>11, <1>14 DEF Chosen
<1> HIDE DEF p, ap, a
<1>16. ASSUME NEW f \in done
       PROVE  /\ Chosen(E, g1, f) = Chosen(E, g, f)
              /\ Chosen(E, g, f) \in V /\ Chosen(E, g, f) # ap
              /\ g1[Chosen(E, g1, f)] # 3
  <2>1. \A i \in 1 .. 3 : E[f][i] \in marked /\ E[f][i] \in V
    BY <1>2, <1>3
  <2>2. \A i \in 1 .. 3 : g1[E[f][i]] = g[E[f][i]]
    BY <1>6, <1>13, <2>1
  <2>3. Chosen(E, g1, f) = Chosen(E, g, f)
    BY <2>2 DEF Chosen
  <2>4. PICK i \in 1 .. 3 : Chosen(E, g, f) = E[f][i]
    <3>1. g[E[f][1]] \in 0 .. 3 /\ g[E[f][2]] \in 0 .. 3 /\ g[E[f][3]] \in 0 .. 3
      BY <1>2, <2>1
    <3> QED
      BY <3>1, ChosenIsOne
  <2>5. g[Chosen(E, g, f)] # 3
    BY <1>2
  <2> QED
    BY <1>6, <2>1, <2>2, <2>3, <2>4, <2>5
<1> DEFINE done1 == done \cup {e}
<1>17. \A v : v \in marked1 <=> \E f \in done1 : \E i \in 1 .. 3 : E[f][i] = v
  <2> TAKE v
  <2>1. (\E i \in 1 .. 3 : E[e][i] = v) <=> v \in {a[1], a[2], a[3]}
    BY DEF a
  <2>2. v \in marked <=> \E f \in done : \E i \in 1 .. 3 : E[f][i] = v
    BY <1>2
  <2> QED
    BY <2>1, <2>2
<1>18. \A v \in V : v \notin marked1 => g1[v] = 3
  <2> SUFFICES ASSUME NEW v \in V, v \notin marked1 PROVE g1[v] = 3
    OBVIOUS
  <2>1. v # ap
    BY <1>7, <1>8
  <2> QED
    BY <1>2, <1>13, <2>1
<1>19. \A f \in done1 : g1[Chosen(E, g1, f)] # 3
  <2>1. g1[Chosen(E, g1, e)] # 3
    BY <1>11, <1>13, <1>15
  <2> QED
    BY <1>16, <2>1
<1>20. \A f, f1 \in done1 : Chosen(E, g1, f) = Chosen(E, g1, f1) => f = f1
  <2> SUFFICES ASSUME NEW f \in done1, NEW f1 \in done1, Chosen(E, g1, f) = Chosen(E, g1, f1)
               PROVE  f = f1
    OBVIOUS
  <2>1. CASE f \in done /\ f1 \in done
    BY <1>2, <1>16, <2>1
  <2>2. CASE f = e \/ f1 = e
    BY <1>15, <1>16, <2>2
  <2> QED
    BY <2>1, <2>2
<1>21. \A v \in V : g1[v] # 3 => \E f \in done1 : Chosen(E, g1, f) = v
  <2> SUFFICES ASSUME NEW v \in V, g1[v] # 3 PROVE \E f \in done1 : Chosen(E, g1, f) = v
    OBVIOUS
  <2>1. CASE v = ap
    BY <1>15, <2>1
  <2>2. CASE v # ap
    <3>1. g[v] # 3
      BY <1>13, <2>2
    <3>2. PICK f \in done : Chosen(E, g, f) = v
      BY <1>2, <3>1
    <3> QED
      BY <1>16, <3>2
  <2> QED
    BY <2>1, <2>2
<1>22. marked1 \in SUBSET Nat
  BY <1>2, <1>4
<1>23. /\ s1 \in [g : [V -> 0 .. 3], marked : SUBSET Nat]
       /\ s1.g = g1 /\ s1.marked = marked1
  <2> HIDE DEF marked1, V
  <2> QED
    BY <1>13, <1>22
<1> HIDE DEF s1, marked1, done1
<1>24. LabelInv(E, n, done1, s1)
  BY <1>17, <1>18, <1>19, <1>20, <1>21, <1>23 DEF LabelInv
<1> QED
  BY <1>1, <1>24 DEF done1

\* The types of the labels and marks.
LabelState(n) == [g : [0 .. (Labels(n) - 1) -> 0 .. 3], marked : SUBSET Nat]

\* Labelling an edge keeps them.
LEMMA AssignEdgeType ==
    ASSUME NEW n \in Nat, NEW a \in [1 .. 3 -> 0 .. (n - 1)], NEW s \in LabelState(n)
    PROVE  AssignEdge(s, a) \in LabelState(n)
<1> DEFINE V == 0 .. (Labels(n) - 1)
           g == s.g
           p == IF a[1] \notin s.marked THEN 1 ELSE IF a[2] \notin s.marked THEN 2 ELSE 3
           ap == a[p]
           sum == g[a[1]] + g[a[2]] + g[a[3]] - g[ap]
           x == (5 + p - sum) % 3
           g1 == [g EXCEPT ![ap] = x]
           marked1 == s.marked \cup {a[1], a[2], a[3]}
<1>1. AssignEdge(s, a) = [g |-> g1, marked |-> marked1]
  BY DEF AssignEdge
<1>2. p \in 1 .. 3 /\ g \in [V -> 0 .. 3]
  BY DEF LabelState
<1> HIDE DEF p, g
<1>3. ap \in V /\ a[1] \in V /\ a[2] \in V /\ a[3] \in V /\ marked1 \in SUBSET Nat
  <2>1. n \in Nat /\ Labels(n) \in Nat /\ n <= Labels(n)
    BY LabelsSuffice
  <2>2. \A i \in 1 .. 3 : a[i] \in V /\ a[i] \in Nat
    BY <2>1
  <2> QED
    BY <1>2, <2>2 DEF LabelState
<1> HIDE DEF ap, V
<1>4. sum \in Int
  <2>1. g[a[1]] \in 0 .. 3 /\ g[a[2]] \in 0 .. 3 /\ g[a[3]] \in 0 .. 3 /\ g[ap] \in 0 .. 3
    BY <1>2, <1>3
  <2> QED
    BY <2>1
<1> HIDE DEF sum
<1>5. x \in 0 .. 3
  BY <1>2, <1>4
<1> HIDE DEF x
<1>6. g1 \in [V -> 0 .. 3]
  BY <1>2, <1>3, <1>5
<1> HIDE DEF g1, marked1
<1>7. [g |-> g1, marked |-> marked1] \in [g : [V -> 0 .. 3], marked : SUBSET Nat]
  BY <1>3, <1>6
<1> QED
  BY <1>1, <1>7 DEF LabelState, V

\* What the labels are for: every edge has a labelled vertex of its own, and
\* there is no other labelled vertex.
Labelled(E, m, n, g) ==
    /\ g \in [0 .. (Labels(n) - 1) -> 0 .. 3]
    /\ \A e \in 1 .. m : g[Chosen(E, g, e)] # 3
    /\ \A e, f \in 1 .. m : Chosen(E, g, e) = Chosen(E, g, f) => e = f
    /\ \A v \in 0 .. (Labels(n) - 1) : g[v] # 3 => \E e \in 1 .. m : Chosen(E, g, e) = v

\* When the last edge has been labelled, all are.
LEMMA AssigningLabels ==
    ASSUME NEW m \in Nat, NEW n \in Nat, NEW E, Parted(E, m, n),
           NEW q, ComesApart(E, m, q), Len(q) = m
    PROVE  Labelled(E, m, n, Assigning(E, q, n))
<1> DEFINE edge(i) == E[q[m + 1 - i]]
           b == Unlabelled(n)
           S == LabelState(n)
           step == [w \in (1 .. m) \X S |-> AssignEdge(w[2], edge(w[1]))]
           pass == CHOOSE g : g = [i \in 0 .. m |-> IF i = 0 THEN b ELSE AssignEdge(g[i - 1], edge(i))]
           done(i) == {q[u] : u \in (m + 1 - i) .. m}
<1>1. Assigning(E, q, n) = pass[m].g
  BY DEF Assigning
<1>2. \A i \in 1 .. m : q[m + 1 - i] \in 1 .. m /\ edge(i) \in [1 .. 3 -> 0 .. (n - 1)]
  <2> TAKE i \in 1 .. m
  <2>1. m + 1 - i \in 1 .. m
    OBVIOUS
  <2>2. q[m + 1 - i] \in 1 .. m
    BY <2>1 DEF ComesApart
  <2> QED
    BY <2>2 DEF Parted
<1>3. b \in S /\ LabelInv(E, n, {}, b)
  <2>1. b.g = [v \in 0 .. (Labels(n) - 1) |-> 3] /\ b.marked = {}
    BY DEF Unlabelled, Labels, kUnassigned
  <2>2. b \in [g : [0 .. (Labels(n) - 1) -> 0 .. 3], marked : SUBSET Nat]
    BY DEF Unlabelled, Labels, kUnassigned
  <2> HIDE DEF b
  <2> QED
    BY <2>1, <2>2 DEF LabelInv, LabelState
<1> HIDE DEF b, S, edge
<1>4. step \in [(1 .. m) \X S -> S]
  <2>1. \A i \in 1 .. m : \A s \in S : AssignEdge(s, edge(i)) \in S
    BY <1>2, AssignEdgeType DEF S
  <2> QED
    BY <2>1
<1>5. \A i \in 1 .. m : \A s \in S : step[<<i, s>>] = AssignEdge(s, edge(i))
  OBVIOUS
<1> HIDE DEF step
<1>6. PICK f \in [0 .. m -> S] : Rounds(f, m, b, step)
  BY <1>3, <1>4, RoundsExist
<1>7. f = [i \in 0 .. m |-> IF i = 0 THEN b ELSE AssignEdge(f[i - 1], edge(i))]
  <2>1. f[0] = b /\ \A i \in 1 .. m : f[i] = step[<<i, f[i - 1]>>]
    BY <1>6 DEF Rounds
  <2>2. \A i \in 1 .. m : f[i] = AssignEdge(f[i - 1], edge(i))
    <3> TAKE i \in 1 .. m
    <3>1. f[i - 1] \in S
      OBVIOUS
    <3> QED
      BY <1>5, <2>1, <3>1
  <2> QED
    BY <2>1, <2>2
<1>8. pass = [i \in 0 .. m |-> IF i = 0 THEN b ELSE AssignEdge(pass[i - 1], edge(i))]
  BY <1>7
<1> HIDE DEF pass
<1>9. pass[0] = b /\ \A i \in 1 .. m : pass[i] = AssignEdge(pass[i - 1], edge(i))
  BY <1>8
<1> DEFINE P == {i \in 0 .. m : LabelInv(E, n, done(i), pass[i])}
<1>10. 0 \in P
  <2>1. done(0) = {}
    OBVIOUS
  <2> HIDE DEF done
  <2>2. LabelInv(E, n, done(0), pass[0])
    BY <1>3, <1>9, <2>1, Zenon
  <2> QED
    BY <2>2
<1>11. ASSUME NEW i \in 1 .. m, i - 1 \in P PROVE i \in P
  <2> DEFINE t == m + 1 - i
             e == q[t]
             D == done(i - 1)
             s == pass[i - 1]
  <2>1. t \in 1 .. m /\ e \in 1 .. m
    BY <1>2
  <2>2. LabelInv(E, n, D, s)
    BY <1>11
  <2>3. pass[i] = AssignEdge(s, E[e])
    <3>1. pass[i] = AssignEdge(s, edge(i))
      BY <1>9
    <3> QED
      BY <3>1 DEF edge
  <2>4. D = {q[u] : u \in (t + 1) .. m} /\ done(i) = D \cup {e}
    <3>1. \A u : u \in (m + 1 - i) .. m <=> u \in (m + 1 - (i - 1)) .. m \/ u = t
      OBVIOUS
    <3>2. m + 1 - (i - 1) = t + 1
      OBVIOUS
    <3> HIDE DEF t
    <3> QED
      BY <3>1, <3>2
  <2> HIDE DEF s, D, done, t
  <2>5. D \in SUBSET (1 .. m)
    <3>1. \A u \in (t + 1) .. m : q[u] \in 1 .. m
      BY <2>1 DEF ComesApart
    <3> QED
      BY <2>4, <3>1
  <2>6. \E j \in 1 .. 3 : \A f1 \in D : E[f1][j] # E[e][j]
    <3>1. PICK j \in 1 .. 3 : \A u \in (t + 1) .. m : E[q[u]][j] # E[q[t]][j]
      BY <2>1 DEF ComesApart
    <3> QED
      BY <2>4, <3>1
  <2> HIDE DEF e
  <2>7. LabelInv(E, n, D \cup {e}, AssignEdge(s, E[e]))
    BY <2>1, <2>2, <2>5, <2>6, AssignEdgeKeeps
  <2>8. LabelInv(E, n, done(i), pass[i])
    BY <2>3, <2>4, <2>7, Zenon
  <2> QED
    BY <2>8
<1>12. 0 .. m \subseteq P
  <2> HIDE DEF P
  <2> QED
    BY <1>10, <1>11, Induction
<1>13. LabelInv(E, n, done(m), pass[m])
  <2>1. m \in P
    <3> HIDE DEF P
    <3> QED
      BY <1>12
  <2> QED
    BY <2>1
<1>14. done(m) = 1 .. m
  <2>1. m + 1 - m = 1
    OBVIOUS
  <2>2. \A e \in 1 .. m : \E u \in 1 .. m : q[u] = e
    BY DEF ComesApart
  <2>3. \A u \in 1 .. m : q[u] \in 1 .. m
    BY DEF ComesApart
  <2> QED
    BY <2>1, <2>2, <2>3
<1> HIDE DEF done
<1>15. LabelInv(E, n, 1 .. m, pass[m])
  BY <1>13, <1>14
<1> QED
  BY <1>1, <1>15 DEF LabelInv, Labelled

-----------------------------------------------------------------------------
(* The rank of a vertex.                                                   *)

\* Quotients and remainders.
LEMMA DivisionFacts ==
    ASSUME NEW v \in Nat, NEW k \in Nat \ {0}
    PROVE  v \div k \in Nat /\ (v \div k) * k <= v /\ v < (v \div k) * k + k
  OBVIOUS

\* There is an entry of the rank table for every vertex.
LEMMA EntryOf ==
    ASSUME NEW n \in Nat, NEW v \in 0 .. (n - 1), NEW k \in Nat \ {0}
    PROVE  (v \div k) + 1 \in 1 .. Ceiling(n, k)
<1> DEFINE i == v \div k
           q == (n + k - 1) \div k
<1>1. i \in Nat /\ i * k <= v
  BY DivisionFacts
<1>2. q \in Nat /\ n + k - 1 < q * k + k
  <2>1. n + k - 1 \in Nat
    OBVIOUS
  <2> QED
    BY <2>1, DivisionFacts
<1>3. q = Ceiling(n, k)
  BY DEF Ceiling
<1> HIDE DEF i, q
<1>4. i * k < q * k
  <2>1. i * k \in Nat /\ q * k \in Nat
    BY <1>1, <1>2
  <2> QED
    BY <1>1, <1>2, <2>1
<1>5. i < q
  <2> SUFFICES ASSUME q <= i PROVE FALSE
    BY <1>1, <1>2
  <2>1. q * k <= i * k
    BY <1>1, <1>2
  <2> QED
    BY <1>1, <1>2, <1>4, <2>1
<1> QED
  BY <1>1, <1>2, <1>3, <1>5 DEF i

\* Labelled vertices are counted part by part.
LEMMA AssignedInParts ==
    ASSUME NEW g, NEW a \in Nat, NEW b \in Nat, a <= b
    PROVE  /\ AssignedIn(g, 0, a) + AssignedIn(g, a, b) = AssignedIn(g, 0, b)
           /\ AssignedIn(g, 0, b) \in Nat
<1> DEFINE A == {v \in 0 .. (a - 1) : g[v] # kUnassigned}
           B == {v \in a .. (b - 1) : g[v] # kUnassigned}
           C == {v \in 0 .. (b - 1) : g[v] # kUnassigned}
<1>1. C = A \cup B /\ A \cap B = {}
  OBVIOUS
<1>2. IsFiniteSet(A) /\ IsFiniteSet(B)
  <2>1. IsFiniteSet(0 .. (a - 1)) /\ IsFiniteSet(a .. (b - 1))
    BY FS_Interval
  <2>2. A \in SUBSET (0 .. (a - 1)) /\ B \in SUBSET (a .. (b - 1))
    OBVIOUS
  <2> HIDE DEF A, B
  <2> QED
    BY <2>1, <2>2, FS_Subset
<1>3. AssignedIn(g, 0, a) = Cardinality(A) /\ AssignedIn(g, a, b) = Cardinality(B)
      /\ AssignedIn(g, 0, b) = Cardinality(C)
  BY DEF AssignedIn
<1> HIDE DEF A, B, C
<1>4. Cardinality(A \cup B) = Cardinality(A) + Cardinality(B) - Cardinality(A \cap B)
  BY <1>2, FS_Union
<1>5. Cardinality(A \cap B) = 0
  BY <1>1, FS_EmptySet
<1>6. Cardinality(A) \in Nat /\ Cardinality(B) \in Nat
  BY <1>2, FS_CardinalityType
<1> QED
  BY <1>1, <1>3, <1>4, <1>5, <1>6

\* Whatever the entries of the table, the rank counts all the labelled vertices below.
LEMMA RankCounts ==
    ASSUME NEW n \in Nat \ {0}, NEW x, x.ranktable = Ranking(x.g, n), NEW v \in 0 .. (n - 1)
    PROVE  Rank(x, v) = AssignedIn(x.g, 0, v)
<1> DEFINE i == v \div k_
           c == Ceiling(n, k_)
<1>1. k_ \in Nat \ {0}
  BY IndexAssumption
<1>2. i + 1 \in 1 .. c /\ i \in Nat /\ i * k_ \in Nat /\ i * k_ <= v
  <2>1. i + 1 \in 1 .. c
    BY <1>1, EntryOf
  <2>2. i \in Nat /\ i * k_ <= v
    BY <1>1, DivisionFacts
  <2> HIDE DEF i
  <2> QED
    BY <1>1, <2>1, <2>2
<1>3. x.ranktable = [j \in 1 .. c |-> AssignedIn(x.g, 0, (j - 1) * k_)]
  BY DEF Ranking
<1>4. Rank(x, v) = IF x.ranktable = <<>> THEN 0
                   ELSE x.ranktable[i + 1] + AssignedIn(x.g, i * k_, v)
  BY DEF Rank
<1> HIDE DEF i, c
<1>5. x.ranktable # <<>>
  <2>1. i + 1 \in DOMAIN x.ranktable
    BY <1>2, <1>3
  <2> QED
    BY <1>2, <2>1
<1>6. x.ranktable[i + 1] = AssignedIn(x.g, 0, i * k_)
  <2>1. x.ranktable[i + 1] = AssignedIn(x.g, 0, ((i + 1) - 1) * k_)
    BY <1>2, <1>3
  <2>2. (i + 1) - 1 = i
    BY <1>2
  <2> QED
    BY <2>1, <2>2
<1> QED
  BY <1>2, <1>4, <1>5, <1>6, AssignedInParts

\* There are as many labelled vertices as edges, so that their ranks are below m
\* and distinct.
LEMMA RanksOfLabelled ==
    ASSUME NEW m \in Nat, NEW n \in Nat, NEW E, NEW g, Labelled(E, m, n, g)
    PROVE  /\ \A v \in 0 .. (n - 1) : AssignedIn(g, 0, v) \in 0 .. m
           /\ \A v \in 0 .. (n - 1) : g[v] # 3 => AssignedIn(g, 0, v) \in 0 .. (m - 1)
           /\ \A v, w \in 0 .. (n - 1) :
                 g[v] # 3 /\ g[w] # 3 /\ AssignedIn(g, 0, v) = AssignedIn(g, 0, w) => v = w
<1> DEFINE A == {v \in 0 .. (Labels(n) - 1) : g[v] # 3}
           below(v) == {u \in 0 .. (v - 1) : g[u] # 3}
           T == {e \in 1 .. m : Chosen(E, g, e) \in A}
           c == [e \in T |-> Chosen(E, g, e)]
<1>1. \A v : AssignedIn(g, 0, v) = Cardinality(below(v))
  BY DEF AssignedIn, kUnassigned
<1>2. Labels(n) \in Nat /\ n <= Labels(n)
  BY LabelsSuffice
<1>3. IsFiniteSet(A) /\ Cardinality(A) \in Nat /\ Cardinality(A) <= m
  <2>1. c \in Surjection(T, A)
    <3>1. c \in [T -> A]
      OBVIOUS
    <3>2. \A v \in A : \E e \in T : c[e] = v
      BY DEF Labelled
    <3> HIDE DEF c, T, A
    <3> QED
      BY <3>1, <3>2 DEF Surjection
  <2>2. IsFiniteSet(1 .. m) /\ Cardinality(1 .. m) = m
    BY FS_Interval
  <2>3. T \in SUBSET (1 .. m)
    OBVIOUS
  <2> HIDE DEF c, T, A
  <2>4. IsFiniteSet(T) /\ Cardinality(T) <= m
    BY <2>2, <2>3, FS_Subset
  <2>5. IsFiniteSet(A) /\ Cardinality(A) <= Cardinality(T)
    BY <2>1, <2>4, FS_Surjection
  <2>6. Cardinality(A) \in Nat /\ Cardinality(T) \in Nat
    BY <2>4, <2>5, FS_CardinalityType
  <2> QED
    BY <2>4, <2>5, <2>6
<1>4. \A v \in 0 .. (n - 1) : below(v) \in SUBSET A /\ v \notin below(v)
  BY <1>2
<1>5. \A v \in 0 .. (n - 1) : g[v] # 3 => v \in A
  BY <1>2
<1>6. \A v, w \in 0 .. (n - 1) : v < w => below(v) \in SUBSET below(w)
  OBVIOUS
<1>7. \A v, w \in 0 .. (n - 1) : v < w /\ g[v] # 3 => v \in below(w)
  OBVIOUS
<1> HIDE DEF A, below
<1>8. \A v \in 0 .. (n - 1) : IsFiniteSet(below(v)) /\ Cardinality(below(v)) \in 0 .. m
  <2> TAKE v \in 0 .. (n - 1)
  <2>1. IsFiniteSet(below(v)) /\ Cardinality(below(v)) <= Cardinality(A)
    BY <1>3, <1>4, FS_Subset
  <2>2. Cardinality(below(v)) \in Nat
    BY <2>1, FS_CardinalityType
  <2> QED
    BY <1>3, <2>1, <2>2
<1>9. \A v \in 0 .. (n - 1) : g[v] # 3 => Cardinality(below(v)) \in 0 .. (m - 1)
  <2> SUFFICES ASSUME NEW v \in 0 .. (n - 1), g[v] # 3
               PROVE  Cardinality(below(v)) \in 0 .. (m - 1)
    OBVIOUS
  <2>1. v \in A /\ v \notin below(v) /\ below(v) \in SUBSET A
    BY <1>4, <1>5
  <2>2. Cardinality(below(v)) < Cardinality(A)
    BY <1>3, <2>1, Fewer
  <2>3. Cardinality(below(v)) \in 0 .. m
    BY <1>8
  <2> QED
    BY <1>3, <2>2, <2>3
<1>10. ASSUME NEW v \in 0 .. (n - 1), NEW w \in 0 .. (n - 1), v < w, g[v] # 3
       PROVE  Cardinality(below(v)) # Cardinality(below(w))
  <2>1. v \in below(w) /\ v \notin below(v) /\ below(v) \in SUBSET below(w)
    BY <1>4, <1>6, <1>7, <1>10
  <2>2. IsFiniteSet(below(w))
    BY <1>8
  <2> DEFINE X == below(v)
             Y == below(w)
  <2> HIDE DEF X, Y
  <2>3. IsFiniteSet(Y) /\ X \in SUBSET Y /\ v \in Y /\ v \notin X
    BY <2>1, <2>2 DEF X, Y
  <2>4. Cardinality(X) \in Nat /\ Cardinality(Y) \in Nat /\ Cardinality(X) < Cardinality(Y)
    BY <2>3, Fewer
  <2>5. Cardinality(X) # Cardinality(Y)
    BY <2>4
  <2> QED
    BY <2>5 DEF X, Y
<1>11. \A v, w \in 0 .. (n - 1) :
          g[v] # 3 /\ g[w] # 3 /\ Cardinality(below(v)) = Cardinality(below(w)) => v = w
  <2> TAKE v \in 0 .. (n - 1), w \in 0 .. (n - 1)
  <2>1. v = w \/ v < w \/ w < v
    OBVIOUS
  <2> QED
    BY <1>10, <2>1
<1> QED
  BY <1>1, <1>8, <1>9, <1>11

-----------------------------------------------------------------------------
(* The index of a list of keys.                                            *)

\* What an index answers, for every key and for those it was made for.
PerfectFor(keys, m, answer, top, limit) ==
    /\ \A k \in Key : answer[k] \in 0 .. top
    /\ \A i \in 1 .. m : answer[keys[i]] \in 0 .. (limit - 1)
    /\ \A i, j \in 1 .. m : answer[keys[i]] = answer[keys[j]] => i = j

\* What an index answers, as functions.
Hashing(x) == [k \in Key |-> perfect_hash(x, k)]
MinimalHashing(x) == [k \in Key |-> minimal_perfect_hash(x, k)]

\* The function that Reset makes, with a seed for which Mapping holds, is perfect,
\* and it is minimal with the ranks.
LEMMA ResetIsPerfect ==
    ASSUME NEW h \in Hashes, NEW keys \in Seq(Key), keys # <<>>, NEW s \in BOOLEAN,
           Mapping(keys, h, s)
    PROVE  LET m == Len(keys)
               x == Reset(keys, h, s)
           IN  /\ m \in Nat \ {0} /\ x.m = m /\ x.h = h /\ x.n \in Nat \ {0}
               /\ PerfectFor(keys, m, Hashing(x), x.n - 1, x.n)
               /\ PerfectFor(keys, m, MinimalHashing(x), m, m)
<1> DEFINE m == Len(keys)
           r == r_(m, s)
           n == 3 * r
           E == Edges(keys, h, r)
           q == GenerateQueue(E)
           g == Assigning(E, q, n)
           x == Reset(keys, h, s)
           hash(k) == perfect_hash(x, k)
<1>1. m \in Nat \ {0} /\ keys \in [1 .. m -> Key]
  OBVIOUS
<1>2. h \in [Key -> [1 .. 3 -> Nat]]
  BY MapAssumption
<1>3. Len(q) = m
  BY DEF Mapping
<1>4. /\ x.m = m /\ x.n = n /\ x.r = r /\ x.h = h /\ x.g = g
      /\ x.ranktable = Ranking(g, n)
  BY DEF Reset
<1>5. \A i \in 1 .. m : E[i] = EdgeOf(h, keys[i], r)
  BY <1>1 DEF Edges
<1> HIDE DEF m
<1>6. r \in Nat \ {0}
  BY <1>1, ThirdIsPositive
<1> HIDE DEF r
<1>7. n \in Nat \ {0} /\ Parted(E, m, n)
  <2>1. n \in Nat \ {0}
    BY <1>6
  <2> QED
    BY <1>1, <1>2, <1>6, <2>1, EdgesAreParted
<1> DEFINE nn == n
<1>8. nn \in Nat \ {0} /\ nn = n /\ Parted(E, m, nn)
  BY <1>7
<1> HIDE DEF E
<1>9. ComesApart(E, m, q)
  <2>1. E \in [1 .. m -> [1 .. 3 -> Nat]]
    <3>1. \A y \in 0 .. (nn - 1) : y \in Nat
      OBVIOUS
    <3>2. E \in [1 .. m -> [1 .. 3 -> 0 .. (nn - 1)]]
      BY <1>8 DEF Parted
    <3> HIDE DEF nn
    <3>3. [1 .. 3 -> 0 .. (nn - 1)] \subseteq [1 .. 3 -> Nat]
      BY <3>1
    <3> QED
      BY <3>2, <3>3
  <2>2. m \in Nat
    BY <1>1
  <2> QED
    BY <1>3, <2>1, <2>2, QueueComesApart
<1> HIDE DEF q, nn
<1>10. g = Assigning(E, q, nn)
  BY <1>8
<1>11. Labelled(E, m, nn, g)
  BY <1>1, <1>3, <1>8, <1>9, <1>10, AssigningLabels
<1> HIDE DEF g, x
<1>12. \A k \in Key : \A i \in 1 .. 3 : EdgeOf(h, k, r)[i] \in 0 .. (nn - 1)
  <2> TAKE k \in Key
  <2>1. EdgeOf(h, k, r) \in [1 .. 3 -> 0 .. (3 * r - 1)]
    BY <1>2, <1>6, EdgeInThirds
  <2> QED
    BY <1>8, <2>1
<1>13. \A k \in Key : hash(k) \in 0 .. (nn - 1)
  <2> TAKE k \in Key
  <2> DEFINE e == EdgeOf(h, k, r)
             y == g[e[1]] + g[e[2]] + g[e[3]]
  <2>1. hash(k) = e[(y % 3) + 1]
    BY <1>4 DEF perfect_hash
  <2>2. e[1] \in 0 .. (nn - 1) /\ e[2] \in 0 .. (nn - 1) /\ e[3] \in 0 .. (nn - 1)
    BY <1>12
  <2> HIDE DEF e
  <2>3. g \in [0 .. (Labels(nn) - 1) -> 0 .. 3] /\ nn <= Labels(nn) /\ Labels(nn) \in Nat
    BY <1>8, <1>11, LabelsSuffice DEF Labelled
  <2>4. y \in Nat
    <3>1. g[e[1]] \in 0 .. 3 /\ g[e[2]] \in 0 .. 3 /\ g[e[3]] \in 0 .. 3
      BY <1>8, <2>2, <2>3
    <3> QED
      BY <3>1
  <2> HIDE DEF y, hash
  <2>5. (y % 3) + 1 \in 1 .. 3
    BY <2>4
  <2>6. (y % 3) + 1 = 1 \/ (y % 3) + 1 = 2 \/ (y % 3) + 1 = 3
    BY <2>5
  <2> QED
    BY <2>1, <2>2, <2>6
<1>14. \A i \in 1 .. m : keys[i] \in Key /\ hash(keys[i]) = Chosen(E, g, i)
  <2> TAKE i \in 1 .. m
  <2>1. E[i] = EdgeOf(h, keys[i], r)
    BY <1>5
  <2> QED
    BY <1>1, <1>4, <2>1 DEF perfect_hash, Chosen
<1> HIDE DEF hash
<1>15. \A i \in 1 .. m : g[hash(keys[i])] # 3
  BY <1>11, <1>14 DEF Labelled
<1>16. \A i, j \in 1 .. m : hash(keys[i]) = hash(keys[j]) => i = j
  BY <1>11, <1>14 DEF Labelled
<1>17. \A k \in Key : Hashing(x)[k] = hash(k)
  BY DEF Hashing, hash
<1>18. PerfectFor(keys, m, Hashing(x), x.n - 1, x.n)
  <2>1. x.n = nn
    BY <1>4, <1>8
  <2>2. \A i \in 1 .. m : Hashing(x)[keys[i]] = hash(keys[i])
    BY <1>14, <1>17
  <2> QED
    BY <1>13, <1>14, <1>16, <1>17, <2>1, <2>2 DEF PerfectFor
<1>19. \A k \in Key : MinimalHashing(x)[k] = AssignedIn(g, 0, hash(k))
  <2> TAKE k \in Key
  <2>1. MinimalHashing(x)[k] = Rank(x, hash(k))
    BY DEF MinimalHashing, minimal_perfect_hash, hash
  <2>2. hash(k) \in 0 .. (nn - 1)
    BY <1>13
  <2>3. x.ranktable = Ranking(x.g, nn)
    BY <1>4, <1>8
  <2>4. Rank(x, hash(k)) = AssignedIn(x.g, 0, hash(k))
    BY <1>8, <2>2, <2>3, RankCounts
  <2> QED
    BY <1>4, <2>1, <2>4
<1>20. /\ \A v \in 0 .. (nn - 1) : AssignedIn(g, 0, v) \in 0 .. m
       /\ \A v \in 0 .. (nn - 1) : g[v] # 3 => AssignedIn(g, 0, v) \in 0 .. (m - 1)
       /\ \A v, w \in 0 .. (nn - 1) :
             g[v] # 3 /\ g[w] # 3 /\ AssignedIn(g, 0, v) = AssignedIn(g, 0, w) => v = w
  BY <1>1, <1>8, <1>11, RanksOfLabelled
<1>21. PerfectFor(keys, m, MinimalHashing(x), m, m)
  <2>1. \A i \in 1 .. m : /\ hash(keys[i]) \in 0 .. (nn - 1)
                          /\ MinimalHashing(x)[keys[i]] = AssignedIn(g, 0, hash(keys[i]))
    BY <1>13, <1>14, <1>19
  <2>2. \A k \in Key : MinimalHashing(x)[k] \in 0 .. m
    BY <1>13, <1>19, <1>20
  <2>3. \A i \in 1 .. m : MinimalHashing(x)[keys[i]] \in 0 .. (m - 1)
    BY <1>15, <1>20, <2>1
  <2>4. \A i, j \in 1 .. m : MinimalHashing(x)[keys[i]] = MinimalHashing(x)[keys[j]] => i = j
    BY <1>15, <1>16, <1>20, <2>1
  <2> QED
    BY <2>2, <2>3, <2>4 DEF PerfectFor
<1>22. x.m = m /\ x.h = h /\ x.n \in Nat \ {0}
  BY <1>4, <1>7
<1> QED
  BY <1>1, <1>18, <1>21, <1>22 DEF m, x

-----------------------------------------------------------------------------
(* What the map keeps of an index.                                         *)

\* The fields of an index, and that a search stays inside the vector or at its end.
IndexInv(x) ==
    /\ x = [m |-> x.m, n |-> x.n, r |-> x.r, h |-> x.h, g |-> x.g, ranktable |-> x.ranktable]
    /\ x.m \in Nat /\ x.n \in Nat /\ x.h \in Hashes \cup {NoHash}
    /\ x.n > 0 => \A k \in Key : perfect_hash(x, k) \in 0 .. (x.n - 1)
    /\ x.m > 0 => \A k \in Key : minimal_perfect_hash(x, k) \in 0 .. x.m

\* The index of a new map answers nothing.
LEMMA EmptyIndexIsGood == IndexInv(EmptyIndex)
  BY DEF IndexInv, EmptyIndex

\* An index without its rank table still answers with numbers in range.
LEMMA IndexClearIsGood ==
    ASSUME NEW x, IndexInv(x)
    PROVE  /\ IndexInv(IndexClear(x))
           /\ IndexClear(x).m = x.m /\ IndexClear(x).n = x.n
<1> DEFINE y == [m |-> x.m, n |-> x.n, r |-> x.r, h |-> x.h, g |-> x.g, ranktable |-> <<>>]
<1>1. IndexClear(x) = y
  BY DEF IndexInv, IndexClear
<1>2. y.m = x.m /\ y.n = x.n /\ y.r = x.r /\ y.h = x.h /\ y.g = x.g /\ y.ranktable = <<>>
  OBVIOUS
<1>3. y = [m |-> y.m, n |-> y.n, r |-> y.r, h |-> y.h, g |-> y.g, ranktable |-> y.ranktable]
  OBVIOUS
<1> HIDE DEF y
<1>4. \A k \in Key : perfect_hash(y, k) = perfect_hash(x, k)
  BY <1>2 DEF perfect_hash
<1>5. \A k \in Key : minimal_perfect_hash(y, k) = 0
  BY <1>2 DEF minimal_perfect_hash, Rank
<1>6. y.m \in Nat /\ y.n \in Nat /\ y.h \in Hashes \cup {NoHash}
  BY <1>2 DEF IndexInv
<1>7. y.n > 0 => \A k \in Key : perfect_hash(y, k) \in 0 .. (y.n - 1)
  BY <1>2, <1>4 DEF IndexInv
<1>8. y.m > 0 => \A k \in Key : minimal_perfect_hash(y, k) \in 0 .. y.m
  BY <1>5, <1>6
<1> QED
  BY <1>1, <1>2, <1>3, <1>6, <1>7, <1>8 DEF IndexInv

\* A new index answers with numbers in range for every key, its own or not.
LEMMA ResetIsGood ==
    ASSUME NEW h \in Hashes, NEW keys \in Seq(Key), keys # <<>>, NEW s \in BOOLEAN,
           Mapping(keys, h, s)
    PROVE  IndexInv(Reset(keys, h, s))
<1> DEFINE m == Len(keys)
           x == Reset(keys, h, s)
<1>1. /\ m \in Nat \ {0} /\ x.m = m /\ x.h = h /\ x.n \in Nat \ {0}
      /\ PerfectFor(keys, m, Hashing(x), x.n - 1, x.n)
      /\ PerfectFor(keys, m, MinimalHashing(x), m, m)
  BY ResetIsPerfect
<1>2. x = [m |-> x.m, n |-> x.n, r |-> x.r, h |-> x.h, g |-> x.g, ranktable |-> x.ranktable]
  BY DEF Reset
<1> HIDE DEF x, m
<1>3. \A k \in Key : perfect_hash(x, k) \in 0 .. (x.n - 1)
  BY <1>1 DEF PerfectFor, Hashing
<1>4. \A k \in Key : minimal_perfect_hash(x, k) \in 0 .. x.m
  BY <1>1 DEF PerfectFor, MinimalHashing
<1>5. IndexInv(x)
  BY <1>1, <1>2, <1>3, <1>4 DEF IndexInv
<1> QED
  BY <1>5 DEF x

\* The same of the function that the kind of map takes.
LEMMA IndexAnswers ==
    ASSUME NEW x, IndexInv(x), minimal \in BOOLEAN
    PROVE  /\ IndexSize(x) \in Nat
           /\ IndexSize(x) > 0 => \A k \in Key : IndexOf(x, k) \in 0 .. IndexSize(x)
<1>1. CASE minimal
  BY <1>1 DEF IndexInv, IndexSize, IndexOf
<1>2. CASE ~minimal
  BY <1>2 DEF IndexInv, IndexSize, IndexOf
<1> QED
  BY <1>1, <1>2

\* And with different ones for its own keys, below its size.
LEMMA IndexIsPerfect ==
    ASSUME NEW h \in Hashes, NEW keys \in Seq(Key), keys # <<>>, NEW s \in BOOLEAN,
           Mapping(keys, h, s), minimal \in BOOLEAN
    PROVE  LET m == Len(keys)
               x == Reset(keys, h, s)
           IN  /\ \A i \in 1 .. m : IndexOf(x, keys[i]) \in 0 .. (IndexSize(x) - 1)
               /\ \A i, j \in 1 .. m : IndexOf(x, keys[i]) = IndexOf(x, keys[j]) => i = j
<1> DEFINE m == Len(keys)
           x == Reset(keys, h, s)
<1>1. /\ m \in Nat \ {0} /\ x.m = m /\ x.h = h /\ x.n \in Nat \ {0}
      /\ PerfectFor(keys, m, Hashing(x), x.n - 1, x.n)
      /\ PerfectFor(keys, m, MinimalHashing(x), m, m)
  BY ResetIsPerfect
<1>2. \A i \in 1 .. m : keys[i] \in Key
  OBVIOUS
<1> HIDE DEF x, m
<1>3. CASE minimal
  <2>1. \A i \in 1 .. m : IndexOf(x, keys[i]) = MinimalHashing(x)[keys[i]]
    BY <1>2, <1>3 DEF MinimalHashing, IndexOf
  <2> QED
    BY <1>1, <1>3, <2>1 DEF PerfectFor, IndexSize, x, m
<1>4. CASE ~minimal
  <2>1. \A i \in 1 .. m : IndexOf(x, keys[i]) = Hashing(x)[keys[i]]
    BY <1>2, <1>4 DEF Hashing, IndexOf
  <2> QED
    BY <1>1, <1>4, <2>1 DEF PerfectFor, IndexSize, x, m
<1> QED
  BY <1>3, <1>4

-----------------------------------------------------------------------------
(* pack().                                                                 *)

\* What a cell holds, the present cells, and whether no two of them share a key.
Pair == [key : Key, data : Data]
CellsOf(p) == {i \in DOMAIN p : p[i]}
KeysApart(v, p) == \A i, j \in CellsOf(p) : v[i].key = v[j].key => i = j

\* The vectors v and p after their live cells were moved to v1 and p1 by the index x.
Moved(v, p, v1, p1, x) ==
    /\ v1 \in Seq(Pair) /\ p1 \in Seq(BOOLEAN)
    /\ Len(v1) = IndexSize(x) /\ Len(p1) = IndexSize(x)
    /\ \A i \in CellsOf(p1) : IndexOf(x, v1[i].key) = i - 1 /\ \E j \in CellsOf(p) : v1[i] = v[j]
    /\ \A i \in DOMAIN v1 : ~p1[i] => v1[i].key = DefaultKey
    /\ \A j \in CellsOf(p) : \E i \in CellsOf(p1) : v1[i] = v[j]
    /\ Cardinality(CellsOf(p1)) = Cardinality(CellsOf(p))

\* An index that is perfect for the keys of the cells moves them all.
LEMMA PlaceMoves ==
    ASSUME NEW v \in Seq(Pair), NEW p \in Seq(BOOLEAN), Len(v) = Len(p), NEW x,
           IndexSize(x) \in Nat,
           \A j \in CellsOf(p) : IndexOf(x, v[j].key) \in 0 .. (IndexSize(x) - 1),
           \A i, j \in CellsOf(p) : IndexOf(x, v[i].key) = IndexOf(x, v[j].key) => i = j,
           Place(v, p, x)
    PROVE  Moved(v, p, values', present', x)
<1> DEFINE n == IndexSize(x)
           T == CellsOf(p)
           to == [j \in T |-> IndexOf(x, v[j].key) + 1]
           at(i) == {j \in DOMAIN v : p[j] /\ IndexOf(x, v[j].key) = i - 1}
           v1 == [i \in 1 .. n |-> IF at(i) = {} THEN DefaultValue ELSE v[Max(at(i))]]
           p1 == [i \in 1 .. n |-> at(i) # {}]
<1>1. values' = v1 /\ present' = p1
  BY DEF Place
<1>2. /\ T \in SUBSET (1 .. Len(v)) /\ DOMAIN v = 1 .. Len(v)
      /\ DOMAIN p = 1 .. Len(v) /\ Len(v) \in Nat
  BY DEF CellsOf
<1>3. \A j \in T : to[j] \in 1 .. n
  <2> TAKE j \in T
  <2> DEFINE y == IndexOf(x, v[j].key)
  <2>1. y \in 0 .. (n - 1) /\ to[j] = y + 1
    OBVIOUS
  <2> HIDE DEF y, to
  <2> QED
    BY <2>1
<1>4. \A i, j \in T : to[i] = to[j] => i = j
  <2> TAKE i \in T, j \in T
  <2> DEFINE y == IndexOf(x, v[i].key)
             z == IndexOf(x, v[j].key)
  <2>1. /\ y \in 0 .. (n - 1) /\ to[i] = y + 1 /\ z \in 0 .. (n - 1) /\ to[j] = z + 1
        /\ y = z => i = j
    OBVIOUS
  <2> HIDE DEF y, z, to
  <2> QED
    BY <2>1
<1>5. \A i \in 1 .. n : at(i) = {j \in T : to[j] = i}
  <2> TAKE i \in 1 .. n
  <2>1. \A j \in T : to[j] = i <=> IndexOf(x, v[j].key) = i - 1
    <3> TAKE j \in T
    <3> DEFINE y == IndexOf(x, v[j].key)
    <3>1. y \in 0 .. (n - 1) /\ to[j] = y + 1
      OBVIOUS
    <3> HIDE DEF y, to
    <3>2. to[j] = i <=> y = i - 1
      BY <3>1
    <3> QED
      BY <3>2 DEF y
  <2>2. \A j : j \in T <=> j \in DOMAIN v /\ p[j]
    BY <1>2 DEF CellsOf
  <2> HIDE DEF to, T
  <2> QED
    BY <2>1, <2>2
<1> HIDE DEF at, to
<1>6. \A j \in T : at(to[j]) = {j} /\ Max(at(to[j])) = j
  <2> TAKE j \in T
  <2>1. at(to[j]) = {j}
    BY <1>3, <1>4, <1>5
  <2>2. j \in Nat
    BY <1>2
  <2> QED
    BY <2>1, <2>2 DEF Max
<1>7. \A i \in 1 .. n : at(i) = {} \/ \E j \in T : to[j] = i
  BY <1>5
<1>8. \A j \in T : to[j] \in CellsOf(p1) /\ v1[to[j]] = v[j]
  <2> TAKE j \in T
  <2>1. at(to[j]) = {j} /\ to[j] \in 1 .. n /\ Max(at(to[j])) = j
    BY <1>3, <1>6
  <2> HIDE DEF T
  <2>2. v1[to[j]] = v[Max(at(to[j]))] /\ p1[to[j]] = TRUE
    BY <2>1
  <2> QED
    BY <2>1, <2>2 DEF CellsOf
<1>9. \A i \in CellsOf(p1) : i \in 1 .. n /\ \E j \in T : to[j] = i
  <2> TAKE i \in CellsOf(p1)
  <2>1. i \in 1 .. n /\ at(i) # {}
    BY DEF CellsOf
  <2> QED
    BY <1>7, <2>1
<1>10. \A i \in 1 .. n : ~p1[i] => v1[i] = DefaultValue
  OBVIOUS
<1>11. DefaultValue \in Pair
  BY MapAssumption DEF DefaultValue, Pair
<1>12. \A i \in 1 .. n : v1[i] \in Pair /\ p1[i] \in BOOLEAN
  <2> TAKE i \in 1 .. n
  <2>1. CASE at(i) = {}
    BY <1>11, <2>1
  <2>2. CASE at(i) # {}
    <3>1. PICK j \in T : to[j] = i
      BY <1>7, <2>2
    <3>2. v1[to[j]] = v[j] /\ v[j] \in Pair
      <4>1. v1[to[j]] = v[j]
        BY <1>8
      <4>2. v[j] \in Pair
        BY <1>2
      <4> QED
        BY <4>1, <4>2
    <3>3. p1[i] \in BOOLEAN
      OBVIOUS
    <3> HIDE DEF v1, p1
    <3>4. v1[i] = v[j]
      BY <3>1, <3>2, Zenon
    <3> QED
      BY <3>2, <3>3, <3>4
  <2> QED
    BY <2>1, <2>2
<1>13. DOMAIN v1 = 1 .. n /\ DOMAIN p1 = 1 .. n /\ v1 \in Seq(Pair) /\ p1 \in Seq(BOOLEAN)
       /\ Len(v1) = n /\ Len(p1) = n
  <2>1. v1 \in [1 .. n -> Pair] /\ p1 \in [1 .. n -> BOOLEAN]
    BY <1>12
  <2>2. n \in Nat
    OBVIOUS
  <2> HIDE DEF v1, p1, n
  <2> QED
    BY <2>1, <2>2
<1>14. \A j \in T : to[j] - 1 = IndexOf(x, v[j].key)
  <2> TAKE j \in T
  <2> DEFINE y == IndexOf(x, v[j].key)
  <2>1. y \in 0 .. (n - 1) /\ to[j] = y + 1
    BY DEF to
  <2> HIDE DEF y
  <2>2. to[j] - 1 = y
    BY <2>1
  <2> QED
    BY <2>2 DEF y
<1> HIDE DEF v1, p1
<1>15. Cardinality(CellsOf(p1)) = Cardinality(T)
  <2> DEFINE T1 == CellsOf(p1)
  <2>1. IsFiniteSet(T)
    <3>1. IsFiniteSet(1 .. Len(v))
      BY <1>2, FS_Interval
    <3> QED
      BY <1>2, <3>1, FS_Subset
  <2>2. to \in [T -> T1] /\ \A i, j \in T : to[i] = to[j] => i = j
    <3>1. \A j \in T : to[j] \in T1
      BY <1>8
    <3>2. to = [j \in T |-> to[j]]
      BY DEF to
    <3> HIDE DEF T, T1
    <3>3. to \in [T -> T1]
      BY <3>1, <3>2
    <3> QED
      BY <1>4, <3>3
  <2>3. \A i \in T1 : \E j \in T : to[j] = i
    BY <1>9
  <2> HIDE DEF T, T1
  <2>4. to \in Bijection(T, T1)
    BY <2>2, <2>3 DEF Bijection, Injection, Surjection, IsInjective
  <2>5. ExistsBijection(T, T1)
    BY <2>4 DEF ExistsBijection
  <2>6. Cardinality(T1) = Cardinality(T)
    BY <2>1, <2>5, FS_Bijection
  <2> QED
    BY <2>6 DEF T1
<1>16. \A i \in CellsOf(p1) : IndexOf(x, v1[i].key) = i - 1 /\ \E j \in T : v1[i] = v[j]
  <2> TAKE i \in CellsOf(p1)
  <2>1. PICK j \in T : to[j] = i
    BY <1>9
  <2>2. v1[to[j]] = v[j] /\ to[j] - 1 = IndexOf(x, v[j].key)
    BY <1>8, <1>14
  <2>3. v1[i] = v[j] /\ i - 1 = IndexOf(x, v[j].key)
    BY <2>1, <2>2, Zenon
  <2> QED
    BY <2>3
<1>17. \A i \in DOMAIN v1 : ~p1[i] => v1[i].key = DefaultKey
  BY <1>10, <1>13 DEF DefaultValue
<1> QED
  BY <1>1, <1>8, <1>13, <1>15, <1>16, <1>17 DEF Moved

\* The keys that pack() counts.
PackedKeys(v, p) == [i \in DOMAIN Positions(p) |-> v[Positions(p)[i]].key]

\* No seed works for the keys of the cells.
NoSeed(v, p, s) ==
    \E keys \in Seq(Key) :
       /\ Len(keys) = s /\ keys # <<>> /\ IsInjective(keys)
       /\ \A i \in 1 .. s : \E j \in CellsOf(p) : keys[i] = v[j].key
       /\ \A h \in Hashes : ~Mapping(keys, h, square)

\* They are the keys of the present cells, in order.
LEMMA PackedKeysFacts ==
    ASSUME NEW v \in Seq(Pair), NEW p \in Seq(BOOLEAN), Len(v) = Len(p)
    PROVE  LET keys == PackedKeys(v, p)
               c == Cardinality(CellsOf(p))
           IN  /\ c \in Nat /\ keys \in Seq(Key) /\ Len(keys) = c /\ IsFiniteSet(CellsOf(p))
               /\ \A i \in 1 .. c : \E j \in CellsOf(p) : keys[i] = v[j].key
               /\ \A j \in CellsOf(p) : \E i \in 1 .. c : keys[i] = v[j].key
               /\ IsInjective(keys) <=> KeysApart(v, p)
               /\ IsInjective(keys) =>
                     \A j, l \in CellsOf(p) : \E a, b \in 1 .. c :
                        /\ keys[a] = v[j].key /\ keys[b] = v[l].key /\ (a = b => j = l)
<1> DEFINE T == CellsOf(p)
           c == Cardinality(T)
           q == Positions(p)
           keys == PackedKeys(v, p)
<1>1. /\ IsFiniteSet(T) /\ c \in Nat /\ q \in [1 .. c -> T] /\ Len(q) = c
      /\ \A i, j \in 1 .. c : q[i] = q[j] => i = j
      /\ \A t \in T : \E i \in 1 .. c : q[i] = t
  BY PositionsFacts DEF CellsOf
<1>2. \A t \in T : v[t].key \in Key
  <2> TAKE t \in T
  <2>1. t \in 1 .. Len(v)
    BY DEF CellsOf
  <2>2. v[t] \in Pair
    BY <2>1
  <2> QED
    BY <2>2 DEF Pair
<1>3. DOMAIN q = 1 .. c
  BY <1>1
<1>4. keys = [i \in 1 .. c |-> v[q[i]].key]
  BY <1>3 DEF PackedKeys
<1> HIDE DEF T, q, keys, c
<1>5. \A i \in 1 .. c : q[i] \in T /\ keys[i] = v[q[i]].key
  BY <1>1, <1>4
<1>6. keys \in [1 .. c -> Key]
  BY <1>2, <1>4, <1>5
<1>7. keys \in Seq(Key) /\ Len(keys) = c /\ DOMAIN keys = 1 .. c
  BY <1>1, <1>6
<1>8. \A i \in 1 .. c : \E j \in T : keys[i] = v[j].key
  BY <1>5
<1>9. \A j \in T : \E i \in 1 .. c : keys[i] = v[j].key
  BY <1>1, <1>5
<1>10. IsInjective(keys) <=> KeysApart(v, p)
  <2>1. ASSUME IsInjective(keys) PROVE KeysApart(v, p)
    <3> SUFFICES ASSUME NEW i \in T, NEW j \in T, v[i].key = v[j].key PROVE i = j
      BY DEF KeysApart, T
    <3>1. PICK a \in 1 .. c, b \in 1 .. c : q[a] = i /\ q[b] = j
      BY <1>1
    <3>2. keys[a] = keys[b]
      BY <1>5, <3>1
    <3>3. a = b
      BY <1>7, <2>1, <3>2 DEF IsInjective
    <3> QED
      BY <3>1, <3>3
  <2>2. ASSUME KeysApart(v, p) PROVE IsInjective(keys)
    <3> SUFFICES ASSUME NEW a \in 1 .. c, NEW b \in 1 .. c, keys[a] = keys[b] PROVE a = b
      BY <1>7 DEF IsInjective
    <3>1. q[a] \in T /\ q[b] \in T /\ v[q[a]].key = v[q[b]].key
      BY <1>5
    <3>2. q[a] = q[b]
      BY <2>2, <3>1 DEF KeysApart, T
    <3> QED
      BY <1>1, <3>2
  <2> QED
    BY <2>1, <2>2
<1>11. \A j, l \in T : \E a, b \in 1 .. c :
          /\ keys[a] = v[j].key /\ keys[b] = v[l].key /\ (a = b => j = l)
  <2> TAKE j \in T, l \in T
  <2>1. PICK a \in 1 .. c, b \in 1 .. c : q[a] = j /\ q[b] = l
    BY <1>1
  <2>2. keys[a] = v[j].key /\ keys[b] = v[l].key /\ (a = b => j = l)
    BY <1>5, <2>1
  <2> QED
    BY <2>2
<1> QED
  BY <1>1, <1>7, <1>8, <1>9, <1>10, <1>11 DEF T, c, keys

\* What pack() comes to: it ends the program, or it moves all the cells.
PackEnds(v, p, s, c) ==
    /\ halted' \in {"assert", "exit"}
    /\ values' = v /\ present' = p /\ capacity' = c /\ size' = s
    /\ slack' = slack /\ index' = index
    /\ halted' = "assert" => ~(KeysApart(v, p) /\ Cardinality(CellsOf(p)) = s)
    /\ halted' = "exit" => KeysApart(v, p) /\ NoSeed(v, p, s)

\* The other outcome: all cells are moved by a new index.
PackMoves(v, p, s, factor) ==
    /\ halted' = halted
    /\ KeysApart(v, p) /\ Cardinality(CellsOf(p)) = s
    /\ size' = s
    /\ slack' = NoSlack
    /\ IndexInv(index')
    /\ capacity' = factor * IndexSize(index')
    /\ Moved(v, p, values', present', index')

\* There is no third outcome.
LEMMA PackDoes ==
    ASSUME NEW v \in Seq(Pair), NEW p \in Seq(BOOLEAN), Len(v) = Len(p), NEW s, NEW c, NEW factor,
           IndexInv(index), minimal \in BOOLEAN, square \in BOOLEAN,
           Pack(v, p, s, c, factor)
    PROVE  PackEnds(v, p, s, c) \/ PackMoves(v, p, s, factor)
<1> DEFINE T == CellsOf(p)
           n == Cardinality(T)
           keys == PackedKeys(v, p)
           works == {h \in Hashes : Mapping(keys, h, square)}
           apart == IsInjective(keys) /\ Len(keys) = s
           end(why) ==
            /\ values' = v
            /\ present' = p
            /\ capacity' = c
            /\ size' = s
            /\ halted' = why
            /\ UNCHANGED <<slack, index>>
           moves == /\ \E x \in IF keys = <<>> THEN {IndexClear(index)}
                                ELSE {Reset(keys, h, square) : h \in works} :
                          /\ Place(v, p, x)
                          /\ index' = x
                          /\ capacity' = factor * IndexSize(x)
                    /\ slack' = NoSlack
                    /\ size' = s
                    /\ UNCHANGED halted
<1>1. \/ ~apart /\ end("assert")
      \/ apart /\ keys # <<>> /\ works = {} /\ end("exit")
      \/ apart /\ moves
  BY DEF Pack, PackedKeys
<1>2. /\ n \in Nat /\ keys \in Seq(Key) /\ Len(keys) = n
      /\ \A i \in 1 .. n : \E j \in T : keys[i] = v[j].key
      /\ IsInjective(keys) <=> KeysApart(v, p)
      /\ IsInjective(keys) =>
            \A j, l \in T : \E a, b \in 1 .. n :
               /\ keys[a] = v[j].key /\ keys[b] = v[l].key /\ (a = b => j = l)
  BY PackedKeysFacts
<1> HIDE DEF T, n, keys
<1>3. CASE ~apart /\ end("assert")
  <2>1. ~(KeysApart(v, p) /\ n = s)
    BY <1>2, <1>3
  <2> QED
    BY <1>3, <2>1 DEF PackEnds, n, T
<1>4. CASE apart /\ keys # <<>> /\ works = {} /\ end("exit")
  <2>1. KeysApart(v, p) /\ n = s
    BY <1>2, <1>4
  <2>2. NoSeed(v, p, s)
    BY <1>2, <1>4, <2>1 DEF NoSeed, T
  <2> QED
    BY <1>4, <2>1, <2>2 DEF PackEnds
<1>5. CASE apart /\ moves
  <2>1. KeysApart(v, p) /\ n = s /\ IsInjective(keys)
    BY <1>2, <1>5
  <2>2. PICK x \in IF keys = <<>> THEN {IndexClear(index)}
                   ELSE {Reset(keys, h, square) : h \in works} :
               /\ Place(v, p, x)
               /\ index' = x
               /\ capacity' = factor * IndexSize(x)
    BY <1>5
  <2>3. /\ IndexInv(x)
        /\ \A j \in T : IndexOf(x, v[j].key) \in 0 .. (IndexSize(x) - 1)
        /\ \A j, l \in T : IndexOf(x, v[j].key) = IndexOf(x, v[l].key) => j = l
    <3>1. CASE keys = <<>>
      <4>1. IndexInv(x)
        BY <2>2, <3>1, IndexClearIsGood
      <4>2. n = 0
        BY <1>2, <3>1
      <4>3. T = {}
        <5> SUFFICES ASSUME NEW j \in T PROVE FALSE
          OBVIOUS
        <5>1. \E a \in 1 .. n : TRUE
          BY <1>2, <2>1
        <5> QED
          BY <4>2, <5>1
      <4> QED
        BY <4>1, <4>3
    <3>2. CASE keys # <<>>
      <4>1. PICK h \in Hashes : Mapping(keys, h, square) /\ x = Reset(keys, h, square)
        BY <2>2, <3>2
      <4>2. IndexInv(x)
        BY <1>2, <3>2, <4>1, ResetIsGood
      <4>3. /\ \A i \in 1 .. Len(keys) : IndexOf(x, keys[i]) \in 0 .. (IndexSize(x) - 1)
            /\ \A i, j \in 1 .. Len(keys) : IndexOf(x, keys[i]) = IndexOf(x, keys[j]) => i = j
        <5> DEFINE r == Reset(keys, h, square)
        <5>1. /\ \A i \in 1 .. Len(keys) : IndexOf(r, keys[i]) \in 0 .. (IndexSize(r) - 1)
              /\ \A i, j \in 1 .. Len(keys) : IndexOf(r, keys[i]) = IndexOf(r, keys[j]) => i = j
          <6>1. keys \in Seq(Key) /\ keys # <<>> /\ Mapping(keys, h, square)
            BY <1>2, <3>2, <4>1
          <6> QED
            BY <6>1, IndexIsPerfect, Zenon
        <5>2. x = r
          BY <4>1
        <5> HIDE DEF r
        <5> QED
          BY <5>1, <5>2
      <4>4. /\ \A i \in 1 .. n : IndexOf(x, keys[i]) \in 0 .. (IndexSize(x) - 1)
            /\ \A i, j \in 1 .. n : IndexOf(x, keys[i]) = IndexOf(x, keys[j]) => i = j
        BY <1>2, <4>3
      <4>5. ASSUME NEW j \in T, NEW l \in T
            PROVE  /\ IndexOf(x, v[j].key) \in 0 .. (IndexSize(x) - 1)
                   /\ IndexOf(x, v[j].key) = IndexOf(x, v[l].key) => j = l
        <5>1. PICK a \in 1 .. n, b \in 1 .. n :
                 keys[a] = v[j].key /\ keys[b] = v[l].key /\ (a = b => j = l)
          BY <1>2, <2>1
        <5>2. /\ IndexOf(x, keys[a]) = IndexOf(x, v[j].key)
              /\ IndexOf(x, keys[b]) = IndexOf(x, v[l].key)
          BY <5>1
        <5> QED
          BY <4>4, <5>1, <5>2
      <4> QED
        BY <4>2, <4>5
    <3> QED
      BY <3>1, <3>2
  <2>4. IndexSize(x) \in Nat
    BY <2>3, IndexAnswers
  <2>5. Moved(v, p, values', present', x)
    BY <2>2, <2>3, <2>4, PlaceMoves DEF T
  <2> QED
    BY <1>5, <2>1, <2>2, <2>3, <2>5 DEF PackMoves, n, T
<1> QED
  BY <1>1, <1>3, <1>4, <1>5

-----------------------------------------------------------------------------
(* The inductive invariant.                                                *)

\* The cell that holds a live key is the one it is looked up in, unless the slack
\* has it elsewhere for a key of the same hash.
Located ==
    \A i \in Iterated : LET k == values[i].key IN
       IF Hash[k] \in DOMAIN slack
       THEN slack[Hash[k]] = i - 1 \/ \E j \in Key \ {k} : Hash[j] = Hash[k]
       ELSE IndexSize(index) > 0 /\ IndexOf(index, k) = i - 1

\* Erased cells hold the default key.
Erased == \A i \in DOMAIN values : ~present[i] => values[i].key = DefaultKey

\* No two live cells share a key, and size() counts them.
Apart == \A i, j \in Iterated : values[i].key = values[j].key => i = j
Counted == size = Cardinality(Iterated)

\* All of it, as long as the program runs.
MapInv ==
    /\ TypeOK
    /\ IndexInv(index)
    /\ halted = "no" => Located /\ Erased /\ Apart /\ Counted

-----------------------------------------------------------------------------
(* What find() answers.                                                    *)

\* An answer f of find() for the key k.
Answer(k, f) ==
    /\ f \in {End, Dead, Fault} \/ f \in 0 .. (Len(values) - 1)
    /\ f >= 0 => values[f + 1].key = k
    /\ f >= 0 /\ ~present[f + 1] => ErasedDefault /\ k = DefaultKey
    /\ f \in {Dead, Fault} => Outlived
    /\ f = Fault => capacity = 0
    /\ k \in Live /\ ~Shadowed(k) => f >= 0 /\ present[f + 1]
    /\ k \notin Live => f = End \/ Outlived \/ (ErasedDefault /\ k = DefaultKey)

\* What the map looks at first: a position, or nothing.
LookedUp(k, i) ==
    /\ i \in {End, Fault} \/ i \in Nat
    /\ i = Fault => Outlived /\ capacity = 0 /\ k \notin Live
    /\ i \in Nat /\ i > Len(values) => Outlived /\ k \notin Live
    /\ i \in Nat /\ i < Len(values) /\ ~present[i + 1] =>
          Hash[k] \in DOMAIN slack /\ i = slack[Hash[k]]
    /\ k \in Live /\ ~Shadowed(k) => i \in Nat /\ i < Len(values) /\ present[i + 1] /\ values[i + 1].key = k

\* index() answers so.
LEMMA IndexLooksUp ==
    ASSUME TypeOK, IndexInv(index), Located, Erased, Apart, NEW k \in Key
    PROVE  Index(k) # {} /\ \A i \in Index(k) : LookedUp(k, i)
<1> DEFINE n == IndexSize(index)
           id == IndexOf(index, k)
           L == Len(values)
<1>1. /\ values \in Seq([key : Key, data : Data])
      /\ present \in Seq(BOOLEAN) /\ Len(present) = L
      /\ L \in Nat /\ DOMAIN values = 1 .. L
      /\ DOMAIN present = 1 .. L /\ capacity \in Nat /\ L <= capacity
      /\ \A h \in DOMAIN slack : slack[h] \in 0 .. (L - 1)
  BY DEF TypeOK
<1>2. n \in Nat /\ (n > 0 => id \in 0 .. n)
  BY IndexAnswers DEF TypeOK
<1>3. Outlived <=> n > L
  BY DEF Outlived
<1>4. ASSUME k \in Live
      PROVE  \E c \in 1 .. L : /\ present[c] /\ values[c].key = k
                               /\ IF Hash[k] \in DOMAIN slack THEN slack[Hash[k]] = c - 1 \/ Shadowed(k)
                                  ELSE n > 0 /\ id = c - 1
  <2>1. PICK c \in 1 .. L : present[c] /\ values[c].key = k /\ c \in Iterated
    BY <1>1, <1>4 DEF Live, Iterated
  <2>2. IF Hash[k] \in DOMAIN slack
        THEN slack[Hash[k]] = c - 1 \/ \E j \in Key \ {k} : Hash[j] = Hash[k]
        ELSE n > 0 /\ id = c - 1
    BY <2>1 DEF Located
  <2> QED
    BY <2>1, <2>2 DEF Shadowed
<1> HIDE DEF n, id, L
<1>5. CASE Hash[k] \in DOMAIN slack
  <2> DEFINE i == slack[Hash[k]]
  <2>1. Index(k) = {i} /\ i \in 0 .. (L - 1)
    BY <1>1, <1>5 DEF Index
  <2>2. k \in Live /\ ~Shadowed(k) => present[i + 1] /\ values[i + 1].key = k
    <3> SUFFICES ASSUME k \in Live, ~Shadowed(k) PROVE present[i + 1] /\ values[i + 1].key = k
      OBVIOUS
    <3>1. PICK c \in 1 .. L : present[c] /\ values[c].key = k /\ i = c - 1
      BY <1>4, <1>5
    <3>2. i + 1 = c
      BY <1>1, <3>1
    <3> QED
      BY <3>1, <3>2
  <2>3. i = slack[Hash[k]] /\ i # Fault /\ i \in Nat /\ i < L
    BY <1>1, <2>1 DEF Fault
  <2> HIDE DEF i
  <2>4. LookedUp(k, i)
    BY <1>1, <1>5, <2>2, <2>3 DEF LookedUp, L
  <2> QED
    BY <2>1, <2>4
<1>6. CASE Hash[k] \notin DOMAIN slack /\ n = 0
  <2>1. Index(k) = {End}
    BY <1>6 DEF Index, n
  <2>2. k \notin Live
    BY <1>2, <1>4, <1>6
  <2>3. End # Fault /\ End \notin Nat
    BY DEF End, Fault
  <2>4. LookedUp(k, End)
    BY <2>2, <2>3 DEF LookedUp
  <2> QED
    BY <2>1, <2>4
<1>7. CASE Hash[k] \notin DOMAIN slack /\ n # 0
  <2>1. n > 0 /\ id \in Nat /\ id <= n
    BY <1>2, <1>7
  <2>2. Index(k) = IF id < L THEN {IF present[id + 1] THEN id ELSE End}
                   ELSE IF capacity = 0 THEN {Fault} ELSE {End, id}
    BY <1>1, <1>7 DEF Index, n, id
  <2>3. k \in Live => id < L /\ present[id + 1] /\ values[id + 1].key = k
    <3> SUFFICES ASSUME k \in Live PROVE id < L /\ present[id + 1] /\ values[id + 1].key = k
      OBVIOUS
    <3>1. PICK c \in 1 .. L : present[c] /\ values[c].key = k /\ id = c - 1
      BY <1>4, <1>7
    <3>2. id + 1 = c /\ id < L
      BY <1>1, <2>1, <3>1
    <3> QED
      BY <3>1, <3>2
  <2>4. End # Fault /\ End \notin Nat /\ Fault \notin Nat /\ id # Fault
    BY <2>1 DEF End, Fault
  <2>5. CASE id < L /\ present[id + 1]
    <3>1. Index(k) = {id}
      BY <2>2, <2>5
    <3>2. LookedUp(k, id)
      BY <1>1, <2>1, <2>3, <2>4, <2>5 DEF LookedUp, L
    <3> QED
      BY <3>1, <3>2
  <2>6. CASE id < L /\ ~present[id + 1]
    <3>1. Index(k) = {End} /\ k \notin Live
      BY <2>2, <2>3, <2>6
    <3>2. LookedUp(k, End)
      BY <2>4, <3>1 DEF LookedUp
    <3> QED
      BY <3>1, <3>2
  <2>7. CASE ~(id < L) /\ capacity = 0
    <3>1. Index(k) = {Fault} /\ k \notin Live
      BY <2>2, <2>3, <2>7
    <3>2. Outlived
      BY <1>1, <1>3, <2>1, <2>7
    <3>3. LookedUp(k, Fault)
      BY <2>4, <2>7, <3>1, <3>2 DEF LookedUp
    <3> QED
      BY <3>1, <3>3
  <2>8. CASE ~(id < L) /\ capacity # 0
    <3>1. Index(k) = {End, id} /\ k \notin Live
      BY <2>2, <2>3, <2>8
    <3>2. LookedUp(k, End)
      BY <2>4, <3>1 DEF LookedUp
    <3>3. id > L => Outlived
      BY <1>1, <1>2, <1>3, <2>1
    <3>4. LookedUp(k, id)
      BY <1>1, <2>1, <2>4, <2>8, <3>1, <3>3 DEF LookedUp, L
    <3> QED
      BY <3>1, <3>2, <3>4
  <2> QED
    BY <2>5, <2>6, <2>7, <2>8
<1> QED
  BY <1>2, <1>5, <1>6, <1>7

\* find() has an answer, and only such.
LEMMA FindAnswers ==
    ASSUME TypeOK, IndexInv(index), Located, Erased, Apart, NEW k \in Key
    PROVE  Find(k) # {} /\ \A f \in Find(k) : Answer(k, f)
<1> DEFINE L == Len(values)
           found(i) == IF i < 0 THEN {i}
                       ELSE IF i < L THEN {IF values[i + 1].key = k THEN i ELSE End}
                       ELSE IF i = L THEN {End} ELSE {End, Dead}
<1>1. Find(k) = UNION {found(i) : i \in Index(k)}
  BY DEF Find
<1>2. /\ L \in Nat /\ DOMAIN values = 1 .. L /\ DOMAIN present = 1 .. L
      /\ \A h \in DOMAIN slack : slack[h] \in 0 .. (L - 1)
  BY DEF TypeOK
<1>3. Index(k) # {} /\ \A i \in Index(k) : LookedUp(k, i)
  BY IndexLooksUp
<1>4. ASSUME NEW i, LookedUp(k, i)
      PROVE  found(i) # {} /\ \A f \in found(i) : Answer(k, f)
  <2>1. End = -1 /\ Dead = -2 /\ Fault = -3
    BY DEF End, Dead, Fault
  <2>2. /\ i \in {-1, -3} \/ i \in Nat
        /\ i = -3 => Outlived /\ capacity = 0 /\ k \notin Live
        /\ i \in Nat /\ i > L => Outlived /\ k \notin Live
        /\ i \in Nat /\ i < L /\ ~present[i + 1] => Hash[k] \in DOMAIN slack /\ i = slack[Hash[k]]
        /\ k \in Live /\ ~Shadowed(k) =>
              i \in Nat /\ i < L /\ present[i + 1] /\ values[i + 1].key = k
    BY <1>4, <2>1 DEF LookedUp
  <2>a. /\ ~(End >= 0) /\ ~(Dead >= 0) /\ ~(Fault >= 0)
        /\ End # Dead /\ End # Fault /\ Dead # Fault
    BY <2>1
  <2>b. ASSUME NEW f, f \in {End, Dead, Fault}, ~(f >= 0), k \in Live => Shadowed(k),
               f # End => Outlived, f = Fault => capacity = 0
        PROVE  Answer(k, f)
    <3>1. f \in {Dead, Fault} => Outlived
      BY <2>a, <2>b
    <3>2. k \in Live /\ ~Shadowed(k) => f >= 0 /\ present[f + 1]
      BY <2>b, Zenon
    <3>3. k \notin Live => f = End \/ Outlived \/ (ErasedDefault /\ k = DefaultKey)
      BY <2>b
    <3> QED
      BY <2>b, <3>1, <3>2, <3>3, Zenon DEF Answer
  <2> HIDE DEF L
  <2>3. CASE i \in {-1, -3}
    <3>1. found(i) = {i} /\ ~(i \in Nat) /\ ~(i >= 0) /\ i # -2
      BY <2>3
    <3>2. i = End \/ i = Fault
      BY <2>1, <2>3
    <3>3. Answer(k, i)
      BY <2>1, <2>2, <2>a, <2>b, <3>1, <3>2
    <3> QED
      BY <3>1, <3>3
  <2>4. CASE i \in Nat /\ i < L /\ values[i + 1].key = k
    <3>1. /\ found(i) = {i} /\ i >= 0 /\ i \in 0 .. (L - 1)
          /\ i # -1 /\ i # -2 /\ i # -3 /\ i + 1 \in 1 .. L
      BY <1>2, <2>4
    <3>2. ~present[i + 1] => ErasedDefault /\ k = DefaultKey
      <4> SUFFICES ASSUME ~present[i + 1] PROVE ErasedDefault /\ k = DefaultKey
        OBVIOUS
      <4>1. values[i + 1].key = DefaultKey
        BY <1>2, <3>1 DEF Erased
      <4>2. Hash[k] \in DOMAIN slack /\ i = slack[Hash[k]]
        BY <2>2, <2>4
      <4> QED
        BY <2>4, <4>1, <4>2 DEF ErasedDefault
    <3>3. k \notin Live => ~present[i + 1]
      <4>1. present[i + 1] => i + 1 \in Iterated
        BY <1>2, <3>1 DEF Iterated
      <4> QED
        BY <2>4, <4>1 DEF Live
    <3>4. Answer(k, i)
      BY <2>1, <2>2, <2>4, <3>1, <3>2, <3>3 DEF Answer, L
    <3> QED
      BY <3>1, <3>4
  <2>5. CASE i \in Nat /\ i < L /\ values[i + 1].key # k
    <3>1. found(i) = {End}
      BY <2>5
    <3>2. k \in Live => Shadowed(k)
      BY <2>2, <2>5
    <3>3. Answer(k, End)
      BY <2>a, <2>b, <3>2
    <3> QED
      BY <3>1, <3>3
  <2>6. CASE i \in Nat /\ i = L
    <3>1. found(i) = {End}
      BY <1>2, <2>6
    <3>2. k \in Live => Shadowed(k)
      BY <1>2, <2>2, <2>6
    <3>3. Answer(k, End)
      BY <2>a, <2>b, <3>2
    <3> QED
      BY <3>1, <3>3
  <2>7. CASE i \in Nat /\ i > L
    <3>1. found(i) = {End, Dead}
      BY <1>2, <2>7
    <3>2. Outlived /\ k \notin Live
      BY <2>2, <2>7
    <3>3. Answer(k, End) /\ Answer(k, Dead)
      BY <2>a, <2>b, <3>2
    <3> QED
      BY <3>1, <3>3
  <2> QED
    BY <1>2, <2>2, <2>3, <2>4, <2>5, <2>6, <2>7
<1> HIDE DEF found
<1> QED
  BY <1>1, <1>3, <1>4

\* The invariant is strong enough for what a run checks of find().
LEMMA AnswersAreExact ==
    ASSUME MapInv
    PROVE  FindExact
<1> SUFFICES ASSUME halted = "no", NEW k \in Key
             PROVE  \/ /\ k \in Live
                       /\ \A f \in Find(k) : f >= 0 /\ present[f + 1] /\ values[f + 1].key = k
                    \/ /\ k \notin Live
                       /\ Find(k) = {End}
                    \/ Shadowed(k)
                    \/ Outlived /\ k \notin Live
                    \/ ErasedDefault /\ k = DefaultKey
  BY DEF FindExact
<1>1. Find(k) # {} /\ \A f \in Find(k) : Answer(k, f)
  BY FindAnswers DEF MapInv
<1>2. CASE k \in Live /\ ~Shadowed(k)
  BY <1>1, <1>2, Zenon DEF Answer
<1>3. CASE k \notin Live /\ ~Outlived /\ ~(ErasedDefault /\ k = DefaultKey)
  BY <1>1, <1>3 DEF Answer
<1> QED
  BY <1>2, <1>3

-----------------------------------------------------------------------------
(* Steps keep the invariant.                                               *)

\* A new map has the invariant.
LEMMA InitKeeps == Init => MapInv
<1> SUFFICES ASSUME Init PROVE MapInv
  OBVIOUS
<1>1. /\ values = <<>> /\ present = <<>> /\ capacity = 0 /\ slack = <<>> /\ index = EmptyIndex
      /\ size = 0 /\ halted = "no" /\ minimal \in BOOLEAN /\ square \in BOOLEAN
  BY DEF Init, NoSlack
<1>2. Iterated = {} /\ DOMAIN values = {} /\ Len(values) = 0 /\ Len(present) = 0
  BY <1>1 DEF Iterated
<1>3. TypeOK
  BY <1>1, <1>2 DEF TypeOK, EmptyIndex
<1>4. IndexInv(index)
  BY <1>1, EmptyIndexIsGood
<1>5. Located /\ Erased /\ Apart
  BY <1>2 DEF Located, Erased, Apart
<1>6. Counted
  BY <1>1, <1>2, FS_EmptySet DEF Counted
<1> QED
  BY <1>3, <1>4, <1>5, <1>6 DEF MapInv

\* A pack() that ends the program leaves the map in its types.
LEMMA PackEndsKeeps ==
    ASSUME MapInv, UNCHANGED kind,
           NEW v \in Seq(Pair), NEW p \in Seq(BOOLEAN), Len(v) = Len(p), Len(values) <= Len(v),
           NEW s \in Nat, NEW c \in Nat, Len(v) <= c, PackEnds(v, p, s, c)
    PROVE  MapInv'
<1>1. TypeOK /\ IndexInv(index)
  BY DEF MapInv
<1>2. /\ halted' \in {"assert", "exit"} /\ values' = v /\ present' = p /\ capacity' = c
      /\ size' = s /\ slack' = slack /\ index' = index
  BY DEF PackEnds
<1>3. minimal' = minimal /\ square' = square
  BY DEF kind
<1>4. \A h \in DOMAIN slack : slack[h] \in 0 .. (Len(v) - 1)
  BY <1>1 DEF TypeOK
<1>5. TypeOK'
  BY <1>1, <1>2, <1>3, <1>4 DEF TypeOK, Pair
<1>6. IndexInv(index)'
  BY <1>1, <1>2
<1> QED
  BY <1>2, <1>5, <1>6 DEF MapInv

\* One that does not finds every cell where it has put it.
LEMMA PackMovesKeeps ==
    ASSUME MapInv, halted = "no", UNCHANGED kind,
           NEW v \in Seq(Pair), NEW p \in Seq(BOOLEAN), Len(v) = Len(p),
           NEW s, NEW factor \in {1, 2}, PackMoves(v, p, s, factor)
    PROVE  MapInv'
<1> DEFINE n == IndexSize(index')
<1>1. TypeOK /\ IndexInv(index')
  BY DEF MapInv, PackMoves
<1>2. minimal' = minimal /\ square' = square /\ halted' = halted /\ slack' = <<>>
  BY DEF kind, PackMoves, NoSlack
<1>3. minimal \in BOOLEAN /\ square \in BOOLEAN
  BY <1>1 DEF TypeOK
<1>4. n \in Nat
  BY <1>1, <1>3, IndexAnswers
<1>5. IndexSize(index)' = n /\ \A k : IndexOf(index, k)' = IndexOf(index', k)
  BY <1>2 DEF IndexSize, IndexOf
<1>6. /\ values' \in Seq(Pair) /\ present' \in Seq(BOOLEAN)
      /\ Len(values') = n /\ Len(present') = n
      /\ \A i \in CellsOf(present') : /\ IndexOf(index', values'[i].key) = i - 1
                                      /\ \E j \in CellsOf(p) : values'[i] = v[j]
      /\ \A i \in DOMAIN values' : ~present'[i] => values'[i].key = DefaultKey
      /\ Cardinality(CellsOf(present')) = Cardinality(CellsOf(p))
  BY DEF PackMoves, Moved
<1>7. /\ Cardinality(CellsOf(p)) \in Nat /\ Cardinality(CellsOf(p)) = s
      /\ size' = s /\ capacity' = factor * n
  BY PackedKeysFacts DEF PackMoves
<1>8. DOMAIN values' = 1 .. n /\ Iterated' = CellsOf(present') /\ \A i \in Iterated' : i \in 1 .. n
  BY <1>6 DEF Iterated, CellsOf
<1>9. capacity' \in Nat /\ n <= capacity'
  BY <1>4, <1>7
<1>10. index'.h \in Hashes \cup {NoHash}
  BY <1>1 DEF IndexInv
<1> HIDE DEF n
<1>11. TypeOK'
  BY <1>1, <1>2, <1>3, <1>6, <1>7, <1>9, <1>10 DEF TypeOK, Pair
<1>12. Located'
  <2> SUFFICES ASSUME NEW i \in Iterated'
               PROVE  IndexSize(index)' > 0 /\ IndexOf(index, values[i].key)' = i - 1
    BY <1>2 DEF Located
  <2>1. i \in 1 .. n /\ IndexOf(index', values'[i].key) = i - 1
    BY <1>6, <1>8
  <2>2. IndexOf(index, values[i].key)' = IndexOf(index', values'[i].key)
    BY <1>2 DEF IndexOf
  <2> QED
    BY <1>4, <1>5, <2>1, <2>2
<1>13. Erased'
  BY <1>6 DEF Erased
<1>14. Apart'
  <2> SUFFICES ASSUME NEW i \in CellsOf(present'), NEW j \in CellsOf(present'),
                      values'[i].key = values'[j].key
               PROVE  i = j
    BY <1>8 DEF Apart
  <2>1. i - 1 = j - 1 /\ i \in Int /\ j \in Int
    BY <1>4, <1>6, <1>8
  <2> QED
    BY <2>1
<1>15. Counted'
  BY <1>6, <1>7, <1>8 DEF Counted
<1>16. IndexInv(index)'
  BY <1>1
<1> QED
  BY <1>11, <1>12, <1>13, <1>14, <1>15, <1>16 DEF MapInv

\* The vectors v1 and p1 are v and p with one more cell, which holds x.
Longer(v, p, x, v1, p1) ==
    /\ v1 \in Seq(Pair) /\ p1 \in Seq(BOOLEAN) /\ Len(v1) = Len(v) + 1 /\ Len(p1) = Len(v) + 1
    /\ Len(v) \in Nat /\ v1[Len(v) + 1] = x /\ p1[Len(v) + 1]
    /\ \A i \in 1 .. Len(v) : v1[i] = v[i] /\ p1[i] = p[i]
    /\ CellsOf(p) \subseteq 1 .. Len(v)
    /\ CellsOf(p1) = CellsOf(p) \cup {Len(v) + 1}
    /\ Cardinality(CellsOf(p)) \in Nat
    /\ Cardinality(CellsOf(p1)) = Cardinality(CellsOf(p)) + 1

\* push_back() on both vectors does that.
LEMMA OneMoreCell ==
    ASSUME NEW v \in Seq(Pair), NEW p \in Seq(BOOLEAN), Len(v) = Len(p), NEW x \in Pair
    PROVE  Longer(v, p, x, Append(v, x), Append(p, TRUE))
<1> DEFINE v1 == Append(v, x)
           p1 == Append(p, TRUE)
           L == Len(v)
           m == L + 1
<1>1. /\ v1 \in Seq(Pair) /\ p1 \in Seq(BOOLEAN) /\ Len(v1) = m /\ Len(p1) = m
      /\ L \in Nat /\ v1[m] = x /\ p1[m] = TRUE
      /\ \A i \in 1 .. L : v1[i] = v[i] /\ p1[i] = p[i]
      /\ DOMAIN p = 1 .. L /\ DOMAIN p1 = 1 .. m
  OBVIOUS
<1> HIDE DEF v1, p1, L
<1>2. CellsOf(p) \subseteq 1 .. L
  BY <1>1 DEF CellsOf
<1>3. CellsOf(p1) = CellsOf(p) \cup {m}
  BY <1>1 DEF CellsOf
<1>4. m \notin CellsOf(p)
  BY <1>1, <1>2
<1>5. IsFiniteSet(CellsOf(p)) /\ Cardinality(CellsOf(p)) \in Nat
  BY PackedKeysFacts
<1>6. Cardinality(CellsOf(p) \cup {m}) = Cardinality(CellsOf(p)) + 1
  BY <1>4, <1>5, FS_AddElement
<1>7. p1[m]
  BY <1>1
<1>8. Longer(v, p, x, v1, p1)
  BY <1>1, <1>2, <1>3, <1>4, <1>5, <1>6, <1>7 DEF Longer, L
<1> QED
  BY <1>8 DEF v1, p1

\* push_back() has room for one more cell.
LEMMA GrownHasRoom ==
    ASSUME TypeOK
    PROVE  Grown \in Nat /\ Len(values) + 1 <= Grown
<1>1. Len(values) \in Nat /\ capacity \in Nat /\ Len(values) <= capacity
  BY DEF TypeOK
<1> QED
  BY <1>1 DEF Grown

\* A new cell, at the end of the vector or after a pack().
AddsCell(k, d) ==
    /\ Hash[k] \notin DOMAIN slack
    /\ values' = Append(values, [key |-> k, data |-> d])
    /\ present' = Append(present, TRUE)
    /\ capacity' = Grown
    /\ slack' = [h \in DOMAIN slack \cup {Hash[k]} |-> IF h = Hash[k] THEN Len(values) ELSE slack[h]]
    /\ size' = size + 1
    /\ UNCHANGED <<index, halted>>

\* The three outcomes of adding a pair.
LEMMA AddDoes ==
    ASSUME MapInv, NEW k \in Key, NEW d \in Data, Add(k, d)
    PROVE  LET v == Append(values, [key |-> k, data |-> d])
               p == Append(present, TRUE)
           IN  \/ PackEnds(v, p, size + 1, Grown)
               \/ PackMoves(v, p, size + 1, 2)
               \/ AddsCell(k, d)
<1> DEFINE v == Append(values, [key |-> k, data |-> d])
           p == Append(present, TRUE)
<1>1. TypeOK /\ IndexInv(index)
  BY DEF MapInv
<1>2. /\ v \in Seq(Pair) /\ p \in Seq(BOOLEAN) /\ Len(v) = Len(p)
      /\ minimal \in BOOLEAN /\ square \in BOOLEAN
  BY <1>1 DEF TypeOK, Pair
<1>3. \/ Pack(v, p, size + 1, Grown, 2)
      \/ AddsCell(k, d)
  BY DEF Add, AddsCell
<1> HIDE DEF v, p
<1>4. Pack(v, p, size + 1, Grown, 2) =>
         PackEnds(v, p, size + 1, Grown) \/ PackMoves(v, p, size + 1, 2)
  BY <1>1, <1>2, PackDoes
<1> QED
  BY <1>3, <1>4 DEF v, p

\* A cell added with its slack entry is located, and shares no hash in the slack.
LEMMA AddsCellKeeps ==
    ASSUME MapInv, halted = "no", UNCHANGED kind, NEW k \in Key, NEW d \in Data,
           End \in Find(k), AddsCell(k, d)
    PROVE  MapInv'
<1> DEFINE x == [key |-> k, data |-> d]
           L == Len(values)
           m == L + 1
<1>1. /\ TypeOK /\ IndexInv(index) /\ Located /\ Erased /\ Apart /\ Counted
  BY DEF MapInv
<1>2. /\ values \in Seq(Pair) /\ present \in Seq(BOOLEAN)
      /\ Len(present) = L /\ x \in Pair /\ size \in Nat
      /\ minimal \in BOOLEAN /\ square \in BOOLEAN
      /\ \A h \in DOMAIN slack : slack[h] \in 0 .. (L - 1)
      /\ index.h \in Hashes \cup {NoHash}
  BY <1>1 DEF TypeOK, Pair
<1>3. /\ values' = Append(values, x) /\ present' = Append(present, TRUE) /\ capacity' = Grown
      /\ slack' = [h \in DOMAIN slack \cup {Hash[k]} |-> IF h = Hash[k] THEN L ELSE slack[h]]
      /\ size' = size + 1 /\ index' = index /\ halted' = "no"
      /\ Hash[k] \notin DOMAIN slack
      /\ minimal' = minimal /\ square' = square
  BY DEF AddsCell, kind
<1>4. /\ values' \in Seq(Pair) /\ present' \in Seq(BOOLEAN)
      /\ Len(values') = m /\ Len(present') = m
      /\ L \in Nat /\ values'[m] = x /\ present'[m]
      /\ \A i \in 1 .. L : values'[i] = values[i] /\ present'[i] = present[i]
      /\ CellsOf(present) \subseteq 1 .. L
      /\ CellsOf(present') = CellsOf(present) \cup {m}
      /\ Cardinality(CellsOf(present')) = Cardinality(CellsOf(present)) + 1
  <2>1. Longer(values, present, x, values', present')
    BY <1>2, <1>3, OneMoreCell
  <2> QED
    BY <2>1 DEF Longer
<1>5. capacity' \in Nat /\ m <= capacity'
  BY <1>1, <1>3, GrownHasRoom
<1>6. /\ Iterated = CellsOf(present) /\ Iterated' = CellsOf(present')
      /\ DOMAIN values' = 1 .. m /\ DOMAIN values = 1 .. L
  BY <1>2, <1>4 DEF Iterated, CellsOf
<1>7. \A i \in Iterated : values[i].key # k
  <2>1. Answer(k, End) /\ ~(End >= 0) /\ ~Shadowed(k)
    BY <1>1, <1>3, FindAnswers DEF End, Shadowed
  <2>2. k \notin Live
    BY <2>1 DEF Answer
  <2> QED
    BY <2>2 DEF Live
<1>8. values'[m].key = k
  BY <1>4
<1> HIDE DEF x, L
<1>9. TypeOK'
  <2>1. \A h \in DOMAIN slack' : slack'[h] \in 0 .. L
    BY <1>2, <1>3, <1>4
  <2>2. \A h \in DOMAIN slack' : slack'[h] \in 0 .. (m - 1)
    BY <1>4, <2>1
  <2>3. size' \in Nat
    BY <1>2, <1>3
  <2> QED
    BY <1>2, <1>3, <1>4, <1>5, <2>2, <2>3 DEF TypeOK, Pair
<1>10. IndexInv(index)'
  BY <1>1, <1>3
<1>11. Located'
  <2> DEFINE placed(i, j) ==
               IF Hash[j] \in DOMAIN slack'
               THEN slack'[Hash[j]] = i - 1 \/ \E l \in Key \ {j} : Hash[l] = Hash[j]
               ELSE IndexSize(index) > 0 /\ IndexOf(index, j) = i - 1
  <2>1. IndexSize(index)' = IndexSize(index) /\ \A j : IndexOf(index, j)' = IndexOf(index, j)
    BY <1>3 DEF IndexSize, IndexOf
  <2>2. ASSUME NEW i \in Iterated'
        PROVE  placed(i, values'[i].key)
    <3>1. CASE i = m
      <4>1. values'[i].key = k /\ slack'[Hash[k]] = i - 1 /\ Hash[k] \in DOMAIN slack'
        BY <1>3, <1>4, <1>8, <3>1
      <4> QED
        BY <4>1
    <3>2. CASE i # m
      <4> DEFINE j == values[i].key
      <4>1. i \in Iterated /\ values'[i].key = j /\ j # k /\ k \in Key
        BY <1>4, <1>6, <1>7, <2>2, <3>2
      <4>2. IF Hash[j] \in DOMAIN slack
            THEN slack[Hash[j]] = i - 1 \/ \E l \in Key \ {j} : Hash[l] = Hash[j]
            ELSE IndexSize(index) > 0 /\ IndexOf(index, j) = i - 1
        BY <1>1, <4>1 DEF Located
      <4> HIDE DEF j
      <4>3. CASE Hash[j] = Hash[k]
        <5>1. \E l \in Key \ {j} : Hash[l] = Hash[j]
          BY <4>1, <4>3
        <5>2. Hash[j] \in DOMAIN slack'
          BY <1>3, <4>3
        <5>3. placed(i, j)
          BY <5>1, <5>2
        <5> QED
          BY <4>1, <5>3
      <4>4. CASE Hash[j] # Hash[k]
        <5>1. /\ Hash[j] \in DOMAIN slack' <=> Hash[j] \in DOMAIN slack
              /\ Hash[j] \in DOMAIN slack => slack'[Hash[j]] = slack[Hash[j]]
          BY <1>3, <4>4
        <5>2. placed(i, j)
          BY <4>2, <5>1
        <5> QED
          BY <4>1, <5>2
      <4> QED
        BY <4>3, <4>4
    <3> QED
      BY <3>1, <3>2
  <2>3. \A i : IndexOf(index, values[i].key)' = IndexOf(index, values'[i].key)
    BY <1>3 DEF IndexOf
  <2> QED
    BY <2>1, <2>2, <2>3 DEF Located
<1>12. Erased'
  <2> SUFFICES ASSUME NEW i \in 1 .. m, ~present'[i] PROVE values'[i].key = DefaultKey
    BY <1>6 DEF Erased
  <2>1. i \in 1 .. L
    BY <1>4
  <2>2. values'[i] = values[i] /\ ~present[i]
    BY <1>4, <2>1
  <2> QED
    BY <1>1, <1>6, <2>1, <2>2 DEF Erased
<1>13. Apart'
  <2> SUFFICES ASSUME NEW i \in Iterated', NEW j \in Iterated', values'[i].key = values'[j].key
               PROVE  i = j
    BY DEF Apart
  <2>1. \A l \in Iterated : l \in 1 .. L /\ values'[l] = values[l] /\ values[l].key # k
    BY <1>4, <1>6, <1>7
  <2>2. (i \in Iterated \/ i = m) /\ (j \in Iterated \/ j = m)
    BY <1>4, <1>6
  <2>3. CASE i \in Iterated /\ j \in Iterated
    BY <1>1, <2>1, <2>3 DEF Apart
  <2>4. CASE i = m \/ j = m
    BY <1>8, <2>1, <2>2, <2>4
  <2> QED
    BY <2>2, <2>3, <2>4
<1>14. Counted'
  BY <1>1, <1>3, <1>4, <1>6 DEF Counted
<1> QED
  BY <1>3, <1>9, <1>10, <1>11, <1>12, <1>13, <1>14 DEF MapInv

\* Adding a pair that was not found keeps the invariant.
LEMMA AddKeeps ==
    ASSUME MapInv, halted = "no", UNCHANGED kind, NEW k \in Key, NEW d \in Data,
           End \in Find(k), Add(k, d)
    PROVE  MapInv'
<1> DEFINE x == [key |-> k, data |-> d]
           v == Append(values, x)
           p == Append(present, TRUE)
<1>1. /\ TypeOK /\ values \in Seq(Pair) /\ present \in Seq(BOOLEAN)
      /\ Len(present) = Len(values) /\ x \in Pair
      /\ size \in Nat
  BY DEF MapInv, TypeOK, Pair
<1>2. /\ v \in Seq(Pair) /\ p \in Seq(BOOLEAN) /\ Len(v) = Len(p)
      /\ Len(v) = Len(values) + 1 /\ Len(values) \in Nat
  <2>1. Longer(values, present, x, v, p)
    BY <1>1, OneMoreCell
  <2> HIDE DEF v, p
  <2> QED
    BY <2>1 DEF Longer
<1>3. Grown \in Nat /\ Len(v) <= Grown /\ size + 1 \in Nat /\ Len(values) <= Len(v)
  BY <1>1, <1>2, GrownHasRoom
<1>4. PackEnds(v, p, size + 1, Grown) \/ PackMoves(v, p, size + 1, 2) \/ AddsCell(k, d)
  BY AddDoes
<1> HIDE DEF v, p
<1>5. CASE PackEnds(v, p, size + 1, Grown)
  BY <1>2, <1>3, <1>5, PackEndsKeeps
<1>6. CASE PackMoves(v, p, size + 1, 2)
  BY <1>2, <1>6, PackMovesKeeps
<1>7. CASE AddsCell(k, d)
  BY <1>7, AddsCellKeeps
<1> QED
  BY <1>4, <1>5, <1>6, <1>7

\* So does a step that ends the program and does nothing else.
LEMMA HaltKeeps ==
    ASSUME MapInv, UNCHANGED kind, NEW why \in {"crash", "assert"}, Halt(why)
    PROVE  MapInv'
<1>1. /\ TypeOK /\ IndexInv(index)
      /\ halted' = why /\ values' = values /\ present' = present /\ capacity' = capacity
      /\ slack' = slack /\ index' = index /\ size' = size
      /\ minimal' = minimal /\ square' = square
  BY DEF MapInv, Halt, kind
<1>2. TypeOK'
  BY <1>1 DEF TypeOK
<1>3. IndexInv(index)' /\ halted' # "no"
  BY <1>1
<1> QED
  BY <1>2, <1>3 DEF MapInv

\* Cells that stay, with their keys, are still located and apart.
LEMMA FewerCellsKeep ==
    ASSUME Located, Apart, UNCHANGED kind, slack' = slack, index' = index,
           Iterated' \subseteq Iterated,
           \A i \in Iterated' : values'[i].key = values[i].key
    PROVE  Located' /\ Apart'
<1>1. minimal' = minimal
  BY DEF kind
<1>2. IndexSize(index)' = IndexSize(index) /\ \A i : IndexOf(index, values[i].key)' = IndexOf(index, values'[i].key)
  BY <1>1 DEF IndexSize, IndexOf
<1>3. Located'
  <2> SUFFICES ASSUME NEW i \in Iterated'
               PROVE  IF Hash[values'[i].key] \in DOMAIN slack
                      THEN \/ slack[Hash[values'[i].key]] = i - 1
                           \/ \E j \in Key \ {values'[i].key} : Hash[j] = Hash[values'[i].key]
                      ELSE IndexSize(index) > 0 /\ IndexOf(index, values'[i].key) = i - 1
    BY <1>2 DEF Located
  <2>1. i \in Iterated /\ values'[i].key = values[i].key
    OBVIOUS
  <2> QED
    BY <2>1 DEF Located
<1>4. Apart'
  BY DEF Apart
<1> QED
  BY <1>3, <1>4

\* An assignment keeps every key where it is.
LEMMA AssignKeeps ==
    ASSUME MapInv, halted = "no", UNCHANGED kind, NEW k \in Key, NEW d \in Data,
           NEW f \in 0 .. (Len(values) - 1),
           values' = [values EXCEPT ![f + 1].data = d],
           UNCHANGED <<present, capacity, slack, index, size, halted>>
    PROVE  MapInv' /\ Iterated' = Iterated
<1> DEFINE L == Len(values)
<1>1. TypeOK /\ IndexInv(index) /\ Located /\ Erased /\ Apart /\ Counted
  BY DEF MapInv
<1>2. /\ values \in Seq(Pair) /\ L \in Nat
      /\ DOMAIN values = 1 .. L /\ values \in [1 .. L -> Pair]
      /\ f + 1 \in 1 .. L
  <2>1. values \in Seq(Pair)
    BY <1>1 DEF TypeOK, Pair
  <2>2. L \in Nat /\ DOMAIN values = 1 .. L /\ values \in [1 .. L -> Pair]
    BY <2>1, LenProperties
  <2> HIDE DEF L
  <2>3. f \in 0 .. (L - 1)
    BY DEF L
  <2> QED
    BY <2>1, <2>2, <2>3
<1>3. /\ present' = present /\ capacity' = capacity /\ slack' = slack /\ index' = index
      /\ size' = size /\ halted' = halted /\ minimal' = minimal /\ square' = square
  BY DEF kind
<1>4. /\ values' \in [1 .. L -> Pair]
      /\ \A i \in 1 .. L : values'[i].key = values[i].key
  <2>1. /\ values' = [values EXCEPT ![f + 1] = [values[f + 1] EXCEPT !.data = d]]
        /\ values[f + 1] \in Pair
    BY <1>2
  <2>2. /\ [values[f + 1] EXCEPT !.data = d] \in Pair
        /\ [values[f + 1] EXCEPT !.data = d].key = values[f + 1].key
    BY <2>1 DEF Pair
  <2> QED
    BY <1>2, <2>1, <2>2
<1>5. values' \in Seq(Pair) /\ Len(values') = L /\ DOMAIN values' = 1 .. L
  <2>1. values' \in Seq(Pair)
    BY <1>2, <1>4
  <2>2. DOMAIN values' = 1 .. L
    BY <1>4
  <2> HIDE DEF L
  <2> QED
    BY <1>2, <2>1, <2>2, LenProperties
<1> HIDE DEF L
<1>6. Iterated' = Iterated
  BY <1>2, <1>3, <1>5 DEF Iterated
<1>7. TypeOK'
  BY <1>1, <1>3, <1>5 DEF TypeOK, Pair, L
<1>8. Located' /\ Apart'
  <2>1. \A i \in Iterated' : values'[i].key = values[i].key
    BY <1>2, <1>4, <1>6 DEF Iterated
  <2> QED
    BY <1>1, <1>3, <1>6, <2>1, FewerCellsKeep
<1>9. Erased'
  BY <1>1, <1>2, <1>3, <1>4, <1>5 DEF Erased
<1>10. Counted'
  BY <1>1, <1>3, <1>6 DEF Counted
<1>11. IndexInv(index)'
  BY <1>1, <1>3
<1> QED
  BY <1>6, <1>7, <1>8, <1>9, <1>10, <1>11 DEF MapInv

\* An erased cell is no longer live and holds the default key.
LEMMA EraseKeeps ==
    ASSUME MapInv, halted = "no", UNCHANGED kind, NEW k \in Key,
           NEW f \in 0 .. (Len(values) - 1), present[f + 1],
           present' = [present EXCEPT ![f + 1] = FALSE],
           values' = [values EXCEPT ![f + 1] = DefaultValue],
           size' = size - 1,
           UNCHANGED <<capacity, slack, index, halted>>
    PROVE  /\ MapInv' /\ Iterated' = Iterated \ {f + 1} /\ f + 1 \in Iterated
           /\ \A i \in Iterated' : values'[i] = values[i]
<1> DEFINE L == Len(values)
           m == f + 1
<1>1. TypeOK /\ IndexInv(index) /\ Located /\ Erased /\ Apart /\ Counted
  BY DEF MapInv
<1>2. /\ values \in Seq(Pair) /\ L \in Nat /\ values \in [1 .. L -> Pair]
      /\ present \in [1 .. L -> BOOLEAN] /\ m \in 1 .. L
  <2>1. values \in Seq(Pair) /\ present \in Seq(BOOLEAN) /\ Len(present) = L
    BY <1>1 DEF TypeOK, Pair
  <2>2. L \in Nat /\ values \in [1 .. L -> Pair]
    BY <2>1, LenProperties
  <2>3. present \in [1 .. L -> BOOLEAN]
    BY <2>1, LenProperties
  <2> HIDE DEF L
  <2>4. f \in 0 .. (L - 1)
    BY DEF L
  <2> QED
    BY <2>1, <2>2, <2>3, <2>4
<1>3. /\ capacity' = capacity /\ slack' = slack /\ index' = index
      /\ halted' = halted /\ minimal' = minimal /\ square' = square
      /\ present' = [present EXCEPT ![m] = FALSE]
      /\ values' = [values EXCEPT ![m] = DefaultValue]
  BY DEF kind
<1>4. DefaultValue \in Pair /\ DefaultValue.key = DefaultKey
  BY MapAssumption DEF DefaultValue, Pair
<1> HIDE DEF m
<1>5. /\ values' \in [1 .. L -> Pair] /\ present' \in [1 .. L -> BOOLEAN]
      /\ values'[m] = DefaultValue /\ ~present'[m]
      /\ \A i \in 1 .. L : i # m => values'[i] = values[i] /\ present'[i] = present[i]
  BY <1>2, <1>3, <1>4
<1>6. /\ values' \in Seq(Pair) /\ present' \in Seq(BOOLEAN)
      /\ DOMAIN values' = 1 .. L /\ DOMAIN present' = 1 .. L
  BY <1>2, <1>5
<1> HIDE DEF L
<1>7. Len(values') = L /\ Len(present') = L
  BY <1>2, <1>6, LenProperties
<1>8. DOMAIN values = 1 .. L
  BY <1>2
<1>9. Iterated' = Iterated \ {m} /\ m \in Iterated
  <2>1. \A i : i \in Iterated <=> i \in 1 .. L /\ present[i]
    BY <1>8 DEF Iterated
  <2>2. \A i : i \in Iterated' <=> i \in 1 .. L /\ present'[i]
    BY <1>6 DEF Iterated
  <2>3. present[m]
    BY DEF m
  <2> QED
    BY <1>2, <1>5, <2>1, <2>2, <2>3
<1>10. \A i \in Iterated' : i \in 1 .. L /\ i # m /\ values'[i] = values[i]
  BY <1>5, <1>8, <1>9 DEF Iterated
<1>11. Located' /\ Apart'
  <2>1. /\ Iterated' \subseteq Iterated
        /\ \A i \in Iterated' : values'[i].key = values[i].key
    BY <1>9, <1>10
  <2> QED
    BY <1>1, <1>3, <2>1, FewerCellsKeep
<1>12. Erased'
  <2> SUFFICES ASSUME NEW i \in 1 .. L, ~present'[i] PROVE values'[i].key = DefaultKey
    BY <1>6 DEF Erased
  <2>1. CASE i = m
    BY <1>4, <1>5, <2>1
  <2>2. CASE i # m
    BY <1>1, <1>5, <1>8, <2>2 DEF Erased
  <2> QED
    BY <2>1, <2>2
<1>13. Counted' /\ size' \in Nat
  <2>1. IsFiniteSet(Iterated)
    <3>1. IsFiniteSet(1 .. L)
      BY <1>2, FS_Interval
    <3>2. Iterated \subseteq 1 .. L
      BY <1>8 DEF Iterated
    <3> QED
      BY <3>1, <3>2, FS_Subset
  <2>2. Cardinality(Iterated \ {m}) = Cardinality(Iterated) - 1
    BY <1>9, <2>1, FS_RemoveElement
  <2>3. IsFiniteSet(Iterated \ {m})
    BY <2>1, FS_Subset
  <2>4. Cardinality(Iterated \ {m}) \in Nat
    BY <2>3, FS_CardinalityType
  <2> QED
    BY <1>1, <1>9, <2>2, <2>4 DEF Counted
<1>14. TypeOK'
  <2>1. \A h \in DOMAIN slack : slack[h] \in 0 .. (L - 1)
    BY <1>1 DEF TypeOK, L
  <2> QED
    BY <1>1, <1>3, <1>6, <1>7, <1>13, <2>1 DEF TypeOK, Pair, L
<1>15. IndexInv(index)'
  BY <1>1, <1>3
<1> QED
  BY <1>3, <1>9, <1>10, <1>11, <1>12, <1>13, <1>14, <1>15 DEF MapInv, m

\* A cleared map has no cells.
LEMMA ClearKeeps ==
    ASSUME MapInv, halted = "no", Clear
    PROVE  MapInv' /\ Iterated' = {}
<1>1. TypeOK /\ IndexInv(index)
  BY DEF MapInv
<1>2. /\ values' = <<>> /\ present' = <<>> /\ slack' = <<>>
      /\ index' = IndexClear(index) /\ size' = 0
      /\ capacity' = capacity /\ halted' = halted /\ minimal' = minimal /\ square' = square
  BY DEF Clear, Running, kind, NoSlack
<1>3. IndexInv(index')
  BY <1>1, <1>2, IndexClearIsGood
<1>4. index'.h \in Hashes \cup {NoHash}
  BY <1>3 DEF IndexInv
<1>5. TypeOK'
  BY <1>1, <1>2, <1>4 DEF TypeOK
<1>6. Iterated' = {} /\ DOMAIN values' = {}
  BY <1>2 DEF Iterated
<1>7. Located' /\ Erased' /\ Apart'
  BY <1>6 DEF Located, Erased, Apart
<1>8. Counted'
  BY <1>2, <1>6, FS_EmptySet DEF Counted
<1>9. IndexInv(index)'
  BY <1>3
<1> QED
  BY <1>5, <1>6, <1>7, <1>8, <1>9 DEF MapInv

\* A rehash() is a pack(), or finds nothing to do.
LEMMA RehashKeeps ==
    ASSUME MapInv, halted = "no", Rehash
    PROVE  MapInv'
<1>1. TypeOK /\ IndexInv(index) /\ Located /\ Erased /\ Apart /\ Counted
  BY DEF MapInv
<1>2. UNCHANGED kind /\ minimal' = minimal /\ square' = square
  BY DEF Rehash, Running, kind
<1>3. CASE values = <<>>
  <2>1. /\ values' = <<>> /\ present' = present
        /\ slack' = <<>> /\ index' = index /\ size' = size
        /\ capacity' = 0 /\ halted' = halted /\ values = <<>>
    BY <1>3 DEF Rehash, NoSlack
  <2>2. Len(values) = 0 /\ Len(values') = 0 /\ DOMAIN values' = {} /\ DOMAIN values = {}
    BY <2>1
  <2>3. Iterated' = {} /\ Iterated = {}
    BY <2>2 DEF Iterated
  <2>4. TypeOK'
    BY <1>1, <1>2, <2>1, <2>2 DEF TypeOK
  <2>5. Located' /\ Erased' /\ Apart'
    BY <2>2, <2>3 DEF Located, Erased, Apart
  <2>6. Counted' /\ IndexInv(index)'
    BY <1>1, <2>1, <2>3 DEF Counted
  <2> QED
    BY <2>4, <2>5, <2>6 DEF MapInv
<1>4. CASE values # <<>>
  <2>1. Pack(values, present, size, capacity, 1)
    BY <1>4 DEF Rehash
  <2>2. /\ values \in Seq(Pair) /\ present \in Seq(BOOLEAN) /\ Len(values) = Len(present)
        /\ size \in Nat /\ capacity \in Nat /\ Len(values) <= capacity /\ Len(values) \in Nat
        /\ minimal \in BOOLEAN /\ square \in BOOLEAN
    BY <1>1 DEF TypeOK, Pair
  <2>3. PackEnds(values, present, size, capacity) \/ PackMoves(values, present, size, 1)
    BY <1>1, <2>1, <2>2, PackDoes
  <2>4. CASE PackEnds(values, present, size, capacity)
    BY <1>2, <2>2, <2>4, PackEndsKeeps
  <2>5. CASE PackMoves(values, present, size, 1)
    BY <1>2, <2>2, <2>5, PackMovesKeeps
  <2> QED
    BY <2>3, <2>4, <2>5
<1> QED
  BY <1>3, <1>4

\* What insert(), operator[] and erase() do once find() has answered.
LEMMA InsertSteps ==
    ASSUME MapInv, NEW k \in Key, NEW d \in Data, Insert(k, d)
    PROVE  /\ halted = "no" /\ UNCHANGED kind
           /\ \/ End \in Find(k) /\ Add(k, d)
              \/ Answer(k, Fault) /\ Halt("crash")
<1>1. halted = "no" /\ UNCHANGED kind
  BY DEF Insert, Running
<1>2. \A f \in Find(k) : Answer(k, f)
  BY <1>1, FindAnswers DEF MapInv
<1> QED
  BY <1>1, <1>2 DEF Insert

\* The same of operator[].
LEMMA AssignSteps ==
    ASSUME MapInv, NEW k \in Key, NEW d \in Data, Assign(k, d)
    PROVE  /\ halted = "no" /\ UNCHANGED kind
           /\ \/ End \in Find(k) /\ Add(k, d)
              \/ Answer(k, Fault) /\ Halt("crash")
              \/ \E f \in 0 .. (Len(values) - 1) :
                    /\ Answer(k, f)
                    /\ values' = [values EXCEPT ![f + 1].data = d]
                    /\ UNCHANGED <<present, capacity, slack, index, size, halted>>
<1>1. halted = "no" /\ UNCHANGED kind
  BY DEF Assign, Running
<1>2. \A f \in Find(k) : Answer(k, f)
  BY <1>1, FindAnswers DEF MapInv
<1>3. PICK f \in Find(k) :
          \/ f = End /\ Add(k, d)
          \/ f = Fault /\ Halt("crash")
          \/ /\ f >= 0
             /\ values' = [values EXCEPT ![f + 1].data = d]
             /\ UNCHANGED <<present, capacity, slack, index, size, halted>>
  BY DEF Assign
<1>4. f >= 0 => f \in 0 .. (Len(values) - 1)
  BY <1>2, <1>3 DEF Answer, End, Dead, Fault
<1> QED
  BY <1>1, <1>2, <1>3, <1>4

\* The same of erase().
LEMMA EraseSteps ==
    ASSUME MapInv, NEW k \in Key, Erase(k)
    PROVE  /\ halted = "no" /\ UNCHANGED kind
           /\ \/ Answer(k, Fault) /\ Halt("crash")
              \/ Answer(k, Dead) /\ Halt("assert")
              \/ \E f \in 0 .. (Len(values) - 1) :
                    Answer(k, f) /\ ~present[f + 1] /\ Halt("assert")
              \/ \E f \in 0 .. (Len(values) - 1) :
                    /\ Answer(k, f) /\ present[f + 1]
                    /\ present' = [present EXCEPT ![f + 1] = FALSE]
                    /\ values' = [values EXCEPT ![f + 1] = DefaultValue]
                    /\ size' = size - 1
                    /\ UNCHANGED <<capacity, slack, index, halted>>
<1>1. halted = "no" /\ UNCHANGED kind
  BY DEF Erase, Running
<1>2. \A f \in Find(k) : Answer(k, f)
  BY <1>1, FindAnswers DEF MapInv
<1>3. PICK f \in Find(k) :
          \/ f = Fault /\ Halt("crash")
          \/ f = Dead /\ Halt("assert")
          \/ f >= 0 /\ ~present[f + 1] /\ Halt("assert")
          \/ /\ f >= 0
             /\ present[f + 1]
             /\ present' = [present EXCEPT ![f + 1] = FALSE]
             /\ values' = [values EXCEPT ![f + 1] = DefaultValue]
             /\ size' = size - 1
             /\ UNCHANGED <<capacity, slack, index, halted>>
  BY DEF Erase
<1>4. f >= 0 => f \in 0 .. (Len(values) - 1)
  BY <1>2, <1>3 DEF Answer, End, Dead, Fault
<1> QED
  BY <1>1, <1>2, <1>3, <1>4

\* Every step keeps the invariant.
LEMMA StepKeeps == MapInv /\ [Next]_vars => MapInv'
<1> SUFFICES ASSUME MapInv, [Next]_vars PROVE MapInv'
  OBVIOUS
<1>1. ASSUME NEW k \in Key, NEW d \in Data, Insert(k, d) PROVE MapInv'
  BY <1>1, InsertSteps, AddKeeps, HaltKeeps
<1>2. ASSUME NEW k \in Key, NEW d \in Data, Assign(k, d) PROVE MapInv'
  BY <1>2, AssignSteps, AddKeeps, HaltKeeps, AssignKeeps
<1>3. ASSUME NEW k \in Key, Erase(k) PROVE MapInv'
  BY <1>3, EraseSteps, HaltKeeps, EraseKeeps
<1>4. CASE Clear
  BY <1>4, ClearKeeps DEF Clear, Running
<1>5. CASE Rehash
  BY <1>5, RehashKeeps DEF Rehash, Running
<1>6. CASE UNCHANGED vars
  <2>1. UNCHANGED <<minimal, square, values, present, capacity, slack, index, size, halted>>
    BY <1>6 DEF vars
  <2>2. TypeOK' /\ IndexInv(index)'
    BY <2>1 DEF MapInv, TypeOK
  <2>3. Located' <=> Located
    BY <2>1 DEF Located, Iterated, IndexSize, IndexOf
  <2>4. (Erased' <=> Erased) /\ (Apart' <=> Apart) /\ (Counted' <=> Counted)
    BY <2>1 DEF Erased, Apart, Counted, Iterated
  <2> QED
    BY <2>1, <2>2, <2>3, <2>4 DEF MapInv
<1> QED
  BY <1>1, <1>2, <1>3, <1>4, <1>5, <1>6 DEF Next

\* In every reachable state, whatever the keys, the hash functions and the sizes.
THEOREM MapInvariant == Spec => []MapInv
<1>1. Init => MapInv
  BY InitKeeps
<1>2. MapInv /\ [Next]_vars => MapInv'
  BY StepKeeps
<1> QED
  BY <1>1, <1>2, PTL DEF Spec

\* Find is exact in every reachable state but for the three faults: with an index
\* that is perfect and a pack() that moves every live cell to its place.
THEOREM MapFindExact == Spec => []FindExact
<1>1. MapInv => FindExact
  BY AnswersAreExact
<1> QED
  BY <1>1, MapInvariant, PTL

\* No key has two cells and size() counts the live ones.
THEOREM MapOneCellEach == Spec => []OneCellEach
<1>1. MapInv => OneCellEach
  <2> SUFFICES ASSUME MapInv PROVE OneCellEach
    OBVIOUS
  <2>1. \A i \in DOMAIN values : present[i] => i \in Iterated
    BY DEF Iterated
  <2> QED
    BY <2>1 DEF OneCellEach, MapInv, Apart, Counted
<1> QED
  BY <1>1, MapInvariant, PTL

-----------------------------------------------------------------------------
(* When the program is ended.                                              *)

\* Seeds are found for every sequence of keys: a run checks it of its hash functions.
SeedsWork ==
    \A keys \in Seq(Key), sq \in BOOLEAN :
        keys # <<>> /\ IsInjective(keys) => SeedFound(keys, sq)

\* A pack() that found no seed.
LEMMA NoSeedMeans ==
    ASSUME SeedsWork, square \in BOOLEAN,
           NEW v \in Seq(Pair), NEW p \in Seq(BOOLEAN), Len(v) = Len(p), NEW s, NEW c,
           PackEnds(v, p, s, c)
    PROVE  ExitsOnlyWhen'
<1> SUFFICES ASSUME halted' = "exit", size' # 2
             PROVE  \E j, k \in Live' : j # k /\ Hash[j] = Hash[k]
  BY DEF ExitsOnlyWhen
<1>1. /\ values' = v /\ present' = p /\ size' = s /\ KeysApart(v, p) /\ NoSeed(v, p, s)
  BY DEF PackEnds
<1>2. PICK keys \in Seq(Key) :
         /\ Len(keys) = s /\ keys # <<>> /\ IsInjective(keys)
         /\ \A i \in 1 .. s : \E j \in CellsOf(p) : keys[i] = v[j].key
         /\ \A h \in Hashes : ~Mapping(keys, h, square)
  BY <1>1 DEF NoSeed
<1>3. DOMAIN keys = 1 .. s
  BY <1>2
<1>4. Len(keys) # 2
  BY <1>1, <1>2
<1>5. PICK i, j \in DOMAIN keys : i # j /\ Hash[keys[i]] = Hash[keys[j]]
  <2>1. \/ \E i, j \in DOMAIN keys : i # j /\ Hash[keys[i]] = Hash[keys[j]]
        \/ \E h \in Hashes : Mapping(keys, h, square)
    BY <1>2, <1>4 DEF SeedsWork, SeedFound
  <2> QED
    BY <1>2, <2>1
<1>6. keys[i] # keys[j]
  BY <1>2, <1>5 DEF IsInjective
<1>7. \A l \in CellsOf(p) : v[l].key \in Live'
  <2>1. DOMAIN v = DOMAIN p
    OBVIOUS
  <2> QED
    BY <1>1, <2>1 DEF Live, Iterated, CellsOf
<1>8. keys[i] \in Live' /\ keys[j] \in Live'
  BY <1>2, <1>3, <1>5, <1>7
<1> QED
  BY <1>5, <1>6, <1>8

\* A key that was not found is not in the map, or hides behind another one.
LEMMA NotFound ==
    ASSUME MapInv, halted = "no", NEW k \in Key, End \in Find(k)
    PROVE  k \notin Live \/ Shadowed(k)
<1>1. Answer(k, End) /\ ~(End >= 0)
  BY FindAnswers DEF MapInv, End
<1> QED
  BY <1>1 DEF Answer

\* The vectors to which a pair was added have their keys apart, or the key hides.
LEMMA AddedApart ==
    ASSUME MapInv, halted = "no", NEW k \in Key, NEW d \in Data, k \notin Live
    PROVE  LET x == [key |-> k, data |-> d]
               v == Append(values, x)
               p == Append(present, TRUE)
           IN  KeysApart(v, p) /\ Cardinality(CellsOf(p)) = size + 1
<1> DEFINE x == [key |-> k, data |-> d]
           v == Append(values, x)
           p == Append(present, TRUE)
           m == Len(values) + 1
<1>1. /\ values \in Seq(Pair) /\ present \in Seq(BOOLEAN)
      /\ Len(present) = Len(values) /\ x \in Pair
      /\ Apart /\ Counted /\ x.key = k
  BY DEF MapInv, TypeOK, Pair
<1>2. Longer(values, present, x, v, p)
  BY <1>1, OneMoreCell
<1>3. CellsOf(present) = Iterated
  BY <1>1 DEF CellsOf, Iterated
<1> HIDE DEF x, v, p, m
<1>4. \A i \in Iterated : i \in 1 .. Len(values) /\ v[i] = values[i] /\ values[i].key # k
  BY <1>2, <1>3 DEF Longer, Live
<1>5. v[m].key = k
  BY <1>1, <1>2 DEF Longer, m
<1>6. \A i \in CellsOf(p) : i \in Iterated \/ i = m
  BY <1>2, <1>3 DEF Longer, m
<1>7. KeysApart(v, p)
  <2> SUFFICES ASSUME NEW i \in CellsOf(p), NEW j \in CellsOf(p), v[i].key = v[j].key
               PROVE  i = j
    BY DEF KeysApart
  <2>1. CASE i \in Iterated /\ j \in Iterated
    BY <1>1, <1>4, <2>1 DEF Apart
  <2>2. CASE i = m \/ j = m
    BY <1>4, <1>5, <1>6, <2>2
  <2> QED
    BY <1>6, <2>1, <2>2
<1>8. Cardinality(CellsOf(p)) = size + 1
  BY <1>1, <1>2, <1>3 DEF Longer, Counted
<1> QED
  BY <1>7, <1>8 DEF v, p, x

\* A pack() that ends the program while a pair is added.
LEMMA AddFails ==
    ASSUME MapInv, halted = "no", NEW k \in Key, NEW d \in Data, End \in Find(k),
           PackEnds(Append(values, [key |-> k, data |-> d]), Append(present, TRUE), size + 1, Grown)
    PROVE  /\ halted' \in {"assert", "exit"}
           /\ halted' = "assert" => \E j \in Live' : Shadowed(j)'
<1> DEFINE v == Append(values, [key |-> k, data |-> d])
           p == Append(present, TRUE)
<1>1. /\ halted' \in {"assert", "exit"} /\ values' = v /\ present' = p /\ slack' = slack
      /\ halted' = "assert" => ~(KeysApart(v, p) /\ Cardinality(CellsOf(p)) = size + 1)
  BY DEF PackEnds
<1>2. SUFFICES ASSUME halted' = "assert" PROVE \E j \in Live' : Shadowed(j)'
  BY <1>1
<1>3. k \in Live /\ Shadowed(k)
  BY <1>1, <1>2, NotFound, AddedApart
<1>4. Shadowed(k)'
  BY <1>1, <1>3 DEF Shadowed
<1>5. k \in Live'
  <2>1. /\ values \in Seq(Pair) /\ present \in Seq(BOOLEAN) /\ Len(present) = Len(values)
        /\ [key |-> k, data |-> d] \in Pair
    BY DEF MapInv, TypeOK, Pair
  <2>2. Longer(values, present, [key |-> k, data |-> d], v, p)
    BY <2>1, OneMoreCell
  <2>3. /\ v \in Seq(Pair) /\ p[Len(values) + 1]
        /\ v[Len(values) + 1].key = k /\ Len(v) = Len(values) + 1
        /\ Len(values) \in Nat
    BY <2>2 DEF Longer
  <2> HIDE DEF v, p
  <2>4. Len(values) + 1 \in DOMAIN v
    BY <2>3
  <2> QED
    BY <1>1, <2>3, <2>4 DEF Live, Iterated
<1> QED
  BY <1>4, <1>5

\* A rehash() never fails its assertion.
LEMMA RehashFails ==
    ASSUME MapInv, halted = "no", Rehash
    PROVE  \/ halted' = "no" 
           \/ halted' = "exit" /\ PackEnds(values, present, size, capacity)
<1>1. TypeOK /\ IndexInv(index) /\ Apart /\ Counted
  BY DEF MapInv
<1>2. CASE values = <<>>
  BY <1>2 DEF Rehash
<1>3. CASE values # <<>>
  <2>1. Pack(values, present, size, capacity, 1)
    BY <1>3 DEF Rehash
  <2>2. /\ values \in Seq(Pair) /\ present \in Seq(BOOLEAN) /\ Len(values) = Len(present)
        /\ minimal \in BOOLEAN /\ square \in BOOLEAN
    BY <1>1 DEF TypeOK, Pair
  <2>3. PackEnds(values, present, size, capacity) \/ PackMoves(values, present, size, 1)
    BY <1>1, <2>1, <2>2, PackDoes
  <2>4. CellsOf(present) = Iterated
    BY <2>2 DEF CellsOf, Iterated
  <2>5. KeysApart(values, present) /\ Cardinality(CellsOf(present)) = size
    BY <1>1, <2>4 DEF KeysApart, Apart, Counted
  <2> QED
    BY <2>3, <2>5 DEF PackEnds, PackMoves
<1> QED
  BY <1>2, <1>3

\* Nothing but halted changes where the program is ended without a pack().
LEMMA HaltLeaves ==
    ASSUME NEW why, Halt(why), UNCHANGED kind
    PROVE  /\ halted' = why
           /\ Outlived' = Outlived /\ ErasedDefault' = ErasedDefault /\ capacity' = capacity
  BY DEF Halt, kind, Outlived, ErasedDefault, IndexSize

\* What ends the program while a pair is added.
LEMMA AddStops ==
    ASSUME MapInv, halted = "no", UNCHANGED kind, NEW k \in Key, NEW d \in Data,
           End \in Find(k), Add(k, d)
    PROVE  FaultsOnlyWhen' /\ (SeedsWork => ExitsOnlyWhen')
<1> DEFINE v == Append(values, [key |-> k, data |-> d])
           p == Append(present, TRUE)
<1>1. PackEnds(v, p, size + 1, Grown) \/ PackMoves(v, p, size + 1, 2) \/ AddsCell(k, d)
  BY AddDoes
<1>2. CASE PackEnds(v, p, size + 1, Grown)
  <2>1. /\ halted' \in {"assert", "exit"}
        /\ halted' = "assert" => \E j \in Live' : Shadowed(j)'
    BY <1>2, AddFails
  <2>2. FaultsOnlyWhen'
    BY <2>1 DEF FaultsOnlyWhen
  <2>3. /\ values \in Seq(Pair) /\ present \in Seq(BOOLEAN) /\ Len(present) = Len(values)
        /\ [key |-> k, data |-> d] \in Pair /\ square \in BOOLEAN
    BY DEF MapInv, TypeOK, Pair
  <2>4. Longer(values, present, [key |-> k, data |-> d], v, p)
    BY <2>3, OneMoreCell
  <2> HIDE DEF v, p
  <2>5. v \in Seq(Pair) /\ p \in Seq(BOOLEAN) /\ Len(v) = Len(p)
    BY <2>4 DEF Longer
  <2>6. SeedsWork => ExitsOnlyWhen'
    BY <1>2, <2>3, <2>5, NoSeedMeans
  <2> QED
    BY <2>2, <2>6
<1>3. CASE PackMoves(v, p, size + 1, 2) \/ AddsCell(k, d)
  <2>1. halted' = "no"
    BY <1>3 DEF PackMoves, AddsCell
  <2> QED
    BY <2>1 DEF FaultsOnlyWhen, ExitsOnlyWhen
<1> QED
  BY <1>1, <1>2, <1>3

\* Every step, if it ends the program, does so for one of the reasons.
LEMMA StopsKeep ==
    ASSUME MapInv, FaultsOnlyWhen, [Next]_vars
    PROVE  FaultsOnlyWhen' /\ (SeedsWork /\ ExitsOnlyWhen => ExitsOnlyWhen')
<1> DEFINE Goal == FaultsOnlyWhen' /\ (SeedsWork /\ ExitsOnlyWhen => ExitsOnlyWhen')
<1>1. halted' = "no" => Goal
  BY DEF FaultsOnlyWhen, ExitsOnlyWhen
<1>2. ASSUME NEW k \in Key, Answer(k, Fault), Halt("crash"), UNCHANGED kind PROVE Goal
  <2>1. Outlived /\ capacity = 0
    BY <1>2 DEF Answer
  <2>2. halted' = "crash" /\ Outlived' = Outlived /\ capacity' = 0
    BY <1>2, <2>1, HaltLeaves
  <2>3. halted' # "exit" /\ halted' # "assert"
    BY <2>2
  <2>4. Outlived'
    BY <2>1, <2>2
  <2> QED
    BY <2>2, <2>3, <2>4 DEF FaultsOnlyWhen, ExitsOnlyWhen
<1>3. ASSUME NEW k \in Key, Halt("assert"), UNCHANGED kind, Outlived \/ ErasedDefault
      PROVE  Goal
  BY <1>3, HaltLeaves DEF FaultsOnlyWhen, ExitsOnlyWhen
<1>4. ASSUME NEW k \in Key, NEW d \in Data, Insert(k, d) PROVE Goal
  BY <1>2, <1>4, InsertSteps, AddStops
<1>5. ASSUME NEW k \in Key, NEW d \in Data, Assign(k, d) PROVE Goal
  BY <1>1, <1>2, <1>5, AssignSteps, AddStops
<1>6. ASSUME NEW k \in Key, Erase(k) PROVE Goal
  <2>1. halted = "no" /\ UNCHANGED kind
    BY <1>6, EraseSteps
  <2>2. CASE Answer(k, Fault) /\ Halt("crash")
    BY <1>2, <2>1, <2>2
  <2>3. CASE Answer(k, Dead) /\ Halt("assert")
    BY <1>3, <2>1, <2>3 DEF Answer
  <2>4. ASSUME NEW f \in 0 .. (Len(values) - 1), Answer(k, f), ~present[f + 1], Halt("assert")
        PROVE  Goal
    BY <1>3, <2>1, <2>4 DEF Answer
  <2>5. CASE halted' = halted
    BY <1>1, <2>1, <2>5
  <2> QED
    BY <1>6, <2>2, <2>3, <2>4, <2>5, EraseSteps
<1>7. CASE Clear
  BY <1>1, <1>7 DEF Clear, Running
<1>8. CASE Rehash
  <2>1. halted = "no"
    BY <1>8 DEF Rehash, Running
  <2>2. CASE halted' = "exit" /\ PackEnds(values, present, size, capacity)
    <3>1. /\ values \in Seq(Pair) /\ present \in Seq(BOOLEAN) /\ Len(values) = Len(present)
          /\ square \in BOOLEAN
      BY DEF MapInv, TypeOK, Pair
    <3>2. SeedsWork => ExitsOnlyWhen'
      BY <2>2, <3>1, NoSeedMeans
    <3>3. FaultsOnlyWhen'
      BY <2>2 DEF FaultsOnlyWhen
    <3> QED
      BY <3>2, <3>3
  <2> QED
    BY <1>1, <1>8, <2>1, <2>2, RehashFails
<1>9. CASE UNCHANGED vars
  BY <1>9 DEF vars, FaultsOnlyWhen, ExitsOnlyWhen, Outlived, ErasedDefault, IndexSize,
              Shadowed, Live, Iterated
<1> QED
  BY <1>4, <1>5, <1>6, <1>7, <1>8, <1>9 DEF Next

\* No assertion fails and nothing crashes but over the three faults.
THEOREM MapFaults == Spec => []FaultsOnlyWhen
<1>1. Init => FaultsOnlyWhen
  BY DEF Init, FaultsOnlyWhen
<1>2. MapInv /\ FaultsOnlyWhen /\ [Next]_vars => FaultsOnlyWhen'
  BY StopsKeep
<1> QED
  BY <1>1, <1>2, MapInvariant, PTL DEF Spec

\* With a hash function of which one seed in a thousand works, the program exits
\* only over two keys, exactly, or two of one hash.
THEOREM MapStopsOnlyWhen ==
    ASSUME SeedsWork
    PROVE  Spec => []StopsOnlyWhen
<1>1. Init => ExitsOnlyWhen
  BY DEF Init, ExitsOnlyWhen
<1>2. MapInv /\ FaultsOnlyWhen /\ ExitsOnlyWhen /\ [Next]_vars => ExitsOnlyWhen'
  BY StopsKeep
<1>3. FaultsOnlyWhen /\ ExitsOnlyWhen => StopsOnlyWhen
  BY DEF ExitsOnlyWhen, StopsOnlyWhen
<1> QED
  BY <1>1, <1>2, <1>3, MapInvariant, MapFaults, PTL DEF Spec

-----------------------------------------------------------------------------
(* The maps are maps.                                                      *)

\* The keys of the vectors v and p.
KeysOf(v, p) == {v[i].key : i \in {i \in DOMAIN v : p[i]}}

\* The data of every key of the vectors v and p.
ContentsOf(v, p) ==
    [k \in KeysOf(v, p) |-> v[CHOOSE i \in DOMAIN v : p[i] /\ v[i].key = k].data]

\* The function f has exactly the pairs of the vectors v and p.
HoldsPairs(f, v, p) ==
    /\ f = [k \in KeysOf(v, p) |-> f[k]]
    /\ \A i \in CellsOf(p) : f[v[i].key] = v[i].data

\* They are keys, and their data is data.
LEMMA ContentsType ==
    ASSUME NEW v \in Seq(Pair), NEW p
    PROVE  /\ KeysOf(v, p) \subseteq Key
           /\ ContentsOf(v, p) \in [KeysOf(v, p) -> Data]
<1>1. \A i \in DOMAIN v : v[i].key \in Key /\ v[i].data \in Data
  <2> TAKE i \in DOMAIN v
  <2>1. v[i] \in Pair
    OBVIOUS
  <2> QED
    BY <2>1 DEF Pair
<1>2. KeysOf(v, p) \subseteq Key
  BY <1>1 DEF KeysOf
<1>3. ASSUME NEW k \in KeysOf(v, p)
      PROVE  v[CHOOSE i \in DOMAIN v : p[i] /\ v[i].key = k].data \in Data
  <2>1. \E i \in DOMAIN v : p[i] /\ v[i].key = k
    BY <1>3 DEF KeysOf
  <2>2. (CHOOSE i \in DOMAIN v : p[i] /\ v[i].key = k) \in DOMAIN v
    BY <2>1
  <2> QED
    BY <1>1, <2>2
<1> QED
  BY <1>2, <1>3 DEF ContentsOf

\* Where keys are apart, the contents have the data of every cell.
LEMMA ContentsHold ==
    ASSUME NEW v \in Seq(Pair), NEW p \in Seq(BOOLEAN), Len(v) = Len(p), KeysApart(v, p)
    PROVE  HoldsPairs(ContentsOf(v, p), v, p)
<1> DEFINE f == ContentsOf(v, p)
<1>1. DOMAIN v = DOMAIN p
  OBVIOUS
<1>2. \A i \in CellsOf(p) : v[i].key \in KeysOf(v, p)
  BY <1>1 DEF KeysOf, CellsOf
<1>3. ASSUME NEW i \in CellsOf(p)
      PROVE  f[v[i].key] = v[i].data
  <2> DEFINE k == v[i].key
             c == CHOOSE j \in DOMAIN v : p[j] /\ v[j].key = k
  <2>1. i \in DOMAIN v /\ p[i] /\ v[i].key = k
    BY <1>1, <1>3 DEF CellsOf
  <2>2. c \in DOMAIN v /\ p[c] /\ v[c].key = k
    BY <2>1
  <2>3. c = i
    BY <1>1, <1>3, <2>2 DEF KeysApart, CellsOf
  <2>4. f[k] = v[c].data
    BY <1>2, <1>3 DEF ContentsOf
  <2> HIDE DEF f, k, c
  <2>5. f[k] = v[i].data
    BY <2>3, <2>4
  <2> QED
    BY <2>5 DEF k
<1>4. f = [k \in KeysOf(v, p) |-> f[k]]
  BY DEF ContentsOf
<1> QED
  BY <1>3, <1>4 DEF HoldsPairs

\* Nothing else has exactly those pairs.
LEMMA OneContents ==
    ASSUME NEW v \in Seq(Pair), NEW p \in Seq(BOOLEAN), Len(v) = Len(p), NEW f, NEW g,
           HoldsPairs(f, v, p), HoldsPairs(g, v, p)
    PROVE  f = g
<1>1. DOMAIN v = DOMAIN p
  OBVIOUS
<1>2. \A k \in KeysOf(v, p) : f[k] = g[k]
  <2> TAKE k \in KeysOf(v, p)
  <2>1. PICK i \in CellsOf(p) : k = v[i].key
    BY <1>1 DEF KeysOf, CellsOf
  <2> QED
    BY <2>1 DEF HoldsPairs
<1>3. f = [k \in KeysOf(v, p) |-> f[k]] /\ g = [k \in KeysOf(v, p) |-> g[k]]
  BY DEF HoldsPairs
<1>4. [k \in KeysOf(v, p) |-> f[k]] = [k \in KeysOf(v, p) |-> g[k]]
  BY <1>2
<1> QED
  BY <1>3, <1>4

\* A pack() leaves the contents as they are.
LEMMA MovedHolds ==
    ASSUME NEW v \in Seq(Pair), NEW p \in Seq(BOOLEAN), Len(v) = Len(p), KeysApart(v, p),
           NEW v1, NEW p1, NEW x, Moved(v, p, v1, p1, x), KeysApart(v1, p1), IndexSize(x) \in Nat
    PROVE  ContentsOf(v1, p1) = ContentsOf(v, p)
<1> DEFINE f == ContentsOf(v1, p1)
<1>1. /\ v1 \in Seq(Pair) /\ p1 \in Seq(BOOLEAN) /\ Len(v1) = Len(p1)
      /\ \A i \in CellsOf(p1) : \E j \in CellsOf(p) : v1[i] = v[j]
      /\ \A j \in CellsOf(p) : \E i \in CellsOf(p1) : v1[i] = v[j]
  BY DEF Moved
<1>2. DOMAIN v = DOMAIN p /\ DOMAIN v1 = DOMAIN p1
  BY <1>1
<1>3. KeysOf(v1, p1) = KeysOf(v, p)
  <2>1. /\ KeysOf(v1, p1) = {v1[i].key : i \in CellsOf(p1)}
        /\ KeysOf(v, p) = {v[i].key : i \in CellsOf(p)}
    BY <1>2 DEF KeysOf, CellsOf
  <2> QED
    BY <1>1, <2>1
<1>4. HoldsPairs(f, v1, p1)
  BY <1>1, ContentsHold
<1> HIDE DEF f
<1>5. HoldsPairs(f, v, p)
  <2>1. ASSUME NEW j \in CellsOf(p) PROVE f[v[j].key] = v[j].data
    <3>1. PICK i \in CellsOf(p1) : v1[i] = v[j]
      BY <1>1
    <3>2. f[v1[i].key] = v1[i].data
      BY <1>4 DEF HoldsPairs
    <3> QED
      BY <3>1, <3>2
  <2>2. f = [k \in KeysOf(v, p) |-> f[k]]
    BY <1>3, <1>4 DEF HoldsPairs
  <2> QED
    BY <2>1, <2>2 DEF HoldsPairs
<1>6. HoldsPairs(ContentsOf(v, p), v, p)
  BY ContentsHold
<1> QED
  BY <1>5, <1>6, OneContents DEF f

\* The values of two variables of the abstract map.
Held == [k \in Live |-> values[CellOf(k)].data]
Reliable == ~Outlived /\ ~ErasedDefault /\ ~\E k \in Live : Shadowed(k)

\* The contents, before and after a step.
LEMMA HeldIs ==
    /\ Held = ContentsOf(values, present) /\ Live = KeysOf(values, present)
    /\ Held' = ContentsOf(values', present') /\ Live' = KeysOf(values', present')
  BY DEF Held, ContentsOf, KeysOf, Live, Iterated, CellOf

\* Contents with a pair more, or without a key.
Put(f, k, d) == [j \in DOMAIN f \cup {k} |-> IF j = k THEN d ELSE f[j]]
Removed(f, k) == [j \in DOMAIN f \ {k} |-> f[j]]

\* A step of the map that is one of the abstract map.
LEMMA MapsTo ==
    ASSUME halted = "no", TypeOK',
           Reliable =>
              \/ \E k \in Key, d \in Data : Held' = Put(Held, k, d)
              \/ \E k \in Key : Held' = Removed(Held, k)
              \/ Held' = <<>>
              \/ Held' = Held
    PROVE  Map!Next
<1>1. Held' \in UNION {[S -> Data] : S \in SUBSET Key}
  <2>1. values' \in Seq(Pair)
    BY DEF TypeOK, Pair
  <2>2. Live' \subseteq Key /\ Held' \in [Live' -> Data]
    BY <2>1, ContentsType, HeldIs
  <2> QED
    BY <2>2
<1>2. Map!Contents = UNION {[S -> Data] : S \in SUBSET Key}
  BY DEF Map!Contents
<1>3. Reliable => Map!Operation
  <2>1. CASE \E k \in Key, d \in Data : Held' = Put(Held, k, d)
    <3>1. PICK k \in Key, d \in Data : Held' = Put(Held, k, d)
      BY <2>1
    <3>2. Map!Assign(k, d)
      BY <3>1 DEF Map!Assign, Map!With, Put, Held
    <3> QED
      BY <3>2 DEF Map!Operation, Reliable
  <2>2. CASE \E k \in Key : Held' = Removed(Held, k)
    <3>1. PICK k \in Key : Held' = Removed(Held, k)
      BY <2>2
    <3>2. Map!Erase(k)
      BY <3>1 DEF Map!Erase, Removed, Held
    <3> QED
      BY <3>2 DEF Map!Operation, Reliable
  <2>3. CASE Held' = <<>>
    <3>1. Map!Clear
      BY <2>3 DEF Map!Clear, Held
    <3> QED
      BY <3>1 DEF Map!Operation, Reliable
  <2>4. CASE Held' = Held
    BY <2>4 DEF Map!Operation, Held, Reliable
  <2> QED
    BY <2>1, <2>2, <2>3, <2>4
<1>4. (Reliable' \in BOOLEAN) /\ ((halted # "no")' \in BOOLEAN)
  BY DEF Reliable
<1> QED
  BY <1>1, <1>2, <1>3, <1>4 DEF Map!Next, Held, Reliable

\* The vectors hold what the map holds, with a key in one cell each.
LEMMA VectorsHold ==
    ASSUME MapInv, halted = "no"
    PROVE  /\ values \in Seq(Pair) /\ present \in Seq(BOOLEAN) /\ Len(values) = Len(present)
           /\ KeysApart(values, present) /\ HoldsPairs(Held, values, present)
           /\ CellsOf(present) = Iterated /\ DOMAIN Held = Live
<1>1. /\ values \in Seq(Pair) /\ present \in Seq(BOOLEAN)
      /\ Len(values) = Len(present) /\ Apart
  BY DEF MapInv, TypeOK, Pair
<1>2. CellsOf(present) = Iterated
  BY <1>1 DEF CellsOf, Iterated
<1>3. KeysApart(values, present)
  BY <1>1, <1>2 DEF KeysApart, Apart
<1>4. HoldsPairs(Held, values, present)
  BY <1>1, <1>3, ContentsHold, HeldIs
<1>5. DOMAIN Held = Live
  BY DEF Held
<1> QED
  BY <1>1, <1>2, <1>3, <1>4, <1>5

\* What pack() moved is what it was given.
LEMMA PackMovesMaps ==
    ASSUME MapInv', halted' = "no", minimal \in BOOLEAN, minimal' = minimal,
           NEW v \in Seq(Pair), NEW p \in Seq(BOOLEAN), Len(v) = Len(p),
           NEW s, NEW factor, PackMoves(v, p, s, factor)
    PROVE  Held' = ContentsOf(v, p)
<1>1. /\ KeysApart(v, p) /\ IndexInv(index') /\ Moved(v, p, values', present', index')
  BY DEF PackMoves
<1>2. IndexSize(index') \in Nat
  BY <1>1, IndexAnswers
<1>3. KeysApart(values', present')
  <2>1. /\ Apart' /\ values' \in Seq(Pair)
        /\ present' \in Seq(BOOLEAN) /\ Len(values') = Len(present')
    BY DEF MapInv, TypeOK, Pair
  <2>2. CellsOf(present') = Iterated'
    BY <2>1 DEF CellsOf, Iterated
  <2> QED
    BY <2>1, <2>2 DEF KeysApart, Apart
<1> QED
  BY <1>1, <1>2, <1>3, MovedHolds, HeldIs

\* The contents of the vectors to which a pair was added.
LEMMA AddedHolds ==
    ASSUME MapInv, halted = "no", NEW k \in Key, NEW d \in Data, k \notin Live
    PROVE  ContentsOf(Append(values, [key |-> k, data |-> d]), Append(present, TRUE)) = Put(Held, k, d)
<1> DEFINE x == [key |-> k, data |-> d]
           v == Append(values, x)
           p == Append(present, TRUE)
           m == Len(values) + 1
           f == Put(Held, k, d)
<1>1. /\ values \in Seq(Pair) /\ present \in Seq(BOOLEAN) /\ Len(values) = Len(present)
      /\ HoldsPairs(Held, values, present) /\ CellsOf(present) = Iterated /\ DOMAIN Held = Live
      /\ x \in Pair /\ x.key = k /\ x.data = d
  BY VectorsHold DEF Pair
<1>2. Longer(values, present, x, v, p)
  BY <1>1, OneMoreCell
<1>3. KeysApart(v, p)
  BY AddedApart
<1> HIDE DEF x, v, p, m
<1>4. v \in Seq(Pair) /\ p \in Seq(BOOLEAN) /\ Len(v) = Len(p) /\ v[m] = x
  BY <1>2 DEF Longer, m
<1>5. \A i : i \in CellsOf(p) <=> i \in CellsOf(present) \/ i = m
  BY <1>2 DEF Longer, m
<1>6. \A i \in CellsOf(present) : v[i] = values[i] /\ values[i].key \in Live
  BY <1>1, <1>2 DEF Longer, Live
<1>7. KeysOf(v, p) = Live \cup {k}
  <2>1. KeysOf(v, p) = {v[i].key : i \in CellsOf(p)}
    <3>1. DOMAIN v = DOMAIN p
      BY <1>4
    <3> QED
      BY <3>1 DEF KeysOf, CellsOf
  <2>2. ASSUME NEW j \in KeysOf(v, p) PROVE j \in Live \cup {k}
    <3>1. PICK i \in CellsOf(p) : j = v[i].key
      BY <2>1
    <3> QED
      BY <1>1, <1>4, <1>5, <1>6, <3>1
  <2>3. ASSUME NEW j \in Live PROVE j \in KeysOf(v, p)
    <3>1. PICK i \in CellsOf(present) : j = values[i].key
      BY <1>1 DEF Live
    <3> QED
      BY <1>5, <1>6, <2>1, <3>1
  <2>4. k \in KeysOf(v, p)
    BY <1>1, <1>4, <1>5, <2>1
  <2> QED
    BY <2>2, <2>3, <2>4
<1>8. HoldsPairs(f, v, p)
  <2>1. f = [j \in KeysOf(v, p) |-> f[j]]
    BY <1>1, <1>7 DEF Put
  <2>2. ASSUME NEW i \in CellsOf(p) PROVE f[v[i].key] = v[i].data
    <3>1. CASE i = m
      BY <1>1, <1>4, <3>1 DEF Put
    <3>2. CASE i \in CellsOf(present)
      <4>1. v[i] = values[i] /\ values[i].key \in Live /\ values[i].key # k
        BY <1>6, <3>2
      <4>2. f[values[i].key] = Held[values[i].key]
        BY <1>1, <4>1 DEF Put
      <4>3. Held[values[i].key] = values[i].data
        BY <1>1, <3>2 DEF HoldsPairs
      <4> QED
        BY <4>1, <4>2, <4>3
    <3> QED
      BY <1>5, <3>1, <3>2
  <2> QED
    BY <2>1, <2>2 DEF HoldsPairs
<1>9. HoldsPairs(ContentsOf(v, p), v, p)
  BY <1>3, <1>4, ContentsHold
<1>10. ContentsOf(v, p) = f
  BY <1>4, <1>8, <1>9, OneContents
<1> QED
  BY <1>10 DEF v, p, x

\* Adding a pair adds it to the contents.
LEMMA AddMaps ==
    ASSUME MapInv, MapInv', halted = "no", UNCHANGED kind, NEW k \in Key, NEW d \in Data,
           End \in Find(k), Add(k, d), Reliable
    PROVE  Held' = Put(Held, k, d)
<1> DEFINE v == Append(values, [key |-> k, data |-> d])
           p == Append(present, TRUE)
<1>1. k \notin Live
  BY NotFound DEF Reliable
<1>2. ContentsOf(v, p) = Put(Held, k, d)
  BY <1>1, AddedHolds
<1>3. PackEnds(v, p, size + 1, Grown) \/ PackMoves(v, p, size + 1, 2) \/ AddsCell(k, d)
  BY AddDoes
<1>4. CASE PackEnds(v, p, size + 1, Grown) \/ AddsCell(k, d)
  <2>1. values' = v /\ present' = p
    BY <1>4 DEF PackEnds, AddsCell
  <2> QED
    BY <1>2, <2>1, HeldIs
<1>5. CASE PackMoves(v, p, size + 1, 2)
  <2>1. /\ values \in Seq(Pair) /\ present \in Seq(BOOLEAN) /\ Len(values) = Len(present)
        /\ [key |-> k, data |-> d] \in Pair /\ minimal \in BOOLEAN /\ minimal' = minimal
    BY VectorsHold DEF MapInv, TypeOK, Pair, kind
  <2>2. Longer(values, present, [key |-> k, data |-> d], v, p)
    BY <2>1, OneMoreCell
  <2> HIDE DEF v, p
  <2>3. v \in Seq(Pair) /\ p \in Seq(BOOLEAN) /\ Len(v) = Len(p)
    BY <2>2 DEF Longer
  <2>4. halted' = "no"
    BY <1>5 DEF PackMoves
  <2>5. Held' = ContentsOf(v, p)
    BY <1>5, <2>1, <2>3, <2>4, PackMovesMaps
  <2> QED
    BY <1>2, <2>5
<1> QED
  BY <1>3, <1>4, <1>5

\* A cell in which a key was found holds it, where no fault is.
LEMMA FoundIn ==
    ASSUME MapInv, halted = "no", Reliable, NEW k \in Key, NEW f \in 0 .. (Len(values) - 1), Answer(k, f)
    PROVE  /\ f + 1 \in Iterated /\ values[f + 1].key = k /\ k \in Live
           /\ \A i \in Iterated : i # f + 1 => values[i].key # k
<1> DEFINE L == Len(values)
<1>1. /\ values \in Seq(Pair) /\ L \in Nat /\ DOMAIN values = 1 .. L /\ Apart
  BY DEF MapInv, TypeOK, Pair
<1>2. values[f + 1].key = k /\ present[f + 1]
  BY DEF Answer, Reliable
<1> HIDE DEF L
<1>3. f \in 0 .. (L - 1)
  BY DEF L
<1>4. f + 1 \in 1 .. L
  BY <1>1, <1>3
<1>5. f + 1 \in Iterated
  BY <1>1, <1>2, <1>4 DEF Iterated
<1>6. k \in Live
  BY <1>2, <1>5 DEF Live
<1> QED
  BY <1>1, <1>2, <1>5, <1>6 DEF Apart

\* An assignment changes the data of the key it found.
LEMMA AssignMaps ==
    ASSUME MapInv, halted = "no", UNCHANGED kind, NEW k \in Key, NEW d \in Data, Reliable,
           NEW f \in 0 .. (Len(values) - 1), Answer(k, f),
           values' = [values EXCEPT ![f + 1].data = d],
           UNCHANGED <<present, capacity, slack, index, size, halted>>
    PROVE  Held' = Put(Held, k, d)
<1> DEFINE m == f + 1
           g == Put(Held, k, d)
<1>1. /\ values \in Seq(Pair) /\ present \in Seq(BOOLEAN) /\ Len(values) = Len(present)
      /\ HoldsPairs(Held, values, present) /\ CellsOf(present) = Iterated /\ DOMAIN Held = Live
  BY VectorsHold
<1>2. /\ m \in Iterated /\ values[m].key = k /\ k \in Live
      /\ \A i \in Iterated : i # m => values[i].key # k
  BY FoundIn
<1>3. MapInv' /\ Iterated' = Iterated /\ present' = present /\ halted' = "no"
  BY AssignKeeps
<1>4. values' \in Seq(Pair) /\ Len(values') = Len(present')
  BY <1>3 DEF MapInv, TypeOK, Pair
<1>5. m \in DOMAIN values /\ values[m] \in Pair /\ \A i \in Iterated : i \in DOMAIN values
  BY <1>1, <1>2 DEF Iterated
<1>6. values' = [values EXCEPT ![m] = [values[m] EXCEPT !.data = d]]
  BY <1>5
<1> HIDE DEF m
<1>7. /\ values'[m].key = k /\ values'[m].data = d
      /\ \A i \in Iterated : i # m => values'[i] = values[i]
  BY <1>2, <1>5, <1>6 DEF Pair
<1>8. \A i \in Iterated : values'[i].key = values[i].key
  BY <1>2, <1>7
<1>9. Live' = Live
  BY <1>3, <1>8 DEF Live
<1>10. KeysOf(values', present') = Live
  BY <1>9, HeldIs
<1> HIDE DEF g
<1>11. HoldsPairs(g, values', present')
  <2>1. g = [j \in Live |-> g[j]]
    BY <1>1, <1>2 DEF g, Put
  <2>2. ASSUME NEW i \in CellsOf(present) PROVE g[values'[i].key] = values'[i].data
    <3>1. CASE i = m
      BY <1>2, <1>7, <3>1 DEF g, Put
    <3>2. CASE i # m
      <4>1. /\ i \in Iterated /\ values'[i] = values[i]
            /\ values[i].key # k /\ values[i].key \in Live
        BY <1>1, <1>2, <1>7, <3>2 DEF Live
      <4>2. g[values[i].key] = Held[values[i].key]
        BY <1>1, <4>1 DEF g, Put
      <4>3. Held[values[i].key] = values[i].data
        BY <1>1 DEF HoldsPairs
      <4> QED
        BY <4>1, <4>2, <4>3
    <3> QED
      BY <3>1, <3>2
  <2> QED
    BY <1>3, <1>10, <2>1, <2>2 DEF HoldsPairs
<1>12. KeysApart(values', present')
  <2>1. \A i, j \in Iterated : values[i].key = values[j].key => i = j
    BY DEF MapInv, Apart
  <2> QED
    BY <1>1, <1>3, <1>8, <2>1 DEF KeysApart
<1>13. HoldsPairs(Held', values', present')
  BY <1>1, <1>3, <1>4, <1>12, ContentsHold, HeldIs
<1> QED
  BY <1>1, <1>3, <1>4, <1>11, <1>13, OneContents DEF g

\* erase() takes away the key it found.
LEMMA EraseMaps ==
    ASSUME MapInv, halted = "no", UNCHANGED kind, NEW k \in Key, Reliable,
           NEW f \in 0 .. (Len(values) - 1), Answer(k, f), present[f + 1],
           present' = [present EXCEPT ![f + 1] = FALSE],
           values' = [values EXCEPT ![f + 1] = DefaultValue],
           size' = size - 1,
           UNCHANGED <<capacity, slack, index, halted>>
    PROVE  Held' = Removed(Held, k)
<1> DEFINE m == f + 1
           g == Removed(Held, k)
<1>1. /\ values \in Seq(Pair) /\ present \in Seq(BOOLEAN) /\ Len(values) = Len(present)
      /\ HoldsPairs(Held, values, present) /\ CellsOf(present) = Iterated /\ DOMAIN Held = Live
  BY VectorsHold
<1>2. /\ m \in Iterated /\ values[m].key = k
      /\ \A i \in Iterated : i # m => values[i].key # k
  BY FoundIn
<1>3. /\ MapInv' /\ Iterated' = Iterated \ {m} /\ halted' = halted
      /\ \A i \in Iterated' : values'[i] = values[i]
  BY EraseKeeps
<1>4. values' \in Seq(Pair) /\ present' \in Seq(BOOLEAN) /\ Len(values') = Len(present')
  BY <1>3 DEF MapInv, TypeOK, Pair
<1>5. CellsOf(present') = Iterated'
  BY <1>4 DEF CellsOf, Iterated
<1> HIDE DEF m, g
<1>6. Live' = Live \ {k}
  <2>1. Live' = {values'[i].key : i \in Iterated'} /\ Live = {values[i].key : i \in Iterated}
    BY DEF Live
  <2>2. Live' = {values[i].key : i \in Iterated \ {m}}
    BY <1>3, <2>1
  <2> QED
    BY <1>2, <2>1, <2>2
<1>7. KeysOf(values', present') = Live \ {k}
  BY <1>6, HeldIs
<1>8. HoldsPairs(g, values', present')
  <2>1. g = [j \in Live \ {k} |-> g[j]]
    BY <1>1 DEF g, Removed
  <2>2. ASSUME NEW i \in Iterated' PROVE g[values'[i].key] = values'[i].data
    <3>1. /\ i \in Iterated /\ values'[i] = values[i]
          /\ values[i].key # k /\ values[i].key \in Live
      BY <1>2, <1>3 DEF Live
    <3>2. g[values[i].key] = Held[values[i].key]
      BY <1>1, <3>1 DEF g, Removed
    <3>3. Held[values[i].key] = values[i].data
      BY <1>1, <3>1 DEF HoldsPairs
    <3> QED
      BY <3>1, <3>2, <3>3
  <2> QED
    BY <1>5, <1>7, <2>1, <2>2 DEF HoldsPairs
<1>9. KeysApart(values', present')
  <2>1. Apart'
    BY <1>3 DEF MapInv
  <2> QED
    BY <1>5, <2>1 DEF KeysApart, Apart
<1>10. HoldsPairs(Held', values', present')
  BY <1>4, <1>9, ContentsHold, HeldIs
<1> QED
  BY <1>4, <1>8, <1>10, OneContents DEF g

\* rehash() changes no contents.
LEMMA RehashMaps ==
    ASSUME MapInv, MapInv', halted = "no", Rehash
    PROVE  Held' = Held
<1>1. UNCHANGED kind /\ minimal' = minimal
  BY DEF Rehash, Running, kind
<1>2. /\ values \in Seq(Pair) /\ present \in Seq(BOOLEAN) /\ Len(values) = Len(present)
      /\ minimal \in BOOLEAN /\ square \in BOOLEAN /\ IndexInv(index)
  BY VectorsHold DEF MapInv, TypeOK
<1>3. CASE values' = values /\ present' = present
  BY <1>3, HeldIs
<1>4. CASE values # <<>> /\ Pack(values, present, size, capacity, 1)
  <2>1. PackEnds(values, present, size, capacity) \/ PackMoves(values, present, size, 1)
    BY <1>2, <1>4, PackDoes
  <2>2. CASE PackEnds(values, present, size, capacity)
    BY <1>3, <2>2 DEF PackEnds
  <2>3. CASE PackMoves(values, present, size, 1)
    <3>1. halted' = "no"
      BY <2>3 DEF PackMoves
    <3>2. Held' = ContentsOf(values, present)
      BY <1>1, <1>2, <2>3, <3>1, PackMovesMaps
    <3> QED
      BY <3>2, HeldIs
  <2> QED
    BY <2>1, <2>2, <2>3
<1> QED
  BY <1>3, <1>4 DEF Rehash

\* Nor does the end of the program.
LEMMA HaltMaps ==
    ASSUME NEW why, Halt(why)
    PROVE  Held' = Held
  BY HeldIs DEF Halt

\* Every step is one of the abstract map, or leaves it as it is.
LEMMA NextMaps ==
    ASSUME MapInv, MapInv', [Next]_vars
    PROVE  [Map!Next]_(Map!mapVars)
<1>1. TypeOK'
  BY DEF MapInv
<1>2. ASSUME NEW k \in Key, NEW d \in Data, Insert(k, d) PROVE Map!Next
  <2>1. halted = "no" /\ UNCHANGED kind
    BY <1>2, InsertSteps
  <2>2. CASE End \in Find(k) /\ Add(k, d)
    <3>1. Reliable => Held' = Put(Held, k, d)
      BY <2>1, <2>2, AddMaps
    <3> QED
      BY <1>1, <2>1, <3>1, MapsTo
  <2>3. CASE Halt("crash")
    BY <1>1, <2>1, <2>3, HaltMaps, MapsTo
  <2> QED
    BY <1>2, <2>2, <2>3, InsertSteps
<1>3. ASSUME NEW k \in Key, NEW d \in Data, Assign(k, d) PROVE Map!Next
  <2>1. halted = "no" /\ UNCHANGED kind
    BY <1>3, AssignSteps
  <2>2. CASE End \in Find(k) /\ Add(k, d)
    <3>1. Reliable => Held' = Put(Held, k, d)
      BY <2>1, <2>2, AddMaps
    <3> QED
      BY <1>1, <2>1, <3>1, MapsTo
  <2>3. CASE Halt("crash")
    BY <1>1, <2>1, <2>3, HaltMaps, MapsTo
  <2>4. ASSUME NEW f \in 0 .. (Len(values) - 1), Answer(k, f),
               values' = [values EXCEPT ![f + 1].data = d],
               UNCHANGED <<present, capacity, slack, index, size, halted>>
        PROVE  Map!Next
    <3>1. Reliable => Held' = Put(Held, k, d)
      BY <2>1, <2>4, AssignMaps
    <3> QED
      BY <1>1, <2>1, <3>1, MapsTo
  <2> QED
    BY <1>3, <2>2, <2>3, <2>4, AssignSteps
<1>4. ASSUME NEW k \in Key, Erase(k) PROVE Map!Next
  <2>1. halted = "no" /\ UNCHANGED kind
    BY <1>4, EraseSteps
  <2>2. ASSUME NEW why, Halt(why) PROVE Map!Next
    BY <1>1, <2>1, <2>2, HaltMaps, MapsTo
  <2>3. ASSUME NEW f \in 0 .. (Len(values) - 1), Answer(k, f), present[f + 1],
               present' = [present EXCEPT ![f + 1] = FALSE],
               values' = [values EXCEPT ![f + 1] = DefaultValue],
               size' = size - 1,
               UNCHANGED <<capacity, slack, index, halted>>
        PROVE  Map!Next
    <3>1. Reliable => Held' = Removed(Held, k)
      BY <2>1, <2>3, EraseMaps
    <3> QED
      BY <1>1, <2>1, <3>1, MapsTo
  <2> QED
    BY <1>4, <2>2, <2>3, EraseSteps
<1>5. CASE Clear
  <2>1. halted = "no" /\ values' = <<>>
    BY <1>5 DEF Clear, Running
  <2>2. KeysOf(values', present') = {}
    BY <2>1 DEF KeysOf
  <2>3. Held' = [k \in {} |-> values'[CHOOSE i \in DOMAIN values' : present'[i] /\ values'[i].key = k].data]
    BY <2>2, HeldIs DEF ContentsOf
  <2>4. Held' = <<>>
    BY <2>3
  <2> QED
    BY <1>1, <2>1, <2>4, MapsTo
<1>6. CASE Rehash
  <2>1. halted = "no"
    BY <1>6 DEF Rehash, Running
  <2>2. Held' = Held
    BY <1>6, <2>1, RehashMaps
  <2> QED
    BY <1>1, <2>1, <2>2, MapsTo
<1>7. CASE UNCHANGED vars
  <2>1. UNCHANGED <<minimal, values, present, capacity, slack, index, halted>>
    BY <1>7 DEF vars
  <2>2. Held' = Held /\ Live' = Live
    BY <2>1, HeldIs
  <2>3. Reliable' = Reliable
    BY <2>1, <2>2 DEF Reliable, Outlived, ErasedDefault, Shadowed, IndexSize
  <2> QED
    BY <2>1, <2>2, <2>3 DEF Map!mapVars, Held, Reliable
<1> QED
  BY <1>2, <1>3, <1>4, <1>5, <1>6, <1>7 DEF Next

\* A new map is an empty abstract map.
LEMMA InitMaps == Init => Map!Init
<1> SUFFICES ASSUME Init PROVE Map!Init
  OBVIOUS
<1>1. values = <<>> /\ present = <<>> /\ slack = <<>> /\ index = EmptyIndex /\ halted = "no"
  BY DEF Init, NoSlack
<1>2. Live = {} /\ DOMAIN slack = {} /\ Len(values) = 0
  BY <1>1 DEF Live, Iterated
<1>3. Held = <<>>
  BY <1>2 DEF Held
<1>4. ~Outlived
  BY <1>1, <1>2 DEF Outlived, IndexSize, EmptyIndex
<1>5. Reliable = TRUE
  BY <1>2, <1>4 DEF Reliable, ErasedDefault, Shadowed
<1> QED
  BY <1>1, <1>3, <1>5 DEF Map!Init, Held, Reliable

\* The maps of cxxmph are maps, wherever none of the three faults is: every
\* operation does to what the map holds what the abstract map's does.
THEOREM MapRefinement == Spec => Refinement
<1>1. Init => Map!Init
  BY InitMaps
<1>2. MapInv /\ MapInv' /\ [Next]_vars => [Map!Next]_(Map!mapVars)
  BY NextMaps
<1>3. Spec => Map!Spec
  BY <1>1, <1>2, MapInvariant, PTL DEF Spec, Map!Spec
<1> QED
  BY <1>3 DEF Refinement

=============================================================================
