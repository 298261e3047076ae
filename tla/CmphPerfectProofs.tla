-------------------------- MODULE CmphPerfectProofs --------------------------
(***************************************************************************)
(* Proofs about the functions that the constructions of CMPH find: that    *)
(* they are perfect, for every key sequence, every choice of hash          *)
(* functions and every bound on the numbers of attempts.  Numbers come     *)
(* first, then one part for each algorithm, from its loops to an attempt   *)
(* that succeeds, and last the invariant of the library.                   *)
(***************************************************************************)
EXTENDS CmphProofs

-----------------------------------------------------------------------------
(* Numbers.                                                                *)

\* The remainder is the only one, and multiples of the divisor do not count.
LEMMA DivisionUnique ==
    ASSUME NEW k \in Nat \ {0}, NEW u \in Nat, NEW r \in 0..(k - 1)
    PROVE  (k * u + r) % k = r /\ (k * u + r) \div k = u
<1> DEFINE x == k * u + r
           v == x \div k
           t == x % k
           ku == k * u
           kv == k * v
<1>1. x \in Nat
  OBVIOUS
<1>2. v \in Nat /\ t \in 0..(k - 1) /\ x = kv + t
  <2> HIDE DEF x
  <2> QED
    BY <1>1
<1> HIDE DEF t, v
<1>3. k * (v + 1) = kv + k /\ k * (u + 1) = ku + k
  BY <1>2
<1>4. ku \in Nat /\ kv \in Nat
  BY <1>2
<1>5. x = ku + r
  OBVIOUS
<1> HIDE DEF x
<1>6. ~(u > v)
  <2>1. u > v => k * u >= k * (v + 1)
    BY <1>2
  <2> HIDE DEF ku, kv
  <2> QED
    BY <1>2, <1>3, <1>4, <1>5, <2>1 DEF ku
<1>7. ~(v > u)
  <2>1. v > u => k * v >= k * (u + 1)
    BY <1>2
  <2> HIDE DEF ku, kv
  <2> QED
    BY <1>2, <1>3, <1>4, <1>5, <2>1 DEF kv
<1>8. u = v
  BY <1>2, <1>6, <1>7
<1>9. t = r
  BY <1>2, <1>5, <1>8
<1> QED
  BY <1>8, <1>9 DEF x, t, v

\* A part of a sum may be reduced before.
LEMMA ModPlus ==
    ASSUME NEW k \in Nat \ {0}, NEW h \in Nat, NEW g \in Nat
    PROVE  /\ ((h % k) + g) % k = (h + g) % k
           /\ (h + g) % k \in 0..(k - 1)
<1> DEFINE q == h \div k
           t == h % k
           y == t + g
           w == y \div k
           r == y % k
<1>1. q \in Nat /\ t \in 0..(k - 1) /\ h = k * q + t
  OBVIOUS
<1> HIDE DEF q, t
<1>2. y \in Nat
  BY <1>1
<1>3. w \in Nat /\ r \in 0..(k - 1) /\ y = k * w + r
  <2> HIDE DEF y
  <2> QED
    BY <1>2
<1> HIDE DEF w, r
<1>4. k * (q + w) = k * q + k * w
  BY <1>1, <1>3
<1>5. h + g = k * (q + w) + r
  <2> DEFINE kq == k * q
             kw == k * w
  <2>1. kq \in Int /\ kw \in Int /\ k * (q + w) = kq + kw /\ h = kq + t /\ y = kw + r
    BY <1>1, <1>3, <1>4
  <2> HIDE DEF kq, kw
  <2>2. y = t + g
    OBVIOUS
  <2> HIDE DEF y
  <2> QED
    BY <1>1, <1>3, <2>1, <2>2
<1>6. q + w \in Nat
  BY <1>1, <1>3
<1>7. (k * (q + w) + r) % k = r
  <2> DEFINE u == q + w
  <2> HIDE DEF u
  <2>1. u \in Nat
    BY <1>6 DEF u
  <2>2. (k * u + r) % k = r
    BY <1>3, <2>1, DivisionUnique
  <2> QED
    BY <2>2 DEF u
<1>8. (h + g) % k = r
  BY <1>5, <1>7
<1> QED
  BY <1>3, <1>8 DEF y, t, r

\* Different keys have different values below n.
OneToOne(a, S, n) ==
    /\ \A x \in S : a[x] \in 0..(n - 1)
    /\ \A x, y \in S : a[x] = a[y] => x = y

-----------------------------------------------------------------------------
(* chm: the loops, and the peeling of a graph.                             *)

\* The loop along a chain.
LEMMA ChainLoop ==
    ASSUME NEW G, Len(G) \in Nat, NEW v, NEW deleted
    PROVE  /\ ChainFrom(G, v, deleted)[0] = [v |-> v, deleted |-> deleted]
           /\ \A i \in 1..Len(G) : ChainFrom(G, v, deleted)[i] = NextOfChain(G, ChainFrom(G, v, deleted)[i - 1])
<1> DEFINE Body(i, s) == NextOfChain(G, s)
           start == [v |-> v, deleted |-> deleted]
           Whole(r, f) == f = [i \in 0..r |-> IF i = 0 THEN start ELSE Body(i, f[i - 1])]
           run == ChainFrom(G, v, deleted)
           len == Len(G)
<1>1. len \in Nat
  OBVIOUS
<1>2. run = CHOOSE f : Whole(len, f)
  BY Zenon DEF ChainFrom
<1>3. start = [v |-> v, deleted |-> deleted] /\ \A i \in 1..len : Body(i, run[i - 1]) = NextOfChain(G, run[i - 1])
  BY Zenon
<1> HIDE DEF Body, start, run, len
<1>4. \E f : Whole(len, f)
  <2> DEFINE P == {r \in 0..len : \E f : Whole(r, f)}
  <2>1. 0 \in P
    <3>1. Whole(0, [i \in 0..0 |-> start])
      OBVIOUS
    <3>2. \E f : Whole(0, f)
      <4> HIDE DEF Whole
      <4> QED
        BY <3>1
    <3> QED
      BY <1>1, <3>2
  <2>2. ASSUME NEW r \in 1..len, r - 1 \in P PROVE r \in P
    <3>1. PICK f : Whole(r - 1, f)
      BY <2>2
    <3> DEFINE new == Body(r, f[r - 1])
               g == [i \in 0..r |-> IF i = r THEN new ELSE f[i]]
    <3>2. \A i \in 0..r : g[i] = IF i = 0 THEN start ELSE Body(i, g[i - 1])
      <4> TAKE i \in 0..r
      <4>1. r - 1 \in 0..r /\ r - 1 # r /\ r # 0
        BY <1>1
      <4>2. g[r] = new /\ g[r - 1] = f[r - 1]
        <5> HIDE DEF new
        <5> QED
          BY <4>1
      <4>3. CASE i = r
        BY <4>1, <4>2, <4>3
      <4>4. CASE i # r
        <5>1. i \in 0..(r - 1) /\ (i # 0 => i - 1 \in 0..r /\ i - 1 # r)
          BY <4>4, <1>1
        <5>2. g[i] = f[i] /\ (i # 0 => g[i - 1] = f[i - 1])
          <6> HIDE DEF new
          <6> QED
            BY <4>4, <5>1
        <5>3. f[i] = IF i = 0 THEN start ELSE Body(i, f[i - 1])
          BY <3>1, <5>1
        <5> HIDE DEF g
        <5> QED
          BY <5>2, <5>3
      <4> QED
        BY <4>3, <4>4
    <3>3. g = [i \in 0..r |-> g[i]]
      OBVIOUS
    <3> HIDE DEF g
    <3>4. Whole(r, g)
      BY <3>2, <3>3
    <3> QED
      BY <3>4
  <2> HIDE DEF P
  <2>3. len \in P
    BY <1>1, <2>1, <2>2, Induction
  <2> QED
    BY <2>3 DEF P
<1>5. Whole(len, run)
  <2> HIDE DEF Whole
  <2> QED
    BY <1>2, <1>4, Zenon
<1>6. run[0] = start /\ \A i \in 1..len : run[i] = Body(i, run[i - 1])
  <2>1. 0 \in 0..len /\ \A i \in 1..len : i \in 0..len /\ i # 0
    BY <1>1
  <2> QED
    BY <1>5, <2>1
<1> QED
  BY <1>3, <1>6, Zenon DEF run, len

\* The loop over the vertices.
LEMMA PassLoop ==
    ASSUME NEW G, NEW n \in Nat
    PROVE  /\ Pass(G, n)[0] = {}
           /\ \A i \in 1..n : Pass(G, n)[i] = IF Pass(G, n)[i - 1] = Edges(G) THEN Pass(G, n)[i - 1] ELSE cyclic_del_edge(G, i - 1, Pass(G, n)[i - 1])
<1> DEFINE Body(i, s) == IF s = Edges(G) THEN s ELSE cyclic_del_edge(G, i - 1, s)
           start == {}
           Whole(r, f) == f = [i \in 0..r |-> IF i = 0 THEN start ELSE Body(i, f[i - 1])]
           run == Pass(G, n)
           len == n
<1>1. len \in Nat
  OBVIOUS
<1>2. run = CHOOSE f : Whole(len, f)
  BY Zenon DEF Pass
<1>3. start = {} /\ \A i \in 1..len : Body(i, run[i - 1]) = IF run[i - 1] = Edges(G) THEN run[i - 1] ELSE cyclic_del_edge(G, i - 1, run[i - 1])
  BY Zenon
<1> HIDE DEF Body, start, run, len
<1>4. \E f : Whole(len, f)
  <2> DEFINE P == {r \in 0..len : \E f : Whole(r, f)}
  <2>1. 0 \in P
    <3>1. Whole(0, [i \in 0..0 |-> start])
      OBVIOUS
    <3>2. \E f : Whole(0, f)
      <4> HIDE DEF Whole
      <4> QED
        BY <3>1
    <3> QED
      BY <1>1, <3>2
  <2>2. ASSUME NEW r \in 1..len, r - 1 \in P PROVE r \in P
    <3>1. PICK f : Whole(r - 1, f)
      BY <2>2
    <3> DEFINE new == Body(r, f[r - 1])
               g == [i \in 0..r |-> IF i = r THEN new ELSE f[i]]
    <3>2. \A i \in 0..r : g[i] = IF i = 0 THEN start ELSE Body(i, g[i - 1])
      <4> TAKE i \in 0..r
      <4>1. r - 1 \in 0..r /\ r - 1 # r /\ r # 0
        BY <1>1
      <4>2. g[r] = new /\ g[r - 1] = f[r - 1]
        <5> HIDE DEF new
        <5> QED
          BY <4>1
      <4>3. CASE i = r
        BY <4>1, <4>2, <4>3
      <4>4. CASE i # r
        <5>1. i \in 0..(r - 1) /\ (i # 0 => i - 1 \in 0..r /\ i - 1 # r)
          BY <4>4, <1>1
        <5>2. g[i] = f[i] /\ (i # 0 => g[i - 1] = f[i - 1])
          <6> HIDE DEF new
          <6> QED
            BY <4>4, <5>1
        <5>3. f[i] = IF i = 0 THEN start ELSE Body(i, f[i - 1])
          BY <3>1, <5>1
        <5> HIDE DEF g
        <5> QED
          BY <5>2, <5>3
      <4> QED
        BY <4>3, <4>4
    <3>3. g = [i \in 0..r |-> g[i]]
      OBVIOUS
    <3> HIDE DEF g
    <3>4. Whole(r, g)
      BY <3>2, <3>3
    <3> QED
      BY <3>4
  <2> HIDE DEF P
  <2>3. len \in P
    BY <1>1, <2>1, <2>2, Induction
  <2> QED
    BY <2>3 DEF P
<1>5. Whole(len, run)
  <2> HIDE DEF Whole
  <2> QED
    BY <1>2, <1>4, Zenon
<1>6. run[0] = start /\ \A i \in 1..len : run[i] = Body(i, run[i - 1])
  <2>1. 0 \in 0..len /\ \A i \in 1..len : i \in 0..len /\ i # 0
    BY <1>1
  <2> QED
    BY <1>5, <2>1
<1> QED
  BY <1>3, <1>6, Zenon DEF run, len

\* The loop of the traversal.
LEMMA AssignLoop ==
    ASSUME NEW G, NEW n, Rounds(G, n) \in Nat
    PROVE  /\ chm_assign(G, n)[0] = [g |-> [v \in 0..(n - 1) |-> 0], visited |-> {}, stack |-> <<>>,
                                   seen |-> [v \in 0..(n - 1) |-> 0], root |-> 0]
           /\ \A i \in 1..Rounds(G, n) : chm_assign(G, n)[i] = chm_step(G, n, chm_assign(G, n)[i - 1])
<1> DEFINE Body(i, s) == chm_step(G, n, s)
           start == [g |-> [v \in 0..(n - 1) |-> 0], visited |-> {}, stack |-> <<>>,
                                   seen |-> [v \in 0..(n - 1) |-> 0], root |-> 0]
           Whole(r, f) == f = [i \in 0..r |-> IF i = 0 THEN start ELSE Body(i, f[i - 1])]
           run == chm_assign(G, n)
           len == Rounds(G, n)
<1>1. len \in Nat
  OBVIOUS
<1>2. run = CHOOSE f : Whole(len, f)
  BY Zenon DEF chm_assign
<1>3. start = [g |-> [v \in 0..(n - 1) |-> 0], visited |-> {}, stack |-> <<>>,
                                   seen |-> [v \in 0..(n - 1) |-> 0], root |-> 0] /\ \A i \in 1..len : Body(i, run[i - 1]) = chm_step(G, n, run[i - 1])
  BY Zenon
<1> HIDE DEF Body, start, run, len
<1>4. \E f : Whole(len, f)
  <2> DEFINE P == {r \in 0..len : \E f : Whole(r, f)}
  <2>1. 0 \in P
    <3>1. Whole(0, [i \in 0..0 |-> start])
      OBVIOUS
    <3>2. \E f : Whole(0, f)
      <4> HIDE DEF Whole
      <4> QED
        BY <3>1
    <3> QED
      BY <1>1, <3>2
  <2>2. ASSUME NEW r \in 1..len, r - 1 \in P PROVE r \in P
    <3>1. PICK f : Whole(r - 1, f)
      BY <2>2
    <3> DEFINE new == Body(r, f[r - 1])
               g == [i \in 0..r |-> IF i = r THEN new ELSE f[i]]
    <3>2. \A i \in 0..r : g[i] = IF i = 0 THEN start ELSE Body(i, g[i - 1])
      <4> TAKE i \in 0..r
      <4>1. r - 1 \in 0..r /\ r - 1 # r /\ r # 0
        BY <1>1
      <4>2. g[r] = new /\ g[r - 1] = f[r - 1]
        <5> HIDE DEF new
        <5> QED
          BY <4>1
      <4>3. CASE i = r
        BY <4>1, <4>2, <4>3
      <4>4. CASE i # r
        <5>1. i \in 0..(r - 1) /\ (i # 0 => i - 1 \in 0..r /\ i - 1 # r)
          BY <4>4, <1>1
        <5>2. g[i] = f[i] /\ (i # 0 => g[i - 1] = f[i - 1])
          <6> HIDE DEF new
          <6> QED
            BY <4>4, <5>1
        <5>3. f[i] = IF i = 0 THEN start ELSE Body(i, f[i - 1])
          BY <3>1, <5>1
        <5> HIDE DEF g
        <5> QED
          BY <5>2, <5>3
      <4> QED
        BY <4>3, <4>4
    <3>3. g = [i \in 0..r |-> g[i]]
      OBVIOUS
    <3> HIDE DEF g
    <3>4. Whole(r, g)
      BY <3>2, <3>3
    <3> QED
      BY <3>4
  <2> HIDE DEF P
  <2>3. len \in P
    BY <1>1, <2>1, <2>2, Induction
  <2> QED
    BY <2>3 DEF P
<1>5. Whole(len, run)
  <2> HIDE DEF Whole
  <2> QED
    BY <1>2, <1>4, Zenon
<1>6. run[0] = start /\ \A i \in 1..len : run[i] = Body(i, run[i - 1])
  <2>1. 0 \in 0..len /\ \A i \in 1..len : i \in 0..len /\ i # 0
    BY <1>1
  <2> QED
    BY <1>5, <2>1
<1> QED
  BY <1>3, <1>6, Zenon DEF run, len

\* The ends of an edge; the edges of S are stuck when none of them has an
\* end to itself; what peeling deletes is in no such set.
Ends(G, e) == {G[e][1], G[e][2]}
Stuck(G, S) == \A e \in S : \A v \in Ends(G, e) : \E f \in S \ {e} : v \in Ends(G, f)
SparesStuck(G, D) ==
    /\ D \in SUBSET Edges(G)
    /\ \A S \in SUBSET Edges(G) : Stuck(G, S) => S \cap D = {}
Settled(G, D, W) == \A w \in W : Cardinality(find_degree1_edge(G, w, D)) # 1

\* A set of one element.
LEMMA OneElement ==
    ASSUME NEW S, Cardinality(S) = 1, IsFiniteSet(S)
    PROVE  \E x : S = {x}
<1>1. S # {}
  BY FS_EmptySet
<1>2. PICK x \in S : TRUE
  BY <1>1
<1>3. IsFiniteSet({x}) /\ Cardinality({x}) = 1 /\ {x} \in SUBSET S
  BY FS_Singleton
<1>4. {x} = S
  BY <1>3, FS_Subset
<1> QED
  BY <1>4

\* One edge of a chain.
LEMMA ChainStep ==
    ASSUME NEW G, IsFiniteSet(Edges(G)), NEW W, NEW s, s = [v |-> s.v, deleted |-> s.deleted],
           SparesStuck(G, s.deleted), Settled(G, s.deleted, W \ {s.v})
    PROVE  LET t == NextOfChain(G, s)
           IN  /\ t = [v |-> t.v, deleted |-> t.deleted]
               /\ SparesStuck(G, t.deleted) /\ Settled(G, t.deleted, W \ {t.v})
               /\ Cardinality(find_degree1_edge(G, s.v, s.deleted)) # 1 => t = s
               /\ Cardinality(find_degree1_edge(G, s.v, s.deleted)) = 1 =>
                     Cardinality(t.deleted) = Cardinality(s.deleted) + 1
<1> DEFINE t == NextOfChain(G, s)
           D == s.deleted
           found == find_degree1_edge(G, s.v, D)
           e == CHOOSE e \in found : TRUE
           x == Other(G, e, s.v)
<1>1. t = IF Cardinality(found) # 1 THEN s ELSE [v |-> x, deleted |-> D \cup {e}]
  BY Zenon DEF NextOfChain
<1>2. CASE Cardinality(found) # 1
  <2>1. t = s
    BY <1>1, <1>2
  <2> HIDE DEF t
  <2> QED
    BY <1>2, <2>1 DEF t
<1>3. CASE Cardinality(found) = 1
  <2>1. found \in SUBSET Edges(G) /\ IsFiniteSet(found)
    BY FS_Subset DEF find_degree1_edge
  <2>2. found = {e}
    <3>1. PICK y : found = {y}
      BY <1>3, <2>1, OneElement
    <3> QED
      BY <3>1
  <2>3. t = [v |-> x, deleted |-> D \cup {e}]
    BY <1>1, <1>3
  <2>4. e \in Edges(G) /\ e \notin D /\ s.v \in Ends(G, e)
    BY <2>2 DEF find_degree1_edge, Ends
  <2>5. \A w : find_degree1_edge(G, w, D) = {f \in Edges(G) \ D : w \in Ends(G, f)}
    BY DEF find_degree1_edge, Ends
  <2>6. x \in Ends(G, e) /\ Ends(G, e) = {x, s.v}
    BY <2>4 DEF Other, Ends
  <2> HIDE DEF e, x, t, found
  <2>7. t = [v |-> t.v, deleted |-> t.deleted] /\ t.v = x /\ t.deleted = D \cup {e}
    BY <2>3
  <2>8. SparesStuck(G, D \cup {e})
    <3>1. D \in SUBSET Edges(G)
      BY DEF SparesStuck
    <3>2. ASSUME NEW S \in SUBSET Edges(G), Stuck(G, S) PROVE S \cap (D \cup {e}) = {}
      <4>1. S \cap D = {}
        BY <3>2 DEF SparesStuck
      <4>2. e \notin S
        <5>1. SUFFICES ASSUME e \in S PROVE FALSE
          OBVIOUS
        <5>2. PICK f \in S \ {e} : s.v \in Ends(G, f)
          BY <2>4, <3>2, <5>1 DEF Stuck
        <5>3. f \in find_degree1_edge(G, s.v, D)
          BY <2>5, <4>1, <5>2
        <5> QED
          BY <2>2, <5>2, <5>3 DEF found
      <4> QED
        BY <4>1, <4>2
    <3> QED
      BY <2>4, <3>1, <3>2 DEF SparesStuck
  <2>9. ASSUME NEW w \in W \ {x} PROVE Cardinality(find_degree1_edge(G, w, D \cup {e})) # 1
    <3>1. find_degree1_edge(G, w, D \cup {e}) = find_degree1_edge(G, w, D) \ {e}
      BY DEF find_degree1_edge
    <3>2. CASE w = s.v
      <4>1. find_degree1_edge(G, w, D \cup {e}) = {}
        BY <2>2, <3>1, <3>2 DEF found
      <4> QED
        BY <4>1, FS_EmptySet
    <3>3. CASE w # s.v
      <4>1. w \notin Ends(G, e)
        BY <2>6, <3>3
      <4>2. e \notin find_degree1_edge(G, w, D)
        BY <2>5, <4>1
      <4>3. find_degree1_edge(G, w, D \cup {e}) = find_degree1_edge(G, w, D)
        BY <3>1, <4>2
      <4> QED
        BY <3>3, <4>3 DEF Settled
    <3> QED
      BY <3>2, <3>3
  <2>10. Cardinality(D \cup {e}) = Cardinality(D) + 1
    <3>1. IsFiniteSet(D)
      BY FS_Subset DEF SparesStuck
    <3> QED
      BY <2>4, <3>1, FS_AddElement
  <2>11. Settled(G, D \cup {e}, W \ {x})
    BY <2>9 DEF Settled
  <2>12. SparesStuck(G, t.deleted) /\ Settled(G, t.deleted, W \ {t.v})
         /\ Cardinality(t.deleted) = Cardinality(D) + 1
    BY <2>7, <2>8, <2>10, <2>11
  <2> QED
    BY <1>3, <2>7, <2>12 DEF t, found
<1> QED
  BY <1>2, <1>3

\* A chain ends where it settles its last vertex.
LEMMA ChainFacts ==
    ASSUME NEW G, Len(G) \in Nat, Edges(G) = 1..Len(G), NEW W, NEW v, NEW D,
           SparesStuck(G, D), Settled(G, D, W \ {v})
    PROVE  SparesStuck(G, cyclic_del_edge(G, v, D)) /\ Settled(G, cyclic_del_edge(G, v, D), W)
<1> DEFINE n == Len(G)
           run == ChainFrom(G, v, D)
           Single(s) == Cardinality(find_degree1_edge(G, s.v, s.deleted)) = 1
           Good(s, i) == /\ s = [v |-> s.v, deleted |-> s.deleted]
                         /\ SparesStuck(G, s.deleted) /\ Settled(G, s.deleted, W \ {s.v})
                         /\ Single(s) => Cardinality(s.deleted) >= i
           P == {i \in 0..n : Good(run[i], i)}
<1>1. n \in Nat
  OBVIOUS
<1>2. run[0] = [v |-> v, deleted |-> D] /\ \A i \in 1..n : run[i] = NextOfChain(G, run[i - 1])
  BY ChainLoop
<1>3. IsFiniteSet(Edges(G)) /\ Cardinality(Edges(G)) = n
  <2>1. Edges(G) = 1..n
    OBVIOUS
  <2> HIDE DEF n
  <2> QED
    BY <1>1, <2>1, FS_Interval, SMTT(30)
<1>4. \A X : SparesStuck(G, X) => X \in SUBSET Edges(G) /\ IsFiniteSet(X) /\ Cardinality(X) \in Nat
                                  /\ Cardinality(X) <= n /\ (Cardinality(X) = n => X = Edges(G))
  BY <1>3, FS_Subset, FS_CardinalityType DEF SparesStuck
<1>11. \A s, i : Good(s, i) <=> /\ s = [v |-> s.v, deleted |-> s.deleted]
                                /\ SparesStuck(G, s.deleted) /\ Settled(G, s.deleted, W \ {s.v})
                                /\ Single(s) => Cardinality(s.deleted) >= i
  OBVIOUS
<1> HIDE DEF run, n, Single
<1>5. 0 \in P
  <2>1. Good(run[0], 0)
    BY <1>2, <1>4
  <2> QED
    BY <1>1, <2>1
<1>6. ASSUME NEW i \in 1..n, i - 1 \in P PROVE i \in P
  <2> DEFINE s == run[i - 1]
             t == NextOfChain(G, s)
  <2>1. /\ s = [v |-> s.v, deleted |-> s.deleted]
        /\ SparesStuck(G, s.deleted) /\ Settled(G, s.deleted, W \ {s.v})
        /\ Single(s) => Cardinality(s.deleted) >= i - 1
    BY <1>6
  <2> HIDE DEF s, Good
  <2>2. /\ t = [v |-> t.v, deleted |-> t.deleted]
        /\ SparesStuck(G, t.deleted) /\ Settled(G, t.deleted, W \ {t.v})
        /\ ~Single(s) => t = s
        /\ Single(s) => Cardinality(t.deleted) = Cardinality(s.deleted) + 1
    BY <1>3, <2>1, ChainStep, Zenon DEF Single
  <2> HIDE DEF t
  <2>3. Single(t) => Cardinality(t.deleted) >= i
    <3>1. Cardinality(s.deleted) \in Nat
      BY <1>4, <2>1
    <3>2. Single(t) => Single(s)
      BY <2>2
    <3> QED
      BY <1>1, <2>1, <2>2, <3>1, <3>2
  <2>4. Good(t, i)
    BY <1>11, <2>2, <2>3, Zenon
  <2>5. run[i] = t
    BY <1>2 DEF s, t
  <2> QED
    BY <1>1, <2>4, <2>5
<1>7. 0..n \subseteq P
  <2> HIDE DEF P
  <2> QED
    BY <1>1, <1>5, <1>6, Induction
<1>12. n \in P
  <2> HIDE DEF P
  <2> QED
    BY <1>1, <1>7
<1> HIDE DEF Good
<1>13. Good(run[n], n)
  BY <1>12
<1> DEFINE r == run[n]
<1>8. /\ SparesStuck(G, r.deleted) /\ Settled(G, r.deleted, W \ {r.v})
      /\ Single(r) => Cardinality(r.deleted) >= n
  BY <1>11, <1>13, Zenon
<1>9. ~Single(r)
  <2>1. SUFFICES ASSUME Single(r) PROVE FALSE
    OBVIOUS
  <2> HIDE DEF r
  <2>2. r.deleted = Edges(G)
    BY <1>1, <1>4, <1>8, <2>1
  <2>3. find_degree1_edge(G, r.v, r.deleted) = {}
    BY <2>2 DEF find_degree1_edge
  <2> QED
    BY <2>1, <2>3, FS_EmptySet DEF Single
<1>10. cyclic_del_edge(G, v, D) = r.deleted
  BY Zenon DEF cyclic_del_edge, run, n
<1> QED
  BY <1>8, <1>9, <1>10 DEF Settled, Single

\* Peeling deletes no edge of a stuck set, and leaves one.
LEMMA PeelingFacts ==
    ASSUME NEW G, Len(G) \in Nat, Edges(G) = 1..Len(G), NEW n \in Nat,
           \A e \in Edges(G) : Ends(G, e) \in SUBSET (0..(n - 1))
    PROVE  SparesStuck(G, DeletedUpTo(G, n)) /\ Stuck(G, Edges(G) \ DeletedUpTo(G, n))
<1> DEFINE run == Pass(G, n)
           Good(D, i) == SparesStuck(G, D) /\ Settled(G, D, 0..(i - 1))
           P == {i \in 0..n : Good(run[i], i)}
<1>1. run[0] = {} /\ \A i \in 1..n : run[i] = IF run[i - 1] = Edges(G) THEN run[i - 1]
                                              ELSE cyclic_del_edge(G, i - 1, run[i - 1])
  BY PassLoop
<1> HIDE DEF run
<1>2. 0 \in P
  <2>1. 0..(0 - 1) = {}
    OBVIOUS
  <2>2. Good(run[0], 0)
    BY <1>1, <2>1 DEF SparesStuck, Settled
  <2> QED
    BY <2>2
<1>3. ASSUME NEW i \in 1..n, i - 1 \in P PROVE i \in P
  <2> DEFINE D == run[i - 1]
  <2>1. SparesStuck(G, D) /\ Settled(G, D, 0..((i - 1) - 1))
    BY <1>3
  <2> HIDE DEF D
  <2>2. CASE D = Edges(G)
    <3>1. \A w : find_degree1_edge(G, w, D) = {}
      BY <2>2 DEF find_degree1_edge
    <3>2. Settled(G, D, 0..(i - 1))
      BY <3>1, FS_EmptySet DEF Settled
    <3>3. run[i] = D
      BY <1>1, <2>2 DEF D
    <3> QED
      BY <2>1, <3>2, <3>3
  <2>3. CASE D # Edges(G)
    <3>1. (0..(i - 1)) \ {i - 1} \in SUBSET (0..((i - 1) - 1))
      OBVIOUS
    <3>2. Settled(G, D, (0..(i - 1)) \ {i - 1})
      BY <2>1, <3>1 DEF Settled
    <3>3. SparesStuck(G, cyclic_del_edge(G, i - 1, D)) /\ Settled(G, cyclic_del_edge(G, i - 1, D), 0..(i - 1))
      BY <2>1, <3>2, ChainFacts
    <3>4. run[i] = cyclic_del_edge(G, i - 1, D)
      BY <1>1, <2>3 DEF D
    <3> QED
      BY <3>3, <3>4
  <2> QED
    BY <2>2, <2>3
<1>4. 0..n \subseteq P
  <2> HIDE DEF P
  <2> QED
    BY <1>2, <1>3, Induction
<1> DEFINE D == DeletedUpTo(G, n)
<1>5. D = run[n]
  BY DEF DeletedUpTo, run
<1>6. SparesStuck(G, D) /\ Settled(G, D, 0..(n - 1))
  BY <1>4, <1>5
<1> HIDE DEF D
<1>7. ASSUME NEW e \in Edges(G) \ D, NEW v \in Ends(G, e)
      PROVE  \E f \in (Edges(G) \ D) \ {e} : v \in Ends(G, f)
  <2> DEFINE found == find_degree1_edge(G, v, D)
  <2>1. found = {f \in Edges(G) \ D : v \in Ends(G, f)} /\ e \in found
    BY DEF find_degree1_edge, Ends
  <2>2. Cardinality(found) # 1
    BY <1>6 DEF Settled
  <2>3. found # {e}
    BY <2>2, FS_Singleton
  <2> QED
    BY <2>1, <2>3
<1> QED
  BY <1>6, <1>7 DEF Stuck, D

\* A graph on the vertices 0 .. n - 1, its edges between different ones, and
\* one that peeling can take apart.
Simple(G, n) ==
    /\ Len(G) \in Nat /\ Edges(G) = 1..Len(G)
    /\ \A e \in Edges(G) : G[e][1] \in 0..(n - 1) /\ G[e][2] \in 0..(n - 1) /\ G[e][1] # G[e][2]
Acyclic(G) == \A S \in SUBSET Edges(G) : Stuck(G, S) => S = {}
Within(G, C) == {e \in Edges(G) : Ends(G, e) \in SUBSET C}

\* A set of vertices of an acyclic graph has more vertices than edges.
LEMMA ForestSmall ==
    ASSUME NEW n \in Nat, NEW G, Simple(G, n), Acyclic(G), NEW C, IsFiniteSet(C),
           NEW T \in SUBSET Within(G, C), T # {}
    PROVE  /\ IsFiniteSet(T) /\ Cardinality(T) \in Nat /\ Cardinality(C) \in Nat
           /\ Cardinality(T) < Cardinality(C)
<1> DEFINE N == Len(G)
           Good(i) == \A D \in SUBSET C : \A S \in SUBSET Within(G, D) :
                         Cardinality(S) = i /\ S # {} => i < Cardinality(D)
           P == {i \in 0..N : Good(i)}
<1>1. N \in Nat /\ IsFiniteSet(Edges(G)) /\ Cardinality(Edges(G)) = N
  BY FS_Interval DEF Simple
<1>2. \A S \in SUBSET Edges(G) : IsFiniteSet(S) /\ Cardinality(S) \in 0..N
  BY <1>1, FS_Subset, FS_CardinalityType
<1>3. \A D : Within(G, D) \in SUBSET Edges(G)
  BY DEF Within
<1>4. \A D \in SUBSET C : IsFiniteSet(D) /\ Cardinality(D) \in Nat
  BY FS_Subset, FS_CardinalityType
<1> HIDE DEF N
<1>5. 0 \in P
  <2>1. ASSUME NEW D \in SUBSET C, NEW S \in SUBSET Within(G, D), Cardinality(S) = 0 PROVE S = {}
    BY <1>2, <1>3, <2>1, FS_EmptySet
  <2> QED
    BY <1>1, <2>1
<1>6. ASSUME NEW i \in 1..N, i - 1 \in P PROVE i \in P
  <2>0. Good(i - 1)
    BY <1>6
  <2>1. ASSUME NEW D \in SUBSET C, NEW S \in SUBSET Within(G, D), Cardinality(S) = i, S # {}
        PROVE  i < Cardinality(D)
    <3>1. S \in SUBSET Edges(G)
      BY <1>3
    <3>12. PICK e \in S : \E v \in Ends(G, e) : \A f \in S \ {e} : v \notin Ends(G, f)
      BY <2>1, <3>1 DEF Acyclic, Stuck
    <3>2. PICK v \in Ends(G, e) : \A f \in S \ {e} : v \notin Ends(G, f)
      BY <3>12
    <3>3. Ends(G, e) \in SUBSET D /\ e \in Edges(G)
      BY <3>1 DEF Within
    <3>4. PICK w \in Ends(G, e) : w # v
      BY <3>3 DEF Ends, Simple
    <3>5. IsFiniteSet(D) /\ Cardinality(D) \in Nat /\ v \in D /\ w \in D \ {v}
      BY <1>4, <3>3, <3>4
    <3>6. IsFiniteSet(S) /\ Cardinality(S) \in 0..N
      BY <1>2, <3>1
    <3>7. Cardinality(S \ {e}) = i - 1
      BY <2>1, <3>6, FS_RemoveElement
    <3>8. IsFiniteSet(D \ {v}) /\ Cardinality(D \ {v}) = Cardinality(D) - 1 /\ D \ {v} \in SUBSET C
      BY <3>5, FS_RemoveElement
    <3>9. S \ {e} \in SUBSET Within(G, D \ {v})
      BY <3>1, <3>2 DEF Within
    <3>10. CASE S \ {e} = {}
      <4>1. i = 1
        BY <3>7, <3>10, FS_EmptySet
      <4>2. Cardinality(D \ {v}) # 0
        BY <3>5, <3>8, FS_EmptySet
      <4>3. Cardinality(D) \in Nat /\ Cardinality(D) - 1 # 0
        BY <3>5, <3>8, <4>2
      <4>4. Cardinality(D) # 0
        BY <3>5, FS_EmptySet
      <4> HIDE DEF Good, P
      <4> QED
        BY <4>1, <4>3, <4>4
    <3>11. CASE S \ {e} # {}
      <4>1. i - 1 < Cardinality(D \ {v})
        BY <2>0, <3>7, <3>8, <3>9, <3>11
      <4> QED
        BY <3>5, <3>8, <4>1
    <3> QED
      BY <3>10, <3>11
  <2>2. Good(i)
    BY <2>1
  <2> QED
    BY <1>1, <2>2
<1>7. 0..N \subseteq P
  <2> HIDE DEF P
  <2> QED
    BY <1>1, <1>5, <1>6, Induction
<1>8. T \in SUBSET Edges(G)
  BY <1>3
<1>9. IsFiniteSet(T) /\ Cardinality(T) \in 0..N
  BY <1>2, <1>8
<1>10. Cardinality(T) \in P
  <2> HIDE DEF P
  <2> QED
    BY <1>7, <1>9
<1>11. Cardinality(T) < Cardinality(C)
  BY <1>10
<1> QED
  BY <1>1, <1>4, <1>9, <1>11

\* The edges l of a vertex, each of them once, and where they lead to.
Around(G, n, v, l, nb) ==
    /\ Len(l) \in Nat /\ Len(nb) = Len(l)
    /\ \A i \in 1..Len(l) : l[i] \in Edges(G) /\ v \in Ends(G, l[i])
    /\ \A e \in Edges(G) : v \in Ends(G, e) => \E i \in 1..Len(l) : l[i] = e
    /\ \A i, j \in 1..Len(l) : l[i] = l[j] => i = j
    /\ \A i \in 1..Len(l) : Ends(G, l[i]) = {v, nb[i]} /\ nb[i] # v /\ nb[i] \in 0..(n - 1)

\* The list of a vertex holds its edges, each once, and the other ends.
LEMMA EdgeListFacts ==
    ASSUME NEW n \in Nat, NEW G, Simple(G, n), NEW v
    PROVE  Around(G, n, v, EdgeList(G, v), graph_neighbors(G, v))
<1> DEFINE T == {e \in Edges(G) : v \in {G[e][1], G[e][2]}}
           q == InOrder(T)
           k == Cardinality(T)
           l == EdgeList(G, v)
           nb == graph_neighbors(G, v)
<1>1. T \in SUBSET Int /\ IsFiniteSet(T)
  <2>1. IsFiniteSet(Edges(G)) /\ Edges(G) \in SUBSET Int
    BY FS_Interval DEF Simple
  <2> QED
    BY <2>1, FS_Subset
<1>2. \A e : e \in T <=> e \in Edges(G) /\ v \in Ends(G, e)
  BY DEF Ends
<1>3. l = Reverse(q)
  BY DEF EdgeList
<1> HIDE DEF T
<1>4. /\ k \in Nat /\ Len(q) = k /\ \A i \in 1..k : q[i] \in T
      /\ \A i, j \in 1..k : i < j => q[i] < q[j]
      /\ \A x \in T : \E i \in 1..k : q[i] = x
  BY <1>1, InOrderFacts, Zenon
<1>5. l = [i \in 1..k |-> q[(k - i) + 1]]
  BY <1>3, <1>4 DEF Reverse
<1> HIDE DEF q, k, l
<1>17. \A i \in 1..k : q[(k - i) + 1] \in T
  <2> TAKE i \in 1..k
  <2>1. (k - i) + 1 \in 1..k
    BY <1>4
  <2> QED
    BY <1>4, <2>1
<1>6. Len(l) = k /\ \A i \in 1..k : l[i] = q[(k - i) + 1] /\ (k - i) + 1 \in 1..k
  <2>1. l \in [1..k -> T]
    BY <1>5, <1>17
  <2>2. l \in Seq(T) /\ Len(l) = k
    BY <1>4, <1>5, <1>17
  <2> QED
    BY <1>4, <1>5, <2>2
<1>7. \A i \in 1..k : l[i] \in T
  BY <1>4, <1>6
<1>8. ASSUME NEW x \in T PROVE \E i \in 1..k : l[i] = x
  <2>1. PICK j \in 1..k : q[j] = x
    BY <1>4
  <2>2. (k - j) + 1 \in 1..k /\ (k - ((k - j) + 1)) + 1 = j
    BY <1>4
  <2> QED
    BY <1>6, <2>1, <2>2
<1>9. ASSUME NEW i \in 1..k, NEW j \in 1..k, l[i] = l[j] PROVE i = j
  <2>1. \A a \in T : a \in Int
    BY <1>1
  <2>2. ASSUME NEW a \in 1..k, NEW b \in 1..k, q[a] = q[b] PROVE ~(a < b)
    <3>1. a < b => q[a] < q[b]
      BY <1>4
    <3>2. q[a] \in Int /\ q[b] \in Int
      BY <1>4, <2>1
    <3> QED
      BY <2>2, <3>1, <3>2
  <2>3. q[(k - i) + 1] = q[(k - j) + 1] /\ (k - i) + 1 \in 1..k /\ (k - j) + 1 \in 1..k
    BY <1>6, <1>9
  <2>4. ~((k - i) + 1 < (k - j) + 1) /\ ~((k - j) + 1 < (k - i) + 1)
    BY <2>2, <2>3
  <2> QED
    BY <1>4, <2>4
<1>10. DOMAIN l = 1..k
  BY <1>5
<1>11. nb = [i \in 1..k |-> Other(G, l[i], v)]
  BY <1>10 DEF graph_neighbors, l
<1> HIDE DEF nb
<1>12. ASSUME NEW i \in 1..k
       PROVE  Ends(G, l[i]) = {v, nb[i]} /\ nb[i] # v /\ nb[i] \in 0..(n - 1)
  <2>1. l[i] \in Edges(G) /\ v \in Ends(G, l[i])
    BY <1>2, <1>7
  <2> QED
    BY <1>11, <2>1 DEF Ends, Other, Simple
<1>13. Len(nb) = k
  <2>1. nb \in [1..k -> 0..(n - 1)]
    <3>1. \A i \in 1..k : nb[i] \in 0..(n - 1)
      BY <1>12
    <3> QED
      BY <1>11, <3>1
  <2> QED
    BY <1>4, <1>11, <2>1
<1>14. \A i \in 1..k : l[i] \in Edges(G) /\ v \in Ends(G, l[i])
  BY <1>2, <1>7
<1>15. \A e \in Edges(G) : v \in Ends(G, e) => \E i \in 1..k : l[i] = e
  BY <1>2, <1>8
<1>16. Len(l) = k /\ k \in Nat
  BY <1>4, <1>6
<1>18. Around(G, n, v, l, nb)
  BY <1>9, <1>12, <1>13, <1>14, <1>15, <1>16 DEF Around
<1> QED
  BY <1>18 DEF l, nb

\* A number is taken away from another one, and added again.
LEMMA AddMod ==
    ASSUME NEW k \in Nat \ {0}, NEW a \in 0..(k - 1), NEW e \in Nat,
           NEW x, x = (e + k - a) % k
    PROVE  x \in 0..(k - 1) /\ (a + x) % k = e % k /\ (x + a) % k = e % k
<1> DEFINE y == e + k - a
           u == e \div k
           r == e % k
<1>1. y \in Nat /\ a \in Nat /\ y + a = e + k
  OBVIOUS
<1>2. u \in Nat /\ r \in 0..(k - 1) /\ e = k * u + r
  OBVIOUS
<1>3. k * (u + 1) = k * u + k /\ u + 1 \in Nat
  BY <1>2
<1>4. e + k = k * (u + 1) + r
  <2> DEFINE w == k * u
  <2>1. w \in Nat
    BY <1>2
  <2>2. e = w + r /\ k * (u + 1) = w + k
    BY <1>2, <1>3
  <2> HIDE DEF w, u, r
  <2> QED
    BY <1>2, <2>1, <2>2
<1> HIDE DEF u, r
<1>5. (e + k) % k = r
  BY <1>2, <1>3, <1>4, DivisionUnique
<1> HIDE DEF y
<1>6. x = y % k
  BY DEF y
<1>7. x \in 0..(k - 1)
  BY <1>1, <1>6
<1>8. (x + a) % k = (y + a) % k
  BY <1>1, <1>6, ModPlus, ZenonT(40)
<1>9. a + x = x + a
  BY <1>1, <1>7
<1> QED
  BY <1>1, <1>5, <1>7, <1>8, <1>9 DEF r

InSeq(q, w) == \E i \in 1..Len(q) : q[i] = w

\* What is on a stack after a push
LEMMA PushFacts ==
    ASSUME NEW A, NEW q \in Seq(A), NEW v
    PROVE  /\ <<v>> \o q \in Seq(A \cup {v}) /\ Len(<<v>> \o q) = Len(q) + 1 /\ Len(q) \in Nat
           /\ \A w : InSeq(q, w) => InSeq(<<v>> \o q, w)
           /\ InSeq(<<v>> \o q, v)
<1> DEFINE B == A \cup {v}
           h == <<v>>
           r == h \o q
<1>1. h \in Seq(B) /\ q \in Seq(B) /\ Len(h) = 1 /\ h[1] = v /\ Len(q) \in Nat
  BY LenProperties
<1> HIDE DEF B, h, r
<1>2. r \in Seq(B) /\ Len(r) = Len(h) + Len(q)
      /\ \A i \in 1..(Len(h) + Len(q)) : r[i] = IF i <= Len(h) THEN h[i] ELSE q[i - Len(h)]
  BY <1>1, ConcatProperties DEF r
<1>3. Len(r) = Len(q) + 1 /\ \A i \in 1..(Len(q) + 1) : r[i] = IF i <= 1 THEN v ELSE q[i - 1]
  BY <1>1, <1>2
<1>4. InSeq(r, v)
  <2>1. 1 \in 1..Len(r) /\ r[1] = v
    BY <1>1, <1>3
  <2> QED
    BY <2>1 DEF InSeq
<1>5. ASSUME NEW w, InSeq(q, w) PROVE InSeq(r, w)
  <2>1. PICK i \in 1..Len(q) : q[i] = w
    BY <1>5 DEF InSeq
  <2>2. i + 1 \in 1..Len(r) /\ r[i + 1] = w
    BY <1>1, <1>3, <2>1
  <2> QED
    BY <2>2 DEF InSeq
<1> QED
  BY <1>1, <1>2, <1>3, <1>4, <1>5 DEF r, h, B

\* and after a pop.
LEMMA PopFacts ==
    ASSUME NEW A, NEW q \in Seq(A), q # <<>>
    PROVE  /\ Tail(q) \in Seq(A) /\ Len(Tail(q)) = Len(q) - 1 /\ Len(q) \in Nat
           /\ Head(q) \in A /\ InSeq(q, Head(q))
           /\ \A w : InSeq(q, w) => w = Head(q) \/ InSeq(Tail(q), w)
<1>1. /\ Head(q) \in A /\ Tail(q) \in Seq(A) /\ Len(Tail(q)) = Len(q) - 1
      /\ \A i \in 1..Len(Tail(q)) : Tail(q)[i] = q[i + 1]
  BY HeadTailProperties
<1>2. Len(q) \in Nat /\ Len(q) # 0
  BY LenProperties, EmptySeq
<1>3. Head(q) = q[1] /\ InSeq(q, Head(q))
  BY <1>2 DEF InSeq
<1>4. ASSUME NEW w, InSeq(q, w), w # Head(q) PROVE InSeq(Tail(q), w)
  <2>1. PICK i \in 1..Len(q) : q[i] = w
    BY <1>4 DEF InSeq
  <2>2. i # 1
    BY <1>3, <1>4, <2>1
  <2>3. i - 1 \in 1..Len(Tail(q)) /\ (i - 1) + 1 = i
    BY <1>1, <1>2, <2>2
  <2>4. Tail(q)[i - 1] = w
    BY <1>1, <2>1, <2>3
  <2> QED
    BY <2>3, <2>4 DEF InSeq
<1> QED
  BY <1>1, <1>2, <1>3, <1>4

(***************************************************************************)
(* The traversal.  Old are the components that are done; in the current    *)
(* one, the vertices that are not on the stack have seen all neighbours.   *)
(***************************************************************************)
TravFields(s) ==
    s = [g |-> s.g, visited |-> s.visited, stack |-> s.stack, seen |-> s.seen, root |-> s.root]
Closed(G, C) == \A e \in Edges(G) : \A v \in Ends(G, e) : v \in C => Ends(G, e) \in SUBSET C
Treelike(G, C) == C # {} => Cardinality(Within(G, C)) = Cardinality(C) - 1
Summed(G, g, C) == \A e \in Within(G, C) : (g[G[e][1]] + g[G[e][2]]) % Word = (e - 1) % Word
Neighbours(G, v) == Len(graph_neighbors(G, v))
Known(G, s) ==
    \A v \in s.visited : \A i \in 1..Neighbours(G, v) :
        i <= s.seen[v] => graph_neighbors(G, v)[i] \in s.visited
Walked(G, n, s, Old) ==
    /\ TravFields(s)
    /\ s.g \in [0..(n - 1) -> 0..(Word - 1)] /\ s.seen \in [0..(n - 1) -> Nat] /\ s.root \in 0..n
    /\ s.visited \in SUBSET (0..(n - 1)) /\ Old \in SUBSET s.visited
    /\ s.stack \in Seq(s.visited \ Old)
    /\ Closed(G, Old) /\ Treelike(G, s.visited \ Old) /\ Summed(G, s.g, s.visited)
    /\ \A v \in s.visited \ Old : InSeq(s.stack, v) \/ s.seen[v] >= Neighbours(G, v)
    /\ Known(G, s)
    /\ \A v \in 0..(n - 1) : v < s.root => v \in s.visited
    /\ \A v \in (0..(n - 1)) \ s.visited : s.seen[v] = 0

\* An edge to a new vertex is the only one from there to the tree.
LEMMA TreeGrows ==
    ASSUME NEW n \in Nat, NEW G, Simple(G, n), Acyclic(G), NEW C \in SUBSET (0..(n - 1)), Treelike(G, C),
           NEW u \in 0..(n - 1), u \notin C, NEW v \in C, NEW e \in Edges(G), Ends(G, e) = {v, u}
    PROVE  /\ Treelike(G, C \cup {u})
           /\ \A f \in Within(G, C \cup {u}) : f = e \/ f \in Within(G, C)
<1> DEFINE A == Within(G, C)
           B == Within(G, C \cup {u})
<1>1. IsFiniteSet(C) /\ IsFiniteSet(C \cup {u}) /\ Cardinality(C \cup {u}) = Cardinality(C) + 1
      /\ Cardinality(C) \in Nat
  <2>1. IsFiniteSet(0..(n - 1))
    BY FS_Interval
  <2>2. IsFiniteSet(C)
    BY <2>1, FS_Subset
  <2> QED
    BY <2>2, FS_AddElement, FS_CardinalityType
<1>2. Cardinality(A) = Cardinality(C) - 1
  BY DEF Treelike
<1>3. A \in SUBSET B /\ e \in B /\ e \notin A
  BY DEF Within, Ends
<1> HIDE DEF A, B
<1>4. IsFiniteSet(B) /\ Cardinality(B) \in Nat /\ Cardinality(B) < Cardinality(C \cup {u})
  <2>1. B \in SUBSET Within(G, C \cup {u}) /\ B # {}
    BY <1>3 DEF B
  <2> QED
    BY <1>1, <2>1, ForestSmall
<1>5. IsFiniteSet(A) /\ IsFiniteSet(A \cup {e}) /\ Cardinality(A \cup {e}) = Cardinality(A) + 1
  <2>1. IsFiniteSet(A)
    BY <1>3, <1>4, FS_Subset
  <2> QED
    BY <1>3, <2>1, FS_AddElement
<1>6. A \cup {e} \in SUBSET B
  BY <1>3
<1>7. Cardinality(A \cup {e}) <= Cardinality(B)
  BY <1>4, <1>6, FS_Subset
<1>8. Cardinality(B) = Cardinality(A \cup {e}) /\ Cardinality(B) = Cardinality(C \cup {u}) - 1
  BY <1>1, <1>2, <1>4, <1>5, <1>7
<1>9. B = A \cup {e}
  BY <1>4, <1>6, <1>8, FS_Subset
<1> QED
  BY <1>8, <1>9 DEF Treelike, A, B

\* When the stack is empty the component is done.
LEMMA ComponentDone ==
    ASSUME NEW n \in Nat, NEW G, Simple(G, n), NEW s, NEW Old, Walked(G, n, s, Old), s.stack = <<>>
    PROVE  Closed(G, s.visited)
<1> SUFFICES ASSUME NEW e \in Edges(G), NEW v \in Ends(G, e), v \in s.visited
             PROVE  Ends(G, e) \in SUBSET s.visited
  BY DEF Closed
<1>1. CASE v \in Old
  BY <1>1 DEF Walked, Closed
<1>2. CASE v \notin Old
  <2>1. ~InSeq(s.stack, v)
    BY DEF InSeq
  <2>2. s.seen[v] >= Neighbours(G, v) /\ s.seen[v] \in Nat
    BY <1>2, <2>1 DEF Walked
  <2> DEFINE l == EdgeList(G, v)
             nb == graph_neighbors(G, v)
  <2>6. Around(G, n, v, l, nb)
    BY EdgeListFacts
  <2>3. /\ Len(l) \in Nat /\ Len(nb) = Len(l)
        /\ \E i \in 1..Len(l) : l[i] = e
        /\ \A i \in 1..Len(l) : Ends(G, l[i]) = {v, nb[i]}
    <3> HIDE DEF l, nb
    <3> QED
      BY <2>6 DEF Around
  <2>4. PICK i \in 1..Len(l) : l[i] = e
    BY <2>3
  <2>5. nb[i] \in s.visited
    <3>1. i \in 1..Neighbours(G, v) /\ i <= s.seen[v]
      BY <2>2, <2>3 DEF Neighbours
    <3> QED
      BY <3>1 DEF Walked, Known
  <2> QED
    BY <2>3, <2>4, <2>5
<1> QED
  BY <1>1, <1>2

\* A vertex is visited.
Visit(s, v, label) ==
    [g |-> [s.g EXCEPT ![v] = label], visited |-> s.visited \cup {v}, stack |-> <<v>> \o s.stack,
     seen |-> s.seen, root |-> s.root]

\* A new component is begun.
LEMMA RootWalked ==
    ASSUME NEW n \in Nat, NEW G, Simple(G, n), NEW s, NEW Old, Walked(G, n, s, Old),
           s.stack = <<>>, s.root < n, s.root \notin s.visited,
           NEW t, t = [g |-> [s.g EXCEPT ![s.root] = 0], visited |-> s.visited \cup {s.root},
                       stack |-> <<s.root>> \o s.stack, seen |-> s.seen, root |-> s.root + 1]
    PROVE  Walked(G, n, t, s.visited)
<1> DEFINE r == s.root
           V == 0..(n - 1)
<1>1. Closed(G, s.visited)
  BY ComponentDone
<1>2. /\ TravFields(t) /\ t.g = [s.g EXCEPT ![r] = 0] /\ t.visited = s.visited \cup {r}
      /\ t.stack = <<r>> \o s.stack /\ t.seen = s.seen /\ t.root = r + 1
  BY DEF TravFields
<1>3. r \in V /\ s.visited \in SUBSET V /\ s.g \in [V -> 0..(Word - 1)] /\ s.seen \in [V -> Nat]
  BY DEF Walked
<1>4. t.g \in [V -> 0..(Word - 1)] /\ \A v \in V : v # r => t.g[v] = s.g[v]
  BY <1>2, <1>3, WordAssumption
<1>5. t.visited \ s.visited = {r}
  BY <1>2
<1>6. t.stack \in Seq(t.visited \ s.visited) /\ InSeq(t.stack, r)
  <2>1. <<>> \in Seq({})
    OBVIOUS
  <2>2. {} \cup {r} = t.visited \ s.visited
    BY <1>5
  <2>3. <<r>> \o <<>> \in Seq({} \cup {r}) /\ InSeq(<<r>> \o <<>>, r)
    BY <2>1, PushFacts
  <2> QED
    BY <1>2, <2>2, <2>3
<1>7. \A e \in Within(G, t.visited) : e \in Within(G, s.visited) /\ r \notin Ends(G, e)
  <2> TAKE e \in Within(G, t.visited)
  <2>1. e \in Edges(G) /\ Ends(G, e) \in SUBSET (s.visited \cup {r})
    BY <1>2 DEF Within
  <2>2. PICK v \in Ends(G, e) : v # r
    BY <2>1 DEF Simple, Ends
  <2>3. v \in s.visited
    BY <2>1, <2>2
  <2>4. Ends(G, e) \in SUBSET s.visited
    BY <1>1, <2>1, <2>3 DEF Closed
  <2> QED
    BY <2>1, <2>4 DEF Within
<1>8. Treelike(G, t.visited \ s.visited)
  <2>1. Within(G, {r}) = {}
    BY DEF Within, Simple, Ends
  <2>2. Cardinality({r}) = 1 /\ Cardinality({}) = 0
    BY FS_Singleton, FS_EmptySet
  <2>3. t.visited \ s.visited = {r}
    BY <1>5
  <2>4. Treelike(G, {r})
    <3>1. Cardinality(Within(G, {r})) = 0
      BY <2>1, <2>2
    <3>2. Cardinality({r}) - 1 = 0
      BY <2>2
    <3> QED
      BY <3>1, <3>2 DEF Treelike
  <2> QED
    BY <2>3, <2>4
<1>9. Summed(G, t.g, t.visited)
  <2> SUFFICES ASSUME NEW e \in Within(G, t.visited)
               PROVE  (t.g[G[e][1]] + t.g[G[e][2]]) % Word = (e - 1) % Word
    BY DEF Summed
  <2>1. e \in Within(G, s.visited) /\ e \in Edges(G)
    BY <1>7 DEF Within
  <2>2. G[e][1] \in V /\ G[e][2] \in V /\ G[e][1] # r /\ G[e][2] # r
    BY <1>7, <2>1 DEF Simple, Ends
  <2>3. t.g[G[e][1]] = s.g[G[e][1]] /\ t.g[G[e][2]] = s.g[G[e][2]]
    BY <1>4, <2>2
  <2>4. (s.g[G[e][1]] + s.g[G[e][2]]) % Word = (e - 1) % Word
    BY <2>1 DEF Walked, Summed
  <2> QED
    BY <2>3, <2>4
<1>10. Known(G, t)
  <2> SUFFICES ASSUME NEW v \in t.visited, NEW i \in 1..Neighbours(G, v), i <= t.seen[v]
               PROVE  graph_neighbors(G, v)[i] \in t.visited
    BY DEF Known
  <2>1. CASE v \in s.visited
    BY <1>2, <2>1 DEF Walked, Known
  <2>2. CASE v = r
    <3>1. s.seen[r] = 0
      BY <1>3 DEF Walked
    <3>2. Neighbours(G, v) \in Nat
      BY EdgeListFacts DEF Neighbours, Around
    <3> QED
      BY <1>2, <2>2, <3>1, <3>2
  <2> QED
    BY <1>2, <2>1, <2>2
<1>11. \A v \in V : v < t.root => v \in t.visited
  <2> TAKE v \in V
  <2>1. v < r => v \in s.visited
    BY DEF Walked
  <2>2. v < r + 1 => v < r \/ v = r
    BY <1>3
  <2> QED
    BY <1>2, <2>1, <2>2
<1>12. \A v \in V \ t.visited : t.seen[v] = 0
  BY <1>2 DEF Walked
<1>13. t.visited \in SUBSET V /\ s.visited \in SUBSET t.visited /\ t.root \in 0..n /\ t.seen \in [V -> Nat]
  BY <1>2, <1>3
<1>14. \A v \in t.visited \ s.visited : InSeq(t.stack, v)
  BY <1>5, <1>6
<1> QED
  BY <1>1, <1>2, <1>4, <1>6, <1>8, <1>9, <1>10, <1>11, <1>12, <1>13, <1>14 DEF Walked

\* The state in which the next neighbour of v has been seen.
Looked(s, v) ==
    [g |-> s.g, visited |-> s.visited, stack |-> s.stack, seen |-> [s.seen EXCEPT ![v] = @ + 1],
     root |-> s.root]

\* What holds at the vertex v in front of the stack.
LEMMA FrontFacts ==
    ASSUME NEW n \in Nat, NEW G, Simple(G, n), NEW s, NEW Old, Walked(G, n, s, Old), s.stack # <<>>,
           NEW v, v = Head(s.stack)
    PROVE  /\ v \in s.visited \ Old /\ v \in 0..(n - 1) /\ InSeq(s.stack, v)
           /\ Neighbours(G, v) \in Nat /\ s.seen[v] \in Nat
<1> DEFINE l == EdgeList(G, v)
           nb == graph_neighbors(G, v)
<1>1. Around(G, n, v, l, nb)
  BY EdgeListFacts
<1>2. s.stack \in Seq(s.visited \ Old) /\ s.visited \in SUBSET (0..(n - 1)) /\ s.seen \in [0..(n - 1) -> Nat]
  BY DEF Walked
<1>3. v \in s.visited \ Old /\ InSeq(s.stack, v)
  BY <1>2, PopFacts
<1>4. v \in 0..(n - 1) /\ s.seen[v] \in Nat
  BY <1>2, <1>3
<1>5. Len(nb) \in Nat
  <2> HIDE DEF l, nb
  <2> QED
    BY <1>1 DEF Around
<1> QED
  BY <1>3, <1>4, <1>5 DEF Neighbours

\* The next neighbour has been visited before: it is looked at only.
LEMMA LookedWalked ==
    ASSUME NEW n \in Nat, NEW G, Simple(G, n), NEW s, NEW Old, Walked(G, n, s, Old), s.stack # <<>>,
           NEW v, v = Head(s.stack), s.seen[v] < Neighbours(G, v),
           graph_neighbors(G, v)[s.seen[v] + 1] \in s.visited
    PROVE  Walked(G, n, Looked(s, v), Old)
<1> DEFINE t == Looked(s, v)
<1>1. /\ TravFields(t) /\ t.g = s.g /\ t.visited = s.visited /\ t.stack = s.stack /\ t.root = s.root
      /\ t.seen = [s.seen EXCEPT ![v] = @ + 1]
  BY DEF Looked, TravFields
<1> HIDE DEF t
<1>2. v \in s.visited /\ v \in 0..(n - 1) /\ InSeq(s.stack, v) /\ s.seen[v] \in Nat
      /\ Neighbours(G, v) \in Nat
  BY FrontFacts
<1>3. s.seen \in [0..(n - 1) -> Nat] /\ s.visited \in SUBSET (0..(n - 1))
  BY DEF Walked
<1>4. t.seen \in [0..(n - 1) -> Nat]
  BY <1>1, <1>2, <1>3, SMTT(20)
<1>5. t.seen[v] = s.seen[v] + 1 /\ \A w \in 0..(n - 1) : w # v => t.seen[w] = s.seen[w]
  BY <1>1, <1>2, <1>3
<1>6. \A w \in t.visited \ Old : InSeq(t.stack, w) \/ t.seen[w] >= Neighbours(G, w)
  <2> TAKE w \in t.visited \ Old
  <2>1. InSeq(s.stack, w) \/ s.seen[w] >= Neighbours(G, w)
    BY <1>1 DEF Walked
  <2>2. w = v => InSeq(s.stack, w)
    BY <1>2
  <2>3. w \in 0..(n - 1)
    BY <1>1, <1>3
  <2> QED
    BY <1>1, <1>5, <2>1, <2>2, <2>3
<1>7. Known(G, t)
  <2> SUFFICES ASSUME NEW w \in t.visited, NEW i \in 1..Neighbours(G, w), i <= t.seen[w]
               PROVE  graph_neighbors(G, w)[i] \in t.visited
    BY DEF Known
  <2>1. CASE i <= s.seen[w]
    BY <1>1, <2>1 DEF Walked, Known
  <2>2. CASE ~(i <= s.seen[w])
    <3>1. w = v
      BY <1>1, <1>3, <1>5, <2>2
    <3>2. i = s.seen[v] + 1
      BY <1>2, <1>5, <2>2, <3>1
    <3> QED
      BY <1>1, <3>1, <3>2
  <2> QED
    BY <2>1, <2>2
<1>8. \A w \in (0..(n - 1)) \ t.visited : t.seen[w] = 0
  BY <1>1, <1>2, <1>5 DEF Walked
<1>9. Walked(G, n, t, Old)
  BY <1>1, <1>4, <1>6, <1>7, <1>8 DEF Walked
<1> QED
  BY <1>9 DEF t

\* The next edge e of the vertex v in front leads to u; x is the label that
\* makes an edge with identifier id right.
InFront(G, s, v, u, e) ==
    /\ s.stack # <<>> /\ v = Head(s.stack) /\ s.seen[v] < Neighbours(G, v)
    /\ u = graph_neighbors(G, v)[s.seen[v] + 1] /\ e = EdgeList(G, v)[s.seen[v] + 1]
Labels(G, s, v, u, id, x) == id = graph_edge_id(G, v, u) /\ x = (id + Word - s.g[v]) % Word
Grown(G, C, u, e) ==
    /\ Treelike(G, C \cup {u})
    /\ \A f \in Within(G, C \cup {u}) : f = e \/ f \in Within(G, C)
AddsUp(a, x, id) == x \in 0..(Word - 1) /\ (a + x) % Word = id % Word /\ (x + a) % Word = id % Word
Pushed(A, q, v, r) ==
    /\ r \in Seq(A \cup {v}) /\ InSeq(r, v)
    /\ \A w : InSeq(q, w) => InSeq(r, w)

\* The neighbour in front is not of a component that is done.
LEMMA FrontLeads ==
    ASSUME NEW n \in Nat, NEW G, Simple(G, n), NEW s, NEW Old, Walked(G, n, s, Old),
           NEW v, NEW u, NEW e, InFront(G, s, v, u, e)
    PROVE  /\ v \in s.visited \ Old /\ v \in 0..(n - 1) /\ InSeq(s.stack, v) /\ s.seen[v] \in Nat
           /\ Neighbours(G, v) \in Nat /\ s.seen[v] + 1 \in 1..Neighbours(G, v)
           /\ u \in 0..(n - 1) /\ u # v /\ u \notin Old /\ e \in Edges(G) /\ Ends(G, e) = {v, u}
<1> DEFINE l == EdgeList(G, v)
           nb == graph_neighbors(G, v)
           k == s.seen[v]
           i == k + 1
           N == Neighbours(G, v)
<1>1. s.stack # <<>> /\ v = Head(s.stack) /\ k < N /\ u = nb[i] /\ e = l[i] /\ N = Len(nb)
  BY DEF InFront, Neighbours
<1>2. v \in s.visited \ Old /\ v \in 0..(n - 1) /\ InSeq(s.stack, v) /\ N \in Nat /\ k \in Nat
  BY <1>1, FrontFacts
<1>3. Around(G, n, v, l, nb) /\ Closed(G, Old)
  BY EdgeListFacts DEF Walked
<1> HIDE DEF l, nb, N, k
<1>4. i \in 1..N
  BY <1>1, <1>2
<1> HIDE DEF i
<1>5. e \in Edges(G) /\ Ends(G, e) = {v, u} /\ u # v /\ u \in 0..(n - 1)
  BY <1>1, <1>3, <1>4 DEF Around
<1>6. u \notin Old
  <2>1. u \in Old => v \in Old
    BY <1>3, <1>5 DEF Closed
  <2> QED
    BY <1>2, <2>1
<1> QED
  BY <1>2, <1>4, <1>5, <1>6 DEF i, k, N

\* What TreeGrows says, in one word.
LEMMA GrownTree ==
    ASSUME NEW n \in Nat, NEW G, Simple(G, n), Acyclic(G), NEW C \in SUBSET (0..(n - 1)), Treelike(G, C),
           NEW u \in 0..(n - 1), u \notin C, NEW v \in C, NEW e \in Edges(G), Ends(G, e) = {v, u}
    PROVE  Grown(G, C, u, e)
  BY TreeGrows DEF Grown

\* The label of a neighbour makes the sum over the edge its identifier.
LEMMA LabelAdds ==
    ASSUME NEW G, NEW s, NEW v, NEW u, NEW id \in Nat, NEW x, Labels(G, s, v, u, id, x), s.g[v] \in 0..(Word - 1)
    PROVE  AddsUp(s.g[v], x, id)
<1> DEFINE a == s.g[v]
           k == Word
<1>1. k \in Nat \ {0} /\ a \in 0..(k - 1) /\ x = (id + k - a) % k
  BY WordAssumption DEF Labels
<1> HIDE DEF a, k
<1>2. x \in 0..(k - 1) /\ (a + x) % k = id % k /\ (x + a) % k = id % k
  BY <1>1, AddMod, ZenonT(40)
<1> QED
  BY <1>2 DEF a, k, AddsUp

\* What PushFacts says, in one word.
LEMMA PushedSeq ==
    ASSUME NEW A, NEW q \in Seq(A), NEW v
    PROVE  Pushed(A, q, v, <<v>> \o q)
  BY PushFacts DEF Pushed

\* A neighbour is visited: its label makes the edge to it right, and there
\* is no other edge from it to a visited vertex.
LEMMA NeighbourWalked ==
    ASSUME NEW n \in Nat, NEW G, Simple(G, n), Acyclic(G), NEW s, NEW Old, Walked(G, n, s, Old),
           NEW v, NEW u, NEW e, InFront(G, s, v, u, e), u \notin s.visited,
           NEW id, NEW x, Labels(G, s, v, u, id, x), NEW t, t = Visit(Looked(s, v), u, x)
    PROVE  Walked(G, n, t, Old)
<1> DEFINE V == 0..(n - 1)
           C == s.visited \ Old
<1>1. t.visited = s.visited \cup {u} /\ t.stack = <<u>> \o s.stack /\ t.root = s.root
  BY Zenon DEF Looked, Visit
<1>20. TravFields(t)
  BY Zenon DEF Looked, Visit, TravFields
<1>21. t.g = [s.g EXCEPT ![u] = x]
  BY Zenon DEF Looked, Visit
<1>22. t.seen = [s.seen EXCEPT ![v] = @ + 1]
  BY Zenon DEF Looked, Visit
<1>2. /\ v \in C /\ v \in V /\ InSeq(s.stack, v) /\ s.seen[v] \in Nat /\ Neighbours(G, v) \in Nat
      /\ s.seen[v] + 1 \in 1..Neighbours(G, v)
      /\ u \in V /\ u # v /\ u \notin Old /\ e \in Edges(G) /\ Ends(G, e) = {v, u}
  <2> HIDE DEF V
  <2> QED
    BY FrontLeads DEF V
<1>3. /\ s.visited \in SUBSET V /\ Old \in SUBSET s.visited /\ C \in SUBSET V
      /\ s.stack \in Seq(C) /\ Closed(G, Old) /\ Treelike(G, C) /\ Summed(G, s.g, s.visited)
  BY DEF Walked
<1>23. s.g \in [V -> 0..(Word - 1)] /\ s.seen \in [V -> Nat] /\ s.root \in 0..n
  BY DEF Walked
<1>4. t.visited \ Old = C \cup {u} /\ u \notin C
  BY <1>1, <1>2
<1>24. C \in SUBSET (0..(n - 1)) /\ u \in 0..(n - 1)
  BY <1>2, <1>3
<1> HIDE DEF C, V
<1>26. Grown(G, C, u, e)
  BY <1>2, <1>3, <1>4, <1>24, GrownTree
<1>5. /\ Treelike(G, C \cup {u})
      /\ \A f \in Within(G, C \cup {u}) : f = e \/ f \in Within(G, C)
  BY <1>26 DEF Grown
<1>6. \A f \in Within(G, t.visited) : f = e \/ (f \in Within(G, s.visited) /\ u \notin Ends(G, f))
  <2> TAKE f \in Within(G, t.visited)
  <2>1. f \in Edges(G) /\ Ends(G, f) \in SUBSET (s.visited \cup {u})
    BY <1>1 DEF Within
  <2>2. CASE u \notin Ends(G, f)
    BY <2>1, <2>2 DEF Within
  <2>3. CASE u \in Ends(G, f)
    <3>1. \A w \in Ends(G, f) : w \notin Old
      <4>1. \A w \in Ends(G, f) : w \in Old => u \in Old
        BY <1>3, <2>1, <2>3 DEF Closed
      <4> QED
        BY <1>2, <4>1
    <3>2. f \in Within(G, C \cup {u})
      BY <2>1, <3>1 DEF Within, C
    <3>3. f \notin Within(G, C)
      BY <1>4, <2>3 DEF Within
    <3> QED
      BY <1>5, <3>2, <3>3
  <2> QED
    BY <2>2, <2>3
<1>7. id = e - 1
  <2> DEFINE Q(f) == /\ {G[f][1], G[f][2]} = {v, u}
                     /\ \A h \in Edges(G) : {G[h][1], G[h][2]} = {v, u} => h <= f
             c == CHOOSE f \in Edges(G) : Q(f)
  <2>1. \A f \in Edges(G) : {G[f][1], G[f][2]} = {v, u} => f = e
    <3> TAKE f \in Edges(G)
    <3>1. ASSUME {G[f][1], G[f][2]} = {v, u} PROVE f = e
      <4>1. f \in Within(G, t.visited) /\ u \in Ends(G, f)
        BY <1>1, <1>2, <3>1 DEF Within, C, Ends
      <4> QED
        BY <1>6, <4>1
    <3> QED
      BY <3>1
  <2>2. e <= e
    BY <1>2 DEF Simple
  <2>3. Q(e)
    <3>1. {G[e][1], G[e][2]} = {v, u}
      BY <1>2 DEF Ends
    <3>2. \A h \in Edges(G) : {G[h][1], G[h][2]} = {v, u} => h <= e
      BY <2>1, <2>2, Zenon
    <3> QED
      BY <3>1, <3>2
  <2>4. \A f \in Edges(G) : Q(f) => f = e
    BY <2>1, Zenon
  <2>5. id = c - 1
    BY DEF graph_edge_id, Labels
  <2> HIDE DEF Q
  <2>6. c = e
    BY <1>2, <2>3, <2>4
  <2> QED
    BY <2>5, <2>6
<1>8. s.g[v] \in 0..(Word - 1) /\ id \in Nat
  <2>1. e \in 1..Len(G)
    BY <1>2 DEF Simple
  <2> QED
    BY <1>2, <1>23, <1>7, <2>1
<1>9. x \in 0..(Word - 1) /\ (s.g[v] + x) % Word = id % Word /\ (x + s.g[v]) % Word = id % Word
  <2>1. AddsUp(s.g[v], x, id)
    BY <1>8, LabelAdds
  <2> QED
    BY <2>1, Zenon DEF AddsUp
<1>25. x \in 0..(Word - 1) /\ u \in V
  BY <1>2, <1>9
<1>10. t.g \in [V -> 0..(Word - 1)] /\ t.g[u] = x /\ \A w \in V : w # u => t.g[w] = s.g[w]
  BY <1>21, <1>23, <1>25
<1>11. Summed(G, t.g, t.visited)
  <2> SUFFICES ASSUME NEW f \in Within(G, t.visited)
               PROVE  (t.g[G[f][1]] + t.g[G[f][2]]) % Word = (f - 1) % Word
    BY DEF Summed
  <2>1. CASE f = e
    <3>1. t.g[v] = s.g[v] /\ t.g[u] = x
      BY <1>2, <1>10
    <3>2. (G[e][1] = v /\ G[e][2] = u) \/ (G[e][1] = u /\ G[e][2] = v)
      BY <1>2 DEF Ends
    <3> QED
      BY <1>7, <1>9, <2>1, <3>1, <3>2
  <2>2. CASE f \in Within(G, s.visited) /\ u \notin Ends(G, f)
    <3>1. G[f][1] \in V /\ G[f][2] \in V /\ G[f][1] # u /\ G[f][2] # u
      BY <2>2 DEF Within, Simple, Ends, V
    <3>2. t.g[G[f][1]] = s.g[G[f][1]] /\ t.g[G[f][2]] = s.g[G[f][2]]
      BY <1>10, <3>1
    <3>3. (s.g[G[f][1]] + s.g[G[f][2]]) % Word = (f - 1) % Word
      BY <1>3, <2>2 DEF Summed
    <3> QED
      BY <3>2, <3>3
  <2> QED
    BY <1>6, <2>1, <2>2
<1>12. t.seen \in [V -> Nat] /\ t.seen[v] = s.seen[v] + 1 /\ \A w \in V : w # v => t.seen[w] = s.seen[w]
  <2>1. v \in V /\ s.seen[v] + 1 \in Nat
    BY <1>2
  <2> QED
    BY <1>22, <1>23, <2>1
<1>13. /\ t.stack \in Seq(t.visited \ Old) /\ InSeq(t.stack, u)
       /\ \A w : InSeq(s.stack, w) => InSeq(t.stack, w)
  <2>1. Pushed(C, s.stack, u, <<u>> \o s.stack)
    BY <1>3, PushedSeq
  <2>2. Pushed(C, s.stack, u, t.stack)
    BY <1>1, <2>1
  <2> QED
    BY <1>4, <2>2, Zenon DEF Pushed
<1>14. \A w \in t.visited \ Old : InSeq(t.stack, w) \/ t.seen[w] >= Neighbours(G, w)
  <2> TAKE w \in t.visited \ Old
  <2>1. CASE w = u
    BY <1>13, <2>1
  <2>2. CASE w # u
    <3>1. w \in C
      BY <1>4, <2>2
    <3>2. InSeq(s.stack, w) \/ s.seen[w] >= Neighbours(G, w)
      BY <3>1 DEF Walked, C
    <3>3. w # v => t.seen[w] = s.seen[w]
      BY <1>3, <1>12, <3>1
    <3> QED
      BY <1>2, <1>13, <3>2, <3>3
  <2> QED
    BY <2>1, <2>2
<1>15. Known(G, t)
  <2> SUFFICES ASSUME NEW w \in t.visited, NEW i \in 1..Neighbours(G, w), i <= t.seen[w]
               PROVE  graph_neighbors(G, w)[i] \in t.visited
    BY DEF Known
  <2>1. CASE w = u
    <3>1. s.seen[u] = 0
      BY <1>2 DEF Walked, V
    <3>2. t.seen[u] = 0
      BY <1>2, <1>12, <3>1
    <3>3. Neighbours(G, w) \in Nat
      BY EdgeListFacts DEF Neighbours, Around
    <3> QED
      BY <2>1, <3>2, <3>3
  <2>2. CASE w # u /\ i <= s.seen[w]
    BY <1>1, <2>2 DEF Walked, Known
  <2>3. CASE w # u /\ ~(i <= s.seen[w])
    <3>3. w \in V
      BY <1>1, <1>3, <2>3
    <3>1. w = v
      BY <1>12, <2>3, <3>3
    <3>4. i <= s.seen[v] + 1 /\ ~(i <= s.seen[v])
      BY <1>12, <2>3, <3>1
    <3>5. i \in Int /\ s.seen[v] \in Nat
      BY <1>2
    <3>2. i = s.seen[v] + 1
      BY <3>4, <3>5
    <3>6. graph_neighbors(G, v)[s.seen[v] + 1] = u
      BY DEF InFront
    <3> QED
      BY <1>1, <3>1, <3>2, <3>6
  <2> QED
    BY <2>1, <2>2, <2>3
<1>16. \A w \in V \ t.visited : t.seen[w] = 0
  <2> TAKE w \in V \ t.visited
  <2>1. w # v /\ w \in V \ s.visited
    BY <1>1, <1>2 DEF C
  <2> QED
    BY <1>12, <2>1 DEF Walked, V
<1>17. \A w \in V : w < t.root => w \in t.visited
  BY <1>1 DEF Walked, V
<1>18. /\ t.visited \in SUBSET V /\ Old \in SUBSET t.visited /\ t.root \in 0..n
       /\ Treelike(G, t.visited \ Old)
  BY <1>1, <1>2, <1>3, <1>4, <1>5, <1>23
<1> QED
  BY <1>3, <1>10, <1>11, <1>12, <1>13, <1>14, <1>15, <1>16, <1>17, <1>18, <1>20 DEF Walked, V

\* The vertex in front is left.
LEMMA PopWalked ==
    ASSUME NEW n \in Nat, NEW G, Simple(G, n), NEW s, NEW Old, Walked(G, n, s, Old), s.stack # <<>>,
           ~(s.seen[Head(s.stack)] < Neighbours(G, Head(s.stack))),
           NEW t, t = [g |-> s.g, visited |-> s.visited, stack |-> Tail(s.stack), seen |-> s.seen,
                       root |-> s.root]
    PROVE  Walked(G, n, t, Old)
<1> DEFINE v == Head(s.stack)
<1>1. /\ TravFields(t) /\ t.g = s.g /\ t.visited = s.visited /\ t.stack = Tail(s.stack)
      /\ t.root = s.root /\ t.seen = s.seen
  BY DEF TravFields
<1>2. s.stack \in Seq(s.visited \ Old)
  BY DEF Walked
<1>3. /\ Tail(s.stack) \in Seq(s.visited \ Old)
      /\ \A w : InSeq(s.stack, w) => w = v \/ InSeq(Tail(s.stack), w)
  BY <1>2, PopFacts
<1>4. s.seen[v] >= Neighbours(G, v)
  <2>1. s.seen[v] \in Nat /\ Neighbours(G, v) \in Nat
    BY FrontFacts
  <2> QED
    BY <2>1
<1> HIDE DEF v
<1>5. \A w \in t.visited \ Old : InSeq(t.stack, w) \/ t.seen[w] >= Neighbours(G, w)
  <2> TAKE w \in t.visited \ Old
  <2>1. InSeq(s.stack, w) \/ s.seen[w] >= Neighbours(G, w)
    BY <1>1 DEF Walked
  <2> QED
    BY <1>1, <1>3, <1>4, <2>1
<1>6. Known(G, t)
  BY <1>1 DEF Walked, Known
<1> QED
  BY <1>1, <1>3, <1>5, <1>6 DEF Walked

(***************************************************************************)
(* The work that is left: roots to come to, vertices to visit and to leave *)
(* and, from each end of an edge, the edge to look at.                     *)
(***************************************************************************)
IsAhead(G, seen, w, e) ==
    \E i \in 1..Neighbours(G, w) : i > seen[w] /\ EdgeList(G, w)[i] = e
Ahead(G, seen) == {x \in Edges(G) \X {1, 2} : IsAhead(G, seen, G[x[1]][x[2]], x[1])}
Toil(G, n, s) ==
    (n - s.root) + Cardinality((0..(n - 1)) \ s.visited) + Len(s.stack) + Cardinality(Ahead(G, s.seen))
AtEnd(n, s) == s.stack = <<>> /\ s.root = n

\* The edges that are not looked at yet are at most twice the edges.
LEMMA AheadFinite ==
    ASSUME NEW n \in Nat, NEW G, Simple(G, n), NEW seen
    PROVE  /\ IsFiniteSet(Ahead(G, seen)) /\ Cardinality(Ahead(G, seen)) \in Nat
           /\ Cardinality(Ahead(G, seen)) <= 2 * Len(G)
<1> DEFINE A == Ahead(G, seen)
           X == Edges(G) \X {1, 2}
           k == Len(G)
<1> HIDE DEF A, X
<1>1. k \in Nat /\ IsFiniteSet(Edges(G)) /\ Cardinality(Edges(G)) = k
  <2>1. k \in Nat /\ Edges(G) = 1..k
    BY DEF Simple
  <2> HIDE DEF k
  <2>2. IsFiniteSet(1..k) /\ Cardinality(1..k) = IF 1 > k THEN 0 ELSE k - 1 + 1
    BY <2>1, FS_Interval
  <2> QED
    BY <2>1, <2>2
<1>2. IsFiniteSet({1, 2}) /\ Cardinality({1, 2}) = 2
  <2>1. IsFiniteSet({1}) /\ Cardinality({1}) = 1
    BY FS_Singleton
  <2>2. IsFiniteSet({1} \cup {2}) /\ Cardinality({1} \cup {2}) = Cardinality({1}) + 1
    BY <2>1, FS_AddElement
  <2>3. {1} \cup {2} = {1, 2}
    OBVIOUS
  <2> QED
    BY <2>1, <2>2, <2>3
<1>3. IsFiniteSet(X) /\ Cardinality(X) = Cardinality(Edges(G)) * Cardinality({1, 2})
  BY <1>1, <1>2, FS_Product DEF X
<1>4. A \in SUBSET X
  BY DEF Ahead, A, X
<1> HIDE DEF k
<1>5. Cardinality(X) = k * 2
  BY <1>1, <1>2, <1>3
<1>6. IsFiniteSet(A) /\ Cardinality(A) <= Cardinality(X) /\ Cardinality(A) \in Nat
  BY <1>3, <1>4, FS_Subset, FS_CardinalityType
<1>7. k * 2 = 2 * k
  BY <1>1
<1> QED
  BY <1>5, <1>6, <1>7 DEF A, k

\* Looking at the next edge of the vertex in front.
LEMMA AheadLess ==
    ASSUME NEW n \in Nat, NEW G, Simple(G, n), NEW s, NEW Old, Walked(G, n, s, Old),
           NEW v, NEW u, NEW e, InFront(G, s, v, u, e), NEW seen, seen = [s.seen EXCEPT ![v] = @ + 1]
    PROVE  Cardinality(Ahead(G, seen)) <= Cardinality(Ahead(G, s.seen)) - 1
<1> DEFINE V == 0..(n - 1)
           A == Ahead(G, s.seen)
           B == Ahead(G, seen)
           l == EdgeList(G, v)
           k == s.seen[v]
           N == Neighbours(G, v)
<1>1. /\ v \in V /\ k \in Nat /\ N \in Nat /\ k + 1 \in 1..N
      /\ e \in Edges(G) /\ Ends(G, e) = {v, u}
  BY FrontLeads
<1>2. e = l[k + 1]
  BY DEF InFront
<1>3. s.seen \in [V -> Nat]
  BY DEF Walked
<1>4. seen[v] = k + 1 /\ \A w \in V : w # v => seen[w] = s.seen[w]
  BY <1>1, <1>3
<1>5. PICK c \in {1, 2} : G[e][c] = v
  BY <1>1 DEF Ends
<1>6. \A i, j \in 1..N : l[i] = l[j] => i = j
  <2> DEFINE nb == graph_neighbors(G, v)
  <2>1. Around(G, n, v, l, nb) /\ N = Len(nb)
    BY EdgeListFacts DEF Neighbours
  <2> HIDE DEF l, nb, N
  <2>2. N = Len(l)
    BY <2>1 DEF Around
  <2> QED
    BY <2>1, <2>2 DEF Around
<1> DEFINE x == <<e, c>>
<1>7. x \in Edges(G) \X {1, 2} /\ x[1] = e /\ G[x[1]][x[2]] = v
  BY <1>1, <1>5
<1>8. x \in A
  <2>1. k + 1 \in 1..N /\ k + 1 > k /\ l[k + 1] = e
    BY <1>1, <1>2
  <2>2. IsAhead(G, s.seen, v, e)
    BY <2>1 DEF IsAhead
  <2> QED
    BY <1>7, <2>2 DEF Ahead
<1>9. x \notin B
  <2>1. ~IsAhead(G, seen, v, e)
    <3>1. SUFFICES ASSUME NEW i \in 1..N, i > seen[v], l[i] = e PROVE FALSE
      BY DEF IsAhead
    <3>2. i = k + 1
      BY <1>1, <1>2, <1>6, <3>1
    <3> HIDE DEF k
    <3> QED
      BY <1>1, <1>4, <3>1, <3>2
  <2> HIDE DEF x
  <2> QED
    BY <1>7, <2>1 DEF Ahead
<1>10. B \in SUBSET A
  <2> SUFFICES ASSUME NEW y \in B PROVE y \in A
    OBVIOUS
  <2> DEFINE w == G[y[1]][y[2]]
  <2>1. y \in Edges(G) \X {1, 2} /\ IsAhead(G, seen, w, y[1])
    BY DEF Ahead
  <2>2. w \in V
    BY <2>1 DEF Simple
  <2>3. s.seen[w] <= seen[w] /\ s.seen[w] \in Nat /\ seen[w] \in Nat
    <3> HIDE DEF w, V, k
    <3>1. s.seen[w] \in Nat
      BY <1>3, <2>2
    <3>2. CASE w = v
      BY <1>1, <1>4, <3>1, <3>2 DEF k
    <3>3. CASE w # v
      BY <1>4, <2>2, <3>1, <3>3
    <3> QED
      BY <3>2, <3>3
  <2> HIDE DEF w
  <2>4. PICK i \in 1..Neighbours(G, w) : i > seen[w] /\ EdgeList(G, w)[i] = y[1]
    BY <2>1 DEF IsAhead
  <2>5. i > s.seen[w]
    BY <2>3, <2>4
  <2>6. IsAhead(G, s.seen, w, y[1])
    BY <2>4, <2>5 DEF IsAhead
  <2> QED
    BY <2>1, <2>6 DEF Ahead, w
<1> HIDE DEF A, B, x
<1>11. IsFiniteSet(A) /\ Cardinality(A) \in Nat
  BY AheadFinite DEF A
<1>12. IsFiniteSet(A \ {x}) /\ Cardinality(A \ {x}) = Cardinality(A) - 1
  BY <1>8, <1>11, FS_RemoveElement
<1>13. B \in SUBSET (A \ {x})
  BY <1>9, <1>10
<1>14. Cardinality(B) <= Cardinality(A \ {x})
  BY <1>12, <1>13, FS_Subset
<1> QED
  BY <1>12, <1>14 DEF A, B

\* The parts of the work that is left.
LEMMA ToilParts ==
    ASSUME NEW n \in Nat, NEW G, Simple(G, n), NEW s, NEW Old, Walked(G, n, s, Old)
    PROVE  /\ s.root \in 0..n /\ Cardinality((0..(n - 1)) \ s.visited) \in Nat
           /\ Len(s.stack) \in Nat /\ Cardinality(Ahead(G, s.seen)) \in Nat
           /\ Toil(G, n, s) \in Nat
<1>1. s.root \in 0..n /\ s.stack \in Seq(s.visited \ Old)
  BY DEF Walked
<1>2. Cardinality((0..(n - 1)) \ s.visited) \in Nat
  <2>1. IsFiniteSet(0..(n - 1))
    BY FS_Interval
  <2> QED
    BY <2>1, FS_Subset, FS_CardinalityType
<1>3. Len(s.stack) \in Nat
  BY <1>1, LenProperties
<1>4. Cardinality(Ahead(G, s.seen)) \in Nat
  BY AheadFinite
<1> QED
  BY <1>1, <1>2, <1>3, <1>4 DEF Toil

\* One vertex more is visited, one less is not.
LEMMA VisitedLess ==
    ASSUME NEW n \in Nat, NEW C, NEW u \in 0..(n - 1), u \notin C
    PROVE  Cardinality((0..(n - 1)) \ (C \cup {u})) = Cardinality((0..(n - 1)) \ C) - 1
<1> DEFINE A == (0..(n - 1)) \ C
<1>1. IsFiniteSet(A)
  <2>1. IsFiniteSet(0..(n - 1))
    BY FS_Interval
  <2> QED
    BY <2>1, FS_Subset
<1>2. u \in A /\ (0..(n - 1)) \ (C \cup {u}) = A \ {u}
  OBVIOUS
<1> HIDE DEF A
<1>3. Cardinality(A \ {u}) = Cardinality(A) - 1
  BY <1>1, <1>2, FS_RemoveElement
<1> QED
  BY <1>2, <1>3 DEF A

\* A root that is visited is passed over.
LEMMA RootPassed ==
    ASSUME NEW n \in Nat, NEW G, NEW s, NEW Old, Walked(G, n, s, Old),
           s.stack = <<>>, s.root < n, s.root \in s.visited,
           NEW t, t = [g |-> s.g, visited |-> s.visited, stack |-> s.stack, seen |-> s.seen,
                       root |-> s.root + 1]
    PROVE  Walked(G, n, t, Old)
<1>1. /\ TravFields(t) /\ t.g = s.g /\ t.visited = s.visited /\ t.stack = s.stack /\ t.seen = s.seen
      /\ t.root = s.root + 1
  BY DEF TravFields
<1>2. s.root \in 0..n
  BY DEF Walked
<1>3. t.root \in 0..n
  BY <1>1, <1>2
<1>4. \A v \in 0..(n - 1) : v < t.root => v \in t.visited
  <2> TAKE v \in 0..(n - 1)
  <2>1. v < s.root => v \in s.visited
    BY DEF Walked
  <2>2. v < s.root + 1 => v < s.root \/ v = s.root
    BY <1>2
  <2> QED
    BY <1>1, <2>1, <2>2
<1>5. Known(G, t)
  BY <1>1 DEF Walked, Known
<1> QED
  BY <1>1, <1>3, <1>4, <1>5 DEF Walked

\* chm_traverse changes the three fields that Visit changes.
LEMMA TraverseVisits ==
    ASSUME NEW s, TravFields(s), NEW v, NEW label, NEW t, t = chm_traverse(s, v, label)
    PROVE  t = Visit(s, v, label)
<1> DEFINE g == [s.g EXCEPT ![v] = label]
           visited == s.visited \cup {v}
           stack == <<v>> \o s.stack
<1>1. t = [s EXCEPT !.g = g, !.visited = visited, !.stack = stack]
  BY DEF chm_traverse
<1>2. s = [g |-> s.g, visited |-> s.visited, stack |-> s.stack, seen |-> s.seen, root |-> s.root]
  BY Zenon DEF TravFields
<1> HIDE DEF g, visited, stack
<1>3. t = [g |-> g, visited |-> visited, stack |-> stack, seen |-> s.seen, root |-> s.root]
  BY <1>1, <1>2
<1> QED
  BY <1>3 DEF Visit, g, visited, stack

\* One round of the traversal.
LEMMA StepWalked ==
    ASSUME NEW n \in Nat, NEW G, Simple(G, n), Acyclic(G), NEW s, NEW Old, Walked(G, n, s, Old),
           ~AtEnd(n, s), NEW t, t = chm_step(G, n, s)
    PROVE  \E C : Walked(G, n, t, C) /\ Toil(G, n, t) <= Toil(G, n, s) - 1
<1> DEFINE r == s.root
           v == Head(s.stack)
           u == graph_neighbors(G, v)[s.seen[v] + 1]
           e == EdgeList(G, v)[s.seen[v] + 1]
           id == graph_edge_id(G, v, u)
           x == (id + Word - s.g[v]) % Word
           a == Cardinality((0..(n - 1)) \ s.visited)
           b == Len(s.stack)
           c == Cardinality(Ahead(G, s.seen))
<1>1. r \in 0..n /\ a \in Nat /\ b \in Nat /\ c \in Nat
  BY ToilParts
<1>6. Toil(G, n, s) = (n - r) + a + b + c
  BY DEF Toil
<1> HIDE DEF a, b, c
<1>2. TravFields(s) /\ s.stack \in Seq(s.visited \ Old) /\ s.visited \in SUBSET (0..(n - 1))
  BY DEF Walked
<1>3. CASE s.stack = <<>>
  <2>1. r < n
    BY <1>1, <1>3 DEF AtEnd
  <2>2. t = IF r \in s.visited THEN [s EXCEPT !.root = @ + 1]
            ELSE chm_traverse([s EXCEPT !.root = @ + 1], r, 0)
    <3>1. ~(s.stack = <<>> /\ r = n)
      BY <1>3 DEF AtEnd
    <3> QED
      BY <1>3, <2>1, <3>1 DEF chm_step
  <2>3. [s EXCEPT !.root = @ + 1] =
           [g |-> s.g, visited |-> s.visited, stack |-> s.stack, seen |-> s.seen, root |-> r + 1]
    BY <1>2 DEF TravFields
  <2>4. CASE r \in s.visited
    <3>1. t = [g |-> s.g, visited |-> s.visited, stack |-> s.stack, seen |-> s.seen, root |-> r + 1]
      BY <2>2, <2>3, <2>4
    <3>2. Walked(G, n, t, Old)
      BY <1>3, <2>1, <2>4, <3>1, RootPassed
    <3>3. t.root = r + 1 /\ t.visited = s.visited /\ t.stack = s.stack /\ t.seen = s.seen
      BY <3>1
    <3>4. Toil(G, n, t) = (n - (r + 1)) + a + b + c
      BY <3>3 DEF Toil, a, b, c
    <3>5. Toil(G, n, t) <= Toil(G, n, s) - 1
      <4> HIDE DEF r
      <4> QED
        BY <1>1, <1>6, <3>4
    <3> QED
      BY <3>2, <3>5
  <2>5. CASE r \notin s.visited
    <3>1. t = [g |-> [s.g EXCEPT ![r] = 0], visited |-> s.visited \cup {r},
               stack |-> <<r>> \o s.stack, seen |-> s.seen, root |-> r + 1]
      BY <2>2, <2>3, <2>5 DEF chm_traverse
    <3>2. Walked(G, n, t, s.visited)
      BY <1>3, <2>1, <2>5, <3>1, RootWalked
    <3>3. /\ t.root = r + 1 /\ t.visited = s.visited \cup {r}
          /\ t.stack = <<r>> \o s.stack /\ t.seen = s.seen
      BY <3>1
    <3>4. Len(t.stack) = b + 1
      BY <1>2, <3>3, PushFacts DEF b
    <3>5. Cardinality((0..(n - 1)) \ (s.visited \cup {r})) = a - 1
      <4>1. r \in 0..(n - 1)
        BY <1>1, <2>1
      <4> QED
        BY <2>5, <4>1, VisitedLess DEF a
    <3>6. Toil(G, n, t) = (n - (r + 1)) + (a - 1) + (b + 1) + c
      BY <3>3, <3>4, <3>5 DEF Toil, c
    <3>7. Toil(G, n, t) <= Toil(G, n, s) - 1
      <4> HIDE DEF r
      <4> QED
        BY <1>1, <1>6, <3>6
    <3> QED
      BY <3>2, <3>7
  <2> QED
    BY <2>4, <2>5
<1>4. CASE s.stack # <<>> /\ s.seen[v] < Neighbours(G, v)
  <2>1. t = chm_neighbour(G, s, v)
    BY <1>4 DEF chm_step, Neighbours
  <2>2. InFront(G, s, v, u, e)
    BY <1>4 DEF InFront
  <2>3. [s EXCEPT !.seen[v] = @ + 1] = Looked(s, v)
    BY <1>2, SMTT(20) DEF TravFields, Looked
  <2>4. v \in 0..(n - 1) /\ u \in 0..(n - 1) /\ v # u /\ v \in s.visited
    BY <2>2, FrontLeads
  <2>5. s.seen \in [0..(n - 1) -> Nat]
    BY DEF Walked
  <2>6. Looked(s, v).seen[v] = s.seen[v] + 1
    BY <2>4, <2>5 DEF Looked
  <2>7. t = IF u \in s.visited THEN Looked(s, v)
            ELSE chm_traverse(Looked(s, v), u, x)
    BY <2>1, <2>3, <2>6, Zenon DEF chm_neighbour
  <2> DEFINE d == Cardinality(Ahead(G, [s.seen EXCEPT ![v] = @ + 1]))
  <2>8. d <= c - 1 /\ d \in Nat
    BY <2>2, AheadLess, AheadFinite DEF c
  <2> HIDE DEF d
  <2>9. CASE u \in s.visited
    <3>1. t = Looked(s, v)
      BY <2>7, <2>9
    <3>2. Walked(G, n, t, Old)
      BY <1>4, <2>9, <3>1, LookedWalked
    <3>3. t.root = r /\ t.visited = s.visited /\ t.stack = s.stack /\ t.seen = [s.seen EXCEPT ![v] = @ + 1]
      BY <3>1 DEF Looked
    <3>4. Toil(G, n, t) = (n - r) + a + b + d
      BY <3>3 DEF Toil, a, b, d
    <3>5. Toil(G, n, t) <= Toil(G, n, s) - 1
      <4> HIDE DEF r
      <4> QED
        BY <1>1, <1>6, <2>8, <3>4
    <3> QED
      BY <3>2, <3>5
  <2>10. CASE u \notin s.visited
    <3>1. t = Visit(Looked(s, v), u, x)
      <4> DEFINE y == Looked(s, v)
      <4>2. TravFields(y)
        BY Zenon DEF TravFields, Looked
      <4> HIDE DEF y, u, x
      <4>3. chm_traverse(y, u, x) = Visit(y, u, x)
        BY <4>2, TraverseVisits
      <4>1. chm_traverse(Looked(s, v), u, x) = Visit(Looked(s, v), u, x)
        BY <4>3 DEF y
      <4> QED
        BY <2>7, <2>10, <4>1
    <3>2. Labels(G, s, v, u, id, x)
      BY DEF Labels
    <3>3. Walked(G, n, t, Old)
      BY <2>2, <2>10, <3>1, <3>2, NeighbourWalked
    <3>4. /\ t.root = r /\ t.visited = s.visited \cup {u}
          /\ t.stack = <<u>> \o s.stack /\ t.seen = [s.seen EXCEPT ![v] = @ + 1]
      <4> DEFINE y == Looked(s, v)
      <4>1. /\ y.root = s.root /\ y.visited = s.visited /\ y.stack = s.stack
            /\ y.seen = [s.seen EXCEPT ![v] = @ + 1]
        BY DEF Looked
      <4> HIDE DEF y
      <4>2. /\ t.root = y.root /\ t.visited = y.visited \cup {u}
            /\ t.stack = <<u>> \o y.stack /\ t.seen = y.seen
        <5>1. t = Visit(y, u, x)
          BY <3>1 DEF y
        <5> HIDE DEF u, x
        <5> QED
          BY <5>1 DEF Visit
      <4> QED
        BY <4>1, <4>2
    <3>5. Len(t.stack) = b + 1
      BY <1>2, <3>4, PushFacts DEF b
    <3> HIDE DEF u
    <3>6. Cardinality((0..(n - 1)) \ (s.visited \cup {u})) = a - 1
      BY <2>4, <2>10, VisitedLess DEF a
    <3>7. Toil(G, n, t) = (n - r) + (a - 1) + (b + 1) + d
      BY <3>4, <3>5, <3>6 DEF Toil, d
    <3>8. Toil(G, n, t) <= Toil(G, n, s) - 1
      <4> HIDE DEF r
      <4> QED
        BY <1>1, <1>6, <2>8, <3>7
    <3> QED
      BY <3>3, <3>8
  <2> QED
    BY <2>9, <2>10
<1>5. CASE s.stack # <<>> /\ ~(s.seen[v] < Neighbours(G, v))
  <2>1. t = [s EXCEPT !.stack = Tail(@)]
    BY <1>5 DEF chm_step, Neighbours
  <2>2. t = [g |-> s.g, visited |-> s.visited, stack |-> Tail(s.stack), seen |-> s.seen, root |-> s.root]
    BY <1>2, <2>1 DEF TravFields
  <2>3. Walked(G, n, t, Old)
    BY <1>5, <2>2, PopWalked
  <2>4. t.root = r /\ t.visited = s.visited /\ t.stack = Tail(s.stack) /\ t.seen = s.seen
    BY <2>2
  <2>5. Len(t.stack) = b - 1
    BY <1>2, <1>5, <2>4, PopFacts DEF b
  <2>6. Toil(G, n, t) = (n - r) + a + (b - 1) + c
    BY <2>4, <2>5 DEF Toil, a, c
  <2>7. Toil(G, n, t) <= Toil(G, n, s) - 1
    <3> HIDE DEF r
    <3> QED
      BY <1>1, <1>6, <2>6
  <2> QED
    BY <2>3, <2>7
<1> QED
  BY <1>3, <1>4, <1>5

\* Before the traversal nothing is visited.
LEMMA StartWalked ==
    ASSUME NEW n \in Nat, NEW G, Simple(G, n), NEW s,
           s = [g |-> [v \in 0..(n - 1) |-> 0], visited |-> {}, stack |-> <<>>,
                seen |-> [v \in 0..(n - 1) |-> 0], root |-> 0]
    PROVE  Walked(G, n, s, {}) /\ Toil(G, n, s) <= Rounds(G, n)
<1> DEFINE V == 0..(n - 1)
<1>1. /\ TravFields(s) /\ s.g = [v \in V |-> 0] /\ s.visited = {} /\ s.stack = <<>>
      /\ s.seen = [v \in V |-> 0] /\ s.root = 0
  BY DEF TravFields
<1>2. Within(G, {}) = {}
  BY DEF Within, Ends
<1>3. Walked(G, n, s, {})
  <2>1. s.g \in [V -> 0..(Word - 1)] /\ s.seen \in [V -> Nat]
    BY <1>1, WordAssumption
  <2>2. s.stack \in Seq(s.visited \ {}) /\ s.root \in 0..n /\ s.visited \in SUBSET V
    BY <1>1
  <2>3. Closed(G, {}) /\ Treelike(G, s.visited \ {}) /\ Summed(G, s.g, s.visited) /\ Known(G, s)
    BY <1>1, <1>2 DEF Closed, Treelike, Summed, Known
  <2>4. /\ \A v \in s.visited \ {} : InSeq(s.stack, v) \/ s.seen[v] >= Neighbours(G, v)
        /\ \A v \in V : v < s.root => v \in s.visited
        /\ \A v \in V \ s.visited : s.seen[v] = 0
    BY <1>1
  <2> QED
    BY <1>1, <2>1, <2>2, <2>3, <2>4 DEF Walked
<1>4. Toil(G, n, s) <= Rounds(G, n)
  <2> DEFINE a == Cardinality(V \ s.visited)
             b == Len(s.stack)
             c == Cardinality(Ahead(G, s.seen))
             k == Len(G)
  <2>1. a = n
    <3>1. V \ s.visited = V
      BY <1>1
    <3>2. Cardinality(0..(n - 1)) = IF 0 > n - 1 THEN 0 ELSE n - 1 - 0 + 1
      BY FS_Interval
    <3>3. a = Cardinality(0..(n - 1))
      BY <3>1
    <3> HIDE DEF a
    <3> QED
      BY <3>2, <3>3
  <2>2. b = 0
    BY <1>1
  <2>3. c \in Nat /\ c <= 2 * k /\ k \in Nat
    BY AheadFinite DEF Simple
  <2>4. Toil(G, n, s) = (n - 0) + a + b + c
    BY <1>1 DEF Toil
  <2>5. Rounds(G, n) = 2 * (n + k)
    BY DEF Rounds
  <2> HIDE DEF a, b, c, k
  <2> QED
    BY <2>1, <2>2, <2>3, <2>4, <2>5
<1> QED
  BY <1>3, <1>4

\* The labels of the ends of an edge sum to its identifier.
SumsUp(G, g) == \A e \in Edges(G) : (g[G[e][1]] + g[G[e][2]]) % Word = (e - 1) % Word

\* The rounds that chm_assign is given suffice, so all edges have their sums.
LEMMA AssignedSums ==
    ASSUME NEW n \in Nat, NEW G, Simple(G, n), Acyclic(G), NEW g, g = chm_assign(G, n)[Rounds(G, n)].g
    PROVE  SumsUp(G, g)
<1> DEFINE R == Rounds(G, n)
           run == chm_assign(G, n)
           Good(s, i) == \E C : Walked(G, n, s, C) /\ (AtEnd(n, s) \/ Toil(G, n, s) <= R - i)
           P == {i \in 0..R : Good(run[i], i)}
<1>1. R \in Nat
  BY DEF Rounds, Simple
<1>2. /\ run[0] = [g |-> [v \in 0..(n - 1) |-> 0], visited |-> {}, stack |-> <<>>,
                   seen |-> [v \in 0..(n - 1) |-> 0], root |-> 0]
      /\ \A i \in 1..R : run[i] = chm_step(G, n, run[i - 1])
  BY <1>1, AssignLoop
<1> HIDE DEF run, R
<1>3. 0 \in P
  <2>1. Walked(G, n, run[0], {}) /\ Toil(G, n, run[0]) <= R
    BY <1>2, StartWalked DEF R
  <2>2. Good(run[0], 0)
    <3>1. R - 0 = R
      BY <1>1
    <3> QED
      BY <2>1, <3>1
  <2> QED
    BY <1>1, <2>2
<1>4. ASSUME NEW s, NEW i \in 1..R, Good(s, i - 1), NEW t, t = chm_step(G, n, s) PROVE Good(t, i)
  <2>1. PICK C : Walked(G, n, s, C) /\ (AtEnd(n, s) \/ Toil(G, n, s) <= R - (i - 1))
    BY <1>4
  <2>2. CASE AtEnd(n, s)
    <3>1. t = s
      BY <1>4, <2>2 DEF AtEnd, chm_step
    <3> QED
      BY <2>1, <2>2, <3>1
  <2>3. CASE ~AtEnd(n, s)
    <3>1. PICK D : Walked(G, n, t, D) /\ Toil(G, n, t) <= Toil(G, n, s) - 1
      BY <1>4, <2>1, <2>3, StepWalked
    <3>2. Toil(G, n, t) <= R - i
      <4>1. Toil(G, n, s) \in Nat /\ Toil(G, n, t) \in Nat
        BY <2>1, <3>1, ToilParts
      <4> QED
        BY <1>1, <2>1, <2>3, <3>1, <4>1
    <3> QED
      BY <3>1, <3>2
  <2> QED
    BY <2>2, <2>3
<1>5. ASSUME NEW i \in 1..R, i - 1 \in P PROVE i \in P
  <2>1. Good(run[i - 1], i - 1)
    BY <1>5
  <2>2. run[i] = chm_step(G, n, run[i - 1])
    BY <1>2
  <2> HIDE DEF Good
  <2>3. Good(run[i], i)
    BY <1>4, <2>1, <2>2
  <2> QED
    BY <2>3
<1>6. 0..R \subseteq P
  <2> HIDE DEF P
  <2> QED
    BY <1>1, <1>3, <1>5, Induction
<1>7. R \in P
  <2> HIDE DEF P
  <2> QED
    BY <1>1, <1>6
<1> DEFINE s == run[R]
<1>8. PICK C : Walked(G, n, s, C) /\ (AtEnd(n, s) \/ Toil(G, n, s) <= R - R)
  BY <1>7
<1> HIDE DEF s, P
<1>9. AtEnd(n, s)
  <2>1. SUFFICES ASSUME ~AtEnd(n, s) PROVE FALSE
    OBVIOUS
  <2>2. Toil(G, n, s) <= 0
    BY <1>1, <1>8, <2>1
  <2> DEFINE t == chm_step(G, n, s)
  <2>3. PICK D : Walked(G, n, t, D) /\ Toil(G, n, t) <= Toil(G, n, s) - 1
    BY <1>8, <2>1, StepWalked
  <2> HIDE DEF t
  <2>4. Toil(G, n, s) \in Nat /\ Toil(G, n, t) \in Nat
    BY <1>8, <2>3, ToilParts
  <2> QED
    BY <2>2, <2>3, <2>4
<1>10. s.visited = 0..(n - 1)
  <2>1. s.root = n /\ s.visited \in SUBSET (0..(n - 1)) /\ \A v \in 0..(n - 1) : v < s.root => v \in s.visited
    BY <1>8, <1>9 DEF AtEnd, Walked
  <2>2. \A v \in 0..(n - 1) : v < n
    OBVIOUS
  <2> QED
    BY <2>1, <2>2
<1>11. g = s.g
  BY DEF s, run, R
<1>12. \A e \in Edges(G) : e \in Within(G, s.visited)
  BY <1>10 DEF Within, Ends, Simple
<1>13. Summed(G, g, s.visited)
  BY <1>8, <1>11 DEF Walked
<1> QED
  BY <1>12, <1>13, Zenon DEF Summed, SumsUp

\* The two ends of a key are vertices.
LEMMA ChmEndsRange ==
    ASSUME NEW n \in Nat \ {0}, NEW h, NEW x, h[1][x] \in Nat, h[2][x] \in Nat
    PROVE  chm_ends(h, x, n) \in (0..(n - 1)) \X (0..(n - 1))
<1> DEFINE a == h[1][x] % n
           b == h[2][x] % n
           z == IF a = b THEN (IF b + 1 >= n THEN 0 ELSE b + 1) ELSE b
<1>1. a \in 0..(n - 1) /\ b \in 0..(n - 1)
  OBVIOUS
<1>2. chm_ends(h, x, n) = <<a, z>>
  BY DEF chm_ends
<1> HIDE DEF a, b
<1>3. z \in 0..(n - 1)
  BY <1>1
<1> HIDE DEF z
<1> QED
  BY <1>1, <1>2, <1>3

\* A function of chm answers a key with the number of its edge.
LEMMA ChmPerfect ==
    ASSUME NEW ks, ks \in Seq(Range(ks)), Len(ks) < Word,
           NEW c \in Nat \X (Nat \ {0}), NEW h,
           \A x \in Range(ks) : h[1][x] \in Nat /\ h[2][x] \in Nat,
           NEW n, n = chm_n(c, Len(ks)),
           NEW G, G = chm_gen_edges(ks, h, n).graph, chm_gen_edges(ks, h, n).ok,
           NEW d, d = chm_new(ks, h, n, G).data
    PROVE  OneToOne([x \in Range(ks) |-> chm_search(d, x)], Range(ks), Len(ks))
<1> DEFINE K == Range(ks)
           k == Len(ks)
           V == 0..(n - 1)
           g == chm_assign(G, n)[Rounds(G, n)].g
           a == [x \in K |-> chm_search(d, x)]
<1>1. k \in Nat /\ DOMAIN ks = 1..k /\ \A e \in 1..k : ks[e] \in K
  <2>1. k \in Nat /\ DOMAIN ks = 1..k
    BY LenProperties
  <2> QED
    BY <2>1 DEF Range
<1>2. n \in Nat /\ (k >= 1 => n >= 1)
  <2> DEFINE f == IF c[1] = 0 THEN <<209, 100>> ELSE c
             x == f[1] * k
  <2>1. f[1] \in Nat \ {0} /\ f[2] \in Nat \ {0}
    OBVIOUS
  <2>2. n = CeilDiv(x, f[2])
    BY DEF chm_n, CeilMul
  <2> HIDE DEF f
  <2>3. x \in Nat
    BY <1>1, <2>1
  <2>5. k >= 1 => x >= 1
    <3> DEFINE p == f[1]
    <3>1. p \in Nat \ {0}
      BY <2>1
    <3> HIDE DEF p, k
    <3>2. k >= 1 => p * k >= 1
      BY <1>1, <3>1
    <3> QED
      BY <3>2 DEF p
  <2> HIDE DEF x
  <2> QED
    BY <2>1, <2>2, <2>3, <2>5, CeilDivNat
<1>3. /\ G = [e \in DOMAIN ks |-> chm_ends(h, ks[e], n)]
      /\ \A e \in DOMAIN G : G[e][1] # G[e][2]
      /\ ~graph_is_cyclic(G, n)
  BY Zenon DEF chm_gen_edges
<1> HIDE DEF k, K, V, g, a
<1>4. \A e \in 1..k : chm_ends(h, ks[e], n) \in V \X V
  <2> TAKE e \in 1..k
  <2>1. n \in Nat \ {0}
    BY <1>1, <1>2
  <2>2. h[1][ks[e]] \in Nat /\ h[2][ks[e]] \in Nat
    BY <1>1 DEF K
  <2> QED
    BY <2>1, <2>2, ChmEndsRange DEF V
<1>5. DOMAIN G = 1..k /\ \A e \in 1..k : G[e] = chm_ends(h, ks[e], n)
  BY <1>1, <1>3
<1>6. Len(G) = k
  <2>1. G \in [1..k -> V \X V]
    BY <1>1, <1>3, <1>4
  <2> QED
    BY <1>1, <2>1
<1>7. Simple(G, n)
  <2>1. \A e \in 1..k : G[e][1] \in V /\ G[e][2] \in V
    BY <1>4, <1>5
  <2> QED
    BY <1>1, <1>3, <1>5, <1>6, <2>1 DEF Simple, Edges, V
<1>8. Acyclic(G)
  <2>1. SparesStuck(G, DeletedUpTo(G, n))
    <3>1. \A e \in Edges(G) : Ends(G, e) \in SUBSET (0..(n - 1))
      BY <1>7 DEF Simple, Ends
    <3>2. Len(G) \in Nat /\ Edges(G) = 1..Len(G)
      BY <1>7 DEF Simple
    <3> QED
      BY <1>2, <3>1, <3>2, PeelingFacts
  <2>2. Edges(G) \ DeletedUpTo(G, n) = {}
    BY <1>3 DEF graph_is_cyclic
  <2> QED
    BY <2>1, <2>2 DEF SparesStuck, Acyclic
<1>9. \A e \in 1..k : (g[G[e][1]] + g[G[e][2]]) % Word = (e - 1) % Word
  <2>1. g = chm_assign(G, n)[Rounds(G, n)].g
    BY DEF g
  <2>2. SumsUp(G, g)
    BY <1>2, <1>7, <1>8, <2>1, AssignedSums
  <2>3. Edges(G) = 1..k
    BY <1>6, <1>7 DEF Simple
  <2> QED
    BY <2>2, <2>3, Zenon DEF SumsUp
<1>10. d.hashes = h /\ d.n = n /\ d.m = k /\ d.g = g
  BY Zenon DEF chm_new, k, g
<1>11. \A e \in 1..k : a[ks[e]] = e - 1
  <2> TAKE e \in 1..k
  <2> DEFINE y == ks[e]
             E == chm_ends(h, y, n)
  <2>1. a[y] = chm_search(d, y)
    BY <1>1 DEF a, K
  <2>2. chm_search(d, y) = ((g[E[1]] + g[E[2]]) % Word) % k
    BY <1>10, Zenon DEF chm_search
  <2>3. E = G[e]
    BY <1>5
  <2>4. (g[E[1]] + g[E[2]]) % Word = (e - 1) % Word
    BY <1>9, <2>3
  <2>5. ((e - 1) % Word) % k = e - 1
    <3> DEFINE w == Word
               i == e - 1
    <3>1. k \in Nat \ {0} /\ i \in 0..(k - 1) /\ w \in Nat \ {0} /\ k < w
      BY <1>1, WordAssumption DEF k
    <3> HIDE DEF w, i
    <3>2. i \in 0..(w - 1)
      BY <3>1
    <3>3. i % w = i
      BY <3>1, <3>2, SMTT(20)
    <3>4. i % k = i
      BY <3>1, SMTT(20)
    <3> QED
      BY <3>3, <3>4 DEF w, i
  <2> HIDE DEF E, y
  <2> QED
    BY <2>1, <2>2, <2>4, <2>5 DEF y
<1>12. \A x \in K : \E e \in 1..k : x = ks[e]
  BY <1>1 DEF K, Range
<1>13. OneToOne(a, K, k)
  <2>1. \A x \in K : a[x] \in 0..(k - 1)
    <3> TAKE x \in K
    <3>1. PICK e \in 1..k : x = ks[e]
      BY <1>12
    <3>2. a[x] = e - 1
      BY <1>11, <3>1
    <3> QED
      BY <1>1, <3>2
  <2>2. ASSUME NEW x \in K, NEW y \in K, a[x] = a[y] PROVE x = y
    <3>1. PICK e \in 1..k : x = ks[e]
      BY <1>12
    <3>2. PICK f \in 1..k : y = ks[f]
      BY <1>12
    <3>3. e - 1 = f - 1
      BY <1>11, <2>2, <3>1, <3>2
    <3>4. e = f
      BY <3>3
    <3> QED
      BY <3>1, <3>2, <3>4
  <2> QED
    BY <2>1, <2>2 DEF OneToOne
<1> QED
  BY <1>13 DEF a, K, k

-----------------------------------------------------------------------------
(* fch: the loops, and the search for displacements.                       *)

\* The loop over the keys of a bucket.
LEMMA KeysTakenLoop ==
    ASSUME NEW table, NEW filled, NEW bucket, Len(bucket) \in Nat, NEW h2, NEW k, NEW d
    PROVE  /\ KeysTaken(table, filled, bucket, h2, k, d)[0] = [table |-> table, filled |-> filled, d |-> d, ok |-> TRUE]
           /\ \A i \in 1..Len(bucket) : KeysTaken(table, filled, bucket, h2, k, d)[i] = IF KeysTaken(table, filled, bucket, h2, k, d)[i - 1].ok THEN Take(KeysTaken(table, filled, bucket, h2, k, d)[i - 1], (h2[bucket[i]] + d) % k) ELSE KeysTaken(table, filled, bucket, h2, k, d)[i - 1]
<1> DEFINE Body(i, s) == IF s.ok THEN Take(s, (h2[bucket[i]] + d) % k) ELSE s
           start == [table |-> table, filled |-> filled, d |-> d, ok |-> TRUE]
           Whole(r, f) == f = [i \in 0..r |-> IF i = 0 THEN start ELSE Body(i, f[i - 1])]
           run == KeysTaken(table, filled, bucket, h2, k, d)
           len == Len(bucket)
<1>1. len \in Nat
  OBVIOUS
<1>2. run = CHOOSE f : Whole(len, f)
  BY Zenon DEF KeysTaken
<1>3. start = [table |-> table, filled |-> filled, d |-> d, ok |-> TRUE] /\ \A i \in 1..len : Body(i, run[i - 1]) = IF run[i - 1].ok THEN Take(run[i - 1], (h2[bucket[i]] + d) % k) ELSE run[i - 1]
  BY Zenon
<1> HIDE DEF Body, start, run, len
<1>4. \E f : Whole(len, f)
  <2> DEFINE P == {r \in 0..len : \E f : Whole(r, f)}
  <2>1. 0 \in P
    <3>1. Whole(0, [i \in 0..0 |-> start])
      OBVIOUS
    <3>2. \E f : Whole(0, f)
      <4> HIDE DEF Whole
      <4> QED
        BY <3>1
    <3> QED
      BY <1>1, <3>2
  <2>2. ASSUME NEW r \in 1..len, r - 1 \in P PROVE r \in P
    <3>1. PICK f : Whole(r - 1, f)
      BY <2>2
    <3> DEFINE new == Body(r, f[r - 1])
               g == [i \in 0..r |-> IF i = r THEN new ELSE f[i]]
    <3>2. \A i \in 0..r : g[i] = IF i = 0 THEN start ELSE Body(i, g[i - 1])
      <4> TAKE i \in 0..r
      <4>1. r - 1 \in 0..r /\ r - 1 # r /\ r # 0
        BY <1>1
      <4>2. g[r] = new /\ g[r - 1] = f[r - 1]
        <5> HIDE DEF new
        <5> QED
          BY <4>1
      <4>3. CASE i = r
        BY <4>1, <4>2, <4>3
      <4>4. CASE i # r
        <5>1. i \in 0..(r - 1) /\ (i # 0 => i - 1 \in 0..r /\ i - 1 # r)
          BY <4>4, <1>1
        <5>2. g[i] = f[i] /\ (i # 0 => g[i - 1] = f[i - 1])
          <6> HIDE DEF new
          <6> QED
            BY <4>4, <5>1
        <5>3. f[i] = IF i = 0 THEN start ELSE Body(i, f[i - 1])
          BY <3>1, <5>1
        <5> HIDE DEF g
        <5> QED
          BY <5>2, <5>3
      <4> QED
        BY <4>3, <4>4
    <3>3. g = [i \in 0..r |-> g[i]]
      OBVIOUS
    <3> HIDE DEF g
    <3>4. Whole(r, g)
      BY <3>2, <3>3
    <3> QED
      BY <3>4
  <2> HIDE DEF P
  <2>3. len \in P
    BY <1>1, <2>1, <2>2, Induction
  <2> QED
    BY <2>3 DEF P
<1>5. Whole(len, run)
  <2> HIDE DEF Whole
  <2> QED
    BY <1>2, <1>4, Zenon
<1>6. run[0] = start /\ \A i \in 1..len : run[i] = Body(i, run[i - 1])
  <2>1. 0 \in 0..len /\ \A i \in 1..len : i \in 0..len /\ i # 0
    BY <1>1
  <2> QED
    BY <1>5, <2>1
<1> QED
  BY <1>3, <1>6, Zenon DEF run, len

\* The loop over the displacements.
LEMMA DisplaceLoop ==
    ASSUME NEW table, NEW filled, NEW bucket, NEW h2, NEW k, k - filled \in Nat
    PROVE  /\ Displace(table, filled, bucket, h2, k)[0] = [table |-> table, filled |-> filled, d |-> 0, ok |-> FALSE]
           /\ \A i \in 1..(k - filled) : Displace(table, filled, bucket, h2, k)[i] = IF Displace(table, filled, bucket, h2, k)[i - 1].ok THEN Displace(table, filled, bucket, h2, k)[i - 1]
             ELSE PlaceBucket(Displace(table, filled, bucket, h2, k)[i - 1].table, filled, bucket, h2, k,
                              Displacement(Displace(table, filled, bucket, h2, k)[i - 1].table, filled, bucket, h2, k, i - 1))
<1> DEFINE Body(i, s) == IF s.ok THEN s
             ELSE PlaceBucket(s.table, filled, bucket, h2, k,
                              Displacement(s.table, filled, bucket, h2, k, i - 1))
           start == [table |-> table, filled |-> filled, d |-> 0, ok |-> FALSE]
           Whole(r, f) == f = [i \in 0..r |-> IF i = 0 THEN start ELSE Body(i, f[i - 1])]
           run == Displace(table, filled, bucket, h2, k)
           len == (k - filled)
<1>1. len \in Nat
  OBVIOUS
<1>2. run = CHOOSE f : Whole(len, f)
  BY Zenon DEF Displace
<1>3. start = [table |-> table, filled |-> filled, d |-> 0, ok |-> FALSE] /\ \A i \in 1..len : Body(i, run[i - 1]) = IF run[i - 1].ok THEN run[i - 1]
             ELSE PlaceBucket(run[i - 1].table, filled, bucket, h2, k,
                              Displacement(run[i - 1].table, filled, bucket, h2, k, i - 1))
  BY Zenon
<1> HIDE DEF Body, start, run, len
<1>4. \E f : Whole(len, f)
  <2> DEFINE P == {r \in 0..len : \E f : Whole(r, f)}
  <2>1. 0 \in P
    <3>1. Whole(0, [i \in 0..0 |-> start])
      OBVIOUS
    <3>2. \E f : Whole(0, f)
      <4> HIDE DEF Whole
      <4> QED
        BY <3>1
    <3> QED
      BY <1>1, <3>2
  <2>2. ASSUME NEW r \in 1..len, r - 1 \in P PROVE r \in P
    <3>1. PICK f : Whole(r - 1, f)
      BY <2>2
    <3> DEFINE new == Body(r, f[r - 1])
               g == [i \in 0..r |-> IF i = r THEN new ELSE f[i]]
    <3>2. \A i \in 0..r : g[i] = IF i = 0 THEN start ELSE Body(i, g[i - 1])
      <4> TAKE i \in 0..r
      <4>1. r - 1 \in 0..r /\ r - 1 # r /\ r # 0
        BY <1>1
      <4>2. g[r] = new /\ g[r - 1] = f[r - 1]
        <5> HIDE DEF new
        <5> QED
          BY <4>1
      <4>3. CASE i = r
        BY <4>1, <4>2, <4>3
      <4>4. CASE i # r
        <5>1. i \in 0..(r - 1) /\ (i # 0 => i - 1 \in 0..r /\ i - 1 # r)
          BY <4>4, <1>1
        <5>2. g[i] = f[i] /\ (i # 0 => g[i - 1] = f[i - 1])
          <6> HIDE DEF new
          <6> QED
            BY <4>4, <5>1
        <5>3. f[i] = IF i = 0 THEN start ELSE Body(i, f[i - 1])
          BY <3>1, <5>1
        <5> HIDE DEF g
        <5> QED
          BY <5>2, <5>3
      <4> QED
        BY <4>3, <4>4
    <3>3. g = [i \in 0..r |-> g[i]]
      OBVIOUS
    <3> HIDE DEF g
    <3>4. Whole(r, g)
      BY <3>2, <3>3
    <3> QED
      BY <3>4
  <2> HIDE DEF P
  <2>3. len \in P
    BY <1>1, <2>1, <2>2, Induction
  <2> QED
    BY <2>3 DEF P
<1>5. Whole(len, run)
  <2> HIDE DEF Whole
  <2> QED
    BY <1>2, <1>4, Zenon
<1>6. run[0] = start /\ \A i \in 1..len : run[i] = Body(i, run[i - 1])
  <2>1. 0 \in 0..len /\ \A i \in 1..len : i \in 0..len /\ i # 0
    BY <1>1
  <2> QED
    BY <1>5, <2>1
<1> QED
  BY <1>3, <1>6, Zenon DEF run, len

\* The loop over the buckets.
LEMMA SearchedLoop ==
    ASSUME NEW buckets, NEW table, NEW h2, NEW k,
           Len(fch_buckets_get_indexes_sorted_by_size(buckets)) \in Nat
    PROVE  /\ Searched(buckets, table, h2, k)[0] = [table |-> table, filled |-> 0, ok |-> TRUE, g |-> [i \in DOMAIN buckets |-> 0]]
           /\ \A i \in 1..Len(fch_buckets_get_indexes_sorted_by_size(buckets)) : Searched(buckets, table, h2, k)[i] = SearchBucketOf(Searched(buckets, table, h2, k)[i - 1], fch_buckets_get_indexes_sorted_by_size(buckets)[i], buckets, h2, k)
<1> DEFINE Body(i, s) == SearchBucketOf(s, fch_buckets_get_indexes_sorted_by_size(buckets)[i], buckets, h2, k)
           start == [table |-> table, filled |-> 0, ok |-> TRUE, g |-> [i \in DOMAIN buckets |-> 0]]
           Whole(r, f) == f = [i \in 0..r |-> IF i = 0 THEN start ELSE Body(i, f[i - 1])]
           run == Searched(buckets, table, h2, k)
           len == Len(fch_buckets_get_indexes_sorted_by_size(buckets))
<1>1. len \in Nat
  OBVIOUS
<1>2. run = CHOOSE f : Whole(len, f)
  BY Zenon DEF Searched
<1>3. start = [table |-> table, filled |-> 0, ok |-> TRUE, g |-> [i \in DOMAIN buckets |-> 0]] /\ \A i \in 1..len : Body(i, run[i - 1]) = SearchBucketOf(run[i - 1], fch_buckets_get_indexes_sorted_by_size(buckets)[i], buckets, h2, k)
  BY Zenon
<1> HIDE DEF Body, start, run, len
<1>4. \E f : Whole(len, f)
  <2> DEFINE P == {r \in 0..len : \E f : Whole(r, f)}
  <2>1. 0 \in P
    <3>1. Whole(0, [i \in 0..0 |-> start])
      OBVIOUS
    <3>2. \E f : Whole(0, f)
      <4> HIDE DEF Whole
      <4> QED
        BY <3>1
    <3> QED
      BY <1>1, <3>2
  <2>2. ASSUME NEW r \in 1..len, r - 1 \in P PROVE r \in P
    <3>1. PICK f : Whole(r - 1, f)
      BY <2>2
    <3> DEFINE new == Body(r, f[r - 1])
               g == [i \in 0..r |-> IF i = r THEN new ELSE f[i]]
    <3>2. \A i \in 0..r : g[i] = IF i = 0 THEN start ELSE Body(i, g[i - 1])
      <4> TAKE i \in 0..r
      <4>1. r - 1 \in 0..r /\ r - 1 # r /\ r # 0
        BY <1>1
      <4>2. g[r] = new /\ g[r - 1] = f[r - 1]
        <5> HIDE DEF new
        <5> QED
          BY <4>1
      <4>3. CASE i = r
        BY <4>1, <4>2, <4>3
      <4>4. CASE i # r
        <5>1. i \in 0..(r - 1) /\ (i # 0 => i - 1 \in 0..r /\ i - 1 # r)
          BY <4>4, <1>1
        <5>2. g[i] = f[i] /\ (i # 0 => g[i - 1] = f[i - 1])
          <6> HIDE DEF new
          <6> QED
            BY <4>4, <5>1
        <5>3. f[i] = IF i = 0 THEN start ELSE Body(i, f[i - 1])
          BY <3>1, <5>1
        <5> HIDE DEF g
        <5> QED
          BY <5>2, <5>3
      <4> QED
        BY <4>3, <4>4
    <3>3. g = [i \in 0..r |-> g[i]]
      OBVIOUS
    <3> HIDE DEF g
    <3>4. Whole(r, g)
      BY <3>2, <3>3
    <3> QED
      BY <3>4
  <2> HIDE DEF P
  <2>3. len \in P
    BY <1>1, <2>1, <2>2, Induction
  <2> QED
    BY <2>3 DEF P
<1>5. Whole(len, run)
  <2> HIDE DEF Whole
  <2> QED
    BY <1>2, <1>4, Zenon
<1>6. run[0] = start /\ \A i \in 1..len : run[i] = Body(i, run[i - 1])
  <2>1. 0 \in 0..len /\ \A i \in 1..len : i \in 0..len /\ i # 0
    BY <1>1
  <2> QED
    BY <1>5, <2>1
<1> QED
  BY <1>3, <1>6, Zenon DEF run, len

\* A table lists the positions 0 .. k - 1, and its first filled entries are
\* those of a set of taken positions.
Lists(t, k) ==
    /\ t \in [0..(k - 1) -> 0..(k - 1)]
    /\ \A p \in 0..(k - 1) : \E y \in 0..(k - 1) : t[y] = p
    /\ \A y, z \in 0..(k - 1) : t[y] = t[z] => y = z
TakenAre(t, filled, k, O) ==
    /\ Lists(t, k)
    /\ filled \in 0..k
    /\ \A y \in 0..(k - 1) : t[y] \in O <=> y < filled
TryFields(s) == s = [table |-> s.table, filled |-> s.filled, d |-> s.d, ok |-> s.ok]

\* The tables of a source list the positions.
LEMMA TableLists ==
    ASSUME NEW k \in Nat, NEW t \in [0..(k - 1) -> 0..(k - 1)],
           \A p \in 0..(k - 1) : \E y \in 0..(k - 1) : t[y] = p
    PROVE  Lists(t, k)
<1> DEFINE T == 0..(k - 1)
<1>1. IsFiniteSet(T)
  BY FS_Interval
<1>2. t \in [T -> T] /\ \A p \in T : \E y \in T : t[y] = p
  OBVIOUS
<1> HIDE DEF T
<1>3. t \in Surjection(T, T)
  BY <1>2 DEF Surjection
<1>4. t \in Injection(T, T)
  BY <1>1, <1>3, FS_Surjection
<1>5. \A y, z \in T : t[y] = t[z] => y = z
  BY <1>4 DEF Injection, IsInjective
<1> QED
  BY <1>2, <1>5 DEF Lists, T

\* Taking a position: it is refused when it is taken already, and the
\* entries before the first free one stay.
LEMMA TakeFacts ==
    ASSUME NEW k \in Nat, NEW s, TryFields(s), NEW O, TakenAre(s.table, s.filled, k, O),
           NEW p \in 0..(k - 1)
    PROVE  /\ p \in O => Take(s, p) = [table |-> s.table, filled |-> s.filled, d |-> s.d, ok |-> FALSE]
           /\ p \notin O =>
                 /\ TryFields(Take(s, p)) /\ Take(s, p).d = s.d /\ Take(s, p).ok = s.ok
                 /\ Take(s, p).filled = s.filled + 1
                 /\ TakenAre(Take(s, p).table, s.filled + 1, k, O \cup {p})
                 /\ \A f \in 0..s.filled : \A A :
                       TakenAre(s.table, f, k, A) => TakenAre(Take(s, p).table, f, k, A)
<1> DEFINE t == s.table
           fl == s.filled
           y == WhereIs(t, p)
           u == [[t EXCEPT ![y] = t[fl]] EXCEPT ![fl] = p]
           r == Take(s, p)
<1>1. t \in [0..(k - 1) -> 0..(k - 1)] /\ fl \in 0..k
  BY DEF TakenAre, Lists
<1>2. y \in 0..(k - 1) /\ t[y] = p
  BY DEF WhereIs, TakenAre, Lists
<1>3. p \in O <=> y < fl
  BY <1>2 DEF TakenAre
<1>4. ASSUME p \in O
      PROVE  r = [table |-> s.table, filled |-> s.filled, d |-> s.d, ok |-> FALSE]
  <2>1. r = [s EXCEPT !.ok = FALSE]
    BY <1>3, <1>4 DEF Take
  <2> QED
    BY <2>1 DEF TryFields
<1>5. ASSUME p \notin O
      PROVE  /\ TryFields(r) /\ r.d = s.d /\ r.ok = s.ok /\ r.filled = fl + 1 /\ r.table = u
  <2>1. r = [s EXCEPT !.table = u, !.filled = @ + 1]
    BY <1>3, <1>5 DEF Take
  <2> HIDE DEF u, r
  <2>2. r = [table |-> u, filled |-> fl + 1, d |-> s.d, ok |-> s.ok]
    BY <2>1 DEF TryFields
  <2> QED
    BY <2>2 DEF TryFields
<1>6. ASSUME p \notin O
      PROVE  /\ Lists(u, k) /\ TakenAre(u, fl + 1, k, O \cup {p})
             /\ \A f \in 0..fl : \A A : TakenAre(t, f, k, A) => TakenAre(u, f, k, A)
  <2>1. fl \in 0..(k - 1) /\ fl <= y
    <3>1. fl \in 0..k /\ y \in 0..(k - 1) /\ ~(y < fl)
      BY <1>1, <1>2, <1>3, <1>6
    <3> HIDE DEF fl
    <3> QED
      BY <3>1
  <2>2. \A z \in 0..(k - 1) : u[z] = IF z = fl THEN p ELSE IF z = y THEN t[fl] ELSE t[z]
    BY <1>1, <1>2, <2>1
  <2>3. u \in [0..(k - 1) -> 0..(k - 1)]
    BY <1>1, <1>2, <2>1
  <2> HIDE DEF u, y
  <2>4. \A q \in 0..(k - 1) : \E z \in 0..(k - 1) : t[z] = q
    BY DEF TakenAre, Lists
  <2>5. \A a, b \in 0..(k - 1) : t[a] = t[b] => a = b
    BY DEF TakenAre, Lists
  <2> HIDE DEF t, fl
  <2>6. ASSUME NEW q \in 0..(k - 1) PROVE \E z \in 0..(k - 1) : u[z] = q
    <3>1. PICK z \in 0..(k - 1) : t[z] = q
      BY <2>4
    <3>2. CASE q = p
      BY <2>1, <2>2, <3>2
    <3>3. CASE q # p /\ z = fl
      BY <1>2, <2>1, <2>2, <3>1, <3>3
    <3>4. CASE q # p /\ z # fl
      BY <1>2, <2>1, <2>2, <3>1, <3>4
    <3> QED
      BY <3>2, <3>3, <3>4
  <2>7. Lists(u, k)
    BY <2>3, <2>6, TableLists
  <2>8. ASSUME NEW z \in 0..(k - 1) PROVE u[z] \in O \cup {p} <=> z < fl + 1
    <3>1. t[z] \in O <=> z < fl
      BY DEF TakenAre, t, fl
    <3>2. ~(t[fl] \in O) /\ (t[fl] = p => y = fl) /\ (t[z] = p => z = y)
      BY <1>2, <2>1, <2>5 DEF TakenAre, t, fl
    <3> QED
      BY <1>2, <2>1, <2>2, <3>1, <3>2
  <2>9. TakenAre(u, fl + 1, k, O \cup {p})
    BY <2>1, <2>7, <2>8 DEF TakenAre
  <2>10. ASSUME NEW f \in 0..fl, NEW A, TakenAre(t, f, k, A) PROVE TakenAre(u, f, k, A)
    <3>1. f \in 0..k /\ \A z \in 0..(k - 1) : t[z] \in A <=> z < f
      BY <2>10 DEF TakenAre
    <3>2. ASSUME NEW z \in 0..(k - 1) PROVE u[z] \in A <=> z < f
      <4>1. f \in Int /\ fl \in Int /\ z \in Int /\ y \in Int /\ f <= fl /\ fl <= y
        BY <2>1, <1>2
      <4>2. p \notin A /\ t[fl] \notin A
        BY <1>2, <2>1, <3>1, <4>1
      <4> QED
        BY <2>1, <2>2, <3>1, <4>1, <4>2
    <3> QED
      BY <2>7, <3>1, <3>2 DEF TakenAre
  <2> QED
    BY <2>7, <2>9, <2>10
<1> HIDE DEF u
<1> QED
  BY <1>4, <1>5, <1>6 DEF r, t, fl

\* Where a displacement moves the keys of a bucket, and that there is room
\* for them outside of O.
Moved(bucket, h2, k, d) == {(h2[bucket[j]] + d) % k : j \in 1..Len(bucket)}
Fits(bucket, h2, k, d, O) ==
    /\ \A j \in 1..Len(bucket) : (h2[bucket[j]] + d) % k \notin O
    /\ \A i, j \in 1..Len(bucket) :
          (h2[bucket[i]] + d) % k = (h2[bucket[j]] + d) % k => i = j

\* A bucket is placed as a whole, or nothing but the order of the free
\* positions changes.
LEMMA PlaceBucketFacts ==
    ASSUME NEW k \in Nat \ {0}, NEW table, NEW filled, NEW O, TakenAre(table, filled, k, O),
           NEW bucket, Len(bucket) \in Nat, NEW h2, \A j \in 1..Len(bucket) : h2[bucket[j]] \in Nat,
           NEW d \in Nat
    PROVE  LET r == PlaceBucket(table, filled, bucket, h2, k, d)
           IN  /\ TryFields(r) /\ r.d = d /\ r.ok \in BOOLEAN
               /\ r.ok => Fits(bucket, h2, k, d, O)
                          /\ TakenAre(r.table, r.filled, k, O \cup Moved(bucket, h2, k, d))
               /\ ~r.ok => r.filled = filled /\ TakenAre(r.table, filled, k, O)
<1> DEFINE n == Len(bucket)
           pos(j) == (h2[bucket[j]] + d) % k
           run == KeysTaken(table, filled, bucket, h2, k, d)
           Up(i) == {pos(j) : j \in 1..i}
           Good(i) == /\ TryFields(run[i]) /\ run[i].d = d /\ run[i].ok \in BOOLEAN
                      /\ TakenAre(run[i].table, filled, k, O)
                      /\ run[i].ok =>
                            /\ TakenAre(run[i].table, run[i].filled, k, O \cup Up(i))
                            /\ filled <= run[i].filled
                            /\ \A j \in 1..i : pos(j) \notin O
                            /\ \A j, l \in 1..i : pos(j) = pos(l) => j = l
           P == {i \in 0..n : Good(i)}
<1>1. /\ run[0] = [table |-> table, filled |-> filled, d |-> d, ok |-> TRUE]
      /\ \A i \in 1..n : run[i] = IF run[i - 1].ok THEN Take(run[i - 1], pos(i)) ELSE run[i - 1]
  BY KeysTakenLoop
<1>2. \A j \in 1..n : pos(j) \in 0..(k - 1)
  OBVIOUS
<1>3. n \in Nat
  OBVIOUS
<1>4. filled \in 0..k
  BY DEF TakenAre
<1> HIDE DEF run, pos, n
<1>5. 0 \in P
  <2>1. Up(0) = {} /\ 1..0 = {}
    OBVIOUS
  <2>2. O \cup Up(0) = O
    BY <2>1
  <2> HIDE DEF Up
  <2>3. TryFields(run[0]) /\ run[0].d = d /\ run[0].ok = TRUE /\ run[0].table = table /\ run[0].filled = filled
    BY <1>1 DEF TryFields
  <2>4. TakenAre(run[0].table, filled, k, O) /\ TakenAre(run[0].table, run[0].filled, k, O \cup Up(0))
    BY <2>2, <2>3, Zenon
  <2>6. run[0].ok \in BOOLEAN
    BY <2>3
  <2>7. filled <= run[0].filled
    BY <1>4, <2>3
  <2>8. (\A j \in 1..0 : pos(j) \notin O) /\ (\A j, l \in 1..0 : pos(j) = pos(l) => j = l)
    BY <2>1
  <2>5. Good(0)
    BY <2>3, <2>4, <2>6, <2>7, <2>8, Zenon
  <2> QED
    BY <1>3, <2>5
<1>6. ASSUME NEW i \in 1..n, i - 1 \in P PROVE i \in P
  <2> DEFINE s == run[i - 1]
             p == pos(i)
             r == run[i]
  <2>1. Good(i - 1)
    BY <1>6
  <2>2. p \in 0..(k - 1) /\ k \in Nat
    BY <1>2
  <2>3. r = IF s.ok THEN Take(s, p) ELSE s
    BY <1>1
  <2>4. /\ TryFields(s) /\ s.d = d /\ s.ok \in BOOLEAN
        /\ TakenAre(s.table, filled, k, O)
        /\ s.ok => /\ TakenAre(s.table, s.filled, k, O \cup Up(i - 1))
                   /\ filled <= s.filled
                   /\ \A j \in 1..(i - 1) : pos(j) \notin O
                   /\ \A j, l \in 1..(i - 1) : pos(j) = pos(l) => j = l
    BY <2>1
  <2>5. Up(i) = Up(i - 1) \cup {p}
    <3>1. 1..i = (1..(i - 1)) \cup {i}
      BY <1>3
    <3> QED
      BY <3>1
  <2>6. \A j \in 1..i : j = i \/ j \in 1..(i - 1)
    BY <1>3
  <2>7. \A j \in 1..(i - 1) : pos(j) \in Up(i - 1)
    OBVIOUS
  <2> HIDE DEF Up, s, r
  <2>8. CASE ~s.ok
    BY <2>3, <2>4, <2>8 DEF r
  <2>9. CASE s.ok /\ p \in O \cup Up(i - 1)
    <3>1. r = [table |-> s.table, filled |-> s.filled, d |-> s.d, ok |-> FALSE]
      BY <2>2, <2>3, <2>4, <2>9, TakeFacts, Zenon
    <3>2. TryFields(r) /\ r.d = d /\ r.ok = FALSE /\ r.table = s.table
      BY <2>4, <3>1 DEF TryFields
    <3>3. Good(i)
      BY <2>4, <3>2 DEF r
    <3> QED
      BY <3>3
  <2>10. CASE s.ok /\ p \notin O \cup Up(i - 1)
    <3>0. r = Take(s, p) /\ TakenAre(s.table, s.filled, k, O \cup Up(i - 1))
      BY <2>3, <2>4, <2>10
    <3> DEFINE u == Take(s, p)
    <3>01. /\ TryFields(u) /\ u.d = s.d /\ u.ok = s.ok
           /\ u.filled = s.filled + 1
           /\ TakenAre(u.table, s.filled + 1, k, (O \cup Up(i - 1)) \cup {p})
           /\ \A f \in 0..s.filled : \A A : TakenAre(s.table, f, k, A) => TakenAre(u.table, f, k, A)
      BY <2>2, <2>4, <2>10, <3>0, TakeFacts, Zenon
    <3>1. /\ TryFields(r) /\ r.d = s.d /\ r.ok = s.ok
          /\ r.filled = s.filled + 1
          /\ TakenAre(r.table, s.filled + 1, k, (O \cup Up(i - 1)) \cup {p})
          /\ \A f \in 0..s.filled : \A A : TakenAre(s.table, f, k, A) => TakenAre(r.table, f, k, A)
      BY <3>0, <3>01, Zenon
    <3>2. (O \cup Up(i - 1)) \cup {p} = O \cup Up(i)
      BY <2>5
    <3>3. s.filled \in 0..k /\ filled <= s.filled
      BY <2>4, <2>10 DEF TakenAre
    <3>4. filled \in 0..s.filled /\ filled <= r.filled
      BY <1>4, <3>1, <3>3
    <3>5. TakenAre(r.table, filled, k, O)
      BY <2>4, <3>1, <3>4
    <3>6. TakenAre(r.table, r.filled, k, O \cup Up(i))
      BY <3>1, <3>2
    <3>7. \A j \in 1..i : pos(j) \notin O
      BY <2>4, <2>6, <2>10
    <3>8. \A j, l \in 1..i : pos(j) = pos(l) => j = l
      BY <2>4, <2>6, <2>7, <2>10
    <3> QED
      BY <2>4, <3>1, <3>4, <3>5, <3>6, <3>7, <3>8 DEF r
  <2> QED
    BY <2>4, <2>8, <2>9, <2>10
<1>7. Good(n)
  <2> HIDE DEF P
  <2>1. 0..n \subseteq P
    BY <1>3, <1>5, <1>6, Induction
  <2>2. n \in P
    BY <1>3, <2>1
  <2> HIDE DEF Good
  <2> QED
    BY <2>2 DEF P
<1> DEFINE s == run[n]
           r == PlaceBucket(table, filled, bucket, h2, k, d)
<1>8. r = IF s.ok THEN s ELSE [s EXCEPT !.filled = filled]
  BY Zenon DEF PlaceBucket, run, n
<1>9. Up(n) = Moved(bucket, h2, k, d)
  BY DEF Moved, pos, n
<1> HIDE DEF s, Up, r
<1>10. CASE s.ok
  <2>1. r = s
    BY <1>8, <1>10
  <2>2. Fits(bucket, h2, k, d, O)
    BY <1>7, <1>10 DEF Fits, pos, n, s
  <2> QED
    BY <1>7, <1>9, <1>10, <2>1, <2>2 DEF r, s
<1>11. CASE ~s.ok
  <2>1. r = [table |-> s.table, filled |-> filled, d |-> s.d, ok |-> s.ok]
    BY <1>7, <1>8, <1>11 DEF TryFields, s
  <2> HIDE DEF s
  <2>2. TryFields(r) /\ r.d = s.d /\ r.ok = s.ok /\ r.table = s.table /\ r.filled = filled
    BY <2>1 DEF TryFields
  <2> QED
    BY <1>7, <1>11, <2>2 DEF r, s
<1> QED
  BY <1>7, <1>10, <1>11 DEF s

\* The displacement of a bucket that fits.
LEMMA DisplaceFacts ==
    ASSUME NEW k \in Nat \ {0}, NEW table, NEW filled, NEW O, TakenAre(table, filled, k, O),
           NEW bucket, Len(bucket) \in Nat \ {0}, NEW h2,
           \A j \in 1..Len(bucket) : h2[bucket[j]] \in Nat
    PROVE  LET r == Displace(table, filled, bucket, h2, k)[k - filled]
           IN  /\ TryFields(r) /\ r.ok \in BOOLEAN /\ Lists(r.table, k)
               /\ r.ok => /\ r.d \in Nat
                          /\ Fits(bucket, h2, k, r.d, O)
                          /\ TakenAre(r.table, r.filled, k, O \cup Moved(bucket, h2, k, r.d))
<1> DEFINE n == k - filled
           run == Displace(table, filled, bucket, h2, k)
           Placed(s, i) == PlaceBucket(s.table, filled, bucket, h2, k,
                                       Displacement(s.table, filled, bucket, h2, k, i - 1))
           Good(s) == /\ TryFields(s) /\ s.ok \in BOOLEAN
                      /\ ~s.ok => s.filled = filled /\ TakenAre(s.table, filled, k, O)
                      /\ s.ok => /\ s.d \in Nat
                                 /\ Fits(bucket, h2, k, s.d, O)
                                 /\ TakenAre(s.table, s.filled, k, O \cup Moved(bucket, h2, k, s.d))
           P == {i \in 0..n : Good(run[i])}
<1>1. filled \in 0..k /\ n \in Nat
  BY DEF TakenAre
<1>2. /\ run[0] = [table |-> table, filled |-> filled, d |-> 0, ok |-> FALSE]
      /\ \A i \in 1..n : run[i] = IF run[i - 1].ok THEN run[i - 1] ELSE Placed(run[i - 1], i)
  BY <1>1, DisplaceLoop
<1>3. \A s, i : Placed(s, i) = PlaceBucket(s.table, filled, bucket, h2, k,
                                            Displacement(s.table, filled, bucket, h2, k, i - 1))
  OBVIOUS
<1>4. Good(run[0])
  BY <1>2 DEF TryFields
<1>5. ASSUME NEW i \in 1..n, NEW s, Good(s), ~s.ok PROVE Good(Placed(s, i))
  <2> DEFINE d == Displacement(s.table, filled, bucket, h2, k, i - 1)
             r == Placed(s, i)
             a == s.table[filled + (i - 1)]
             h == h2[bucket[1]]
  <2>1. TakenAre(s.table, filled, k, O)
    BY <1>5
  <2>2. s.table \in [0..(k - 1) -> 0..(k - 1)]
    BY <2>1 DEF TakenAre, Lists
  <2>3. filled + (i - 1) \in 0..(k - 1)
    BY <1>1
  <2>0. 1 \in 1..Len(bucket)
    OBVIOUS
  <2>4. a \in 0..(k - 1) /\ h \in Nat
    BY <2>0, <2>2, <2>3
  <2>5. d = (k + a - (h % k)) % k
    BY Zenon DEF Displacement
  <2> HIDE DEF d, a, h, Placed
  <2>6. d \in Nat
    <3>1. h % k \in 0..(k - 1)
      BY <2>4
    <3> QED
      BY <2>4, <2>5, <3>1
  <2>7. r = PlaceBucket(s.table, filled, bucket, h2, k, d)
    BY <1>3, Zenon DEF d
  <2>8. Len(bucket) \in Nat /\ \A j \in 1..Len(bucket) : h2[bucket[j]] \in Nat
    OBVIOUS
  <2> HIDE DEF r
  <2> DEFINE u == PlaceBucket(s.table, filled, bucket, h2, k, d)
  <2>11. /\ TryFields(u) /\ u.d = d /\ u.ok \in BOOLEAN
         /\ u.ok => Fits(bucket, h2, k, d, O)
                    /\ TakenAre(u.table, u.filled, k, O \cup Moved(bucket, h2, k, d))
         /\ ~u.ok => u.filled = filled /\ TakenAre(u.table, filled, k, O)
    BY <2>1, <2>6, <2>8, PlaceBucketFacts, Zenon
  <2>9. /\ TryFields(r) /\ r.d = d /\ r.ok \in BOOLEAN
        /\ r.ok => Fits(bucket, h2, k, d, O)
                   /\ TakenAre(r.table, r.filled, k, O \cup Moved(bucket, h2, k, d))
        /\ ~r.ok => r.filled = filled /\ TakenAre(r.table, filled, k, O)
    BY <2>7, <2>11, Zenon
  <2>10. Good(r)
    BY <2>6, <2>9, Zenon
  <2> QED
    BY <2>10 DEF r
<1> HIDE DEF run, n, Placed, Good
<1>6. 0 \in P
  BY <1>1, <1>4
<1>7. ASSUME NEW i \in 1..n, i - 1 \in P PROVE i \in P
  <2>1. Good(run[i - 1])
    BY <1>7
  <2>2. run[i] = IF run[i - 1].ok THEN run[i - 1] ELSE Placed(run[i - 1], i)
    BY <1>2
  <2>3. Good(run[i])
    BY <1>5, <2>1, <2>2, Zenon
  <2> QED
    BY <1>1, <2>3
<1>8. 0..n \subseteq P
  <2> HIDE DEF P
  <2> QED
    BY <1>1, <1>6, <1>7, Induction
<1>9. Good(run[n])
  BY <1>1, <1>8
<1>10. Lists(run[n].table, k)
  BY <1>9 DEF Good, TakenAre
<1> QED
  BY <1>9, <1>10 DEF Good, run, n

\* What the loop over the buckets leaves: every key seen has a position of
\* its own.
SearchFields(s) == s = [table |-> s.table, filled |-> s.filled, ok |-> s.ok, g |-> s.g]
Held(buckets, h2, k, order, g, j) ==
    UNION {Moved(buckets[order[l]], h2, k, g[order[l]]) : l \in 1..j}
Apart(buckets, h2, k, order, g, j) ==
    \A l, q \in 1..j : \A x \in 1..Len(buckets[order[l]]), y \in 1..Len(buckets[order[q]]) :
        (h2[buckets[order[l]][x]] + g[order[l]]) % k = (h2[buckets[order[q]][y]] + g[order[q]]) % k
        => l = q /\ x = y
SearchGood(buckets, h2, k, order, s, j) ==
    /\ SearchFields(s) /\ s.ok \in BOOLEAN /\ Lists(s.table, k)
    /\ s.ok => /\ s.g \in [DOMAIN buckets -> Nat]
               /\ TakenAre(s.table, s.filled, k, Held(buckets, h2, k, order, s.g, j))
               /\ Apart(buckets, h2, k, order, s.g, j)

\* A bucket after those before it: it fits as well, or the search has failed.
LEMMA SearchStep ==
    ASSUME NEW k \in Nat \ {0}, NEW K, NEW buckets, \A i \in DOMAIN buckets : buckets[i] \in Seq(K),
           NEW h2, \A x \in K : h2[x] \in Nat,
           NEW n \in Nat, NEW order \in [1..n -> DOMAIN buckets],
           \A l, q \in 1..n : l # q => order[l] # order[q],
           NEW j \in 1..n, NEW s, SearchGood(buckets, h2, k, order, s, j - 1)
    PROVE  SearchGood(buckets, h2, k, order, SearchBucketOf(s, order[j], buckets, h2, k), j)
<1> DEFINE i == order[j]
           B == buckets[i]
           t == Displace(s.table, s.filled, B, h2, k)[k - s.filled]
           O == Held(buckets, h2, k, order, s.g, j - 1)
           r == SearchBucketOf(s, i, buckets, h2, k)
           val(g, l, x) == (h2[buckets[order[l]][x]] + g[order[l]]) % k
<1>1. i \in DOMAIN buckets /\ B \in Seq(K) /\ Len(B) \in Nat
  BY LenProperties
<1>2. r = IF ~s.ok \/ B = <<>> THEN s
          ELSE [table |-> t.table, filled |-> t.filled, ok |-> t.ok,
                g |-> IF t.ok THEN [s.g EXCEPT ![i] = t.d] ELSE s.g]
  BY Zenon DEF SearchBucketOf
<1>3. SearchFields(s) /\ s.ok \in BOOLEAN /\ Lists(s.table, k)
  BY DEF SearchGood
<1>4. CASE ~s.ok
  <2>1. r = s
    BY <1>2, <1>4
  <2> HIDE DEF r
  <2>2. SearchGood(buckets, h2, k, order, r, j)
    BY <1>3, <1>4, <2>1 DEF SearchGood
  <2> QED
    BY <2>2 DEF r
<1>5. \A g : Held(buckets, h2, k, order, g, j) = Held(buckets, h2, k, order, g, j - 1) \cup Moved(B, h2, k, g[i])
  <2> TAKE g
  <2>1. 1..j = (1..(j - 1)) \cup {j}
    OBVIOUS
  <2> QED
    BY <2>1 DEF Held
<1>6. \A l \in 1..j : l = j \/ l \in 1..(j - 1)
  OBVIOUS
<1>7. CASE s.ok /\ B = <<>>
  <2>1. r = s
    BY <1>2, <1>7
  <2>2. Len(B) = 0 /\ 1..Len(B) = {}
    BY <1>7
  <2>3. Moved(B, h2, k, s.g[i]) = {}
    BY <2>2 DEF Moved
  <2>4. Held(buckets, h2, k, order, s.g, j) = O
    BY <1>5, <2>3
  <2>5. Apart(buckets, h2, k, order, s.g, j)
    <3>1. Apart(buckets, h2, k, order, s.g, j - 1)
      BY <1>7 DEF SearchGood
    <3> SUFFICES ASSUME NEW l \in 1..j, NEW q \in 1..j, NEW x \in 1..Len(buckets[order[l]]),
                        NEW y \in 1..Len(buckets[order[q]]), val(s.g, l, x) = val(s.g, q, y)
                 PROVE  l = q /\ x = y
      BY DEF Apart
    <3>2. l # j /\ q # j
      BY <2>2
    <3>3. l \in 1..(j - 1) /\ q \in 1..(j - 1)
      BY <1>6, <3>2
    <3> QED
      BY <3>1, <3>3 DEF Apart
  <2> HIDE DEF r, O, B
  <2>6. SearchGood(buckets, h2, k, order, r, j)
    BY <1>7, <2>1, <2>4, <2>5 DEF SearchGood, O
  <2> QED
    BY <2>6 DEF r
<1>8. CASE s.ok /\ B # <<>>
  <2>1. /\ s.g \in [DOMAIN buckets -> Nat] /\ TakenAre(s.table, s.filled, k, O)
        /\ Apart(buckets, h2, k, order, s.g, j - 1)
    BY <1>8 DEF SearchGood
  <2>2. Len(B) \in Nat \ {0}
    BY <1>1, <1>8, EmptySeq
  <2>3. \A x \in 1..Len(B) : B[x] \in K /\ h2[B[x]] \in Nat
    BY <1>1, ElementOfSeq
  <2>4. r = [table |-> t.table, filled |-> t.filled, ok |-> t.ok,
             g |-> IF t.ok THEN [s.g EXCEPT ![i] = t.d] ELSE s.g]
    BY <1>2, <1>8
  <2> HIDE DEF B, O, t, r, i
  <2>5. /\ TryFields(t) /\ t.ok \in BOOLEAN /\ Lists(t.table, k)
        /\ t.ok => /\ t.d \in Nat
                   /\ Fits(B, h2, k, t.d, O)
                   /\ TakenAre(t.table, t.filled, k, O \cup Moved(B, h2, k, t.d))
    <3>1. \A x \in 1..Len(B) : h2[B[x]] \in Nat
      BY <2>3
    <3> QED
      BY <2>1, <2>2, <3>1, DisplaceFacts, Zenon DEF t
  <2>6. SearchFields(r) /\ r.ok = t.ok /\ r.table = t.table /\ r.filled = t.filled
        /\ r.g = IF t.ok THEN [s.g EXCEPT ![i] = t.d] ELSE s.g
    BY <2>4 DEF SearchFields
  <2>7. CASE ~t.ok
    <3>1. SearchGood(buckets, h2, k, order, r, j)
      BY <2>5, <2>6, <2>7 DEF SearchGood
    <3> QED
      BY <3>1 DEF r, i
  <2>8. CASE t.ok
    <3> DEFINE g == r.g
    <3>1. g = [s.g EXCEPT ![i] = t.d]
      BY <2>6, <2>8
    <3>2. g \in [DOMAIN buckets -> Nat] /\ g[i] = t.d
      BY <1>1, <2>1, <2>5, <2>8, <3>1
    <3>3. \A l \in 1..(j - 1) : order[l] \in DOMAIN buckets /\ g[order[l]] = s.g[order[l]]
      <4> TAKE l \in 1..(j - 1)
      <4>1. l \in 1..n /\ l # j
        OBVIOUS
      <4>2. order[l] # i /\ order[l] \in DOMAIN buckets
        BY <4>1 DEF i
      <4> QED
        BY <2>1, <3>1, <4>2
    <3> HIDE DEF g
    <3>4. Held(buckets, h2, k, order, g, j - 1) = O
      <4>1. \A l \in 1..(j - 1) : Moved(buckets[order[l]], h2, k, g[order[l]])
                                  = Moved(buckets[order[l]], h2, k, s.g[order[l]])
        BY <3>3
      <4> QED
        BY <4>1, Zenon DEF Held, O
    <3>5. TakenAre(r.table, r.filled, k, Held(buckets, h2, k, order, g, j))
      BY <1>5, <2>5, <2>6, <2>8, <3>2, <3>4
    <3>6. \A l \in 1..(j - 1) : \A x \in 1..Len(buckets[order[l]]) : val(g, l, x) \in O
      <4> TAKE l \in 1..(j - 1)
      <4> TAKE x \in 1..Len(buckets[order[l]])
      <4>1. val(g, l, x) \in Moved(buckets[order[l]], h2, k, s.g[order[l]])
        BY <3>3 DEF Moved
      <4> HIDE DEF val
      <4> QED
        BY <4>1 DEF Held, O
    <3>7. \A x \in 1..Len(B) : val(g, j, x) = (h2[B[x]] + t.d) % k
      BY <3>2 DEF B, i
    <3>8. \A l \in 1..(j - 1) : \A x \in 1..Len(buckets[order[l]]) : val(g, l, x) = val(s.g, l, x)
      BY <3>3
    <3>9. \A l, q \in 1..(j - 1) : \A x \in 1..Len(buckets[order[l]]), y \in 1..Len(buckets[order[q]]) :
             val(s.g, l, x) = val(s.g, q, y) => l = q /\ x = y
      BY <2>1 DEF Apart
    <3> HIDE DEF val
    <3>10. \A x \in 1..Len(B) : val(g, j, x) \notin O
      BY <2>5, <2>8, <3>7 DEF Fits
    <3>11. \A x, y \in 1..Len(B) : val(g, j, x) = val(g, j, y) => x = y
      BY <2>5, <2>8, <3>7 DEF Fits
    <3>12. buckets[order[j]] = B
      BY DEF B, i
    <3>13. ASSUME NEW l \in 1..j, NEW q \in 1..j, NEW x \in 1..Len(buckets[order[l]]),
                  NEW y \in 1..Len(buckets[order[q]]), val(g, l, x) = val(g, q, y)
           PROVE  l = q /\ x = y
      <4>1. CASE l = j /\ q = j
        BY <3>11, <3>12, <3>13, <4>1
      <4>2. CASE l = j /\ q # j
        <5>1. q \in 1..(j - 1) /\ x \in 1..Len(B)
          BY <1>6, <3>12, <4>2
        <5>2. val(g, q, y) \in O /\ val(g, j, x) \notin O
          BY <3>6, <3>10, <5>1
        <5> QED
          BY <3>13, <4>2, <5>2
      <4>3. CASE l # j /\ q = j
        <5>1. l \in 1..(j - 1) /\ y \in 1..Len(B)
          BY <1>6, <3>12, <4>3
        <5>2. val(g, l, x) \in O /\ val(g, j, y) \notin O
          BY <3>6, <3>10, <5>1
        <5> QED
          BY <3>13, <4>3, <5>2
      <4>4. CASE l # j /\ q # j
        <5>1. l \in 1..(j - 1) /\ q \in 1..(j - 1)
          BY <1>6, <4>4
        <5>2. val(s.g, l, x) = val(s.g, q, y)
          BY <3>8, <3>13, <5>1
        <5> QED
          BY <3>9, <5>1, <5>2
      <4> QED
        BY <4>1, <4>2, <4>3, <4>4
    <3>14. Apart(buckets, h2, k, order, g, j)
      BY <3>13, Zenon DEF Apart, val
    <3>15. SearchGood(buckets, h2, k, order, r, j)
      BY <2>5, <2>6, <3>2, <3>5, <3>14, Zenon DEF SearchGood, g
    <3> QED
      BY <3>15 DEF r, i
  <2> QED
    BY <2>5, <2>7, <2>8
<1> QED
  BY <1>3, <1>4, <1>7, <1>8

\* The order in which the buckets are taken lists them all.
LEMMA SizeOrder ==
    ASSUME NEW K, NEW buckets, \A i \in DOMAIN buckets : buckets[i] \in Seq(K),
           DOMAIN buckets \in SUBSET Int, IsFiniteSet(DOMAIN buckets)
    PROVE  LET order == fch_buckets_get_indexes_sorted_by_size(buckets)
               n == Cardinality(DOMAIN buckets)
           IN  /\ n \in Nat /\ Len(order) = n
               /\ order \in [1..n -> DOMAIN buckets]
               /\ \A l, q \in 1..n : l # q => order[l] # order[q]
               /\ \A i \in DOMAIN buckets : \E l \in 1..n : order[l] = i
<1> DEFINE D == DOMAIN buckets
           Before == {p \in D \X D :
                         \/ Len(buckets[p[1]]) > Len(buckets[p[2]])
                         \/ Len(buckets[p[1]]) = Len(buckets[p[2]]) /\ p[1] < p[2]}
           order == fch_buckets_get_indexes_sorted_by_size(buckets)
           n == Cardinality(D)
           size == [i \in D |-> Len(buckets[i])]
<1>1. size \in [D -> Nat]
  BY LenProperties
<1>2. order = Ranked(D, Before)
  BY Zenon DEF fch_buckets_get_indexes_sorted_by_size
<1>3. \A x, y \in D : <<x, y>> \in Before <=> size[x] > size[y] \/ (size[x] = size[y] /\ x < y)
  OBVIOUS
<1>4. D \in SUBSET Int /\ IsFiniteSet(D)
  OBVIOUS
<1> HIDE DEF D, Before, size, order
<1>5. TotalOrder(D, Before)
  BY <1>1, <1>3, <1>4 DEF TotalOrder
<1>6. Listed(order, D, Before)
  BY <1>2, <1>4, <1>5, RankedFacts
<1>7. order \in Seq(D) /\ Len(order) = n /\ n \in Nat
  BY <1>6 DEF Listed
<1>8. order \in [1..n -> D]
  BY <1>7, LenProperties
<1>9. ASSUME NEW l \in 1..n, NEW q \in 1..n, l # q PROVE order[l] # order[q]
  <2>1. <<order[l], order[q]>> \in Before \/ <<order[q], order[l]>> \in Before
    BY <1>6, <1>7, <1>9 DEF Listed
  <2>2. order[l] \in D /\ order[q] \in D
    BY <1>8
  <2> QED
    BY <1>5, <2>1, <2>2 DEF TotalOrder
<1>10. \A i \in D : \E l \in 1..n : order[l] = i
  BY <1>6 DEF Listed
<1> QED
  BY <1>7, <1>8, <1>9, <1>10 DEF D, order

\* A search that comes to its end moves all keys apart.
LEMMA SearchedFacts ==
    ASSUME NEW k \in Nat \ {0}, NEW K, NEW buckets, \A i \in DOMAIN buckets : buckets[i] \in Seq(K),
           DOMAIN buckets \in SUBSET Int, IsFiniteSet(DOMAIN buckets),
           NEW h2, \A x \in K : h2[x] \in Nat, NEW table, Lists(table, k)
    PROVE  LET r == fch_searching(buckets, table, h2, k)
           IN  /\ r.ok \in BOOLEAN /\ Lists(r.table, k)
               /\ r.ok =>
                  /\ r.g \in [DOMAIN buckets -> Nat]
                  /\ \A i, j \in DOMAIN buckets :
                     \A x \in 1..Len(buckets[i]), y \in 1..Len(buckets[j]) :
                        (h2[buckets[i][x]] + r.g[i]) % k = (h2[buckets[j][y]] + r.g[j]) % k
                        => i = j /\ x = y
<1> DEFINE D == DOMAIN buckets
           order == fch_buckets_get_indexes_sorted_by_size(buckets)
           n == Cardinality(D)
           run == Searched(buckets, table, h2, k)
           P == {j \in 0..n : SearchGood(buckets, h2, k, order, run[j], j)}
<1>1. /\ n \in Nat /\ Len(order) = n
      /\ order \in [1..n -> D]
      /\ \A l, q \in 1..n : l # q => order[l] # order[q]
      /\ \A i \in D : \E l \in 1..n : order[l] = i
  BY SizeOrder, Zenon
<1>2. /\ run[0] = [table |-> table, filled |-> 0, ok |-> TRUE, g |-> [i \in D |-> 0]]
      /\ \A i \in 1..n : run[i] = SearchBucketOf(run[i - 1], order[i], buckets, h2, k)
  <2>1. Len(order) \in Nat /\ Len(order) = n
    BY <1>1
  <2>2. /\ run[0] = [table |-> table, filled |-> 0, ok |-> TRUE, g |-> [i \in D |-> 0]]
        /\ \A i \in 1..Len(order) : run[i] = SearchBucketOf(run[i - 1], order[i], buckets, h2, k)
    BY <2>1, SearchedLoop
  <2> QED
    BY <2>1, <2>2, Zenon
<1> HIDE DEF order, n, run
<1>3. 0 \in P
  <2> DEFINE s == run[0]
  <2>1. SearchFields(s) /\ s.ok = TRUE /\ s.filled = 0 /\ s.table = table /\ s.g = [i \in D |-> 0]
    BY <1>2 DEF SearchFields
  <2> HIDE DEF s
  <2>2. 1..0 = {}
    OBVIOUS
  <2>3. Held(buckets, h2, k, order, s.g, 0) = {} /\ Apart(buckets, h2, k, order, s.g, 0)
    BY <2>2 DEF Held, Apart
  <2>4. TakenAre(table, 0, k, {})
    BY DEF TakenAre
  <2>6. TakenAre(s.table, s.filled, k, Held(buckets, h2, k, order, s.g, 0))
    BY <2>1, <2>3, <2>4, Zenon
  <2>8. s.g \in [D -> Nat]
    BY <2>1
  <2>9. s.ok \in BOOLEAN
    BY <2>1
  <2>7. s.g \in [D -> Nat] /\ s.ok \in BOOLEAN
    BY <2>8, <2>9
  <2>10. Lists(s.table, k)
    BY <2>1
  <2>5. SearchGood(buckets, h2, k, order, s, 0)
    BY <2>1, <2>3, <2>6, <2>7, <2>10, Zenon DEF SearchGood
  <2> QED
    BY <1>1, <2>5 DEF s
<1>4. ASSUME NEW j \in 1..n, j - 1 \in P PROVE j \in P
  <2>1. SearchGood(buckets, h2, k, order, run[j - 1], j - 1)
    BY <1>4
  <2>2. SearchGood(buckets, h2, k, order, SearchBucketOf(run[j - 1], order[j], buckets, h2, k), j)
    BY <1>1, <2>1, SearchStep, Zenon
  <2> QED
    BY <1>1, <1>2, <2>2
<1>5. 0..n \subseteq P
  <2> HIDE DEF P
  <2> QED
    BY <1>1, <1>3, <1>4, Induction
<1>6. SearchGood(buckets, h2, k, order, run[n], n)
  BY <1>1, <1>5
<1> DEFINE r == fch_searching(buckets, table, h2, k)
<1>7. r = run[n]
  BY Zenon DEF fch_searching, run, n
<1> HIDE DEF r
<1>8. r.ok \in BOOLEAN /\ Lists(r.table, k)
  BY <1>6, <1>7 DEF SearchGood
<1>9. ASSUME r.ok
      PROVE  /\ r.g \in [D -> Nat]
             /\ \A i, j \in D : \A x \in 1..Len(buckets[i]), y \in 1..Len(buckets[j]) :
                   (h2[buckets[i][x]] + r.g[i]) % k = (h2[buckets[j][y]] + r.g[j]) % k
                   => i = j /\ x = y
  <2>1. r.g \in [D -> Nat] /\ Apart(buckets, h2, k, order, r.g, n)
    BY <1>6, <1>7, <1>9 DEF SearchGood
  <2>2. ASSUME NEW i \in D, NEW j \in D, NEW x \in 1..Len(buckets[i]), NEW y \in 1..Len(buckets[j]),
               (h2[buckets[i][x]] + r.g[i]) % k = (h2[buckets[j][y]] + r.g[j]) % k
        PROVE  i = j /\ x = y
    <3>1. PICK l \in 1..n, q \in 1..n : order[l] = i /\ order[q] = j
      BY <1>1
    <3>2. l = q /\ x = y
      BY <2>1, <2>2, <3>1, ZenonT(40) DEF Apart
    <3> QED
      BY <3>1, <3>2
  <2> QED
    BY <2>1, <2>2
<1> QED
  BY <1>8, <1>9 DEF r

\* A key of a sequence is one of those that a loop picks out, and each
\* place of it is.
LEMMA ThoseFacts ==
    ASSUME NEW K, NEW q \in Seq(K), NEW T \in SUBSET (DOMAIN q)
    PROVE  /\ Those(q, T) \in Seq(K)
           /\ \A i \in 1..Len(Those(q, T)) : \E e \in T : Those(q, T)[i] = q[e]
           /\ \A e \in T : \E i \in 1..Len(Those(q, T)) : Those(q, T)[i] = q[e]
<1> DEFINE at == InOrder(T)
           n == Cardinality(T)
           r == Those(q, T)
<1>1. Len(q) \in Nat /\ DOMAIN q = 1..Len(q) /\ \A e \in DOMAIN q : q[e] \in K
  BY LenProperties, ElementOfSeq
<1>2. T \in SUBSET Int /\ IsFiniteSet(T)
  <2>1. IsFiniteSet(1..Len(q))
    BY <1>1, FS_Interval
  <2> QED
    BY <1>1, <2>1, FS_Subset
<1>3. /\ n \in Nat /\ at \in Seq(T) /\ Len(at) = n
      /\ \A i \in 1..n : at[i] \in T
      /\ \A e \in T : \E i \in 1..n : at[i] = e
  BY <1>2, InOrderFacts, Zenon
<1>4. r = [i \in DOMAIN at |-> q[at[i]]]
  BY DEF Those
<1> HIDE DEF at, n, r
<1>5. DOMAIN at = 1..n
  BY <1>3, LenProperties
<1>6. r = [i \in 1..n |-> q[at[i]]]
  BY <1>4, <1>5
<1>7. \A i \in 1..n : q[at[i]] \in K
  BY <1>1, <1>3
<1>8. r \in Seq(K) /\ Len(r) = n
  BY <1>3, <1>6, <1>7
<1>9. \A i \in 1..n : r[i] = q[at[i]]
  BY <1>6
<1> QED
  BY <1>3, <1>8, <1>9 DEF r

\* Every key falls into one of the buckets: the second range of the first
\* hash does not lead past the last one.
LEMMA BucketRange ==
    ASSUME NEW c \in Nat \X (Nat \ {0}), c[1] > 2 * c[2], NEW k \in Nat \ {0}, k \in DOMAIN Log2,
           NEW h1, NEW x, h1[x] \in Nat
    PROVE  /\ fch_calc_b(c, k) \in Nat \ {0}
           /\ fch_bucket(h1, x, fch_calc_b(c, k), k) \in 0..(fch_calc_b(c, k) - 1)
<1> DEFINE lg == Log2[k]
           a == 1000 * c[1] * k
           e == c[2] * (lg + 1000)
           b == CeilDiv(a, e)
           p1 == fch_calc_p1(k)
           p2 == fch_calc_p2(b)
           i == h1[x] % k
           u == c[1]
           v == c[2]
<1>1. lg \in 0..(1000 * (k - 1))
  BY Log2Assumption
<1>2. u \in Nat /\ v \in Nat \ {0} /\ u > 2 * v
  OBVIOUS
<1>3. fch_calc_b(c, k) = b
  BY DEF fch_calc_b
<1>4. p1 = CeilDiv(55 * k, 100) /\ p2 = CeilDiv(3 * b, 10)
  BY DEF fch_calc_p1, fch_calc_p2
<1>5. i \in 0..(k - 1)
  OBVIOUS
<1>6. fch_bucket(h1, x, b, k) = mixh10h11h12(b, p1, p2, i)
  BY DEF fch_bucket
<1>7. a = 1000 * u * k /\ e = v * (lg + 1000)
  OBVIOUS
<1> HIDE DEF lg, a, e, u, v, i, p1, p2
<1>8. a \in Nat /\ e \in Nat \ {0} /\ a > 2 * e
  <2> DEFINE w == lg + 1000
             z == 1000 * k
  <2>1. w \in Nat \ {0} /\ z \in Nat /\ w <= z
    BY <1>1
  <2>2. a = u * z /\ e = v * w
    BY <1>2, <1>7
  <2> HIDE DEF w, z
  <2>3. v * w <= v * z
    BY <1>2, <2>1
  <2>4. u * z > 2 * v * z
    <3>1. u >= 2 * v + 1 /\ z >= 1
      BY <1>2, <2>1
    <3>2. u * z >= (2 * v + 1) * z
      BY <1>2, <2>1, <3>1
    <3>3. (2 * v + 1) * z = 2 * v * z + z
      BY <1>2, <2>1
    <3> DEFINE uz == u * z
               vz == 2 * v * z
               tz == (2 * v + 1) * z
    <3>4. uz \in Int /\ vz \in Int /\ tz \in Int
      BY <1>2, <2>1
    <3> HIDE DEF uz, vz, tz
    <3>5. uz > vz
      BY <2>1, <3>1, <3>2, <3>3, <3>4 DEF uz, vz, tz
    <3> QED
      BY <3>5 DEF uz, vz
  <2>5. e \in Nat \ {0} /\ a \in Nat
    BY <1>2, <2>1, <2>2
  <2> DEFINE vw == v * w
             vz == v * z
  <2>6. 2 * v * z = 2 * vz /\ vw \in Int /\ vz \in Int
    BY <1>2, <2>1
  <2> HIDE DEF vw, vz
  <2> QED
    BY <2>2, <2>3, <2>4, <2>5, <2>6 DEF vw, vz
<1>9. b \in Nat /\ b >= 3
  <2> DEFINE num == a + e - 1
  <2>1. num \in Nat /\ num >= 3 * e /\ b = num \div e
    BY <1>8 DEF CeilDiv
  <2> HIDE DEF num, b
  <2>2. num \div e \in Nat /\ num < e * (num \div e) + e
    BY <1>8, <2>1
  <2> DEFINE q == num \div e
  <2>3. b = q
    BY <2>1
  <2> HIDE DEF q
  <2>4. q \in Nat /\ num < e * q + e
    BY <2>2 DEF q
  <2>5. ~(q <= 2)
    <3>1. q <= 2 => e * q <= e * 2
      BY <1>8, <2>4
    <3> DEFINE eq == e * q
    <3>2. eq \in Int /\ num < eq + e /\ (q <= 2 => eq <= 2 * e)
      BY <1>8, <2>4, <3>1
    <3> HIDE DEF eq
    <3> QED
      BY <1>8, <2>1, <3>2
  <2> QED
    BY <2>3, <2>4, <2>5
<1> HIDE DEF b
<1>10. p2 \in Nat \ {0} /\ p2 <= b /\ 2 * p2 <= b + 1 /\ (b # 3 => 2 * p2 <= b)
  <2>1. p2 = (3 * b + 10 - 1) \div 10
    BY <1>4 DEF CeilDiv
  <2> QED
    BY <1>9, <2>1
<1>11. mixh10h11h12(b, p1, p2, i) \in 0..(b - 1)
  <2> DEFINE j == i % b
  <2>1. j \in 0..(b - 1) /\ i % p2 \in 0..(p2 - 1)
    BY <1>5, <1>9, <1>10
  <2>2. b = 3 => p2 = 1
    <3>1. p2 = (3 * b + 10 - 1) \div 10
      BY <1>4 DEF CeilDiv
    <3> QED
      BY <3>1
  <2>3. mixh10h11h12(b, p1, p2, i) = IF i < p1 THEN i % p2 ELSE IF j < p2 THEN j + p2 ELSE j
    BY DEF mixh10h11h12
  <2> HIDE DEF j
  <2>4. i % p2 \in 0..(b - 1)
    BY <1>9, <1>10, <2>1
  <2>5. j < p2 => j + p2 \in 0..(b - 1)
    BY <1>9, <1>10, <2>1, <2>2
  <2> QED
    BY <2>1, <2>3, <2>4, <2>5
<1> QED
  BY <1>3, <1>6, <1>9, <1>11

\* A function of fch maps its keys one to one to the numbers below theirs.
LEMMA FchPerfect ==
    ASSUME NEW ks, ks \in Seq(Range(ks)), Len(ks) > 0 => Len(ks) \in DOMAIN Log2,
           NEW c \in Nat \X (Nat \ {0}), c[1] > 2 * c[2],
           NEW h1, NEW h2, \A x \in Range(ks) : h1[x] \in Nat /\ h2[x] \in Nat,
           NEW table, Lists(table, Len(ks)),
           NEW b, b = fch_calc_b(c, Len(ks)),
           NEW r, r = fch_searching(fch_mapping(ks, h1, b), table, h2, Len(ks)),
           NEW d, d = fch_new(ks, h1, h2, c, b, r.g).data
    PROVE  /\ Lists(r.table, Len(ks))
           /\ r.ok => OneToOne([x \in Range(ks) |-> fch_search(d, x)], Range(ks), Len(ks))
<1> DEFINE K == Range(ks)
           k == Len(ks)
           buckets == fch_mapping(ks, h1, b)
           T(i) == {j \in DOMAIN ks : fch_bucket(h1, ks[j], b, k) = i}
           a == [x \in K |-> fch_search(d, x)]
<1>1. k \in Nat /\ DOMAIN ks = 1..k /\ \A j \in 1..k : ks[j] \in K
  BY LenProperties, ElementOfSeq
<1>2. \A x \in K : \E j \in 1..k : ks[j] = x
  BY <1>1 DEF Range
<1>3. CASE k = 0
  <2>1. \A x \in K : FALSE
    BY <1>2, <1>3
  <2>2. b = 0 /\ DOMAIN buckets = {}
    BY <1>3 DEF fch_calc_b, fch_mapping
  <2>3. Lists(r.table, k)
    <3> DEFINE order == fch_buckets_get_indexes_sorted_by_size(buckets)
               run == Searched(buckets, table, h2, k)
    <3>1. Len(order) = 0 /\ Cardinality(DOMAIN buckets) = 0
      <4>1. \A i \in DOMAIN buckets : buckets[i] \in Seq(K)
        BY <2>2
      <4>2. DOMAIN buckets \in SUBSET Int /\ IsFiniteSet(DOMAIN buckets) /\ Cardinality(DOMAIN buckets) = 0
        BY <2>2, FS_EmptySet
      <4> HIDE DEF buckets, K
      <4> QED
        BY <4>1, <4>2, SizeOrder
    <3>2. run[0] = [table |-> table, filled |-> 0, ok |-> TRUE, g |-> [i \in DOMAIN buckets |-> 0]]
      BY <3>1, SearchedLoop
    <3>3. r = run[0]
      BY <3>1 DEF fch_searching
    <3> QED
      BY <3>2, <3>3
  <2> QED
    BY <2>1, <2>3 DEF OneToOne
<1>4. CASE k # 0
  <2>1. k \in Nat \ {0} /\ k \in DOMAIN Log2
    BY <1>1, <1>4
  <2>2. b \in Nat \ {0} /\ \A x \in K : fch_bucket(h1, x, b, k) \in 0..(b - 1)
    <3>1. \E j \in 1..k : TRUE
      BY <2>1
    <3>2. \E x \in K : TRUE
      BY <1>1, <3>1
    <3>3. \A x \in K : fch_calc_b(c, k) \in Nat \ {0}
                       /\ fch_bucket(h1, x, fch_calc_b(c, k), k) \in 0..(fch_calc_b(c, k) - 1)
      <4> TAKE x \in K
      <4>1. h1[x] \in Nat
        OBVIOUS
      <4> HIDE DEF k
      <4> QED
        BY <2>1, <4>1, BucketRange
    <3> QED
      BY <3>2, <3>3
  <2>3. buckets = [i \in 0..(b - 1) |-> Those(ks, T(i))]
    BY Zenon DEF fch_mapping
  <2>4. \A i : T(i) \in SUBSET (DOMAIN ks)
    OBVIOUS
  <2>5. \A i : /\ Those(ks, T(i)) \in Seq(K)
               /\ \A e \in T(i) : \E y \in 1..Len(Those(ks, T(i))) : Those(ks, T(i))[y] = ks[e]
    <3> TAKE i
    <3> DEFINE t == T(i)
    <3>1. t \in SUBSET (DOMAIN ks) /\ ks \in Seq(K)
      BY <2>4
    <3> HIDE DEF t, K
    <3>2. /\ Those(ks, t) \in Seq(K)
          /\ \A e \in t : \E y \in 1..Len(Those(ks, t)) : Those(ks, t)[y] = ks[e]
      BY <3>1, ThoseFacts
    <3> QED
      BY <3>2 DEF t
  <2>6. \A j \in 1..k : \A i : fch_bucket(h1, ks[j], b, k) = i => j \in T(i)
    BY <1>1
  <2> HIDE DEF T, buckets, k, K
  <2>7. DOMAIN buckets = 0..(b - 1) /\ \A i \in DOMAIN buckets : buckets[i] = Those(ks, T(i))
    BY <2>3
  <2>8. /\ \A i \in DOMAIN buckets : buckets[i] \in Seq(K)
        /\ DOMAIN buckets \in SUBSET Int
        /\ IsFiniteSet(DOMAIN buckets)
    <3>1. IsFiniteSet(0..(b - 1))
      BY <2>2, FS_Interval
    <3>2. \A i \in DOMAIN buckets : buckets[i] \in Seq(K)
      BY <2>5, <2>7
    <3> QED
      BY <2>7, <3>1, <3>2
  <2>9. Lists(table, k) /\ (\A x \in K : h2[x] \in Nat /\ h1[x] \in Nat) /\ r = fch_searching(buckets, table, h2, k)
    BY DEF K, k, buckets
  <2>15. Lists(r.table, k)
    <3>1. \A x \in K : h2[x] \in Nat
      BY <2>9
    <3> DEFINE q == fch_searching(buckets, table, h2, k)
    <3>2. Lists(q.table, k)
      BY <2>1, <2>8, <2>9, <3>1, SearchedFacts, Zenon
    <3> QED
      BY <2>9, <3>2
  <2>16. SUFFICES ASSUME r.ok PROVE OneToOne([x \in K |-> fch_search(d, x)], K, k)
    BY <2>15 DEF K, k
  <2>10. /\ r.g \in [DOMAIN buckets -> Nat]
         /\ \A i, j \in DOMAIN buckets :
               \A x \in 1..Len(buckets[i]), y \in 1..Len(buckets[j]) :
                  (h2[buckets[i][x]] + r.g[i]) % k = (h2[buckets[j][y]] + r.g[j]) % k
                  => i = j /\ x = y
    <3> DEFINE q == fch_searching(buckets, table, h2, k)
    <3>1. q.ok => /\ q.g \in [DOMAIN buckets -> Nat]
                  /\ \A i, j \in DOMAIN buckets :
                        \A x \in 1..Len(buckets[i]), y \in 1..Len(buckets[j]) :
                           (h2[buckets[i][x]] + q.g[i]) % k = (h2[buckets[j][y]] + q.g[j]) % k
                           => i = j /\ x = y
      <4>1. \A x \in K : h2[x] \in Nat
        BY <2>9
      <4> QED
        BY <2>1, <2>8, <2>9, <4>1, SearchedFacts, Zenon
    <3>2. r = q
      BY <2>9
    <3> HIDE DEF q
    <3> QED
      BY <2>16, <3>1, <3>2, ZenonT(40)
  <2> DEFINE bk(x) == fch_bucket(h1, x, b, k)
  <2>11. \A x \in K : \E i \in DOMAIN buckets : \E y \in 1..Len(buckets[i]) : i = bk(x) /\ buckets[i][y] = x
    <3> TAKE x \in K
    <3>1. PICK j \in 1..k : ks[j] = x
      BY <1>2 DEF K, k
    <3>2. bk(x) \in DOMAIN buckets
      BY <2>2, <2>7
    <3>3. j \in T(bk(x))
      BY <2>6, <3>1
    <3>4. \E y \in 1..Len(buckets[bk(x)]) : buckets[bk(x)][y] = x
      BY <2>5, <2>7, <3>1, <3>2, <3>3
    <3> QED
      BY <3>2, <3>4
  <2>12. \A x \in K : fch_search(d, x) = ((h2[x] % k) + r.g[bk(x)]) % k
    <3> TAKE x \in K
    <3>1. d = [h1 |-> h1, h2 |-> h2, m |-> k, c |-> c, b |-> b,
               p1 |-> fch_calc_p1(k), p2 |-> fch_calc_p2(b), g |-> r.g]
      BY DEF fch_new, k
    <3>2. /\ d.h1 = h1 /\ d.h2 = h2 /\ d.m = k /\ d.b = b /\ d.g = r.g
          /\ d.p1 = fch_calc_p1(k) /\ d.p2 = fch_calc_p2(b)
      BY <3>1
    <3>3. bk(x) = mixh10h11h12(b, fch_calc_p1(k), fch_calc_p2(b), h1[x] % k)
      BY DEF fch_bucket
    <3>4. fch_search(d, x) = ((d.h2[x] % d.m) + d.g[mixh10h11h12(d.b, d.p1, d.p2, d.h1[x] % d.m)]) % d.m
      BY DEF fch_search
    <3> QED
      BY <3>2, <3>3, <3>4
  <2> HIDE DEF bk
  <2>13. \A x \in K : /\ fch_search(d, x) = (h2[x] + r.g[bk(x)]) % k
                      /\ fch_search(d, x) \in 0..(k - 1)
    <3> TAKE x \in K
    <3> DEFINE h == h2[x]
               g == r.g[bk(x)]
    <3>1. h \in Nat /\ g \in Nat
      BY <2>9, <2>10, <2>11
    <3>2. fch_search(d, x) = ((h % k) + g) % k
      BY <2>12
    <3> HIDE DEF h, g
    <3>3. ((h % k) + g) % k = (h + g) % k /\ (h + g) % k \in 0..(k - 1)
      BY <2>1, <3>1, ModPlus
    <3> QED
      BY <3>2, <3>3 DEF h, g
  <2>14. ASSUME NEW x \in K, NEW y \in K, fch_search(d, x) = fch_search(d, y) PROVE x = y
    <3>1. PICK i \in DOMAIN buckets : \E u \in 1..Len(buckets[i]) : i = bk(x) /\ buckets[i][u] = x
      BY <2>11
    <3>2. PICK j \in DOMAIN buckets : \E v \in 1..Len(buckets[j]) : j = bk(y) /\ buckets[j][v] = y
      BY <2>11
    <3>5. PICK u \in 1..Len(buckets[i]) : i = bk(x) /\ buckets[i][u] = x
      BY <3>1
    <3>6. PICK v \in 1..Len(buckets[j]) : j = bk(y) /\ buckets[j][v] = y
      BY <3>2
    <3>3. (h2[x] + r.g[i]) % k = (h2[y] + r.g[j]) % k
      BY <2>13, <2>14, <3>5, <3>6
    <3>4. i = j /\ u = v
      BY <2>10, <3>3, <3>5, <3>6
    <3> QED
      BY <3>4, <3>5, <3>6
  <2> QED
    BY <2>13, <2>14 DEF OneToOne, K, k
<1> QED
  BY <1>3, <1>4

-----------------------------------------------------------------------------
(***************************************************************************)
(* The invariant behind Perfect.  What Sound says of a function and its    *)
(* values, for the algorithms it is proved for.                            *)
(***************************************************************************)
Shown == {"chm", "fch"}

\* Misread and Sound, of any function f and its values a.
MisreadBy(algo, f, k) ==
    /\ algo \in {"bmz", "bmz8"}
    /\ \A i \in 1..2 : f.data.hashes[i][k] % f.data.n = f.data.n - 1
Sure(algo, f, K) == {k \in K : ~MisreadBy(algo, f, k)}
SoundFor(algo, t, K, n, f, a) ==
    /\ algo \notin {"bdz_ph", "chd_ph"} => f.size = n
    /\ \A k \in Sure(algo, f, K) : a[k] \in 0..(f.size - 1)
    /\ \A k \in Sure(algo, f, K) : Cardinality({j \in Sure(algo, f, K) : a[j] = a[k]}) <= t
SoundNow(f, a) == SoundFor(config.algo, config.data.keys_per_bin, Keys, m, f, a)

\* What is answered from is sound, and so is what the file will be loaded as.
PerfectInv == config.algo \in Shown =>
    /\ Answering => SoundNow(mphf, answers)
    /\ phase = "dumped" => SoundNow(cmph_load(image), answers)
\* The table of fch lists all positions.
TableInv == phase = "searching" => carry.h1 \in Draws.h1 /\ Lists(carry.table, m)
\* A step leaves no function, or one that is sound.
BuildsSound == NoFunction \/ \E f : Build(f) /\ SoundNow(Named(f), Served(Named(f)))

\* What Cmph.tla asks of mphf, with the function and its values as parameters.
LEMMA PerfectIsSound == Answering => (SoundNow(mphf, answers) <=> Sound({k \in Keys : ~Misread(k)}))
<1>1. Sure(config.algo, mphf, Keys) = {k \in Keys : ~Misread(k)}
  BY DEF Sure, MisreadBy, Misread
<1> QED
  BY <1>1 DEF SoundNow, SoundFor, Sound, cmph_size

\* Different values for different keys are at most so many to one.
LEMMA OneToOneSound ==
    ASSUME SettingsInv, NEW f, f.size = m \/ config.algo \in {"bdz_ph", "chd_ph"}, NEW a,
           OneToOne(a, Sure(config.algo, f, Keys), f.size)
    PROVE  SoundNow(f, a)
<1> DEFINE S == Sure(config.algo, f, Keys)
           t == config.data.keys_per_bin
<1>1. t \in Nat /\ 1 <= t
  BY DEF SettingsInv, TypeOK
<1>2. \A x \in S : a[x] \in 0..(f.size - 1)
  BY DEF OneToOne
<1>3. ASSUME NEW x \in S PROVE Cardinality({j \in S : a[j] = a[x]}) <= t
  <2>1. \A j \in S : a[j] = a[x] => j = x
    BY DEF OneToOne
  <2> HIDE DEF S
  <2>2. {j \in S : a[j] = a[x]} = {x}
    BY <2>1
  <2> HIDE DEF t
  <2> QED
    BY <1>1, <2>2, FS_Singleton
<1> QED
  BY <1>2, <1>3 DEF SoundNow, SoundFor

\* The steps of an attempt that leave no function.
LEMMA NoneIsSound ==
    ASSUME \/ Retry
           \/ Undefined
           \/ \E cry : Remap(cry)
    PROVE  BuildsSound
  BY WithoutOne DEF BuildsSound

\* An attempt of chm that succeeds has found a perfect function,
LEMMA ChmBuilds ==
    ASSUME SettingsInv, ChmAttempt
    PROVE  BuildsSound
<1> DEFINE n == chm_n(config.c, m)
           attempt == chm_gen_edges(keys, draw, n)
           f == chm_new(keys, draw, n, attempt.graph)
<1>1. phase = "drawn" /\ config.algo = "chm"
  BY DEF ChmAttempt
<1>2. IF attempt.ok THEN Build(f) ELSE Retry
  BY Zenon DEF ChmAttempt
<1>3. /\ config.c \in Nat \X (Nat \ {0})
      /\ keys \in Seq(Range(keys)) /\ m = Len(keys) /\ m < Word /\ Keys = Range(keys)
      /\ draw \in Draws
  BY <1>1, SourceFacts DEF SettingsInv, m, Keys
<1>4. \A x \in Range(keys) : draw[1][x] \in Nat /\ draw[2][x] \in Nat
  BY <1>1, <1>3, SourceFacts
<1>5. CASE attempt.ok
  <2> DEFINE G == attempt.graph
             d == f.data
  <2>1. d = chm_new(keys, draw, n, G).data /\ n = chm_n(config.c, Len(keys))
        /\ G = chm_gen_edges(keys, draw, n).graph /\ chm_gen_edges(keys, draw, n).ok
    BY <1>3, <1>5
  <2>2. f.size = m
    BY <1>3 DEF chm_new
  <2> HIDE DEF d, G, n, f, attempt
  <2>3. OneToOne([x \in Range(keys) |-> chm_search(d, x)], Range(keys), Len(keys))
    BY <1>3, <1>4, <2>1, ChmPerfect
  <2>4. OneToOne([x \in Keys |-> chm_search(f.data, x)], Keys, m)
    BY <1>3, <2>3 DEF d
  <2>5. Served(Named(f)) = [x \in Keys |-> chm_search(f.data, x)]
    BY <1>1, NamedFields DEF Served, cmph_search
  <2>6. Sure(config.algo, Named(f), Keys) = Keys
    BY <1>1 DEF Sure, MisreadBy
  <2>7. Named(f).size = m
    BY <2>2, NamedFields
  <2>8. SoundNow(Named(f), Served(Named(f)))
    BY <2>4, <2>5, <2>6, <2>7, OneToOneSound
  <2> QED
    BY <1>2, <1>5, <2>8 DEF BuildsSound
<1>6. CASE ~attempt.ok
  BY <1>2, <1>6, NoneIsSound
<1> QED
  BY <1>5, <1>6

\* and so has a search of fch.
LEMMA FchBuilds ==
    ASSUME SettingsInv, TableInv, FchSearch
    PROVE  BuildsSound /\ TableInv'
<1>1. PICK h2 \in Draws.h2 :
          LET b == fch_calc_b(fch_c(config.c), m)
              buckets == fch_mapping(keys, carry.h1, b)
              split == ~check_for_collisions_h2(buckets, h2, m)
              search == fch_searching(buckets, carry.table, h2, m)
              cry == [h1 |-> carry.h1,
                      table |-> IF split THEN search.table ELSE carry.table,
                      collisions |-> IF split THEN 0 ELSE carry.collisions + 1]
              l == [left EXCEPT !.tries = IF split THEN @ - 1 ELSE @]
          IN  CASE split /\ search.ok /\ left.rounds > 1 ->
                      Build(fch_new(keys, carry.h1, h2, fch_c(config.c), b, search.g))
                [] split /\ search.ok /\ left.rounds = 1 -> Remap(Nothing)
                [] ~(split /\ search.ok) ->
                      IF l.tries = 0 \/ cry.collisions = Capped(iteration_to_generate_h2)
                      THEN Remap(Nothing)
                      ELSE WithoutFunction("searching", l, cry)
  BY Zenon DEF FchSearch
<1> DEFINE c == fch_c(config.c)
           b == fch_calc_b(c, m)
           buckets == fch_mapping(keys, carry.h1, b)
           split == ~check_for_collisions_h2(buckets, h2, m)
           r == fch_searching(buckets, carry.table, h2, m)
           cry == [h1 |-> carry.h1,
                   table |-> IF split THEN r.table ELSE carry.table,
                   collisions |-> IF split THEN 0 ELSE carry.collisions + 1]
           l == [left EXCEPT !.tries = IF split THEN @ - 1 ELSE @]
           f == fch_new(keys, carry.h1, h2, c, b, r.g)
<1>2. phase = "searching" /\ config.algo = "fch" /\ (left.rounds > 1 \/ left.rounds = 1)
  <2>1. phase = "searching"
    BY DEF FchSearch
  <2>2. config.algo = "fch" /\ left \in Attempts(config.algo)
    BY <2>1 DEF SettingsInv, Trying
  <2> QED
    BY <2>1, <2>2, CappedPositive, LimitAssumption DEF Attempts, Algos
<1>3. \/ r.ok /\ Build(f)
      \/ Remap(Nothing)
      \/ WithoutFunction("searching", l, cry)
  BY <1>1, <1>2, Zenon
<1>4. /\ config.c \in Nat \X (Nat \ {0})
      /\ keys \in Seq(Range(keys)) /\ m = Len(keys) /\ m \in Nat /\ (m > 0 => m \in DOMAIN Log2)
      /\ \A h \in Draws.h1 \cup Draws.h2 : \A x \in Keys : h[x] \in Nat
      /\ Keys = Range(keys)
  BY <1>2, SourceFacts DEF m, Keys
<1>5. c \in Nat \X (Nat \ {0}) /\ c[1] > 2 * c[2]
  <2>1. config.c[1] \in Nat /\ config.c[2] \in Nat \ {0}
    BY <1>4
  <2> QED
    BY <1>4, <2>1 DEF fch_c
<1>6. /\ \A x \in Range(keys) : carry.h1[x] \in Nat /\ h2[x] \in Nat
      /\ Lists(carry.table, Len(keys))
  <2>1. carry.h1 \in Draws.h1 /\ h2 \in Draws.h2
    BY <1>2 DEF TableInv
  <2>2. \A x \in Keys : carry.h1[x] \in Nat /\ h2[x] \in Nat
    BY <1>4, <2>1
  <2> QED
    BY <1>2, <1>4, <2>2 DEF TableInv
<1>7. /\ Lists(r.table, m)
      /\ r.ok => OneToOne([x \in Keys |-> fch_search(f.data, x)], Keys, m)
  <2> DEFINE d == f.data
  <2>1. b = fch_calc_b(c, Len(keys)) /\ r = fch_searching(fch_mapping(keys, carry.h1, b), carry.table, h2, Len(keys))
    BY <1>4
  <2>2. d = fch_new(keys, carry.h1, h2, c, b, r.g).data
    OBVIOUS
  <2> HIDE DEF b, r, d, c, f
  <2>3. /\ Lists(r.table, Len(keys))
        /\ r.ok => OneToOne([x \in Range(keys) |-> fch_search(d, x)], Range(keys), Len(keys))
    BY <1>4, <1>5, <1>6, <2>1, <2>2, FchPerfect
  <2> QED
    BY <1>4, <2>3 DEF d
<1> HIDE DEF c, b, buckets, r, f, l
<1>8. CASE r.ok /\ Build(f)
  <2>1. OneToOne([x \in Keys |-> fch_search(f.data, x)], Keys, m)
    BY <1>7, <1>8
  <2>2. Served(Named(f)) = [x \in Keys |-> fch_search(f.data, x)]
    BY <1>2, NamedFields DEF Served, cmph_search
  <2>3. Sure(config.algo, Named(f), Keys) = Keys
    BY <1>2 DEF Sure, MisreadBy
  <2>4. Named(f).size = m
    BY <1>4, NamedFields DEF f, fch_new
  <2>5. SoundNow(Named(f), Served(Named(f)))
    BY <2>1, <2>2, <2>3, <2>4, OneToOneSound
  <2>6. phase' = "built"
    BY <1>8 DEF Build, End
  <2> QED
    BY <1>8, <2>5, <2>6 DEF BuildsSound, TableInv
<1>9. CASE Remap(Nothing)
  <2>1. phase' \in {"failed", "mapping"}
    BY <1>9 DEF Remap, WithoutFunction, End
  <2> QED
    BY <2>1 DEF BuildsSound, NoFunction, TableInv
<1>10. CASE WithoutFunction("searching", l, cry)
  <2>1. phase' = "searching" /\ carry' = cry /\ source' = source
    BY <1>10 DEF WithoutFunction, End
  <2>2. Draws' = Draws /\ m' = m
    BY <2>1 DEF Draws, m, keys
  <2>3. cry.h1 = carry.h1 /\ cry.table = IF split THEN r.table ELSE carry.table
    OBVIOUS
  <2> HIDE DEF cry, split
  <2>4. carry'.h1 \in Draws'.h1 /\ Lists(carry'.table, m')
    BY <1>2, <1>7, <2>1, <2>2, <2>3 DEF TableInv
  <2> QED
    BY <2>1, <2>2, <2>4 DEF BuildsSound, NoFunction, TableInv
<1> QED
  BY <1>3, <1>8, <1>9, <1>10

\* Soundness depends on the configuration and the keys alone.
LEMMA SoundMoves ==
    ASSUME UNCHANGED <<config, source>>
    PROVE  /\ config'.algo = config.algo
           /\ config'.algo \in Shown => \A f, a :
                 SoundFor(config'.algo, config'.data.keys_per_bin, Keys', m', f, a) <=> SoundNow(f, a)
<1>1. config' = config /\ Keys' = Keys /\ m' = m
  BY DEF Keys, keys, m
<1> QED
  BY <1>1, Zenon DEF SoundNow

\* A step of the life of a function keeps it sound.
LEMMA LifeKeepsSound ==
    ASSUME FunctionInv, PerfectInv, Dump \/ Load \/ Pack
    PROVE  PerfectInv'
<1>1. UNCHANGED <<config, source>>
  BY DEF Dump, Load, Pack
<1> SUFFICES ASSUME config.algo \in Shown
             PROVE  /\ Answering' => SoundFor(config'.algo, config'.data.keys_per_bin, Keys', m', mphf', answers')
                    /\ phase' = "dumped"
                          => SoundFor(config'.algo, config'.data.keys_per_bin, Keys', m', cmph_load(image'), answers')
  BY <1>1, Zenon DEF PerfectInv, SoundNow
<1>2. CASE Dump
  <2>1. phase = "built" /\ phase' = "dumped" /\ image' = cmph_dump(mphf) /\ answers' = answers
    BY <1>2 DEF Dump
  <2>2. cmph_load(image') = mphf
    BY <2>1, FunctionLoaded DEF FunctionInv
  <2>3. SoundNow(mphf, answers)
    BY <2>1 DEF PerfectInv, Answering
  <2>4. SoundNow(cmph_load(image'), answers')
    BY <2>1, <2>2, <2>3
  <2> QED
    BY <1>1, <2>1, <2>4, SoundMoves DEF Answering
<1>3. CASE Load
  <2>1. phase = "dumped" /\ phase' = "loaded" /\ mphf' = cmph_load(image) /\ answers' = answers
    BY <1>3, LoadKeepsFunction DEF Load, Kept
  <2>2. SoundNow(mphf', answers')
    BY <2>1 DEF PerfectInv
  <2> QED
    BY <1>1, <2>1, <2>2, SoundMoves
<1>4. CASE Pack
  <2>1. phase = "loaded" /\ phase' = "packed" /\ mphf' = mphf /\ answers' = answers
    BY <1>4, PackKeepsFunction DEF Pack, Kept
  <2>2. SoundNow(mphf', answers')
    BY <2>1 DEF PerfectInv, Answering
  <2> QED
    BY <1>1, <2>1, <2>2, SoundMoves
<1> QED
  BY <1>2, <1>3, <1>4

\* So does a step that builds one.
LEMMA BuildKeepsSound ==
    ASSUME UNCHANGED <<config, source>>, BuildsSound
    PROVE  PerfectInv'
<1> SUFFICES ASSUME config.algo \in Shown
             PROVE  /\ Answering' => SoundFor(config'.algo, config'.data.keys_per_bin, Keys', m', mphf', answers')
                    /\ phase' = "dumped"
                          => SoundFor(config'.algo, config'.data.keys_per_bin, Keys', m', cmph_load(image'), answers')
  BY Zenon DEF PerfectInv, SoundNow
<1>1. CASE NoFunction
  BY <1>1 DEF NoFunction, Answering
<1>2. CASE \E f : Build(f) /\ SoundNow(Named(f), Served(Named(f)))
  <2>1. PICK f : Build(f) /\ SoundNow(Named(f), Served(Named(f)))
    BY <1>2
  <2>2. /\ phase' = "built" /\ mphf' = Named(f) /\ answers' = [k \in Keys |-> cmph_search(Named(f), k)]
    BY <2>1, Zenon DEF Build, End, Named
  <2>3. SoundNow(mphf', answers')
    BY <2>1, <2>2, Zenon DEF Served
  <2> QED
    BY <2>2, <2>3, SoundMoves
<1> QED
  BY <1>1, <1>2 DEF BuildsSound

\* The attempts of both algorithms.
LEMMA AttemptsBuildSound ==
    ASSUME SettingsInv, TableInv, config.algo \in Shown,
           ChmAttempt \/ BmzAttempt \/ Bmz8Attempt \/ BdzAttempt \/ BdzPhAttempt \/ ChdAttempt \/ FchSearch
    PROVE  BuildsSound
<1>1. CASE FchSearch
  BY <1>1, FchBuilds
<1>2. CASE ChmAttempt
  BY <1>2, ChmBuilds
<1> QED
  BY <1>1, <1>2 DEF Shown, BmzAttempt, Bmz8Attempt, BdzAttempt, BdzPhAttempt, ChdAttempt

\* Every step keeps the invariant.
LEMMA PerfectKept ==
    ASSUME SettingsInv, FunctionInv, PerfectInv, TableInv, Next
    PROVE  PerfectInv' /\ TableInv'
<1>1. CASE Configure \/ cmph_new \/ Draw \/ FchMapping
  <2>1. phase' \in {"config", "mapping", "failed", "drawn", "searching"}
    BY <1>1 DEF Configure, cmph_new, Draw, FchMapping
  <2>2. PerfectInv'
    BY <2>1 DEF PerfectInv, Answering
  <2>3. phase' = "searching" => FchMapping
    BY <1>1 DEF Configure, cmph_new, Draw
  <2>4. ASSUME FchMapping PROVE TableInv'
    <3>1. phase = "mapping" /\ config.algo = "fch" /\ source' = source
      BY <2>4 DEF FchMapping
    <3>2. PICK h1 \in Draws.h1, table \in Draws.tables :
             carry' = [h1 |-> h1, table |-> table, collisions |-> 0]
      BY <2>4 DEF FchMapping
    <3>3. /\ m \in Nat /\ table \in [0..(m - 1) -> 0..(m - 1)]
          /\ \A p \in 0..(m - 1) : \E y \in 0..(m - 1) : table[y] = p
      BY <3>1, SourceFacts
    <3>4. Lists(table, m)
      BY <3>3, TableLists
    <3>5. Draws' = Draws /\ m' = m
      BY <3>1 DEF Draws, m, keys
    <3> QED
      BY <3>2, <3>4, <3>5 DEF TableInv
  <2> QED
    BY <2>2, <2>3, <2>4 DEF TableInv
<1>2. CASE ChmAttempt \/ BmzAttempt \/ Bmz8Attempt \/ BdzAttempt \/ BdzPhAttempt \/ ChdAttempt
           \/ FchSearch
  <2>1. UNCHANGED <<config, source>>
    <3>1. Outcome
      BY <1>2, AttemptOutcomes, SearchOutcomes
    <3> QED
      BY <3>1 DEF Outcome, Build, Retry, Remap, Undefined, WithoutFunction, End
  <2>2. PerfectInv'
    <3>1. config.algo \in Shown => BuildsSound
      BY <1>2, AttemptsBuildSound
    <3>2. config.algo \notin Shown => PerfectInv'
      BY <2>1 DEF PerfectInv
    <3> QED
      BY <2>1, <3>1, <3>2, BuildKeepsSound
  <2>3. TableInv'
    <3>1. CASE FchSearch
      BY <3>1, FchBuilds
    <3>2. CASE ~FchSearch
      <4>1. phase = "drawn"
        BY <1>2, <3>2 DEF ChmAttempt, BmzAttempt, Bmz8Attempt, BdzAttempt, BdzPhAttempt, ChdAttempt
      <4>2. Outcome
        BY <1>2, <3>2, AttemptOutcomes
      <4>3. phase' # "searching"
        BY <4>1, <4>2 DEF Outcome, Build, Retry, Remap, Undefined, WithoutFunction, End
      <4> QED
        BY <4>3 DEF TableInv
    <3> QED
      BY <3>1, <3>2
  <2> QED
    BY <2>2, <2>3
<1>3. CASE Dump \/ Load \/ Pack
  <2>1. phase' # "searching"
    BY <1>3 DEF Dump, Load, Pack
  <2> QED
    BY <1>3, <2>1, LifeKeepsSound DEF TableInv
<1>4. CASE Done
  BY <1>4 DEF Done, vars, PerfectInv, TableInv, Answering, SoundNow, Keys, m, keys, Draws
<1> QED
  BY <1>1, <1>2, <1>3, <1>4 DEF Next, Construction

\* Whatever fch or chm answers from has been found to be a perfect hash
\* function: the search of fch_searching and the traversal of chm_assigning end
\* with one, and packing, dumping, loading and searching again keep it or take
\* it away.
THEOREM SoundInvariant == Spec => [](SettingsInv /\ FunctionInv /\ PerfectInv /\ TableInv)
<1>1. Init => PerfectInv /\ TableInv
  BY DEF Init, PerfectInv, TableInv, Answering
<1>2. PerfectInv /\ TableInv /\ UNCHANGED vars => PerfectInv' /\ TableInv'
  BY DEF vars, PerfectInv, TableInv, Answering, SoundNow, Keys, m, keys, Draws
<1>3. SettingsInv /\ FunctionInv /\ PerfectInv /\ TableInv /\ [Next]_vars => PerfectInv' /\ TableInv'
  BY <1>2, PerfectKept
<1> QED
  BY <1>1, <1>3, FunctionInvariant, PTL DEF Spec

\* fch and chm never answer two keys of the set alike, nor any of them with a
\* number past the last one: the property Perfect of Cmph.tla, for the two
\* algorithms it is proved of.
THEOREM FunctionsPerfect == Spec => [](config.algo \in Shown => Perfect)
<1>1. PerfectInv => (config.algo \in Shown => Perfect)
  BY PerfectIsSound DEF PerfectInv, Perfect
<1> QED
  BY <1>1, SoundInvariant, PTL
=============================================================================
