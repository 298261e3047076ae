----------------------------- MODULE CmphProofs ------------------------------
(***************************************************************************)
(* Proofs about the CMPH library (Cmph and the modules of the              *)
(* constructions), for every table of key sources and every bound on the   *)
(* numbers of attempts.                                                    *)
(***************************************************************************)
EXTENDS Cmph, FiniteSetTheorems, FunctionTheorems, SequenceTheorems, WellFoundedInduction, TLAPS

-----------------------------------------------------------------------------
(* Numbers and loops.                                                      *)

\* A set of numbers that is not empty has a least one.
LEMMA LeastElement ==
    ASSUME NEW S \in SUBSET Nat, S # {}
    PROVE  \E x \in S : \A y \in S : x <= y
<1>1. PICK x \in S : \A y \in S : ~(<<y, x>> \in OpToRel(<, Nat))
  BY NatLessThanWellFounded, WFMin
<1>2. \A y \in S : ~(<<y, x>> \in {ss \in Nat \X Nat : ss[1] < ss[2]})
  BY <1>1, Zenon DEF OpToRel
<1>3. \A y \in S : x <= y
  <2> TAKE y \in S
  <2>1. x \in Nat /\ y \in Nat /\ <<y, x>> \in Nat \X Nat
    OBVIOUS
  <2>2. ~(<<y, x>>[1] < <<y, x>>[2])
    BY <1>2, <2>1, Zenon
  <2> QED
    BY <2>1, <2>2
<1> QED
  BY <1>3

\* A set that has 0 and with each number the next one has all up to n.
LEMMA Induction ==
    ASSUME NEW n \in Nat, NEW P, 0 \in P, \A i \in 1 .. n : i - 1 \in P => i \in P
    PROVE  0 .. n \subseteq P
<1> DEFINE Rest == {i \in 0 .. n : i \notin P}
<1>1. SUFFICES ASSUME Rest # {} PROVE FALSE
  OBVIOUS
<1>2. \E i \in Rest : \A y \in Rest : i <= y
  <2>1. Rest \in SUBSET Nat
    OBVIOUS
  <2> HIDE DEF Rest
  <2> QED
    BY <1>1, <2>1, LeastElement
<1>3. PICK i \in 0 .. n : i \notin P /\ \A y \in Rest : i <= y
  BY <1>2
<1>4. i # 0 /\ i \in 1 .. n /\ i - 1 \in 0 .. n
  BY <1>3
<1>5. i - 1 \notin P
  BY <1>3, <1>4
<1>6. i - 1 \in Rest
  BY <1>4, <1>5
<1> QED
  BY <1>3, <1>4, <1>6

\* The values of a loop of n rounds that starts with b.
Loop(f, n, b, step) == f[0] = b /\ \A i \in 1 .. n : f[i] = step[<<i, f[i - 1]>>]

\* Every step has such values.
LEMMA LoopExists ==
    ASSUME NEW n \in Nat, NEW S, NEW b \in S, NEW step \in [(1 .. n) \X S -> S]
    PROVE  \E f \in [0 .. n -> S] : Loop(f, n, b, step)
<1> DEFINE Good(r) == \E f \in [0 .. r -> S] :
                         f[0] = b /\ \A i \in 1 .. r : f[i] = step[<<i, f[i - 1]>>]
           P == {r \in 0 .. n : Good(r)}
<1>1. Good(0)
  <2>1. [i \in 0 .. 0 |-> b] \in [0 .. 0 -> S] /\ [i \in 0 .. 0 |-> b][0] = b
    OBVIOUS
  <2>2. 1 .. 0 = {}
    OBVIOUS
  <2> QED
    BY <2>1, <2>2
<1>2. ASSUME NEW r \in 0 .. n, r + 1 \in 0 .. n, Good(r)
      PROVE  Good(r + 1)
  <2>1. PICK f \in [0 .. r -> S] : f[0] = b /\ \A i \in 1 .. r : f[i] = step[<<i, f[i - 1]>>]
    BY <1>2
  <2> DEFINE new == step[<<r + 1, f[r]>>]
             g == [i \in 0 .. r + 1 |-> IF i = r + 1 THEN new ELSE f[i]]
  <2>2. new \in S
    <3>1. f[r] \in S /\ r + 1 \in 1 .. n
      BY <1>2
    <3> QED
      BY <3>1
  <2>3. g \in [0 .. r + 1 -> S]
    <3> HIDE DEF new
    <3> QED
      BY <2>2
  <2>4. g[0] = b /\ g[r + 1] = new /\ g[r] = f[r]
    BY <2>1
  <2>5. \A i \in 1 .. r : g[i] = f[i] /\ g[i - 1] = f[i - 1]
    OBVIOUS
  <2>6. new = step[<<r + 1, f[r]>>]
    OBVIOUS
  <2> HIDE DEF g, new
  <2>7. ASSUME NEW i \in 1 .. r + 1 PROVE g[i] = step[<<i, g[i - 1]>>]
    <3>1. CASE i = r + 1
      <4>1. i - 1 = r
        BY <3>1
      <4> QED
        BY <2>4, <2>6, <3>1, <4>1
    <3>2. CASE i # r + 1
      BY <2>1, <2>5, <3>2
    <3> QED
      BY <3>1, <3>2
  <2> QED
    BY <2>3, <2>4, <2>7
<1>3. 0 \in P
  BY <1>1
<1>4. ASSUME NEW i \in 1 .. n, i - 1 \in P PROVE i \in P
  <2>1. i - 1 \in 0 .. n /\ (i - 1) + 1 = i /\ Good(i - 1)
    BY <1>4
  <2> HIDE DEF Good
  <2>2. Good((i - 1) + 1)
    BY <1>2, <2>1
  <2> QED
    BY <2>1, <2>2
<1>5. 0 .. n \subseteq P
  <2> HIDE DEF P
  <2> QED
    BY <1>3, <1>4, Induction
<1>6. Good(n)
  BY <1>5
<1> QED
  BY <1>6 DEF Loop

\* A part of a finite set that lacks one of its elements is smaller.
LEMMA Fewer ==
    ASSUME NEW B, IsFiniteSet(B), NEW A \in SUBSET B, NEW x \in B, x \notin A
    PROVE  /\ IsFiniteSet(A)
           /\ Cardinality(A) \in Nat /\ Cardinality(B) \in Nat
           /\ Cardinality(A) < Cardinality(B)
<1>1. Cardinality(A) <= Cardinality(B) /\ Cardinality(A) # Cardinality(B) /\ IsFiniteSet(A)
  BY FS_Subset
<1>2. Cardinality(A) \in Nat /\ Cardinality(B) \in Nat
  BY <1>1, FS_CardinalityType
<1> QED
  BY <1>1, <1>2

\* A sum of naturals, taken in whatever order, is one.
LEMMA SumIsNat ==
    ASSUME NEW fun, IsFiniteSet(DOMAIN fun), \A x \in DOMAIN fun : fun[x] \in Nat
    PROVE  SumFunction(fun) \in Nat
<1> DEFINE D == DOMAIN fun
           ch(s) == CHOOSE x \in s : TRUE
           iter == CHOOSE g : g = [s \in SUBSET D |-> IF s = {} THEN 0 ELSE fun[ch(s)] + g[s \ {ch(s)}]]
           Right(g, s) == g[s] \in Nat /\ g[s] = IF s = {} THEN 0 ELSE fun[ch(s)] + g[s \ {ch(s)}]
           Upto(n) == {s \in SUBSET D : Cardinality(s) <= n}
           P == {n \in Nat : \E g : \A s \in Upto(n) : Right(g, s)}
<1>1. SumFunction(fun) = iter[D]
  BY DEF SumFunction, SumFunctionOnSet, FoldFunctionOnSet, MapThenFoldSet
<1>2. \A s \in SUBSET D : Cardinality(s) \in Nat /\ Cardinality(s) <= Cardinality(D)
  BY FS_Subset, FS_CardinalityType
<1>3. ASSUME NEW s \in SUBSET D, s # {}
      PROVE  ch(s) \in s /\ ch(s) \in D /\ s \ {ch(s)} \in SUBSET D
             /\ Cardinality(s \ {ch(s)}) < Cardinality(s)
  <2>1. ch(s) \in s /\ IsFiniteSet(s)
    BY <1>3, FS_Subset
  <2> QED
    BY <2>1, Fewer
<1> HIDE DEF ch
<1>4. 0 \in P
  <2>1. \A s \in Upto(0) : s = {}
    BY <1>2, FS_Subset, FS_EmptySet
  <2>2. \A s \in Upto(0) : Right([t \in SUBSET D |-> 0], s)
    BY <2>1
  <2> QED
    BY <2>2
<1>5. ASSUME NEW n \in Nat, n \in P PROVE n + 1 \in P
  <2>1. PICK g : \A s \in Upto(n) : Right(g, s)
    BY <1>5
  <2> DEFINE h == [s \in SUBSET D |-> IF Cardinality(s) <= n THEN g[s] ELSE fun[ch(s)] + g[s \ {ch(s)}]]
  <2>2. ASSUME NEW s \in Upto(n + 1) PROVE Right(h, s)
    <3>1. CASE Cardinality(s) <= n
      <4>1. Right(g, s)
        BY <2>1, <3>1
      <4>2. h[s] = g[s]
        BY <3>1
      <4>3. s # {} => h[s \ {ch(s)}] = g[s \ {ch(s)}]
        <5> HAVE s # {}
        <5> DEFINE t == s \ {ch(s)}
        <5>1. t \in SUBSET D /\ Cardinality(t) < Cardinality(s)
          BY <1>3
        <5>2. Cardinality(t) <= n
          BY <1>2, <3>1, <5>1
        <5> HIDE DEF t
        <5>3. h[t] = g[t]
          BY <5>1, <5>2
        <5> QED
          BY <5>3 DEF t
      <4> HIDE DEF h
      <4> QED
        BY <4>1, <4>2, <4>3
    <3>2. CASE ~(Cardinality(s) <= n)
      <4>1. s # {} /\ Cardinality(s) = n + 1
        BY <1>2, <3>2, FS_EmptySet
      <4> DEFINE t == s \ {ch(s)}
      <4>2. t \in Upto(n) /\ ch(s) \in D
        <5>1. t \in SUBSET D /\ Cardinality(t) < Cardinality(s) /\ ch(s) \in D
          BY <1>3, <4>1
        <5>2. Cardinality(t) <= n
          BY <1>2, <4>1, <5>1
        <5> QED
          BY <5>1, <5>2
      <4>3. h[s] = fun[ch(s)] + g[t]
        BY <3>2
      <4>4. h[t] = g[t]
        BY <4>2
      <4>5. g[t] \in Nat /\ fun[ch(s)] \in Nat
        BY <2>1, <4>2
      <4> HIDE DEF h, t
      <4>6. h[s] \in Nat /\ h[s] = fun[ch(s)] + h[t]
        BY <4>3, <4>4, <4>5
      <4> QED
        BY <4>1, <4>6 DEF t
    <3> QED
      BY <3>1, <3>2
  <2> HIDE DEF h, Right
  <2>3. \E x : \A s \in Upto(n + 1) : Right(x, s)
    BY <2>2
  <2> QED
    BY <2>3
<1> DEFINE c == Cardinality(D)
<1>6. c \in P
  <2> HIDE DEF P
  <2>1. c \in Nat
    BY FS_CardinalityType
  <2>2. \A i \in 1..c : i - 1 \in P => i \in P
    <3> TAKE i \in 1..c
    <3>1. i - 1 \in Nat /\ (i - 1) + 1 = i
      BY <2>1
    <3> QED
      BY <3>1, <1>5
  <2> HIDE DEF c
  <2> QED
    BY <1>4, <2>1, <2>2, Induction
<1>7. PICK g : \A s \in Upto(c) : Right(g, s)
  BY <1>6
<1>8. \A s \in SUBSET D : s \in Upto(c)
  BY <1>2
<1> HIDE DEF Upto
<1> DEFINE e == [s \in SUBSET D |-> g[s]]
<1>9. e = [s \in SUBSET D |-> IF s = {} THEN 0 ELSE fun[ch(s)] + e[s \ {ch(s)}]]
  <2>1. ASSUME NEW s \in SUBSET D
        PROVE  e[s] = IF s = {} THEN 0 ELSE fun[ch(s)] + e[s \ {ch(s)}]
    BY <1>7, <1>8
  <2>2. e = [s \in SUBSET D |-> e[s]]
    OBVIOUS
  <2> HIDE DEF e
  <2> QED
    BY <2>1, <2>2
<1>10. iter = [s \in SUBSET D |-> IF s = {} THEN 0 ELSE fun[ch(s)] + iter[s \ {ch(s)}]]
  <2> HIDE DEF e
  <2> QED
    BY <1>9
<1> HIDE DEF iter
<1> DEFINE Q == {n \in 0..c : \A s \in SUBSET D : Cardinality(s) <= n => iter[s] \in Nat}
<1>11. 0..c \subseteq Q
  <2>1. c \in Nat
    BY FS_CardinalityType
  <2> HIDE DEF c
  <2>2. 0 \in Q
    <3>1. \A s \in SUBSET D : Cardinality(s) <= 0 => s = {}
      BY <1>2, FS_Subset, FS_EmptySet
    <3>2. iter[{}] = 0
      BY <1>10
    <3> QED
      BY <2>1, <3>1, <3>2
  <2>3. ASSUME NEW i \in 1..c, i - 1 \in Q PROVE i \in Q
    <3>1. ASSUME NEW s \in SUBSET D, Cardinality(s) <= i PROVE iter[s] \in Nat
      <4>1. CASE s = {}
        BY <4>1, <1>10
      <4>2. CASE s # {}
        <5> DEFINE t == s \ {ch(s)}
        <5>1. t \in SUBSET D /\ Cardinality(t) <= i - 1 /\ ch(s) \in D
          <6>1. t \in SUBSET D /\ Cardinality(t) < Cardinality(s) /\ ch(s) \in D
            BY <1>3, <4>2
          <6>2. Cardinality(t) \in Nat /\ Cardinality(s) \in Nat
            BY <1>2, <6>1
          <6> QED
            BY <3>1, <6>1, <6>2
        <5>2. iter[s] = fun[ch(s)] + iter[t]
          BY <1>10, <4>2
        <5>3. iter[t] \in Nat
          BY <2>3, <5>1
        <5>4. fun[ch(s)] \in Nat
          BY <5>1
        <5> HIDE DEF t
        <5> QED
          BY <5>2, <5>3, <5>4
      <4> QED
        BY <4>1, <4>2
    <3> QED
      BY <3>1
  <2> HIDE DEF Q
  <2> QED
    BY <2>1, <2>2, <2>3, Induction
<1>12. c \in 0..c /\ D \in SUBSET D /\ Cardinality(D) <= c
  BY FS_CardinalityType
<1>13. iter[D] \in Nat
  <2> HIDE DEF c
  <2> QED
    BY <1>11, <1>12
<1> QED
  BY <1>1, <1>13

\* A strict total order of T, and a sequence of the elements of T in it.
TotalOrder(T, Before) ==
    /\ \A x, y \in T : <<x, y>> \in Before => <<y, x>> \notin Before
    /\ \A x, y \in T : x # y => <<x, y>> \in Before \/ <<y, x>> \in Before
    /\ \A x, y, z \in T : <<x, y>> \in Before /\ <<y, z>> \in Before => <<x, z>> \in Before
Listed(q, T, Before) ==
    /\ q \in Seq(T) /\ Len(q) = Cardinality(T) /\ Cardinality(T) \in Nat
    /\ \A i \in 1..Cardinality(T) : q[i] \in T
    /\ \A i, j \in 1..Cardinality(T) : i < j => <<q[i], q[j]>> \in Before
    /\ \A x \in T : \E i \in 1..Cardinality(T) : q[i] = x

\* A total order on a finite set lists its elements.
LEMMA RankedFacts ==
    ASSUME NEW T, IsFiniteSet(T), NEW Before, TotalOrder(T, Before)
    PROVE  Listed(Ranked(T, Before), T, Before)
<1> DEFINE c == Cardinality(T)
           below(x) == {y \in T : <<y, x>> \in Before}
           place == [x \in T |-> Cardinality(below(x))]
           nth(n) == CHOOSE x \in T : Cardinality(below(x)) = n - 1
           r == Ranked(T, Before)
<1>1. r = [n \in 1..c |-> nth(n)]
  BY DEF Ranked
<1>2. c \in Nat
  BY FS_CardinalityType
<1>3. \A x \in T : place[x] \in 0..(c - 1)
  <2> TAKE x \in T
  <2>1. below(x) \in SUBSET T /\ x \notin below(x)
    BY DEF TotalOrder
  <2> HIDE DEF below
  <2>2. Cardinality(below(x)) \in Nat /\ Cardinality(below(x)) < c
    BY <2>1, Fewer
  <2> QED
    BY <2>2, <1>2
<1>4. \A x, y \in T : <<x, y>> \in Before => place[x] < place[y]
  <2> TAKE x \in T, y \in T
  <2> HAVE <<x, y>> \in Before
  <2>1. below(x) \in SUBSET below(y) /\ x \in below(y) /\ x \notin below(x)
    BY DEF TotalOrder
  <2>2. IsFiniteSet(below(y))
    BY FS_Subset
  <2> HIDE DEF below
  <2>3. Cardinality(below(x)) < Cardinality(below(y))
    BY <2>1, <2>2, Fewer
  <2> QED
    BY <2>3
<1>5. place \in [T -> 0..(c - 1)]
  BY <1>3
<1>6. \A x, y \in T : place[x] = place[y] => x = y
  <2> TAKE x \in T, y \in T
  <2> HIDE DEF place
  <2>1. place[x] \in Int /\ place[y] \in Int
    BY <1>2, <1>3
  <2>2. place[x] = place[y] => <<x, y>> \notin Before /\ <<y, x>> \notin Before
    BY <1>4, <2>1
  <2> QED
    BY <2>2 DEF TotalOrder
<1> HIDE DEF place, c
<1>7. IsFiniteSet(0..(c - 1)) /\ Cardinality(0..(c - 1)) = c
  BY <1>2, FS_Interval
<1>8. \A n \in 0..(c - 1) : \E x \in T : place[x] = n
  <2>1. place \in Injection(T, 0..(c - 1))
    BY <1>5, <1>6 DEF Injection, IsInjective
  <2>2. place \in Surjection(T, 0..(c - 1))
    BY <1>7, <2>1, FS_Injection DEF c
  <2> QED
    BY <2>2 DEF Surjection
<1>9. \A n \in 1..c : nth(n) \in T /\ place[nth(n)] = n - 1
  <2> TAKE n \in 1..c
  <2>1. n - 1 \in 0..(c - 1)
    BY <1>2
  <2>2. \E x \in T : Cardinality(below(x)) = n - 1
    BY <1>8, <2>1 DEF place
  <2>3. nth(n) \in T /\ Cardinality(below(nth(n))) = n - 1
    BY <2>2
  <2> HIDE DEF nth
  <2> QED
    BY <2>3 DEF place
<1> HIDE DEF nth, r, below
<1>10. \A n \in 1..c : r[n] \in T /\ place[r[n]] = n - 1
  BY <1>1, <1>9
<1>11. r \in Seq(T) /\ Len(r) = c
  BY <1>1, <1>2, <1>9
<1>12. \A i, j \in 1..c : i < j => <<r[i], r[j]>> \in Before
  <2> TAKE i \in 1..c, j \in 1..c
  <2> HAVE i < j
  <2>1. r[i] \in T /\ r[j] \in T /\ place[r[i]] = i - 1 /\ place[r[j]] = j - 1
    BY <1>10
  <2>2. ~(place[r[j]] < place[r[i]]) /\ place[r[i]] # place[r[j]]
    BY <1>2, <2>1
  <2>3. <<r[j], r[i]>> \notin Before /\ r[i] # r[j]
    BY <1>4, <2>1, <2>2
  <2> QED
    BY <2>1, <2>3 DEF TotalOrder
<1>13. \A x \in T : \E i \in 1..c : r[i] = x
  <2> TAKE x \in T
  <2> DEFINE i == place[x] + 1
  <2>1. i \in 1..c /\ i - 1 = place[x]
    BY <1>2, <1>3
  <2> HIDE DEF i
  <2>2. place[r[i]] = place[x] /\ r[i] \in T
    BY <1>10, <2>1
  <2>3. r[i] = x
    BY <1>6, <2>2
  <2> QED
    BY <2>1, <2>3
<1> QED
  BY <1>2, <1>10, <1>11, <1>12, <1>13 DEF r, c, Listed

\* A loop over numbers visits each of them, the smallest first.
LEMMA InOrderFacts ==
    ASSUME NEW T \in SUBSET Int, IsFiniteSet(T)
    PROVE  /\ Cardinality(T) \in Nat
           /\ InOrder(T) \in Seq(T) /\ Len(InOrder(T)) = Cardinality(T)
           /\ \A i \in 1..Cardinality(T) : InOrder(T)[i] \in T
           /\ \A i, j \in 1..Cardinality(T) : i < j => InOrder(T)[i] < InOrder(T)[j]
           /\ \A x \in T : \E i \in 1..Cardinality(T) : InOrder(T)[i] = x
<1> DEFINE Before == {p \in T \X T : p[1] < p[2]}
<1>1. \A x, y \in T : <<x, y>> \in Before <=> x < y
  OBVIOUS
<1>2. InOrder(T) = Ranked(T, Before)
  BY DEF InOrder
<1> HIDE DEF Before
<1>3. TotalOrder(T, Before)
  BY <1>1 DEF TotalOrder
<1>4. Listed(InOrder(T), T, Before)
  BY <1>2, <1>3, RankedFacts
<1> HIDE DEF Before
<1> DEFINE r == InOrder(T)
<1> HIDE DEF r
<1>5. \A i, j \in 1..Cardinality(T) : i < j => r[i] < r[j]
  BY <1>1, <1>4 DEF Listed, r
<1> QED
  BY <1>4, <1>5 DEF r, Listed

\* The powers of two are positive.
LEMMA PowersPositive ==
    /\ \A i \in 0..31 : power2[i] \in Nat \ {0}
    /\ power2[0] = 1 /\ \A i \in 1..31 : power2[i] = 2 * power2[i - 1]
<1> DEFINE step == [w \in (1 .. 31) \X (Nat \ {0}) |-> 2 * w[2]]
<1>1. PICK f \in [0 .. 31 -> Nat \ {0}] : Loop(f, 31, 1, step)
  <2>1. step \in [(1 .. 31) \X (Nat \ {0}) -> Nat \ {0}] /\ 31 \in Nat /\ 1 \in Nat \ {0}
    OBVIOUS
  <2> HIDE DEF step
  <2> QED
    BY <2>1, LoopExists
<1>2. f[0] = 1 /\ \A i \in 1 .. 31 : f[i] = 2 * f[i - 1]
  <2>1. \A i \in 1 .. 31 : f[i - 1] \in Nat \ {0} /\ step[<<i, f[i - 1]>>] = 2 * f[i - 1]
    <3> TAKE i \in 1 .. 31
    <3>1. i - 1 \in 0 .. 31
      OBVIOUS
    <3>2. f[i - 1] \in Nat \ {0}
      BY <3>1
    <3> QED
      BY <3>2
  <2> HIDE DEF step
  <2> QED
    BY <1>1, <2>1 DEF Loop
<1>3. f = [i \in 0 .. 31 |-> IF i = 0 THEN 1 ELSE 2 * f[i - 1]]
  BY <1>2
<1>4. power2 = [i \in 0 .. 31 |-> IF i = 0 THEN 1 ELSE 2 * power2[i - 1]]
  BY <1>3 DEF power2
<1>5. power2[0] = 1 /\ \A i \in 1..31 : power2[i] = 2 * power2[i - 1]
  BY <1>4
<1> DEFINE P == {i \in 0 .. 31 : power2[i] \in Nat \ {0}}
<1>6. 0 .. 31 \subseteq P
  <2>1. 0 \in P /\ 31 \in Nat
    BY <1>5
  <2>2. ASSUME NEW i \in 1 .. 31, i - 1 \in P PROVE i \in P
    <3>1. power2[i] = 2 * power2[i - 1] /\ power2[i - 1] \in Nat \ {0}
      BY <1>5, <2>2
    <3> QED
      BY <3>1
  <2> HIDE DEF P
  <2> QED
    BY <2>1, <2>2, Induction
<1> QED
  BY <1>5, <1>6
-----------------------------------------------------------------------------
(***************************************************************************)
(* The settings and the attempts.                                          *)
(***************************************************************************)
Trying == {"mapping", "drawn", "searching"}

Settings == [algo : Algos, c : Nat \X (Nat \ {0}), data : [b : Nat, keys_per_bin : Nat]]

\* The counters of the loops of attempts.
Attempts(algo) ==
    [tries : 1..Capped(Iterations(algo)[1]), rounds : 1..Capped(Iterations(algo)[2])]

\* cmph_new accepts the configuration for the source s.
MadeFor(conf, s) ==
    /\ Sources[s].algo = conf.algo
    /\ Sources[s].c = conf.c
    /\ conf = cmph_config_set_keys_per_bin(cmph_config_set_b(conf, Sources[s].b),
                                            Sources[s].keys_per_bin)

\* The inductive invariant of the settings and the attempts: the settings are
\* records of numbers, the source is one the configuration is for, attempts
\* are left within their bounds, and each phase has what it works with.
SettingsInv ==
    /\ TypeOK
    /\ config \in Settings
    /\ phase # "config" => source \in DOMAIN Sources /\ MadeFor(config, source)
    /\ phase \in Trying => left \in Attempts(config.algo)
    /\ phase = "drawn" => config.algo # "fch" /\ draw \in Draws
    /\ phase = "searching" =>
          /\ config.algo = "fch"
          /\ carry.collisions \in 0..(Capped(iteration_to_generate_h2) - 1)

\* No number of attempts is zero after it was cut.
LEMMA CappedPositive ==
    ASSUME NEW algo \in Algos
    PROVE  /\ Capped(Iterations(algo)[1]) \in 1..Limit
           /\ Capped(Iterations(algo)[2]) \in 1..Limit
           /\ Capped(iteration_to_generate_h2) \in 1..Limit
BY LimitAssumption DEF Capped, Iterations, Algos, chm_iterations, bmz_iterations,
   bmz_iterations_map, searching_iterations, fch_iterations, bdz_iterations, bdz_ph_iterations,
   mapping_iterations, chd_ph_iterations, iteration_to_generate_h2

\* Settings made by the setters, in any order, are in their ranges.
SettingsOK(conf) ==
    /\ conf \in Settings
    /\ conf.data.b \in (CASE conf.algo = "bdz" -> 3..10
                          [] conf.algo \in {"chd_ph", "chd"} -> 1..14
                          [] OTHER -> {0})
    /\ conf.data.keys_per_bin \in (IF conf.algo \in {"chd_ph", "chd"} THEN 1..127 ELSE {1})

LEMMA SettersKeep ==
    ASSUME NEW conf, SettingsOK(conf), NEW s \in DOMAIN Sources
    PROVE  /\ SettingsOK(cmph_config_set_algo(conf, Sources[s].algo))
           /\ SettingsOK(cmph_config_set_b(conf, Sources[s].b))
           /\ SettingsOK(cmph_config_set_keys_per_bin(conf, Sources[s].keys_per_bin))
           /\ SettingsOK(cmph_config_set_graphsize(conf, Sources[s].c))
<1> DEFINE S == Sources[s]
<1>1. /\ S.algo \in Algos /\ S.c \in Nat \X (Nat \ {0})
      /\ S.b \in Nat /\ S.keys_per_bin \in Nat
  BY SourceAssumption
<1>2. SettingsOK(cmph_config_set_algo(conf, S.algo))
  <2> HIDE DEF S
  <2>1. CASE S.algo = conf.algo
    <3>1. cmph_config_set_algo(conf, S.algo) = conf
      BY <2>1 DEF cmph_config_set_algo, SettingsOK, Settings
    <3> QED
      BY <3>1
  <2>2. CASE S.algo # conf.algo
    <3> DEFINE a == S.algo
               d == config_new(S.algo)
    <3>1. cmph_config_set_algo(conf, a) = [conf EXCEPT !.algo = a, !.data = d]
      BY <2>2 DEF cmph_config_set_algo
    <3>2. d \in [b : Nat, keys_per_bin : Nat] /\ a \in Algos
      BY <1>1 DEF config_new, Algos
    <3>3. /\ d.b \in (CASE a = "bdz" -> 3..10
                        [] a \in {"chd_ph", "chd"} -> 1..14
                        [] OTHER -> {0})
          /\ d.keys_per_bin \in (IF a \in {"chd_ph", "chd"} THEN 1..127 ELSE {1})
      BY DEF config_new
    <3> HIDE DEF a, d
    <3>4. /\ [conf EXCEPT !.algo = a, !.data = d] \in Settings
          /\ [conf EXCEPT !.algo = a, !.data = d].algo = a
          /\ [conf EXCEPT !.algo = a, !.data = d].data = d
      BY <3>2 DEF SettingsOK, Settings
    <3>5. SettingsOK(cmph_config_set_algo(conf, a))
      BY <3>1, <3>3, <3>4 DEF SettingsOK
    <3> QED
      BY <3>5 DEF a
  <2> QED
    BY <2>1, <2>2
<1>3. SettingsOK(cmph_config_set_b(conf, S.b))
  <2> HIDE DEF S
  <2> DEFINE b == CASE conf.algo = "bdz" -> bdz_config_set_b(S.b)
                    [] conf.algo \in {"chd_ph", "chd"} -> chd_ph_config_set_b(S.b)
                    [] OTHER -> conf.data.b
  <2>1. cmph_config_set_b(conf, S.b)
          = [algo |-> conf.algo, c |-> conf.c, data |-> [b |-> b, keys_per_bin |-> conf.data.keys_per_bin]]
    BY DEF cmph_config_set_b, SettingsOK, Settings
  <2>2. b \in (CASE conf.algo = "bdz" -> 3..10
                 [] conf.algo \in {"chd_ph", "chd"} -> 1..14
                 [] OTHER -> {0})
    BY <1>1 DEF bdz_config_set_b, chd_ph_config_set_b, SettingsOK, Settings, Algos
  <2>3. b \in Nat
    BY <2>2
  <2> HIDE DEF b
  <2> QED
    BY <2>1, <2>2, <2>3 DEF SettingsOK, Settings
<1>4. SettingsOK(cmph_config_set_keys_per_bin(conf, S.keys_per_bin))
  <2> HIDE DEF S
  <2> DEFINE t == IF conf.algo \in {"chd_ph", "chd"} THEN chd_ph_config_set_keys_per_bin(S.keys_per_bin)
                  ELSE conf.data.keys_per_bin
  <2>1. cmph_config_set_keys_per_bin(conf, S.keys_per_bin)
          = [algo |-> conf.algo, c |-> conf.c, data |-> [b |-> conf.data.b, keys_per_bin |-> t]]
    BY DEF cmph_config_set_keys_per_bin, SettingsOK, Settings
  <2>2. t \in (IF conf.algo \in {"chd_ph", "chd"} THEN 1..127 ELSE {1})
    BY <1>1 DEF chd_ph_config_set_keys_per_bin, SettingsOK, Settings
  <2>3. t \in Nat
    BY <2>2
  <2> HIDE DEF t
  <2> QED
    BY <2>1, <2>2, <2>3 DEF SettingsOK, Settings
<1>5. SettingsOK(cmph_config_set_graphsize(conf, S.c))
  <2>1. cmph_config_set_graphsize(conf, S.c) = [algo |-> conf.algo, c |-> S.c, data |-> conf.data]
    BY DEF cmph_config_set_graphsize, SettingsOK, Settings
  <2> HIDE DEF S
  <2> QED
    BY <2>1, <1>1 DEF SettingsOK, Settings
<1> QED
  BY <1>2, <1>3, <1>4, <1>5

-----------------------------------------------------------------------------
\* What the steps of a construction lead to, whatever is computed in them.
Outcome ==
    \/ \E f : Build(f)
    \/ Retry
    \/ \E cry : Remap(cry)
    \/ Undefined
    \/ /\ phase = "searching"
       /\ \E l, cry :
             /\ WithoutFunction("searching", l, cry)
             /\ \/ l = [left EXCEPT !.tries = @ - 1] /\ l.tries # 0
                   /\ cry = [h1 |-> carry.h1, table |-> cry.table, collisions |-> 0]
                \/ l = left /\ carry.collisions + 1 # Capped(iteration_to_generate_h2)
                   /\ cry = [h1 |-> carry.h1, table |-> carry.table,
                             collisions |-> carry.collisions + 1]

LEMMA AttemptOutcomes ==
    ASSUME SettingsInv,
           ChmAttempt \/ BmzAttempt \/ Bmz8Attempt \/ BdzAttempt \/ BdzPhAttempt \/ ChdAttempt
    PROVE  Outcome
<1>1. CASE ChmAttempt
  BY <1>1, Zenon DEF ChmAttempt, Outcome
<1>2. CASE BmzAttempt
  BY <1>2, Zenon DEF BmzAttempt, Labelled, Outcome
<1>3. CASE Bmz8Attempt
  BY <1>3, Zenon DEF Bmz8Attempt, Labelled, Outcome
<1>4. CASE BdzAttempt
  BY <1>4, Zenon DEF BdzAttempt, Outcome
<1>5. CASE BdzPhAttempt
  BY <1>5, Zenon DEF BdzPhAttempt, Outcome
<1>6. CASE ChdAttempt
  BY <1>6, Zenon DEF ChdAttempt, ChdSearched, ChdBuilt, Outcome
<1> QED
  BY <1>1, <1>2, <1>3, <1>4, <1>5, <1>6

LEMMA SearchOutcomes ==
    ASSUME SettingsInv, FchSearch
    PROVE  Outcome
<1>1. PICK h2 \in Draws.h2 :
          LET b == fch_calc_b(fch_c(config.c), m)
              buckets == fch_mapping(keys, carry.h1, b)
              split == ~check_for_collisions_h2(buckets, h2, m)
              search == fch_searching(buckets, carry.table, h2, m)
              cry == [h1 |-> carry.h1,
                      table |-> IF split THEN search.table ELSE carry.table,
                      collisions |-> IF split THEN 0 ELSE carry.collisions + 1]
              l == [left EXCEPT !.tries = IF split THEN @ - 1 ELSE @]
          IN  CASE split /\ search.ok /\ left.rounds > 1 ->
                      Build(fch_new(keys, carry.h1, h2, fch_c(config.c), b, search.g))
                [] split /\ search.ok /\ left.rounds = 1 -> Remap(Nothing)
                [] ~(split /\ search.ok) ->
                      IF l.tries = 0 \/ cry.collisions = Capped(iteration_to_generate_h2)
                      THEN Remap(Nothing)
                      ELSE WithoutFunction("searching", l, cry)
  BY Zenon DEF FchSearch
<1> DEFINE buckets == fch_mapping(keys, carry.h1, fch_calc_b(fch_c(config.c), m))
           split == ~check_for_collisions_h2(buckets, h2, m)
           search == fch_searching(buckets, carry.table, h2, m)
           cry == [h1 |-> carry.h1,
                   table |-> IF split THEN search.table ELSE carry.table,
                   collisions |-> IF split THEN 0 ELSE carry.collisions + 1]
           l == [left EXCEPT !.tries = IF split THEN @ - 1 ELSE @]
<1>2. \/ \E f : Build(f)
      \/ Remap(Nothing)
      \/ /\ WithoutFunction("searching", l, cry)
         /\ l.tries # 0 /\ cry.collisions # Capped(iteration_to_generate_h2)
  <2>1. left.rounds > 1 \/ left.rounds = 1
    BY DEF FchSearch, SettingsInv, Trying, Attempts
  <2> QED
    BY <1>1, <2>1, Zenon
<1>3. phase = "searching"
  BY DEF FchSearch
<1>4. left = [tries |-> left.tries, rounds |-> left.rounds]
  BY <1>3 DEF SettingsInv, Trying, Attempts
<1>5. CASE split
  <2>1. l = [left EXCEPT !.tries = @ - 1]
    BY <1>5, Zenon
  <2>2. cry = [h1 |-> carry.h1, table |-> cry.table, collisions |-> 0]
    BY <1>5, Zenon
  <2> HIDE DEF l, cry, split
  <2> QED
    BY <1>2, <1>3, <2>1, <2>2 DEF Outcome
<1>6. CASE ~split
  <2>1. l = [left EXCEPT !.tries = @]
    BY <1>6, Zenon
  <2>2. l = left
    BY <2>1, <1>4
  <2>3. cry = [h1 |-> carry.h1, table |-> carry.table, collisions |-> carry.collisions + 1]
    BY <1>6, Zenon
  <2>4. cry.collisions = carry.collisions + 1
    BY <2>3
  <2> HIDE DEF l, cry, split
  <2> QED
    BY <1>2, <1>3, <2>2, <2>3, <2>4 DEF Outcome
<1> QED
  BY <1>5, <1>6

\* Measure, with the state spelled out.
Fuel(p, l, cry) ==
    IF p \notin Trying THEN 0
    ELSE 1 + (Limit + 3) * (l.tries + (Limit + 1) * l.rounds)
         + (CASE p = "mapping" -> Limit + 2
              [] p = "drawn" -> Limit + 1
              [] p = "searching" -> Limit - cry.collisions)
Shrinks == (Measure > 0) => (Measure' < Measure)

LEMMA MeasureFuel == Measure = Fuel(phase, left, carry) /\ Measure' = Fuel(phase', left', carry')
BY DEF Measure, Fuel, Trying

LEMMA FuelNat ==
    ASSUME NEW algo \in Algos, NEW p \in Trying, NEW l \in Attempts(algo), NEW cry,
           p = "searching" => cry.collisions \in 0..(Capped(iteration_to_generate_h2) - 1)
    PROVE  /\ Fuel(p, l, cry) \in Nat \ {0}
           /\ \E e \in 0..(Limit + 2) :
                 Fuel(p, l, cry) = 1 + (Limit + 3) * (l.tries + (Limit + 1) * l.rounds) + e
<1>1. l.tries \in Nat \ {0} /\ l.rounds \in Nat \ {0} /\ Limit \in Nat \ {0}
  BY LimitAssumption, CappedPositive DEF Attempts
<1> DEFINE q == (Limit + 1) * l.rounds
           g == (Limit + 3) * (l.tries + q)
           e == CASE p = "mapping" -> Limit + 2
                  [] p = "drawn" -> Limit + 1
                  [] p = "searching" -> Limit - cry.collisions
<1>2. Fuel(p, l, cry) = 1 + g + e
  BY DEF Fuel, Trying
<1>3. e \in 0..(Limit + 2)
  BY <1>1, CappedPositive DEF Trying
<1>4. q \in Nat
  BY <1>1
<1>5. g \in Nat
  <2> HIDE DEF q
  <2> QED
    BY <1>1, <1>4
<1> HIDE DEF g, e
<1>6. 1 + g + e \in Nat \ {0}
  BY <1>3, <1>5, <1>1
<1>7. QED
  BY <1>2, <1>3, <1>6 DEF g, q

\* One try less is worth more than all that an attempt can use up.
LEMMA FuelTry ==
    ASSUME NEW t \in Nat \ {0}, NEW r \in Nat, NEW a \in 0..(Limit + 2), NEW d \in 0..(Limit + 2)
    PROVE  1 + (Limit + 3) * ((t - 1) + (Limit + 1) * r) + a
             < 1 + (Limit + 3) * (t + (Limit + 1) * r) + d
<1>1. Limit \in Nat
  BY LimitAssumption
<1> DEFINE q == (Limit + 1) * r
<1>2. q \in Nat
  BY <1>1
<1> HIDE DEF q
<1>3. (Limit + 3) * ((t - 1) + q) = (Limit + 3) * (t + q) - (Limit + 3)
  BY <1>1, <1>2
<1>4. (Limit + 3) * (t + q) \in Nat
  BY <1>1, <1>2
<1> QED
  BY <1>1, <1>3, <1>4 DEF q

\* One round less is worth more than all its tries.
LEMMA FuelRound ==
    ASSUME NEW t \in Nat \ {0}, NEW u \in 1..Limit, NEW r \in Nat \ {0},
           NEW a \in 0..(Limit + 2), NEW d \in 0..(Limit + 2)
    PROVE  1 + (Limit + 3) * (u + (Limit + 1) * (r - 1)) + a
             < 1 + (Limit + 3) * (t + (Limit + 1) * r) + d
<1>1. Limit \in Nat
  BY LimitAssumption
<1> DEFINE q == (Limit + 1) * r
<1>2. q \in Nat
  BY <1>1
<1>3. (Limit + 1) * (r - 1) = q - (Limit + 1)
  BY <1>1
<1> HIDE DEF q
<1> DEFINE x == u + (q - (Limit + 1))
           y == t + q
<1>4. x \in Int /\ y \in Int /\ x <= y - 2
  BY <1>1, <1>2
<1> HIDE DEF x, y
<1>5. (Limit + 3) * x <= (Limit + 3) * (y - 2)
  BY <1>1, <1>4
<1>6. (Limit + 3) * (y - 2) = (Limit + 3) * y - (Limit + 3) * 2
  BY <1>1, <1>4
<1>7. (Limit + 3) * x \in Int /\ (Limit + 3) * y \in Int
  BY <1>1, <1>4
<1>8. 1 + (Limit + 3) * x + a < 1 + (Limit + 3) * y + d
  BY <1>1, <1>5, <1>6, <1>7
<1> QED
  BY <1>3, <1>8 DEF x, y, q

-----------------------------------------------------------------------------
\* The parts of the type invariant that settings and attempts decide.
LEMMA SettingsSplit ==
    /\ SettingsInv => SettingsOK(config) /\ phase \in Phases
    /\ \A p \in Trying : p \in Phases
BY DEF SettingsInv, SettingsOK, TypeOK, Trying, Phases

\* What a step of a construction leaves keeps the invariant and shrinks.
LEMMA OutcomeKeeps ==
    ASSUME SettingsInv, Outcome, phase \in Trying
    PROVE  SettingsInv' /\ Shrinks
<1> DEFINE algo == config.algo
<1>1. /\ algo \in Algos /\ left \in Attempts(algo) /\ phase \in Trying
      /\ phase = "searching" => carry.collisions \in 0..(Capped(iteration_to_generate_h2) - 1)
      /\ source \in DOMAIN Sources /\ MadeFor(config, source)
      /\ config \in Settings
  BY DEF SettingsInv, TypeOK, Trying
<1>2. config' = config /\ source' = source
  BY DEF Outcome, End, WithoutFunction, Build, Retry, Remap, Undefined
<1>3. /\ left.tries \in 1..Capped(Iterations(algo)[1])
      /\ left.rounds \in 1..Capped(Iterations(algo)[2])
      /\ left = [tries |-> left.tries, rounds |-> left.rounds]
      /\ tries \in 1..Limit /\ Capped(Iterations(algo)[2]) \in 1..Limit
      /\ tries = Capped(Iterations(algo)[1])
      /\ Limit \in Nat
  BY <1>1, CappedPositive, LimitAssumption DEF Attempts, tries
<1>4. PICK e \in 0..(Limit + 2) :
          /\ Measure = 1 + (Limit + 3) * (left.tries + (Limit + 1) * left.rounds) + e
          /\ Measure \in Nat \ {0}
  BY <1>1, FuelNat, MeasureFuel
<1>5. ASSUME phase' \notin Trying, phase' \in Phases,
             phase' \in {"built", "loaded", "packed"} => DOMAIN answers' = Keys,
             phase' # "config"
      PROVE  SettingsInv' /\ Shrinks
  <2>1. Measure' = 0
    BY <1>5, MeasureFuel DEF Fuel
  <2>2. Shrinks
    BY <2>1, <1>4 DEF Shrinks
  <2>3. TypeOK'
    BY <1>2, <1>5, SettingsInv, Zenon DEF SettingsInv, TypeOK, Trying, Answering, Keys, keys
  <2>4. SettingsInv'
    BY <1>1, <1>2, <1>5, <2>3 DEF SettingsInv, Trying
  <2> QED
    BY <2>2, <2>4
<1>6. ASSUME phase' \in {"mapping", "searching"}, left' \in Attempts(algo),
             phase' = "searching" => algo = "fch"
                 /\ carry'.collisions \in 0..(Capped(iteration_to_generate_h2) - 1)
      PROVE  SettingsInv'
  <2>1. left'.tries >= 1 /\ left'.rounds >= 1
    BY <1>6, <1>3 DEF Attempts
  <2>2. TypeOK'
    BY <1>2, <1>6, <2>1, SettingsInv DEF SettingsInv, TypeOK, Trying, Answering, Phases
  <2> QED
    BY <1>1, <1>2, <1>6, <2>2 DEF SettingsInv, Trying, Iterations, Attempts
<1>7. CASE \E f : Build(f)
  <2>1. phase' = "built" /\ DOMAIN answers' = Keys
    BY <1>7 DEF Build, End
  <2> QED
    BY <2>1, <1>5 DEF Trying, Phases
<1>8. CASE Retry
  <2>1. CASE left.tries = 1
    <3>1. phase' = "failed"
      BY <1>8, <2>1 DEF Retry, WithoutFunction, End
    <3> QED
      BY <3>1, <1>5 DEF Trying, Phases
  <2>2. CASE left.tries # 1
    <3>1. phase' = "mapping" /\ left' = [left EXCEPT !.tries = @ - 1]
      BY <1>8, <2>2 DEF Retry, WithoutFunction, End
    <3>2. left' = [tries |-> left.tries - 1, rounds |-> left.rounds]
      BY <3>1, <1>3
    <3>3. left' \in Attempts(algo) /\ left'.tries = left.tries - 1 /\ left'.rounds = left.rounds
      BY <3>2, <1>3, <2>2 DEF Attempts
    <3>4. PICK d \in 0..(Limit + 2) :
            Measure' = 1 + (Limit + 3) * ((left.tries - 1) + (Limit + 1) * left.rounds) + d
      <4>1. PICK d \in 0..(Limit + 2) :
               Measure' = 1 + (Limit + 3) * (left'.tries + (Limit + 1) * left'.rounds) + d
        <5>1. phase' \in Trying /\ phase' # "searching" /\ left' \in Attempts(algo)
          BY <3>1, <3>3 DEF Trying
        <5> HIDE DEF algo
        <5> QED
          BY <5>1, <1>1, FuelNat, MeasureFuel
      <4> QED
        BY <4>1, <3>3
    <3>5. Shrinks
      BY <3>4, <1>4, <1>3, FuelTry DEF Shrinks
    <3> QED
      BY <3>1, <3>3, <3>5, <1>6
  <2> QED
    BY <2>1, <2>2
<1>9. ASSUME NEW cry, Remap(cry)
      PROVE  SettingsInv' /\ Shrinks
  <2>1. CASE left.rounds = 1
    <3>1. phase' = "failed"
      BY <1>9, <2>1 DEF Remap, WithoutFunction, End
    <3> QED
      BY <3>1, <1>5 DEF Trying, Phases
  <2>2. CASE left.rounds # 1
    <3>1. phase' = "mapping" /\ left' = [tries |-> tries, rounds |-> left.rounds - 1]
      BY <1>9, <2>2 DEF Remap, WithoutFunction, End
    <3>2. left' \in Attempts(algo) /\ left'.tries = tries /\ left'.rounds = left.rounds - 1
      BY <3>1, <1>3, <2>2 DEF Attempts
    <3>3. PICK d \in 0..(Limit + 2) :
            Measure' = 1 + (Limit + 3) * (tries + (Limit + 1) * (left.rounds - 1)) + d
      BY <3>1, <3>2, <1>1, FuelNat, MeasureFuel DEF Trying
    <3>4. Shrinks
      BY <3>3, <1>4, <1>3, FuelRound DEF Shrinks
    <3> QED
      BY <3>1, <3>2, <3>4, <1>6
  <2> QED
    BY <2>1, <2>2
<1>10. CASE Undefined
  <2>1. phase' = "undefined"
    BY <1>10 DEF Undefined, WithoutFunction, End
  <2> QED
    BY <2>1, <1>5 DEF Trying, Phases
<1>11. ASSUME phase = "searching", NEW l, NEW cry, WithoutFunction("searching", l, cry),
              l = [left EXCEPT !.tries = @ - 1], l.tries # 0,
              cry = [h1 |-> carry.h1, table |-> cry.table, collisions |-> 0]
       PROVE  SettingsInv' /\ Shrinks
  <2>1. phase' = "searching" /\ left' = l /\ carry' = cry
    BY <1>11 DEF WithoutFunction, End
  <2>2. l = [tries |-> left.tries - 1, rounds |-> left.rounds]
    BY <1>11, <1>3
  <2>3. l \in Attempts(algo) /\ l.tries = left.tries - 1 /\ l.rounds = left.rounds
    BY <2>2, <1>3, <1>11 DEF Attempts
  <2>4. cry.collisions \in 0..(Capped(iteration_to_generate_h2) - 1)
    BY <1>1, <1>11, CappedPositive
  <2>5. PICK d \in 0..(Limit + 2) :
            Measure' = 1 + (Limit + 3) * ((left.tries - 1) + (Limit + 1) * left.rounds) + d
    BY <2>1, <2>3, <2>4, <1>1, FuelNat, MeasureFuel DEF Trying
  <2>6. Shrinks
    BY <2>5, <1>4, <1>3, FuelTry DEF Shrinks
  <2>7. algo = "fch"
    BY <1>11 DEF SettingsInv
  <2> QED
    BY <2>1, <2>3, <2>4, <2>6, <2>7, <1>6
<1>12. ASSUME phase = "searching", NEW cry, WithoutFunction("searching", left, cry),
              carry.collisions + 1 # Capped(iteration_to_generate_h2),
              cry = [h1 |-> carry.h1, table |-> carry.table, collisions |-> carry.collisions + 1]
       PROVE  SettingsInv' /\ Shrinks
  <2>1. phase' = "searching" /\ left' = left /\ carry' = cry
    BY <1>12 DEF WithoutFunction, End
  <2>2. cry.collisions = carry.collisions + 1
    BY <1>12
  <2>3. /\ carry.collisions \in Nat
        /\ cry.collisions \in 0..(Capped(iteration_to_generate_h2) - 1)
    BY <1>1, <1>12, <2>2, CappedPositive
  <2> DEFINE g == (Limit + 3) * (left.tries + (Limit + 1) * left.rounds)
  <2>4. Measure = 1 + g + (Limit - carry.collisions) /\ Measure' = 1 + g + (Limit - cry.collisions)
    BY <1>12, <2>1, MeasureFuel DEF Fuel, Trying
  <2>5. g \in Nat
    <3> DEFINE q == (Limit + 1) * left.rounds
    <3>1. q \in Nat /\ left.tries \in Nat
      BY <1>3
    <3> HIDE DEF q
    <3>2. (Limit + 3) * (left.tries + q) \in Nat
      BY <3>1, <1>3
    <3> QED
      BY <3>2 DEF q
  <2> HIDE DEF g
  <2>6. Shrinks
    BY <2>2, <2>3, <2>4, <2>5, <1>3 DEF Shrinks
  <2>7. algo = "fch"
    BY <1>12 DEF SettingsInv
  <2> QED
    BY <2>1, <2>3, <2>6, <2>7, <1>1, <1>6
<1> HIDE DEF algo
<1> QED
  BY <1>7, <1>8, <1>9, <1>10, <1>11, <1>12 DEF Outcome

LEMMA InitSettings ==
    ASSUME Init
    PROVE  SettingsInv
<1>1. /\ config = [algo |-> "chm", c |-> <<0, 1>>, data |-> [b |-> 0, keys_per_bin |-> 1]]
      /\ phase = "config"
  BY DEF Init, cmph_config_new, config_new
<1> QED
  BY <1>1 DEF SettingsInv, TypeOK, Settings, Algos, Phases, Answering, Trying

LEMMA ConfigureKeeps ==
    ASSUME SettingsInv, Configure
    PROVE  SettingsInv' /\ Shrinks
<1>1. phase = "config" /\ phase' = "config"
  BY DEF Configure
<1>2. SettingsOK(config)
  BY SettingsSplit
<1>3. SettingsOK(config')
  BY <1>2, SettersKeep DEF Configure
<1>4. SettingsInv'
  <2>1. TypeOK'
    <3>1. config'.algo \in Algos
      BY <1>3 DEF SettingsOK, Settings
    <3> QED
      BY <1>1, <1>3, <3>1 DEF SettingsOK, TypeOK, Phases, Answering
  <2>2. config' \in Settings
    BY <1>3 DEF SettingsOK
  <2> QED
    BY <1>1, <2>1, <2>2 DEF SettingsInv, Trying
<1>5. Shrinks
  BY <1>1 DEF Shrinks, Measure
<1> QED
  BY <1>4, <1>5

\* A construction starts with all its tries and rounds.
LEMMA NewKeeps ==
    ASSUME SettingsInv, cmph_new
    PROVE  SettingsInv' /\ Shrinks
<1>1. /\ phase = "config" /\ phase' \in {"mapping", "failed"} /\ config' = config
      /\ source' \in DOMAIN Sources /\ MadeFor(config, source')
      /\ left' = [tries |-> tries, rounds |-> Capped(Iterations(config.algo)[2])]
  BY DEF cmph_new, MadeFor
<1>2. config.algo \in Algos
  BY DEF SettingsInv, TypeOK
<1>3. /\ tries \in 1..Limit /\ Capped(Iterations(config.algo)[2]) \in 1..Limit
      /\ tries = Capped(Iterations(config.algo)[1]) /\ Limit \in Nat
  BY <1>2, CappedPositive, LimitAssumption DEF tries
<1>4. left' \in Attempts(config.algo) /\ left'.tries >= 1 /\ left'.rounds >= 1
  BY <1>1, <1>3 DEF Attempts
<1>5. TypeOK'
  BY <1>1, <1>4 DEF SettingsInv, TypeOK, Phases, Answering
<1>6. SettingsInv'
  BY <1>1, <1>4, <1>5 DEF SettingsInv, Trying, Attempts, Iterations
<1>7. Shrinks
  BY <1>1 DEF Shrinks, Measure
<1> QED
  BY <1>6, <1>7

\* The steps before an attempt: a hash is drawn, or fch maps.
LEMMA BeginKeeps ==
    ASSUME SettingsInv, Draw \/ FchMapping
    PROVE  SettingsInv' /\ Shrinks
<1>1. /\ phase = "mapping" /\ phase' \in {"drawn", "searching"}
      /\ config' = config /\ source' = source /\ left' = left
      /\ phase' = "drawn" => config.algo # "fch" /\ draw' \in Draws
      /\ phase' = "searching" => config.algo = "fch" /\ carry'.collisions = 0
  BY DEF Draw, FchMapping
<1>2. left \in Attempts(config.algo) /\ config.algo \in Algos
  BY <1>1 DEF SettingsInv, TypeOK, Trying
<1>3. left.tries \in Nat \ {0} /\ left.rounds \in Nat \ {0} /\ Limit \in Nat
  BY <1>2, CappedPositive, LimitAssumption DEF Attempts
<1>4. TypeOK'
  BY <1>1, <1>3 DEF SettingsInv, TypeOK, Phases, Answering
<1>5. 0 \in 0..(Capped(iteration_to_generate_h2) - 1)
  BY <1>2, CappedPositive, LimitAssumption
<1>6. SettingsInv'
  BY <1>1, <1>2, <1>4, <1>5 DEF SettingsInv, Trying, Attempts, Iterations, Draws
<1> DEFINE g == (Limit + 3) * (left.tries + (Limit + 1) * left.rounds)
<1>7. g \in Nat
  <2> DEFINE q == (Limit + 1) * left.rounds
  <2>1. q \in Nat
    BY <1>3
  <2> HIDE DEF q
  <2>2. (Limit + 3) * (left.tries + q) \in Nat
    BY <2>1, <1>3
  <2> QED
    BY <2>2 DEF q
<1>8. /\ Measure = 1 + g + (Limit + 2)
      /\ Measure' = 1 + g + (IF phase' = "drawn" THEN Limit + 1 ELSE Limit - carry'.collisions)
  BY <1>1, MeasureFuel DEF Fuel, Trying
<1> HIDE DEF g
<1>9. Shrinks
  BY <1>1, <1>3, <1>7, <1>8 DEF Shrinks
<1> QED
  BY <1>6, <1>9

\* The life of a function that was built.
LEMMA FunctionKeeps ==
    ASSUME SettingsInv, Dump \/ Load \/ Pack
    PROVE  SettingsInv' /\ Shrinks
<1>1. /\ phase \in {"built", "dumped", "loaded"} /\ phase' \in {"dumped", "loaded", "packed"}
      /\ config' = config /\ source' = source
  BY DEF Dump, Load, Pack
<1>2. phase' \in {"loaded", "packed"} => DOMAIN answers' = Keys
  BY DEF Dump, Load, Pack
<1>3. Keys' = Keys
  BY <1>1 DEF Keys, keys
<1>4. TypeOK'
  BY <1>1, <1>2, <1>3 DEF SettingsInv, TypeOK, Phases, Answering
<1>5. SettingsInv'
  BY <1>1, <1>4 DEF SettingsInv, Trying
<1>6. Shrinks
  BY <1>1 DEF Shrinks, Measure
<1> QED
  BY <1>5, <1>6

LEMMA StutterKeeps ==
    ASSUME SettingsInv, UNCHANGED vars
    PROVE  SettingsInv'
BY DEF SettingsInv, TypeOK, Attempts, Iterations, Trying, Draws, Answering, Keys, keys, vars

LEMMA NextKeeps ==
    ASSUME SettingsInv, Next
    PROVE  SettingsInv' /\ Shrinks
<1>1. CASE Configure
  BY <1>1, ConfigureKeeps
<1>2. CASE cmph_new
  BY <1>2, NewKeeps
<1>3. CASE Draw \/ FchMapping
  BY <1>3, BeginKeeps
<1>4. CASE ChmAttempt \/ BmzAttempt \/ Bmz8Attempt \/ BdzAttempt \/ BdzPhAttempt \/ ChdAttempt
  <2>1. Outcome
    BY <1>4, AttemptOutcomes
  <2>2. phase \in Trying
    BY <1>4 DEF ChmAttempt, BmzAttempt, Bmz8Attempt, BdzAttempt, BdzPhAttempt, ChdAttempt, Trying
  <2> QED
    BY <2>1, <2>2, OutcomeKeeps
<1>5. CASE FchSearch
  <2>1. phase \in Trying
    BY <1>5 DEF FchSearch, Trying
  <2> QED
    BY <1>5, <2>1, SearchOutcomes, OutcomeKeeps
<1>6. CASE Dump \/ Load \/ Pack
  BY <1>6, FunctionKeeps
<1>7. CASE Done
  <2>1. UNCHANGED vars /\ phase \in {"packed", "failed", "undefined"}
    BY <1>7 DEF Done
  <2>2. Measure' = 0
    BY <2>1 DEF Measure, vars
  <2> QED
    BY <2>1, <2>2, StutterKeeps DEF Shrinks
<1> QED
  BY <1>1, <1>2, <1>3, <1>4, <1>5, <1>6, <1>7 DEF Next, Construction

\* Whatever order the setters are called in, every phase finds a source that
\* the configuration is for, and as many attempts left as it needs.
THEOREM SettingsInvariant == Spec => []SettingsInv
<1>1. Init => SettingsInv
  BY InitSettings
<1>2. SettingsInv /\ [Next]_vars => SettingsInv'
  BY NextKeeps, StutterKeeps
<1> QED
  BY <1>1, <1>2, PTL DEF Spec

\* Settings stay within the ranges that the setters and the defaults promise
\* in whatever order the calls come, attempts are left as long as another one
\* is made, and every key of a function that answers has an answer.
THEOREM TypeCorrect == Spec => []TypeOK
<1>1. SettingsInv => TypeOK
  BY DEF SettingsInv
<1> QED
  BY <1>1, SettingsInvariant, PTL

\* Every construction comes to an end, whatever is drawn: the loops of
\* attempts of the eight algorithms, the restarts of the mappings of bmz and
\* the rounds of fch use up a number that is never topped up.
THEOREM ConstructionsEnd == Spec => Terminates
<1>1. SettingsInv /\ [Next]_vars => [(Measure > 0) => (Measure' < Measure)]_vars
  BY NextKeeps DEF Shrinks
<1> QED
  BY <1>1, SettingsInvariant, PTL DEF Spec, Terminates

-----------------------------------------------------------------------------
(***************************************************************************)
(* Files and packed blocks.                                                *)
(***************************************************************************)
\* Fields start one after the other, as long as the sizes are numbers.
LEMMA FieldStartsFacts ==
    ASSUME NEW T, NEW f \in Seq(T), NEW r \in 0..Len(f), \A i \in 1..r : f[i][1] \in Nat
    PROVE  /\ FieldStarts(f)[1] = 0
           /\ \A i \in 1..Len(f) : FieldStarts(f)[i + 1] = FieldStarts(f)[i] + f[i][1]
           /\ \A i \in 1..(r + 1) : FieldStarts(f)[i] \in Nat
<1> DEFINE n == Len(f)
           start == CHOOSE g : g = [i \in 1..(n + 1) |-> IF i = 1 THEN 0 ELSE g[i - 1] + f[i - 1][1]]
           Good(x, g) == g[1] = 0 /\ \A i \in 1..x : g[i + 1] = g[i] + f[i][1]
<1>1. n \in Nat
  BY LenProperties
<1>2. FieldStarts(f) = start
  BY DEF FieldStarts
<1>3. \E g : Good(n, g)
  <2> DEFINE P == {x \in 0..n : \E g : Good(x, g)}
  <2>1. 0 \in P
    <3>1. [i \in 1..1 |-> 0][1] = 0 /\ \A i \in 1..0 : FALSE
      OBVIOUS
    <3>2. \E g : Good(0, g)
      BY <3>1
    <3> QED
      BY <1>1, <3>2
  <2>2. ASSUME NEW x \in 1..n, x - 1 \in P PROVE x \in P
    <3>1. PICK g : Good(x - 1, g)
      BY <2>2
    <3> DEFINE new == g[x] + f[x][1]
               h == [i \in 1..(x + 1) |-> IF i = x + 1 THEN new ELSE g[i]]
    <3>2. h[1] = 0 /\ h[x + 1] = new /\ \A i \in 1..x : h[i] = g[i]
      <4>1. 1 \in 1..(x + 1) /\ 1 # x + 1 /\ x + 1 \in 1..(x + 1)
            /\ \A i \in 1..x : i \in 1..(x + 1) /\ i # x + 1
        OBVIOUS
      <4> HIDE DEF new
      <4> QED
        BY <3>1, <4>1
    <3> HIDE DEF h
    <3>3. ASSUME NEW i \in 1..x PROVE h[i + 1] = h[i] + f[i][1]
      <4>1. CASE i = x
        BY <4>1, <3>2
      <4>2. CASE i # x
        <5>1. i \in 1..(x - 1) /\ i + 1 \in 1..x
          BY <4>2
        <5> QED
          BY <5>1, <3>1, <3>2
      <4> QED
        BY <4>1, <4>2
    <3> QED
      BY <3>2, <3>3
  <2> HIDE DEF P
  <2>3. n \in P
    <3>1. 0..n \subseteq P
      <4> HIDE DEF n
      <4> QED
        BY <1>1, <2>1, <2>2, Induction
    <3> QED
      BY <1>1, <3>1
  <2> QED
    BY <2>3 DEF P
<1>4. PICK q : Good(n, q)
  BY <1>3
<1> DEFINE e == [i \in 1..(n + 1) |-> q[i]]
<1>5. e = [i \in 1..(n + 1) |-> IF i = 1 THEN 0 ELSE e[i - 1] + f[i - 1][1]]
  <2>1. ASSUME NEW i \in 1..(n + 1)
        PROVE  e[i] = IF i = 1 THEN 0 ELSE e[i - 1] + f[i - 1][1]
    <3>1. CASE i = 1
      BY <3>1, <1>4
    <3>2. CASE i # 1
      <4>1. i - 1 \in 1..n /\ i - 1 \in 1..(n + 1) /\ (i - 1) + 1 = i
        BY <3>2, <1>1
      <4>2. q[(i - 1) + 1] = q[i - 1] + f[i - 1][1]
        BY <4>1, <1>4
      <4> QED
        BY <3>2, <4>1, <4>2
    <3> QED
      BY <3>1, <3>2
  <2>2. e = [i \in 1..(n + 1) |-> e[i]]
    OBVIOUS
  <2> HIDE DEF e
  <2> QED
    BY <2>1, <2>2
<1> HIDE DEF e
<1>6. start = [i \in 1..(n + 1) |-> IF i = 1 THEN 0 ELSE start[i - 1] + f[i - 1][1]]
  BY <1>5
<1> HIDE DEF start
<1>7. start[1] = 0 /\ \A i \in 1..n : start[i + 1] = start[i] + f[i][1]
  <2>1. \A i \in 1..n : i + 1 \in 1..(n + 1) /\ i + 1 # 1 /\ (i + 1) - 1 = i
    BY <1>1
  <2>2. 1 \in 1..(n + 1)
    BY <1>1
  <2> QED
    BY <1>6, <2>1, <2>2
<1>8. 0..r \subseteq {i \in 0..r : start[i + 1] \in Nat}
  <2> DEFINE P == {i \in 0..r : start[i + 1] \in Nat}
  <2>1. 0 \in P /\ r \in Nat
    BY <1>1, <1>7
  <2>2. ASSUME NEW i \in 1..r, i - 1 \in P PROVE i \in P
    <3>1. start[(i - 1) + 1] \in Nat /\ (i - 1) + 1 = i
      BY <2>2, <1>1
    <3>2. i \in 1..n /\ f[i][1] \in Nat
      BY <1>1
    <3>3. start[i + 1] \in Nat
      BY <3>1, <3>2, <1>7
    <3> QED
      BY <3>3, <1>1
  <2> HIDE DEF P
  <2>3. 0..r \subseteq P
    BY <2>1, <2>2, Induction
  <2> QED
    BY <2>3 DEF P
<1>9. ASSUME NEW i \in 1..(r + 1) PROVE start[i] \in Nat
  <2>1. i - 1 \in 0..r /\ (i - 1) + 1 = i
    BY <1>1
  <2> QED
    BY <2>1, <1>8
<1> QED
  BY <1>2, <1>7, <1>9 DEF n

\* A field is found where it starts when all fields before it have bytes.
LEMMA FieldAt ==
    ASSUME NEW T, NEW f \in Seq(T), NEW i \in 1..Len(f),
           \A j \in 1..(i - 1) : f[j][1] \in Nat /\ f[j][1] >= 1
    PROVE  At(f, FieldStarts(f)[i]) = f[i][2]
<1> DEFINE s == FieldStarts(f)
           n == Len(f)
           here == {j \in DOMAIN f : s[j] = s[i]}
<1>1. n \in Nat /\ DOMAIN f = 1..n /\ i - 1 \in 0..n /\ (i - 1) + 1 = i
  BY LenProperties
<1>2. (\A j \in 1..i : s[j] \in Nat) /\ \A j \in 1..n : s[j + 1] = s[j] + f[j][1]
  BY <1>1, FieldStartsFacts
<1> HIDE DEF s
<1>3. ASSUME NEW j \in 1..(i - 1) PROVE s[j] < s[i]
  <2> DEFINE P == {x \in 0..(i - 1 - j) : x = 0 \/ s[j] < s[j + x]}
  <2>1. 0 \in P
    BY <1>1
  <2>2. ASSUME NEW x \in 1..(i - 1 - j), x - 1 \in P PROVE x \in P
    <3>1. j + (x - 1) \in 1..(i - 1) /\ j + (x - 1) \in 1..n /\ (j + (x - 1)) + 1 = j + x
          /\ j + x \in 1..i /\ j \in 1..i /\ j + (x - 1) \in 1..i
      BY <1>1
    <3>2. s[j + x] = s[j + (x - 1)] + f[j + (x - 1)][1] /\ f[j + (x - 1)][1] >= 1
          /\ f[j + (x - 1)][1] \in Nat
      BY <1>2, <3>1
    <3>3. s[j] \in Nat /\ s[j + (x - 1)] \in Nat
      BY <1>2, <3>1
    <3>4. s[j] <= s[j + (x - 1)]
      <4>1. CASE x - 1 = 0
        <5>1. j + (x - 1) = j
          BY <4>1
        <5> QED
          BY <5>1, <3>3
      <4>2. CASE x - 1 # 0
        BY <4>2, <2>2, <3>3
      <4> QED
        BY <4>1, <4>2
    <3> QED
      BY <3>2, <3>3, <3>4
  <2>3. i - 1 - j \in Nat /\ i - 1 - j \in 0..(i - 1 - j)
    BY <1>1
  <2> HIDE DEF P
  <2>4. 0..(i - 1 - j) \subseteq P
    BY <2>1, <2>2, <2>3, Induction
  <2>5. j + (i - 1 - j) = i - 1 /\ i - 1 \in 1..n /\ (i - 1) + 1 = i /\ i - 1 \in 1..(i - 1)
    BY <1>1
  <2>6. s[j] <= s[i - 1]
    <3>1. i - 1 - j \in P
      BY <2>3, <2>4
    <3>2. i - 1 - j = 0 \/ s[j] < s[i - 1]
      BY <3>1, <2>5 DEF P
    <3>3. j \in 1..i /\ i - 1 \in 1..i
      BY <1>1
    <3> QED
      <4>1. s[j] \in Nat /\ s[i - 1] \in Nat
        BY <3>3, <1>2
      <4>2. CASE i - 1 - j = 0
        <5>1. j = i - 1
          BY <4>2, <1>1
        <5> QED
          BY <4>1, <5>1
      <4>3. CASE s[j] < s[i - 1]
        BY <4>1, <4>3
      <4> QED
        BY <3>2, <4>2, <4>3
  <2>7. s[i] = s[i - 1] + f[i - 1][1] /\ f[i - 1][1] >= 1 /\ f[i - 1][1] \in Nat
    BY <1>2, <2>5
  <2>8. s[j] \in Nat /\ s[i - 1] \in Nat
    <3>1. j \in 1..i /\ i - 1 \in 1..i
      BY <1>1
    <3> QED
      BY <3>1, <1>2
  <2> QED
    BY <2>6, <2>7, <2>8
<1>4. \A j \in DOMAIN f : Offset(f, j) = s[j]
  BY DEF Offset, s
<1>5. i \in here /\ here \subseteq Nat /\ \A j \in here : i <= j
  <2>1. ASSUME NEW j \in here PROVE i <= j
    <3>1. j \in 1..n
      BY <1>1
    <3>2. CASE j < i
      <4>1. j \in 1..(i - 1) /\ s[j] = s[i]
        BY <3>1, <3>2
      <4>2. s[j] < s[i] /\ s[i] \in Nat
        <5>1. i \in 1..i
          BY <1>1
        <5> QED
          BY <4>1, <5>1, <1>2, <1>3
      <4> QED
        BY <4>1, <4>2
    <3> QED
      BY <3>1, <3>2
  <2> QED
    BY <1>1, <2>1
<1>6. Min(here) = i
  <2> HIDE DEF here
  <2>1. Min(here) \in here /\ \A y \in here : Min(here) <= y
    BY <1>5 DEF Min
  <2>2. Min(here) <= i /\ i <= Min(here) /\ Min(here) \in Nat /\ i \in Nat
    BY <1>5, <2>1
  <2> QED
    BY <2>2
<1>7. {j \in DOMAIN f : Offset(f, j) = s[i]} = here
  BY <1>4
<1>8. \E j \in DOMAIN f : Offset(f, j) = s[i]
  BY <1>4, <1>5
<1> HIDE DEF here
<1>9. At(f, s[i]) = f[i][2]
  BY <1>6, <1>7, <1>8 DEF At
<1> QED
  BY <1>9 DEF s

\* The fields of a sequence, all but the last of which have bytes.
LEMMA FieldsAt ==
    ASSUME NEW T, NEW f \in Seq(T),
           \A j \in 1..(Len(f) - 1) : f[j][1] \in Nat /\ f[j][1] >= 1
    PROVE  /\ FieldStarts(f)[1] = 0
           /\ \A i \in 1..Len(f) : FieldStarts(f)[i + 1] = FieldStarts(f)[i] + f[i][1]
           /\ \A i \in 1..Len(f) : At(f, FieldStarts(f)[i]) = f[i][2]
<1>1. Len(f) \in Nat
  BY LenProperties
<1>2. \A i \in 1..Len(f) : At(f, FieldStarts(f)[i]) = f[i][2]
  <2> TAKE i \in 1..Len(f)
  <2>1. \A j \in 1..(i - 1) : f[j][1] \in Nat /\ f[j][1] >= 1
    BY <1>1
  <2> QED
    BY <2>1, FieldAt
<1>3. 0 \in 0..Len(f) /\ \A i \in 1..0 : f[i][1] \in Nat
  BY <1>1
<1> QED
  BY <1>2, <1>3, FieldStartsFacts

\* What a function of chm, bmz or bmz8 keeps.
GraphData(d) ==
    /\ d = [hashes |-> d.hashes, n |-> d.n, m |-> d.m, g |-> d.g]
    /\ d.hashes = [i \in 1..2 |-> d.hashes[i]]

LEMMA ChmLoaded ==
    ASSUME NEW d, GraphData(d)
    PROVE  chm_load(chm_dump(d)) = d
<1> DEFINE f == chm_dump(d)
<1>1. /\ f[1] = U32(2) /\ f[3] = <<12, d.hashes[1]>> /\ f[5] = <<12, d.hashes[2]>>
      /\ f[6] = U32(d.n) /\ f[7] = U32(d.m) /\ f[8] = Array(4, d.g)
  BY DEF chm_dump, hash_state_dump
<1> HIDE DEF f
<1>2. [i \in 1..f[1][2] |-> hash_state_load(f, 2 * i)] = d.hashes
  BY <1>1 DEF hash_state_load, U32, GraphData
<1>3. chm_load(f) = [hashes |-> d.hashes, n |-> d.n, m |-> d.m, g |-> d.g]
  BY <1>1, <1>2 DEF chm_load, U32, Array
<1> QED
  BY <1>3 DEF f, GraphData

LEMMA ChmPacked ==
    ASSUME NEW d, GraphData(d), NEW x
    PROVE  chm_search_packed(chm_pack(d), x) = chm_search(d, x)
<1> DEFINE p == chm_pack(d)
           T == {U32("jenkins"), <<4, d.hashes[1]>>, <<4, d.hashes[2]>>, U32(d.n), U32(d.m), Array(4, d.g)}
           s == FieldStarts(p)
<1>1. /\ Len(p) = 7 /\ p \in Seq(T)
      /\ p[1] = U32("jenkins") /\ p[2] = <<4, d.hashes[1]>> /\ p[3] = U32("jenkins")
      /\ p[4] = <<4, d.hashes[2]>> /\ p[5] = U32(d.n) /\ p[6] = U32(d.m)
      /\ p[7] = Array(4, d.g)
  BY DEF chm_pack, hash_state_pack, hash_state_packed_size
<1> HIDE DEF T
<1>2. p = chm_pack(d)
  OBVIOUS
<1> HIDE DEF p
<1>3. /\ \A i \in 1..4 : p[i][1] = 4
      /\ p[5][1] = 4
      /\ p[6][1] = 4
  BY <1>1 DEF U32, Array, GraphData
<1>4. \A j \in 1..(Len(p) - 1) : p[j][1] \in Nat /\ p[j][1] >= 1
  BY <1>1, <1>3
<1>5. /\ s[1] = 0 /\ \A i \in 1..7 : s[i + 1] = s[i] + p[i][1]
      /\ \A i \in 1..7 : At(p, s[i]) = p[i][2]
  BY <1>1, <1>4, FieldsAt
<1> HIDE DEF s
<1>6. s[2] = 4 /\ s[3] = 8 /\ s[4] = 12 /\ s[5] = 16 /\ s[6] = 20 /\ s[7] = 24
  <2>1. s[2] = s[1] + 4 /\ s[3] = s[2] + 4 /\ s[4] = s[3] + 4 /\ s[5] = s[4] + 4 /\ s[6] = s[5] + 4
        /\ s[7] = s[6] + 4
    BY <1>3, <1>5
  <2> QED
    BY <2>1, <1>5
<1>7. /\ At(p, 4) = d.hashes[1] /\ At(p, 12) = d.hashes[2] /\ At(p, 16) = d.n
      /\ At(p, 20) = d.m /\ At(p, 24) = d.g
  BY <1>1, <1>5, <1>6 DEF U32, Array
<1>8. /\ At(p, 4) = d.hashes[1] /\ At(p, 4 + hash_state_packed_size + 4) = d.hashes[2]
      /\ At(p, 4 + hash_state_packed_size + 4 + hash_state_packed_size) = d.n
      /\ At(p, 4 + hash_state_packed_size + 4 + hash_state_packed_size + 4) = d.m
      /\ At(p, 4 + hash_state_packed_size + 4 + hash_state_packed_size + 8) = d.g
  BY <1>7 DEF hash_state_packed_size
<1>9. chm_ends(<<d.hashes[1], d.hashes[2]>>, x, d.n) = chm_ends(d.hashes, x, d.n)
  BY DEF chm_ends
<1>10. chm_search_packed(p, x) = chm_search(d, x)
  BY <1>8, <1>9, Zenon DEF chm_search_packed, chm_search
<1> QED
  BY <1>2, <1>10

LEMMA BmzLoaded ==
    ASSUME NEW d, GraphData(d)
    PROVE  bmz_load(bmz_dump(d)) = d
<1> DEFINE f == bmz_dump(d)
<1>1. /\ f[1] = U32(2) /\ f[3] = <<12, d.hashes[1]>> /\ f[5] = <<12, d.hashes[2]>>
      /\ f[6] = U32(d.n) /\ f[7] = U32(d.m) /\ f[8] = Array(4, d.g)
  BY DEF bmz_dump, hash_state_dump
<1> HIDE DEF f
<1>2. [i \in 1..f[1][2] |-> hash_state_load(f, 2 * i)] = d.hashes
  BY <1>1 DEF hash_state_load, U32, GraphData
<1>3. bmz_load(f) = [hashes |-> d.hashes, n |-> d.n, m |-> d.m, g |-> d.g]
  BY <1>1, <1>2 DEF bmz_load, U32, Array
<1> QED
  BY <1>3 DEF f, GraphData

LEMMA BmzPacked ==
    ASSUME NEW d, GraphData(d), NEW x
    PROVE  bmz_search_packed(bmz_pack(d), x) = bmz_search(d, x)
<1> DEFINE p == bmz_pack(d)
           T == {U32("jenkins"), <<4, d.hashes[1]>>, <<4, d.hashes[2]>>, U32(d.n), Array(4, d.g)}
           s == FieldStarts(p)
<1>1. /\ Len(p) = 6 /\ p \in Seq(T)
      /\ p[1] = U32("jenkins") /\ p[2] = <<4, d.hashes[1]>> /\ p[3] = U32("jenkins")
      /\ p[4] = <<4, d.hashes[2]>> /\ p[5] = U32(d.n)
      /\ p[6] = Array(4, d.g)
  BY DEF bmz_pack, hash_state_pack, hash_state_packed_size
<1> HIDE DEF T
<1>2. p = bmz_pack(d)
  OBVIOUS
<1> HIDE DEF p
<1>3. /\ \A i \in 1..4 : p[i][1] = 4
      /\ p[5][1] = 4
  BY <1>1 DEF U32, Array, GraphData
<1>4. \A j \in 1..(Len(p) - 1) : p[j][1] \in Nat /\ p[j][1] >= 1
  BY <1>1, <1>3
<1>5. /\ s[1] = 0 /\ \A i \in 1..6 : s[i + 1] = s[i] + p[i][1]
      /\ \A i \in 1..6 : At(p, s[i]) = p[i][2]
  BY <1>1, <1>4, FieldsAt
<1> HIDE DEF s
<1>6. s[2] = 4 /\ s[3] = 8 /\ s[4] = 12 /\ s[5] = 16 /\ s[6] = 20
  <2>1. s[2] = s[1] + 4 /\ s[3] = s[2] + 4 /\ s[4] = s[3] + 4 /\ s[5] = s[4] + 4 /\ s[6] = s[5] + 4
    BY <1>3, <1>5
  <2> QED
    BY <2>1, <1>5
<1>7. /\ At(p, 4) = d.hashes[1] /\ At(p, 12) = d.hashes[2] /\ At(p, 16) = d.n
      /\ At(p, 20) = d.g
  BY <1>1, <1>5, <1>6 DEF U32, Array
<1>8. /\ At(p, 4) = d.hashes[1] /\ At(p, 4 + hash_state_packed_size + 4) = d.hashes[2]
      /\ At(p, 4 + hash_state_packed_size + 4 + hash_state_packed_size) = d.n
      /\ At(p, 4 + hash_state_packed_size + 4 + hash_state_packed_size + 4) = d.g
  BY <1>7 DEF hash_state_packed_size
<1>9. SearchEnds(<<d.hashes[1], d.hashes[2]>>, x, d.n) = SearchEnds(d.hashes, x, d.n)
  BY DEF SearchEnds
<1>10. bmz_search_packed(p, x) = bmz_search(d, x)
  BY <1>8, <1>9, Zenon DEF bmz_search_packed, bmz_search
<1> QED
  BY <1>2, <1>10

LEMMA Bmz8Loaded ==
    ASSUME NEW d, GraphData(d)
    PROVE  bmz8_load(bmz8_dump(d)) = d
<1> DEFINE f == bmz8_dump(d)
<1>1. /\ f[1] = U8(2) /\ f[3] = <<12, d.hashes[1]>> /\ f[5] = <<12, d.hashes[2]>>
      /\ f[6] = U8(d.n) /\ f[7] = U8(d.m) /\ f[8] = Array(1, d.g)
  BY DEF bmz8_dump, hash_state_dump
<1> HIDE DEF f
<1>2. [i \in 1..f[1][2] |-> hash_state_load(f, 2 * i)] = d.hashes
  BY <1>1 DEF hash_state_load, U8, GraphData
<1>3. bmz8_load(f) = [hashes |-> d.hashes, n |-> d.n, m |-> d.m, g |-> d.g]
  BY <1>1, <1>2 DEF bmz8_load, U8, Array
<1> QED
  BY <1>3 DEF f, GraphData

LEMMA Bmz8Packed ==
    ASSUME NEW d, GraphData(d), NEW x
    PROVE  bmz8_search_packed(bmz8_pack(d), x) = bmz8_search(d, x)
<1> DEFINE p == bmz8_pack(d)
           T == {U32("jenkins"), <<4, d.hashes[1]>>, <<4, d.hashes[2]>>, U8(d.n), Array(1, d.g)}
           s == FieldStarts(p)
<1>1. /\ Len(p) = 6 /\ p \in Seq(T)
      /\ p[1] = U32("jenkins") /\ p[2] = <<4, d.hashes[1]>> /\ p[3] = U32("jenkins")
      /\ p[4] = <<4, d.hashes[2]>> /\ p[5] = U8(d.n)
      /\ p[6] = Array(1, d.g)
  BY DEF bmz8_pack, hash_state_pack, hash_state_packed_size
<1> HIDE DEF T
<1>2. p = bmz8_pack(d)
  OBVIOUS
<1> HIDE DEF p
<1>3. /\ \A i \in 1..4 : p[i][1] = 4
      /\ p[5][1] = 1
  BY <1>1 DEF U32, U8, Array, GraphData
<1>4. \A j \in 1..(Len(p) - 1) : p[j][1] \in Nat /\ p[j][1] >= 1
  BY <1>1, <1>3
<1>5. /\ s[1] = 0 /\ \A i \in 1..6 : s[i + 1] = s[i] + p[i][1]
      /\ \A i \in 1..6 : At(p, s[i]) = p[i][2]
  BY <1>1, <1>4, FieldsAt
<1> HIDE DEF s
<1>6. s[2] = 4 /\ s[3] = 8 /\ s[4] = 12 /\ s[5] = 16 /\ s[6] = 17
  <2>1. s[2] = s[1] + 4 /\ s[3] = s[2] + 4 /\ s[4] = s[3] + 4 /\ s[5] = s[4] + 4 /\ s[6] = s[5] + 1
    BY <1>3, <1>5
  <2> QED
    BY <2>1, <1>5
<1>7. /\ At(p, 4) = d.hashes[1] /\ At(p, 12) = d.hashes[2] /\ At(p, 16) = d.n
      /\ At(p, 17) = d.g
  BY <1>1, <1>5, <1>6 DEF U32, U8, Array
<1>8. /\ At(p, 4) = d.hashes[1] /\ At(p, 4 + hash_state_packed_size + 4) = d.hashes[2]
      /\ At(p, 4 + hash_state_packed_size + 4 + hash_state_packed_size) = d.n
      /\ At(p, 4 + hash_state_packed_size + 4 + hash_state_packed_size + 1) = d.g
  BY <1>7 DEF hash_state_packed_size
<1>9. SearchEnds(<<d.hashes[1], d.hashes[2]>>, x, d.n) = SearchEnds(d.hashes, x, d.n)
  BY DEF SearchEnds
<1>10. bmz8_search_packed(p, x) = bmz8_search(d, x)
  BY <1>8, <1>9, Zenon DEF bmz8_search_packed, bmz8_search
<1> QED
  BY <1>2, <1>10

\* What a function of fch keeps.
FchData(d) ==
    /\ d = [h1 |-> d.h1, h2 |-> d.h2, m |-> d.m, c |-> d.c, b |-> d.b, p1 |-> d.p1, p2 |-> d.p2,
            g |-> d.g]

LEMMA FchLoaded ==
    ASSUME NEW d, FchData(d)
    PROVE  fch_load(fch_dump(d)) = d
<1> DEFINE f == fch_dump(d)
<1>1. /\ f[2] = <<12, d.h1>> /\ f[4] = <<12, d.h2>> /\ f[5] = U32(d.m) /\ f[6] = Double(d.c)
      /\ f[7] = U32(d.b) /\ f[8] = Double(d.p1) /\ f[9] = Double(d.p2) /\ f[10] = Array(4, d.g)
  BY DEF fch_dump, hash_state_dump
<1> HIDE DEF f
<1>2. fch_load(f) = [h1 |-> d.h1, h2 |-> d.h2, m |-> d.m, c |-> d.c, b |-> d.b, p1 |-> d.p1,
                     p2 |-> d.p2, g |-> d.g]
  BY <1>1 DEF fch_load, hash_state_load, U32, Double, Array
<1> QED
  BY <1>2 DEF f, FchData

LEMMA FchPacked ==
    ASSUME NEW d, FchData(d), NEW x
    PROVE  fch_search_packed(fch_pack(d), x) = fch_search(d, x)
<1> DEFINE p == fch_pack(d)
           T == {U32("jenkins"), <<4, d.h1>>, <<4, d.h2>>, U32(d.m), U32(d.b), Double(d.p1),
                 Double(d.p2), Array(4, d.g)}
           s == FieldStarts(p)
<1>1. /\ Len(p) = 9 /\ p \in Seq(T)
      /\ p[1] = U32("jenkins") /\ p[2] = <<4, d.h1>> /\ p[3] = U32("jenkins")
      /\ p[4] = <<4, d.h2>> /\ p[5] = U32(d.m) /\ p[6] = U32(d.b)
      /\ p[7] = Double(d.p1) /\ p[8] = Double(d.p2) /\ p[9] = Array(4, d.g)
  BY DEF fch_pack, hash_state_pack, hash_state_packed_size
<1> HIDE DEF T
<1>2. p = fch_pack(d)
  OBVIOUS
<1> HIDE DEF p
<1>3. /\ \A i \in 1..6 : p[i][1] = 4
      /\ p[7][1] = 8 /\ p[8][1] = 8
  BY <1>1 DEF U32, Double, Array, FchData
<1>4. \A j \in 1..(Len(p) - 1) : p[j][1] \in Nat /\ p[j][1] >= 1
  BY <1>1, <1>3
<1>5. /\ s[1] = 0 /\ \A i \in 1..9 : s[i + 1] = s[i] + p[i][1]
      /\ \A i \in 1..9 : At(p, s[i]) = p[i][2]
  BY <1>1, <1>4, FieldsAt
<1> HIDE DEF s
<1>6. /\ s[2] = 4 /\ s[3] = 8 /\ s[4] = 12 /\ s[5] = 16 /\ s[6] = 20 /\ s[7] = 24
      /\ s[8] = 32 /\ s[9] = 40
  <2>1. /\ s[2] = s[1] + 4 /\ s[3] = s[2] + 4 /\ s[4] = s[3] + 4 /\ s[5] = s[4] + 4
        /\ s[6] = s[5] + 4 /\ s[7] = s[6] + 4 /\ s[8] = s[7] + 8 /\ s[9] = s[8] + 8
    BY <1>3, <1>5
  <2> QED
    BY <2>1, <1>5
<1>7. /\ At(p, 4) = d.h1 /\ At(p, 12) = d.h2 /\ At(p, 16) = d.m /\ At(p, 20) = d.b
      /\ At(p, 24) = d.p1 /\ At(p, 32) = d.p2 /\ At(p, 40) = d.g
  BY <1>1, <1>5, <1>6 DEF U32, Double, Array
<1> DEFINE g_ptr == 4 + hash_state_packed_size + 4 + hash_state_packed_size
<1>8. /\ At(p, 4) = d.h1 /\ At(p, 4 + hash_state_packed_size + 4) = d.h2
      /\ At(p, g_ptr) = d.m /\ At(p, g_ptr + 4) = d.b /\ At(p, g_ptr + 8) = d.p1
      /\ At(p, g_ptr + 16) = d.p2 /\ At(p, g_ptr + 24) = d.g
  BY <1>7 DEF hash_state_packed_size
<1>9. fch_search_packed(p, x)
        = fch_search([h1 |-> d.h1, h2 |-> d.h2, m |-> d.m, b |-> d.b, p1 |-> d.p1, p2 |-> d.p2,
                      g |-> d.g], x)
  BY <1>8, Zenon DEF fch_search_packed
<1>10. fch_search([h1 |-> d.h1, h2 |-> d.h2, m |-> d.m, b |-> d.b, p1 |-> d.p1, p2 |-> d.p2,
                   g |-> d.g], x) = fch_search(d, x)
  BY DEF fch_search
<1> QED
  BY <1>2, <1>9, <1>10

\* What a function of bdz keeps.
BdzData(d) ==
    /\ d = [hl |-> d.hl, m |-> d.m, n |-> d.n, r |-> d.r, g |-> d.g, k |-> d.k, b |-> d.b,
            ranktablesize |-> d.ranktablesize, ranktable |-> d.ranktable]
    /\ d.ranktablesize \in Nat \ {0} /\ Cardinality(DOMAIN d.ranktable) = d.ranktablesize

LEMMA BdzLoaded ==
    ASSUME NEW d, BdzData(d)
    PROVE  bdz_load(bdz_dump(d)) = d
<1> DEFINE f == bdz_dump(d)
<1>1. /\ f[2] = <<12, d.hl>> /\ f[3] = U32(d.n) /\ f[4] = U32(d.m) /\ f[5] = U32(d.r)
      /\ f[6] = Quarters(d.g) /\ f[7] = U32(d.k) /\ f[8] = U8(d.b) /\ f[9] = U32(d.ranktablesize)
      /\ f[10] = Array(4, d.ranktable)
  BY DEF bdz_dump, hash_state_dump
<1> HIDE DEF f
<1>2. bdz_load(f) = [hl |-> d.hl, m |-> d.m, n |-> d.n, r |-> d.r, g |-> d.g, k |-> d.k, b |-> d.b,
                     ranktablesize |-> d.ranktablesize, ranktable |-> d.ranktable]
  BY <1>1 DEF bdz_load, hash_state_load, U32, U8, Quarters, Array
<1> QED
  BY <1>2 DEF f, BdzData

LEMMA BdzPacked ==
    ASSUME NEW d, BdzData(d), NEW x
    PROVE  bdz_search_packed(bdz_pack(d), x) = bdz_search(d, x)
<1> DEFINE p == bdz_pack(d)
           T == {U32("jenkins"), <<4, d.hl>>, U32(d.r), U32(d.ranktablesize), Array(4, d.ranktable),
                 U8(d.b), Quarters(d.g)}
           s == FieldStarts(p)
           t == d.ranktablesize
<1>1. /\ Len(p) = 7 /\ p \in Seq(T)
      /\ p[1] = U32("jenkins") /\ p[2] = <<4, d.hl>> /\ p[3] = U32(d.r) /\ p[4] = U32(t)
      /\ p[5] = Array(4, d.ranktable) /\ p[6] = U8(d.b) /\ p[7] = Quarters(d.g)
  BY DEF bdz_pack, hash_state_pack, hash_state_packed_size
<1> HIDE DEF T
<1>2. p = bdz_pack(d)
  OBVIOUS
<1> HIDE DEF p
<1>3. /\ \A i \in 1..4 : p[i][1] = 4
      /\ p[5][1] = 4 * t /\ p[6][1] = 1
      /\ t \in Nat \ {0}
  BY <1>1 DEF U32, U8, Quarters, Array, BdzData
<1> HIDE DEF t
<1>4. \A j \in 1..(Len(p) - 1) : p[j][1] \in Nat /\ p[j][1] >= 1
  BY <1>1, <1>3
<1>5. /\ s[1] = 0 /\ \A i \in 1..7 : s[i + 1] = s[i] + p[i][1]
      /\ \A i \in 1..7 : At(p, s[i]) = p[i][2]
  BY <1>1, <1>4, FieldsAt
<1> HIDE DEF s
<1>6. /\ s[2] = 4 /\ s[3] = 8 /\ s[4] = 12 /\ s[5] = 16 /\ s[6] = 16 + 4 * t /\ s[7] = 17 + 4 * t
  <2>1. /\ s[2] = s[1] + 4 /\ s[3] = s[2] + 4 /\ s[4] = s[3] + 4 /\ s[5] = s[4] + 4
        /\ s[6] = s[5] + 4 * t /\ s[7] = s[6] + 1
    BY <1>3, <1>5
  <2> QED
    BY <2>1, <1>5, <1>3
<1>7. /\ At(p, 4) = d.hl /\ At(p, 8) = d.r /\ At(p, 12) = t /\ At(p, 16) = d.ranktable
      /\ At(p, 16 + 4 * t) = d.b /\ At(p, 17 + 4 * t) = d.g
  BY <1>1, <1>5, <1>6 DEF U32, U8, Quarters, Array
<1> DEFINE r_ptr == 4 + hash_state_packed_size
<1>8. /\ At(p, 4) = d.hl /\ At(p, r_ptr) = d.r /\ At(p, r_ptr + 4) = t
      /\ At(p, r_ptr + 8) = d.ranktable /\ At(p, r_ptr + 8 + 4 * t) = d.b
      /\ At(p, r_ptr + 8 + 4 * t + 1) = d.g
  <2>1. /\ r_ptr = 8 /\ r_ptr + 4 = 12 /\ r_ptr + 8 = 16 /\ r_ptr + 8 + 4 * t = 16 + 4 * t
        /\ r_ptr + 8 + 4 * t + 1 = 17 + 4 * t
    BY <1>3 DEF hash_state_packed_size
  <2> HIDE DEF r_ptr
  <2> QED
    BY <1>7, <2>1
<1>9. bdz_search_packed(p, x) = bdz_search(d, x)
  BY <1>8, Zenon DEF bdz_search_packed, bdz_search
<1> QED
  BY <1>2, <1>9

\* What a function of bdz_ph keeps.
BdzPhData(d) ==
    /\ d = [hl |-> d.hl, m |-> d.m, n |-> d.n, r |-> d.r, g |-> d.g]

LEMMA BdzPhLoaded ==
    ASSUME NEW d, BdzPhData(d)
    PROVE  bdz_ph_load(bdz_ph_dump(d)) = d
<1> DEFINE f == bdz_ph_dump(d)
<1>1. /\ f[2] = <<12, d.hl>> /\ f[3] = U32(d.n) /\ f[4] = U32(d.m) /\ f[5] = U32(d.r)
      /\ f[6] = Array(1, d.g)
  BY DEF bdz_ph_dump, hash_state_dump
<1> HIDE DEF f
<1>2. bdz_ph_load(f) = [hl |-> d.hl, m |-> d.m, n |-> d.n, r |-> d.r, g |-> d.g]
  BY <1>1 DEF bdz_ph_load, hash_state_load, U32, Array
<1> QED
  BY <1>2 DEF f, BdzPhData

LEMMA BdzPhPacked ==
    ASSUME NEW d, BdzPhData(d), NEW x
    PROVE  bdz_ph_search_packed(bdz_ph_pack(d), x) = bdz_ph_search(d, x)
<1> DEFINE p == bdz_ph_pack(d)
           T == {U32("jenkins"), <<4, d.hl>>, U32(d.r), Array(1, d.g)}
           s == FieldStarts(p)
<1>1. /\ Len(p) = 4 /\ p \in Seq(T)
      /\ p[1] = U32("jenkins") /\ p[2] = <<4, d.hl>> /\ p[3] = U32(d.r) /\ p[4] = Array(1, d.g)
  BY DEF bdz_ph_pack, hash_state_pack, hash_state_packed_size
<1> HIDE DEF T
<1>2. p = bdz_ph_pack(d)
  OBVIOUS
<1> HIDE DEF p
<1>3. \A i \in 1..3 : p[i][1] = 4
  BY <1>1 DEF U32, Array, BdzPhData
<1>4. \A j \in 1..(Len(p) - 1) : p[j][1] \in Nat /\ p[j][1] >= 1
  BY <1>1, <1>3
<1>5. /\ s[1] = 0 /\ \A i \in 1..4 : s[i + 1] = s[i] + p[i][1]
      /\ \A i \in 1..4 : At(p, s[i]) = p[i][2]
  BY <1>1, <1>4, FieldsAt
<1> HIDE DEF s
<1>6. s[2] = 4 /\ s[3] = 8 /\ s[4] = 12
  <2>1. s[2] = s[1] + 4 /\ s[3] = s[2] + 4 /\ s[4] = s[3] + 4
    BY <1>3, <1>5
  <2> QED
    BY <2>1, <1>5
<1>7. At(p, 4) = d.hl /\ At(p, 8) = d.r /\ At(p, 12) = d.g
  BY <1>1, <1>5, <1>6 DEF U32, Array
<1>8. At(p, 4 + hash_state_packed_size) = d.r /\ At(p, 4 + hash_state_packed_size + 4) = d.g
  BY <1>7 DEF hash_state_packed_size
<1>9. bdz_ph_search_packed(p, x) = bdz_ph_search(d, x)
  BY <1>7, <1>8, Zenon DEF bdz_ph_search_packed, bdz_ph_search
<1> QED
  BY <1>2, <1>9

\* What a select structure and a compressed sequence keep.
SelectData(sel) ==
    /\ sel = [n |-> sel.n, m |-> sel.m, ones |-> sel.ones, select_table |-> sel.select_table]
    /\ sel.n \in Nat /\ sel.m \in Nat /\ sel.n + sel.m >= 1
    /\ Cardinality(DOMAIN sel.select_table) = sel.n \div STEP_SELECT_TABLE + 1
SeqData(cs) ==
    /\ cs = [n |-> cs.n, rem_r |-> cs.rem_r, total_length |-> cs.total_length, sel |-> cs.sel,
             length_rems |-> cs.length_rems, store_table |-> cs.store_table]
    /\ SelectData(cs.sel)
    /\ cs.n \in Nat \ {0} /\ cs.rem_r \in Nat \ {0} /\ cs.total_length \in Nat
ChdPhData(d) ==
    /\ d = [hl |-> d.hl, n |-> d.n, nbuckets |-> d.nbuckets, cs |-> d.cs]
    /\ SeqData(d.cs)

LEMMA WordsFacts ==
    ASSUME NEW b \in Nat
    PROVE  Words(b) \in Nat /\ (b >= 1 => Words(b) >= 4)
<1>1. (b + 32 - 1) \div 32 \in Nat /\ (b >= 1 => (b + 32 - 1) \div 32 >= 1)
  OBVIOUS
<1> QED
  BY <1>1 DEF Words, CeilDiv

LEMMA SelectSizes ==
    ASSUME NEW sel, SelectData(sel)
    PROVE  /\ Words(sel.n + sel.m) \in Nat \ {0}
           /\ Cardinality(DOMAIN sel.select_table) \in Nat \ {0}
<1>1. Words(sel.n + sel.m) \in Nat \ {0}
  BY WordsFacts DEF SelectData
<1> DEFINE q == sel.n \div STEP_SELECT_TABLE
<1>2. q \in Nat
  BY StepAssumption DEF SelectData
<1>3. Cardinality(DOMAIN sel.select_table) = q + 1
  BY DEF SelectData
<1> HIDE DEF q
<1> QED
  BY <1>1, <1>2, <1>3

LEMMA SelectSize ==
    ASSUME NEW sel, SelectData(sel)
    PROVE  Size(select_dump(sel))
             = 8 + Words(sel.n + sel.m) + 4 * Cardinality(DOMAIN sel.select_table)
<1> DEFINE f == select_dump(sel)
           w == Words(sel.n + sel.m)
           t == 4 * Cardinality(DOMAIN sel.select_table)
           T == {U32(sel.n), U32(sel.m), BitVector(sel.n + sel.m, sel.ones), Array(4, sel.select_table)}
<1>1. /\ Len(f) = 4 /\ f \in Seq(T)
      /\ f[1][1] = 4 /\ f[2][1] = 4 /\ f[3][1] = w /\ f[4][1] = t
  BY DEF select_dump, U32, BitVector, Array
<1>2. w \in Nat /\ t \in Nat
  BY SelectSizes
<1>3. Size(f) = FieldStarts(f)[5]
  BY <1>1 DEF Size, Offset
<1> HIDE DEF f, w, t, T
<1>4. \A j \in 1..Len(f) : f[j][1] \in Nat
  BY <1>1, <1>2
<1> DEFINE s == FieldStarts(f)
<1>5. s[1] = 0 /\ \A j \in 1..4 : s[j + 1] = s[j] + f[j][1]
  <2>1. 4 \in 0..Len(f) /\ \A j \in 1..4 : f[j][1] \in Nat
    BY <1>1, <1>4
  <2> QED
    BY <1>1, <2>1, FieldStartsFacts
<1>6. s[5] = 8 + w + t
  <2> HIDE DEF s
  <2>1. s[2] = s[1] + 4 /\ s[3] = s[2] + 4 /\ s[4] = s[3] + w /\ s[5] = s[4] + t
    BY <1>1, <1>5
  <2> QED
    BY <2>1, <1>2, <1>5
<1> QED
  BY <1>3, <1>6 DEF f, w, t

\* Fields number i and after it are those of a compressed sequence.
SeqFields(p, i, cs) ==
    /\ p[i] = U32(cs.n) /\ p[i + 1] = U32(cs.rem_r) /\ p[i + 2] = U32(cs.total_length)
    /\ p[i + 3] = U32(Size(select_dump(cs.sel)))
    /\ p[i + 4] = U32(cs.sel.n) /\ p[i + 5] = U32(cs.sel.m)
    /\ p[i + 6] = BitVector(cs.sel.n + cs.sel.m, cs.sel.ones)
    /\ p[i + 7] = Array(4, cs.sel.select_table)
    /\ p[i + 8] = BitVector(cs.n * cs.rem_r, cs.length_rems)
    /\ p[i + 9] = BitVector(cs.total_length, cs.store_table)

LEMMA SeqDumped ==
    ASSUME NEW cs
    PROVE  /\ Len(compressed_seq_dump(cs)) = 10
           /\ SeqFields(compressed_seq_dump(cs), 1, cs)
BY DEF compressed_seq_dump, select_dump, SeqFields

\* Behind other fields they come in the same order.
StartsWith(f, h) == \A j \in 1..Len(h) : f[j] = h[j]
SeqParts(cs) == {compressed_seq_dump(cs)[j] : j \in 1..10}

LEMMA SeqBehind ==
    ASSUME NEW cs, NEW S, NEW h \in Seq(S)
    PROVE  /\ h \o compressed_seq_dump(cs) \in Seq(S \cup SeqParts(cs))
           /\ Len(h \o compressed_seq_dump(cs)) = Len(h) + 10
           /\ StartsWith(h \o compressed_seq_dump(cs), h)
           /\ SeqFields(h \o compressed_seq_dump(cs), Len(h) + 1, cs)
<1> DEFINE c == compressed_seq_dump(cs)
           C == {c[j] : j \in 1..10}
           l == Len(h)
           f == h \o c
<1>1. Len(c) = 10 /\ SeqFields(c, 1, cs)
  BY SeqDumped
<1>2. c \in Seq(C)
  <2> DEFINE D == {U32(cs.n), U32(cs.rem_r), U32(cs.total_length), U32(Size(select_dump(cs.sel))),
                   U32(cs.sel.n), U32(cs.sel.m), BitVector(cs.sel.n + cs.sel.m, cs.sel.ones),
                   Array(4, cs.sel.select_table), BitVector(cs.n * cs.rem_r, cs.length_rems),
                   BitVector(cs.total_length, cs.store_table)}
  <2>1. c \in Seq(D)
    <3> DEFINE size == Size(select_dump(cs.sel))
               a == <<U32(cs.n), U32(cs.rem_r), U32(cs.total_length), U32(size)>>
               b == select_dump(cs.sel)
               e == <<BitVector(cs.n * cs.rem_r, cs.length_rems),
                      BitVector(cs.total_length, cs.store_table)>>
    <3>1. c = a \o b \o e
      BY Zenon DEF compressed_seq_dump
    <3>2. a \in Seq(D) /\ e \in Seq(D)
      OBVIOUS
    <3>3. b \in Seq(D)
      BY DEF select_dump
    <3> HIDE DEF a, b, e, D
    <3> QED
      BY <3>1, <3>2, <3>3
  <2> HIDE DEF D
  <2>2. \A j \in 1..10 : c[j] \in C
    OBVIOUS
  <2> HIDE DEF C
  <2>3. c \in [1..10 -> D] /\ 10 \in Nat
    BY <1>1, <2>1, LenProperties
  <2>4. c \in [1..10 -> C]
    BY <2>2, <2>3
  <2> QED
    BY <2>3, <2>4, SeqDef
<1> HIDE DEF c
<1>3. h \in Seq(S \cup C) /\ c \in Seq(S \cup C)
  <2> HIDE DEF C
  <2> QED
    BY <1>2
<1>4. f \in Seq(S \cup C) /\ Len(f) = l + 10
      /\ \A i \in 1..(l + 10) : f[i] = IF i <= l THEN h[i] ELSE c[i - l]
  <2> HIDE DEF C
  <2>1. /\ f \in Seq(S \cup C) /\ Len(f) = Len(h) + Len(c)
        /\ \A i \in 1..(Len(h) + Len(c)) : f[i] = IF i <= Len(h) THEN h[i] ELSE c[i - Len(h)]
    BY <1>3, ConcatProperties, Zenon
  <2> HIDE DEF f
  <2> QED
    BY <1>1, <2>1
<1>5. l \in Nat
  OBVIOUS
<1>0. C = SeqParts(cs)
  BY Zenon DEF SeqParts, c
<1> HIDE DEF f, l, C
<1>6. StartsWith(f, h)
  BY <1>4, <1>5 DEF StartsWith, l
<1>7. \A j \in 1..10 : f[l + j] = c[j]
  <2> TAKE j \in 1..10
  <2>1. l + j \in 1..(l + 10) /\ ~(l + j <= l) /\ (l + j) - l = j
    BY <1>5
  <2> QED
    BY <1>4, <2>1
<1>8. /\ f[l + 1] = c[1] /\ f[(l + 1) + 1] = c[2] /\ f[(l + 1) + 2] = c[3]
      /\ f[(l + 1) + 3] = c[4] /\ f[(l + 1) + 4] = c[5] /\ f[(l + 1) + 5] = c[6]
      /\ f[(l + 1) + 6] = c[7] /\ f[(l + 1) + 7] = c[8] /\ f[(l + 1) + 8] = c[9]
      /\ f[(l + 1) + 9] = c[10]
  <2>1. /\ (l + 1) + 1 = l + 2 /\ (l + 1) + 2 = l + 3 /\ (l + 1) + 3 = l + 4 /\ (l + 1) + 4 = l + 5
        /\ (l + 1) + 5 = l + 6 /\ (l + 1) + 6 = l + 7 /\ (l + 1) + 7 = l + 8 /\ (l + 1) + 8 = l + 9
        /\ (l + 1) + 9 = l + 10
    BY <1>5
  <2> QED
    BY <1>7, <2>1
<1>9. SeqFields(f, l + 1, cs)
  <2>1. /\ c[1] = U32(cs.n) /\ c[2] = U32(cs.rem_r) /\ c[3] = U32(cs.total_length)
        /\ c[4] = U32(Size(select_dump(cs.sel)))
        /\ c[5] = U32(cs.sel.n) /\ c[6] = U32(cs.sel.m)
        /\ c[7] = BitVector(cs.sel.n + cs.sel.m, cs.sel.ones)
        /\ c[8] = Array(4, cs.sel.select_table)
        /\ c[9] = BitVector(cs.n * cs.rem_r, cs.length_rems)
        /\ c[10] = BitVector(cs.total_length, cs.store_table)
    BY <1>1 DEF SeqFields
  <2> QED
    BY <1>8, <2>1, Zenon DEF SeqFields
<1> QED
  BY <1>0, <1>4, <1>6, <1>9, Zenon DEF f, l, c

\* All of them but the last have bytes.
LEMMA SeqFieldSizes ==
    ASSUME NEW cs, SeqData(cs), NEW p, NEW i \in Nat, SeqFields(p, i, cs)
    PROVE  /\ \A j \in i..(i + 9) : p[j][1] \in Nat
           /\ \A j \in i..(i + 8) : p[j][1] >= 1
           /\ p[i][1] = 4 /\ p[i + 1][1] = 4 /\ p[i + 2][1] = 4 /\ p[i + 3][1] = 4
           /\ p[i + 4][1] = 4 /\ p[i + 5][1] = 4
           /\ p[i + 6][1] = Words(cs.sel.n + cs.sel.m)
           /\ p[i + 7][1] = 4 * Cardinality(DOMAIN cs.sel.select_table)
           /\ p[i + 8][1] = Words(cs.n * cs.rem_r)
<1> DEFINE w == Words(cs.sel.n + cs.sel.m)
           t == Cardinality(DOMAIN cs.sel.select_table)
           l == Words(cs.n * cs.rem_r)
           u == Words(cs.total_length)
<1>1. w \in Nat \ {0} /\ t \in Nat \ {0}
  BY SelectSizes DEF SeqData
<1>2. l \in Nat \ {0}
  <2>1. cs.n * cs.rem_r \in Nat \ {0}
    <3>1. \A x, y \in Nat \ {0} : x * y \in Nat \ {0}
      OBVIOUS
    <3> QED
      BY <3>1 DEF SeqData
  <2> QED
    BY <2>1, WordsFacts
<1>3. u \in Nat
  BY WordsFacts DEF SeqData
<1>4. /\ p[i][1] = 4 /\ p[i + 1][1] = 4 /\ p[i + 2][1] = 4 /\ p[i + 3][1] = 4
      /\ p[i + 4][1] = 4 /\ p[i + 5][1] = 4
      /\ p[i + 6][1] = w /\ p[i + 7][1] = 4 * t /\ p[i + 8][1] = l /\ p[i + 9][1] = u
  BY DEF SeqFields, U32, BitVector, Array
<1> HIDE DEF w, t, l, u
<1>5. /\ \A j \in i..(i + 9) : p[j][1] \in Nat
      /\ \A j \in i..(i + 8) : p[j][1] >= 1
  <2>1. \A j \in i..(i + 9) : \/ j = i \/ j = i + 1 \/ j = i + 2 \/ j = i + 3 \/ j = i + 4
                              \/ j = i + 5 \/ j = i + 6 \/ j = i + 7 \/ j = i + 8 \/ j = i + 9
    OBVIOUS
  <2>2. ASSUME NEW j \in i..(i + 9) PROVE p[j][1] \in Nat /\ (j <= i + 8 => p[j][1] >= 1)
    BY <1>1, <1>2, <1>3, <1>4, <2>1
  <2> QED
    BY <2>2
<1> QED
  BY <1>4, <1>5 DEF w, t, l

\* A compressed sequence is found where it starts.
LEMMA SeqAt ==
    ASSUME NEW T, NEW p \in Seq(T), NEW i \in Nat, 1 <= i, i + 9 <= Len(p),
           \A j \in 1..(i - 1) : p[j][1] \in Nat /\ p[j][1] >= 1,
           NEW cs, SeqData(cs), SeqFields(p, i, cs)
    PROVE  compressed_seq_load(p, FieldStarts(p)[i]) = cs
<1> DEFINE s == FieldStarts(p)
           w == Words(cs.sel.n + cs.sel.m)
           t == 4 * Cardinality(DOMAIN cs.sel.select_table)
           l == Words(cs.n * cs.rem_r)
           o == s[i]
<1>1. Len(p) \in Nat
  BY LenProperties
<1>2. \A j \in 1..(i + 8) : p[j][1] \in Nat /\ p[j][1] >= 1
  <2>1. \A j \in i..(i + 8) : p[j][1] \in Nat /\ p[j][1] >= 1
    <3>1. \A j \in i..(i + 8) : j \in i..(i + 9)
      OBVIOUS
    <3> QED
      BY <3>1, SeqFieldSizes
  <2>2. \A j \in 1..(i + 8) : j \in 1..(i - 1) \/ j \in i..(i + 8)
    OBVIOUS
  <2> QED
    BY <2>1, <2>2
<1>3. \A j \in i..(i + 9) : At(p, s[j]) = p[j][2]
  <2> TAKE j \in i..(i + 9)
  <2>1. j \in 1..Len(p) /\ \A x \in 1..(j - 1) : p[x][1] \in Nat /\ p[x][1] >= 1
    BY <1>1, <1>2
  <2> QED
    BY <2>1, FieldAt
<1>4. o \in Nat /\ \A j \in i..(i + 9) : s[j + 1] = s[j] + p[j][1]
  <2>1. /\ i \in 1..((i - 1) + 1) /\ i - 1 \in 0..Len(p) /\ \A j \in 1..(i - 1) : p[j][1] \in Nat
        /\ \A j \in i..(i + 9) : j \in 1..Len(p)
    BY <1>1
  <2> QED
    BY <2>1, FieldStartsFacts
<1>5. /\ w \in Nat /\ t \in Nat /\ l \in Nat
      /\ Size(select_dump(cs.sel)) = 8 + w + t
  <2>1. SelectData(cs.sel) /\ cs.n * cs.rem_r \in Nat
    BY DEF SeqData
  <2>2. w \in Nat /\ Cardinality(DOMAIN cs.sel.select_table) \in Nat
    BY <2>1, SelectSizes
  <2>3. l \in Nat
    BY <2>1, WordsFacts
  <2>4. Size(select_dump(cs.sel)) = 8 + w + t
    BY <2>1, SelectSize
  <2> QED
    BY <2>2, <2>3, <2>4
<1>6. /\ p[i][1] = 4 /\ p[i + 1][1] = 4 /\ p[i + 2][1] = 4 /\ p[i + 3][1] = 4
      /\ p[i + 4][1] = 4 /\ p[i + 5][1] = 4 /\ p[i + 6][1] = w /\ p[i + 7][1] = t /\ p[i + 8][1] = l
  BY SeqFieldSizes
<1> HIDE DEF s, w, t, l
<1>7. /\ s[i] = o /\ s[i + 1] = o + 4 /\ s[i + 2] = o + 8 /\ s[i + 3] = o + 12 /\ s[i + 4] = o + 16
      /\ s[i + 5] = o + 20 /\ s[i + 6] = o + 24 /\ s[i + 7] = o + 24 + w
      /\ s[i + 8] = o + 24 + w + t /\ s[i + 9] = o + 24 + w + t + l
  <2>1. /\ s[i + 1] = s[i] + 4 /\ s[i + 2] = s[i + 1] + 4 /\ s[i + 3] = s[i + 2] + 4
        /\ s[i + 4] = s[i + 3] + 4 /\ s[i + 5] = s[i + 4] + 4 /\ s[i + 6] = s[i + 5] + 4
        /\ s[i + 7] = s[i + 6] + w /\ s[i + 8] = s[i + 7] + t /\ s[i + 9] = s[i + 8] + l
    <3>1. /\ s[i + 1] = s[i] + p[i][1] /\ s[i + 2] = s[i + 1] + p[i + 1][1]
          /\ s[i + 3] = s[i + 2] + p[i + 2][1] /\ s[i + 4] = s[i + 3] + p[i + 3][1]
          /\ s[i + 5] = s[i + 4] + p[i + 4][1] /\ s[i + 6] = s[i + 5] + p[i + 5][1]
          /\ s[i + 7] = s[i + 6] + p[i + 6][1] /\ s[i + 8] = s[i + 7] + p[i + 7][1]
          /\ s[i + 9] = s[i + 8] + p[i + 8][1]
      <4>1. \A x \in 0..8 : s[(i + x) + 1] = s[i + x] + p[i + x][1]
        <5> TAKE x \in 0..8
        <5>1. i + x \in i..(i + 9)
          OBVIOUS
        <5> QED
          BY <5>1, <1>4
      <4>2. /\ (i + 0) = i /\ (i + 1) + 1 = i + 2 /\ (i + 2) + 1 = i + 3 /\ (i + 3) + 1 = i + 4
            /\ (i + 4) + 1 = i + 5 /\ (i + 5) + 1 = i + 6 /\ (i + 6) + 1 = i + 7
            /\ (i + 7) + 1 = i + 8 /\ (i + 8) + 1 = i + 9
        OBVIOUS
      <4>3. /\ s[(i + 0) + 1] = s[i + 0] + p[i + 0][1] /\ s[(i + 1) + 1] = s[i + 1] + p[i + 1][1]
            /\ s[(i + 2) + 1] = s[i + 2] + p[i + 2][1] /\ s[(i + 3) + 1] = s[i + 3] + p[i + 3][1]
            /\ s[(i + 4) + 1] = s[i + 4] + p[i + 4][1] /\ s[(i + 5) + 1] = s[i + 5] + p[i + 5][1]
            /\ s[(i + 6) + 1] = s[i + 6] + p[i + 6][1] /\ s[(i + 7) + 1] = s[i + 7] + p[i + 7][1]
            /\ s[(i + 8) + 1] = s[i + 8] + p[i + 8][1]
        <5>1. 0 \in 0..8 /\ 1 \in 0..8 /\ 2 \in 0..8 /\ 3 \in 0..8 /\ 4 \in 0..8
              /\ 5 \in 0..8 /\ 6 \in 0..8 /\ 7 \in 0..8 /\ 8 \in 0..8
          OBVIOUS
        <5> QED
          BY <4>1, <5>1, Zenon
      <4> QED
        BY <4>2, <4>3
    <3> QED
      BY <3>1, <1>6
  <2>2. s[i] = o /\ o \in Nat /\ w \in Nat /\ t \in Nat /\ l \in Nat
    BY <1>4, <1>5
  <2> HIDE DEF o
  <2>3. s[i + 1] = o + 4 /\ s[i + 2] = o + 8 /\ s[i + 3] = o + 12
    BY <2>1, <2>2
  <2>4. s[i + 4] = o + 16 /\ s[i + 5] = o + 20 /\ s[i + 6] = o + 24
    BY <2>1, <2>2, <2>3
  <2>5. s[i + 7] = o + 24 + w /\ s[i + 8] = o + 24 + w + t /\ s[i + 9] = o + 24 + w + t + l
    BY <2>1, <2>2, <2>4
  <2> QED
    BY <2>2, <2>3, <2>4, <2>5
<1>8. /\ At(p, s[i]) = cs.n /\ At(p, s[i + 1]) = cs.rem_r /\ At(p, s[i + 2]) = cs.total_length
      /\ At(p, s[i + 3]) = 8 + w + t
      /\ At(p, s[i + 4]) = cs.sel.n /\ At(p, s[i + 5]) = cs.sel.m
      /\ At(p, s[i + 6]) = cs.sel.ones /\ At(p, s[i + 7]) = cs.sel.select_table
      /\ At(p, s[i + 8]) = cs.length_rems /\ At(p, s[i + 9]) = cs.store_table
  <2>1. /\ i \in i..(i + 9) /\ i + 1 \in i..(i + 9) /\ i + 2 \in i..(i + 9)
        /\ i + 3 \in i..(i + 9) /\ i + 4 \in i..(i + 9) /\ i + 5 \in i..(i + 9)
        /\ i + 6 \in i..(i + 9) /\ i + 7 \in i..(i + 9) /\ i + 8 \in i..(i + 9)
        /\ i + 9 \in i..(i + 9)
    OBVIOUS
  <2>2. /\ p[i][2] = cs.n /\ p[i + 1][2] = cs.rem_r /\ p[i + 2][2] = cs.total_length
        /\ p[i + 3][2] = 8 + w + t /\ p[i + 4][2] = cs.sel.n /\ p[i + 5][2] = cs.sel.m
        /\ p[i + 6][2] = cs.sel.ones /\ p[i + 7][2] = cs.sel.select_table
        /\ p[i + 8][2] = cs.length_rems /\ p[i + 9][2] = cs.store_table
    BY <1>5 DEF SeqFields, U32, BitVector, Array
  <2> QED
    BY <1>3, <2>1, <2>2, Zenon
<1> HIDE DEF o
<1>9. /\ At(p, o) = cs.n /\ At(p, o + 4) = cs.rem_r /\ At(p, o + 8) = cs.total_length
      /\ At(p, o + 12) = 8 + w + t
      /\ At(p, o + 16) = cs.sel.n /\ At(p, (o + 16) + 4) = cs.sel.m
      /\ At(p, (o + 16) + 8) = cs.sel.ones /\ At(p, (o + 16) + 8 + w) = cs.sel.select_table
      /\ At(p, (o + 16) + (8 + w + t)) = cs.length_rems
      /\ At(p, (o + 16) + (8 + w + t) + l) = cs.store_table
  <2>1. /\ (o + 16) + 4 = o + 20 /\ (o + 16) + 8 = o + 24 /\ (o + 16) + 8 + w = o + 24 + w
        /\ (o + 16) + (8 + w + t) = o + 24 + w + t /\ (o + 16) + (8 + w + t) + l = o + 24 + w + t + l
    BY <1>4, <1>5
  <2> QED
    BY <1>7, <1>8, <2>1
<1>10. select_load(p, o + 16) = cs.sel
  <2>1. select_load(p, o + 16) = [n |-> cs.sel.n, m |-> cs.sel.m, ones |-> cs.sel.ones,
                                  select_table |-> cs.sel.select_table]
    BY <1>9, Zenon DEF select_load, w
  <2> QED
    BY <2>1 DEF SeqData, SelectData
<1>11. compressed_seq_load(p, o)
         = [n |-> cs.n, rem_r |-> cs.rem_r, total_length |-> cs.total_length, sel |-> cs.sel,
            length_rems |-> cs.length_rems, store_table |-> cs.store_table]
  BY <1>9, <1>10, Zenon DEF compressed_seq_load, l
<1> QED
  BY <1>11 DEF o, s, SeqData

LEMMA ChdPhLoaded ==
    ASSUME NEW d, ChdPhData(d)
    PROVE  chd_ph_load(chd_ph_dump(d)) = d
<1> DEFINE f == chd_ph_dump(d)
           p == SubSeq(f, 4, Len(f))
           cs == d.cs
           size == Size(compressed_seq_dump(cs))
           c == compressed_seq_dump(cs)
           C == SeqParts(cs)
           h == hash_state_dump(d.hl) \o <<U32(size)>>
           e == <<U32(d.n), U32(d.nbuckets)>>
           w == h \o c
           T == Range(h) \cup C \cup Range(e)
<1>0. f = w \o e
  BY Zenon DEF chd_ph_dump
<1> HIDE DEF f, size, c
<1>1. Len(h) = 3 /\ h[2] = <<12, d.hl>> /\ h \in Seq(Range(h))
  BY DEF hash_state_dump, Range
<1>2. Len(e) = 2 /\ e[1] = U32(d.n) /\ e[2] = U32(d.nbuckets) /\ e \in Seq(Range(e))
  BY DEF Range
<1> HIDE DEF h, e
<1>a. /\ w \in Seq(Range(h) \cup C) /\ Len(w) = 13 /\ w[2] = h[2]
      /\ SeqFields(w, 4, cs)
  <2>1. 2 \in 1..Len(h) /\ Len(h) + 10 = 13 /\ Len(h) + 1 = 4
    BY <1>1
  <2>2. /\ w \in Seq(Range(h) \cup C) /\ Len(w) = Len(h) + 10
        /\ \A j \in 1..Len(h) : w[j] = h[j]
        /\ SeqFields(w, Len(h) + 1, cs)
    <3>1. /\ h \o c \in Seq(Range(h) \cup SeqParts(cs)) /\ Len(h \o c) = Len(h) + 10
          /\ StartsWith(h \o c, h)
          /\ SeqFields(h \o c, Len(h) + 1, cs)
      BY <1>1, SeqBehind, Zenon DEF c
    <3> QED
      BY <3>1, Zenon DEF StartsWith
  <2> QED
    BY <2>1, <2>2
<1> HIDE DEF w, C
<1>b. w \in Seq(T) /\ e \in Seq(T)
  BY <1>2, <1>a
<1> HIDE DEF T
<1>c. /\ f \in Seq(T) /\ Len(f) = 15
      /\ \A i \in 1..15 : f[i] = IF i <= 13 THEN w[i] ELSE e[i - 13]
  <2>1. /\ f \in Seq(T) /\ Len(f) = Len(w) + Len(e)
        /\ \A i \in 1..(Len(w) + Len(e)) : f[i] = IF i <= Len(w) THEN w[i] ELSE e[i - Len(w)]
    BY <1>0, <1>b, ConcatProperties, Zenon
  <2> QED
    BY <1>2, <1>a, <2>1
<1>d. /\ f[2] = <<12, d.hl>> /\ f[14] = U32(d.n) /\ f[15] = U32(d.nbuckets)
      /\ \A i \in 4..13 : f[i] = w[i]
  BY <1>1, <1>2, <1>a, <1>c
<1>3. p \in Seq(T) /\ Len(p) = 12 /\ \A j \in 1..12 : p[j] = f[j + 3]
  <2>1. /\ SubSeq(f, 4, 15) \in Seq(T) /\ Len(SubSeq(f, 4, 15)) = IF 4 <= 15 THEN 15 - 4 + 1 ELSE 0
        /\ \A j \in 1..(15 - 4 + 1) : SubSeq(f, 4, 15)[j] = f[4 + j - 1]
    <3>1. 4 \in 1..(Len(f) + 1) /\ 15 \in 4 - 1..Len(f)
      BY <1>c
    <3>2. f \in Seq(T)
      BY <1>c
    <3> QED
      BY <3>1, <3>2, SubSeqProperties
  <2>2. p = SubSeq(f, 4, 15)
    BY <1>c
  <2> HIDE DEF p
  <2>3. \A j \in 1..12 : 4 + j - 1 = j + 3
    OBVIOUS
  <2> QED
    BY <2>1, <2>2, <2>3
<1> HIDE DEF p
<1>4. SeqFields(p, 1, cs)
  <2>1. /\ p[1] = w[4] /\ p[2] = w[5] /\ p[3] = w[6] /\ p[4] = w[7] /\ p[5] = w[8] /\ p[6] = w[9]
        /\ p[7] = w[10] /\ p[8] = w[11] /\ p[9] = w[12] /\ p[10] = w[13]
    BY <1>3, <1>d
  <2> QED
    BY <1>a, <2>1 DEF SeqFields
<1>5. SeqData(cs)
  BY DEF ChdPhData
<1> HIDE DEF cs
<1>7. compressed_seq_load(p, FieldStarts(p)[1]) = cs
  <2>1. 1 \in Nat /\ 1 <= 1 /\ 1 + 9 <= Len(p) /\ \A j \in 1..(1 - 1) : p[j][1] \in Nat /\ p[j][1] >= 1
    BY <1>3
  <2> QED
    BY <1>3, <1>4, <1>5, <2>1, SeqAt
<1>8. FieldStarts(p)[1] = 0
  <2>1. 0 \in 0..Len(p) /\ \A j \in 1..0 : p[j][1] \in Nat
    BY <1>3
  <2> QED
    BY <1>3, <2>1, FieldStartsFacts
<1>9. chd_ph_load(f) = [hl |-> d.hl, cs |-> cs, n |-> d.n, nbuckets |-> d.nbuckets]
  <2>1. hash_state_load(f, 1) = d.hl /\ f[Len(f) - 1][2] = d.n /\ f[Len(f)][2] = d.nbuckets
    BY <1>c, <1>d DEF hash_state_load, U32
  <2>2. compressed_seq_load(SubSeq(f, 4, Len(f)), 0) = cs
    BY <1>7, <1>8 DEF p
  <2> QED
    BY <2>1, <2>2, Zenon DEF chd_ph_load
<1> QED
  BY <1>9 DEF f, cs, ChdPhData

\* Packed, it is searched alike wherever it is put behind a field of four
\* bytes or behind nothing.
LEMMA ChdPhPackedAt ==
    ASSUME NEW d, ChdPhData(d), NEW x, NEW T, NEW p \in Seq(T), NEW z \in {0, 1},
           Len(p) = 14 + z, z = 1 => p[1][1] = 4,
           p[1 + z][1] = 4, p[2 + z] = <<4, d.hl>>, p[3 + z] = U32(d.n), p[4 + z] = U32(d.nbuckets),
           SeqFields(p, 5 + z, d.cs)
    PROVE  chd_ph_search_packed(p, 4 * z, x) = chd_ph_search(d, x)
<1> DEFINE s == FieldStarts(p)
<1>1. SeqData(d.cs)
  BY DEF ChdPhData
<1>3. \A j \in 1..(4 + z) : p[j][1] = 4
  <2>1. p[1 + z][1] = 4 /\ p[2 + z][1] = 4 /\ p[3 + z][1] = 4 /\ p[4 + z][1] = 4
    BY DEF U32
  <2>2. \A j \in 1..(4 + z) : (z = 1 /\ j = 1) \/ j = 1 + z \/ j = 2 + z \/ j = 3 + z \/ j = 4 + z
    OBVIOUS
  <2> QED
    BY <2>1, <2>2
<1>5. \A j \in 1..(4 + z) : p[j][1] \in Nat /\ p[j][1] >= 1
  BY <1>3
<1>6. s[1] = 0 /\ \A j \in 1..(4 + z) : s[j + 1] = s[j] + 4
  <2>1. s[1] = 0 /\ \A j \in 1..Len(p) : s[j + 1] = s[j] + p[j][1]
    <3>1. 0 \in 0..Len(p) /\ \A j \in 1..0 : p[j][1] \in Nat
      OBVIOUS
    <3> QED
      BY <3>1, FieldStartsFacts
  <2>2. \A j \in 1..(4 + z) : j \in 1..Len(p)
    OBVIOUS
  <2> HIDE DEF s
  <2> QED
    BY <1>3, <2>1, <2>2
<1>7. \A j \in 1..(4 + z) : At(p, s[j]) = p[j][2]
  <2> TAKE j \in 1..(4 + z)
  <2>1. j \in 1..Len(p) /\ \A y \in 1..(j - 1) : p[y][1] \in Nat /\ p[y][1] >= 1
    BY <1>5
  <2> QED
    BY <2>1, FieldAt
<1>8. compressed_seq_load(p, s[5 + z]) = d.cs
  <2>1. /\ 5 + z \in Nat /\ 1 <= 5 + z /\ (5 + z) + 9 <= Len(p)
        /\ \A j \in 1..((5 + z) - 1) : p[j][1] \in Nat /\ p[j][1] >= 1
    BY <1>5
  <2> QED
    BY <1>1, <2>1, SeqAt
<1> HIDE DEF s
<1>9. /\ s[1 + z] = 4 * z /\ s[2 + z] = 4 * z + 4 /\ s[3 + z] = 4 * z + 8
      /\ s[4 + z] = 4 * z + 12 /\ s[5 + z] = 4 * z + 16
  <2>1. s[2] = 4 /\ s[3] = 8 /\ s[4] = 12 /\ s[5] = 16
    BY <1>6
  <2>2. z = 1 => s[6] = 20
    BY <1>6, <2>1
  <2> QED
    BY <1>6, <2>1, <2>2
<1>10. At(p, 4 * z + 4) = d.hl /\ At(p, 4 * z + 8) = d.n /\ At(p, 4 * z + 12) = d.nbuckets
  BY <1>7, <1>9 DEF U32
<1>11. /\ At(p, 4 * z + 4) = d.hl
       /\ At(p, 4 * z + 4 + hash_state_packed_size) = d.n
       /\ At(p, 4 * z + 4 + hash_state_packed_size + 4) = d.nbuckets
       /\ compressed_seq_load(p, 4 * z + 4 + hash_state_packed_size + 8) = d.cs
  <2>1. /\ 4 * z + 4 + hash_state_packed_size = 4 * z + 8
        /\ 4 * z + 4 + hash_state_packed_size + 4 = 4 * z + 12
        /\ 4 * z + 4 + hash_state_packed_size + 8 = 4 * z + 16
    BY DEF hash_state_packed_size
  <2> QED
    BY <1>8, <1>9, <1>10, <2>1
<1>12. chd_ph_search_packed(p, 4 * z, x)
         = chd_ph_search([hl |-> d.hl, n |-> d.n, nbuckets |-> d.nbuckets, cs |-> d.cs], x)
  BY <1>11, Zenon DEF chd_ph_search_packed
<1>13. [hl |-> d.hl, n |-> d.n, nbuckets |-> d.nbuckets, cs |-> d.cs] = d
  BY DEF ChdPhData
<1> QED
  BY <1>12, <1>13

LEMMA ChdPhPacked ==
    ASSUME NEW d, ChdPhData(d), NEW x
    PROVE  /\ chd_ph_search_packed(chd_ph_pack(d), 0, x) = chd_ph_search(d, x)
           /\ chd_ph_search_packed(PackedPh(d), 4, x) = chd_ph_search(d, x)
<1> DEFINE p == chd_ph_pack(d)
           q == PackedPh(d)
           T == {p[j] : j \in 1..14}
           R == {q[j] : j \in 1..15}
<1> DEFINE h == hash_state_pack(d.hl) \o <<U32(d.n), U32(d.nbuckets)>>
           c == compressed_seq_dump(d.cs)
<1>a. p = h \o c
  BY Zenon DEF chd_ph_pack
<1>b. /\ Len(h) = 4 /\ h[1][1] = 4 /\ h[2] = <<4, d.hl>> /\ h[3] = U32(d.n)
      /\ h[4] = U32(d.nbuckets) /\ h \in Seq(Range(h))
  BY DEF hash_state_pack, hash_state_packed_size, U32, Range
<1> HIDE DEF h, c, p
<1>c. /\ p \in Seq(Range(h) \cup SeqParts(d.cs)) /\ Len(p) = Len(h) + 10
      /\ \A j \in 1..Len(h) : p[j] = h[j]
      /\ SeqFields(p, Len(h) + 1, d.cs)
  <2>1. /\ h \o c \in Seq(Range(h) \cup SeqParts(d.cs)) /\ Len(h \o c) = Len(h) + 10
        /\ StartsWith(h \o c, h)
        /\ SeqFields(h \o c, Len(h) + 1, d.cs)
    BY <1>b, SeqBehind, Zenon DEF c
  <2> QED
    BY <1>a, <2>1, Zenon DEF StartsWith
<1>1. /\ Len(p) = 14 /\ p[1][1] = 4 /\ p[2] = <<4, d.hl>> /\ p[3] = U32(d.n)
      /\ p[4] = U32(d.nbuckets) /\ SeqFields(p, 5, d.cs)
  <2>1. Len(h) + 10 = 14 /\ Len(h) + 1 = 5 /\ 1 \in 1..Len(h) /\ 2 \in 1..Len(h) /\ 3 \in 1..Len(h)
        /\ 4 \in 1..Len(h)
    BY <1>b
  <2> QED
    BY <1>b, <1>c, <2>1
<1>2. p \in Seq(T)
  <2> DEFINE D == Range(h) \cup SeqParts(d.cs)
  <2>1. \A j \in 1..14 : p[j] \in T
    OBVIOUS
  <2>2. p \in Seq(D)
    BY <1>c
  <2> HIDE DEF T, D
  <2>3. p \in [1..14 -> D] /\ 14 \in Nat
    BY <1>1, <2>2, LenProperties
  <2>4. p \in [1..14 -> T]
    BY <2>1, <2>3
  <2> QED
    BY <2>3, <2>4, SeqDef
<1>3. q = <<U32("chd_ph")>> \o p
  BY Zenon DEF PackedPh, p
<1> HIDE DEF p, T
<1> DEFINE name == U32("chd_ph")
<1> HIDE DEF name
<1>4. /\ Len(q) = 15 /\ q[1] = name /\ \A j \in 1..14 : q[j + 1] = p[j]
      /\ q \in Seq({name} \cup T)
  <2>1. q = <<name>> \o p
    BY <1>3 DEF name
  <2> HIDE DEF q
  <2>2. <<name>> \in Seq({name} \cup T) /\ p \in Seq({name} \cup T) /\ Len(<<name>>) = 1
    BY <1>2
  <2>3. q \in Seq({name} \cup T) /\ Len(q) = Len(<<name>>) + Len(p)
    BY <2>1, <2>2, ConcatProperties
  <2>4. q[1] = name
    BY <2>1, <2>2, <1>1
  <2>5. ASSUME NEW j \in 1..14 PROVE q[j + 1] = p[j]
    <3>1. q[j + 1] = p[j + 1 - 1]
      BY <2>1, <2>2, <1>1, <1>2
    <3> QED
      BY <3>1
  <2> QED
    BY <2>2, <2>3, <2>4, <2>5, <1>1
<1> HIDE DEF q
<1>5. /\ q[1][1] = 4 /\ q[2][1] = 4 /\ q[3] = <<4, d.hl>> /\ q[4] = U32(d.n)
      /\ q[5] = U32(d.nbuckets) /\ SeqFields(q, 6, d.cs)
  <2>1. /\ q[2] = p[1] /\ q[3] = p[2] /\ q[4] = p[3] /\ q[5] = p[4] /\ q[6] = p[5] /\ q[7] = p[6]
        /\ q[8] = p[7] /\ q[9] = p[8] /\ q[10] = p[9] /\ q[11] = p[10] /\ q[12] = p[11]
        /\ q[13] = p[12] /\ q[14] = p[13] /\ q[15] = p[14]
    BY <1>4
  <2> QED
    BY <1>1, <1>4, <2>1 DEF SeqFields, U32, name
<1>6. chd_ph_search_packed(p, 4 * 0, x) = chd_ph_search(d, x)
  <2> DEFINE z == 0
  <2>1. /\ Len(p) = 14 + z /\ (z = 1 => p[1][1] = 4) /\ z \in {0, 1}
        /\ p[1 + z][1] = 4 /\ p[2 + z] = <<4, d.hl>> /\ p[3 + z] = U32(d.n)
        /\ p[4 + z] = U32(d.nbuckets)
    BY <1>1
  <2>2. SeqFields(p, 5 + z, d.cs)
    BY <1>1
  <2> HIDE DEF z
  <2>3. chd_ph_search_packed(p, 4 * z, x) = chd_ph_search(d, x)
    BY <1>2, <2>1, <2>2, ChdPhPackedAt
  <2> QED
    BY <2>3 DEF z
<1>7. chd_ph_search_packed(q, 4 * 1, x) = chd_ph_search(d, x)
  <2> DEFINE z == 1
  <2>1. /\ Len(q) = 14 + z /\ (z = 1 => q[1][1] = 4) /\ z \in {0, 1}
        /\ q[1 + z][1] = 4 /\ q[2 + z] = <<4, d.hl>> /\ q[3 + z] = U32(d.n)
        /\ q[4 + z] = U32(d.nbuckets)
    BY <1>4, <1>5
  <2>2. SeqFields(q, 5 + z, d.cs)
    BY <1>5
  <2> HIDE DEF z
  <2>3. chd_ph_search_packed(q, 4 * z, x) = chd_ph_search(d, x)
    BY <1>4, <2>1, <2>2, ChdPhPackedAt
  <2> QED
    BY <2>3 DEF z
<1>8. 4 * 0 = 0 /\ 4 * 1 = 4
  OBVIOUS
<1> QED
  BY <1>6, <1>7, <1>8 DEF p, q

\* What a function of chd keeps.
ChdData(d) ==
    /\ d = [packed_chd_phf |-> d.packed_chd_phf, packed_chd_phf_size |-> d.packed_chd_phf_size,
            packed_cr |-> d.packed_cr]
    /\ Size(d.packed_cr) \in Nat \ {0}

LEMMA ChdLoaded ==
    ASSUME NEW d, ChdData(d)
    PROVE  chd_load(chd_dump(d)) = d
<1>1. chd_load(chd_dump(d)) = [packed_chd_phf |-> d.packed_chd_phf,
                               packed_chd_phf_size |-> d.packed_chd_phf_size,
                               packed_cr |-> d.packed_cr]
  BY DEF chd_load, chd_dump, U32, Block
<1> QED
  BY <1>1 DEF ChdData

LEMMA ChdPacked ==
    ASSUME NEW d, ChdData(d), NEW x
    PROVE  chd_search_packed(chd_pack(d), x) = chd_search(d, x)
<1> DEFINE p == chd_pack(d)
           n == Size(d.packed_cr)
           T == {U32(n), Block(d.packed_cr, n), U32(d.packed_chd_phf_size),
                 Block(d.packed_chd_phf, d.packed_chd_phf_size)}
           s == FieldStarts(p)
<1>1. /\ Len(p) = 4 /\ p \in Seq(T)
      /\ p[1] = U32(n) /\ p[2] = Block(d.packed_cr, n)
      /\ p[3] = U32(d.packed_chd_phf_size)
      /\ p[4] = Block(d.packed_chd_phf, d.packed_chd_phf_size)
  BY DEF chd_pack
<1> HIDE DEF T
<1>2. p = chd_pack(d)
  OBVIOUS
<1> HIDE DEF p
<1>3. /\ p[1][1] = 4 /\ p[2][1] = n /\ p[3][1] = 4 /\ n \in Nat \ {0}
  BY <1>1 DEF U32, Block, ChdData
<1> HIDE DEF n
<1>4. \A j \in 1..(Len(p) - 1) : p[j][1] \in Nat /\ p[j][1] >= 1
  BY <1>1, <1>3
<1>5. /\ s[1] = 0 /\ \A i \in 1..4 : s[i + 1] = s[i] + p[i][1]
      /\ \A i \in 1..4 : At(p, s[i]) = p[i][2]
  BY <1>1, <1>4, FieldsAt
<1> HIDE DEF s
<1>6. s[1] = 0 /\ s[2] = 4 /\ s[4] = 4 + n + 4
  <2>1. s[2] = s[1] + 4 /\ s[3] = s[2] + n /\ s[4] = s[3] + 4
    BY <1>3, <1>5
  <2> QED
    BY <2>1, <1>5, <1>3
<1>7. At(p, 0) = n /\ At(p, 4) = d.packed_cr /\ At(p, 4 + n + 4) = d.packed_chd_phf
  BY <1>1, <1>5, <1>6 DEF U32, Block
<1>8. chd_search_packed(p, x) = chd_search([packed_cr |-> d.packed_cr,
                                            packed_chd_phf |-> d.packed_chd_phf], x)
  BY <1>7, Zenon DEF chd_search_packed
<1>9. chd_search([packed_cr |-> d.packed_cr, packed_chd_phf |-> d.packed_chd_phf], x)
        = chd_search(d, x)
  BY DEF chd_search
<1> QED
  BY <1>2, <1>8, <1>9

\* What is behind the head of a file or of a packed block.
LEMMA BehindTwo ==
    ASSUME NEW T, NEW rest \in Seq(T), NEW a, NEW b
    PROVE  /\ (<<a, b>> \o rest)[1] = a /\ (<<a, b>> \o rest)[2] = b
           /\ SubSeq(<<a, b>> \o rest, 3, Len(<<a, b>> \o rest)) = rest
<1> DEFINE A == T \cup {a, b}
           h == <<a, b>>
           f == h \o rest
           n == Len(rest)
           t == SubSeq(f, 3, Len(f))
<1>1. /\ h \in Seq(A) /\ Len(h) = 2 /\ h[1] = a /\ h[2] = b
      /\ rest \in Seq(A) /\ n \in Nat
  BY LenProperties
<1> HIDE DEF h, A, n
<1>2. /\ f \in Seq(A) /\ Len(f) = Len(h) + Len(rest)
      /\ \A i \in 1..(Len(h) + Len(rest)) : f[i] = IF i <= Len(h) THEN h[i] ELSE rest[i - Len(h)]
  BY <1>1, ConcatProperties
<1> HIDE DEF f
<1>3. Len(f) = n + 2 /\ \A i \in 1..(n + 2) : f[i] = IF i <= 2 THEN h[i] ELSE rest[i - 2]
  <2>1. Len(h) + Len(rest) = n + 2
    BY <1>1 DEF n
  <2> QED
    BY <1>1, <1>2, <2>1
<1>4. f[1] = a /\ f[2] = b
  BY <1>1, <1>3
<1>5. \A i \in 1..n : f[3 + i - 1] = rest[i]
  <2> TAKE i \in 1..n
  <2>1. 3 + i - 1 \in 1..(n + 2) /\ ~(3 + i - 1 <= 2) /\ (3 + i - 1) - 2 = i
    BY <1>1
  <2> QED
    BY <1>3, <2>1
<1>6. /\ t \in Seq(A) /\ Len(t) = n /\ \A i \in 1..n : t[i] = f[3 + i - 1]
  <2> DEFINE j == Len(f)
  <2>1. 3 \in 1..(Len(f) + 1) /\ j \in (3 - 1)..Len(f) /\ j - 3 + 1 = n /\ (3 <= j \/ n = 0)
    BY <1>1, <1>3
  <2>2. /\ SubSeq(f, 3, j) \in Seq(A)
        /\ Len(SubSeq(f, 3, j)) = IF 3 <= j THEN j - 3 + 1 ELSE 0
        /\ \A i \in 1..(j - 3 + 1) : SubSeq(f, 3, j)[i] = f[3 + i - 1]
    <3> HIDE DEF j
    <3> QED
      BY <1>2, <2>1, SubSeqProperties
  <2>3. t = SubSeq(f, 3, j)
    OBVIOUS
  <2> HIDE DEF t, j
  <2>4. Len(t) = n
    BY <2>1, <2>2, <2>3
  <2> QED
    BY <2>1, <2>2, <2>3, <2>4
<1> HIDE DEF t
<1>7. t = rest
  <2>1. Len(t) = Len(rest) /\ \A i \in 1..Len(t) : t[i] = rest[i]
    BY <1>5, <1>6 DEF n
  <2> QED
    BY <1>1, <1>6, <2>1, SeqEqual
<1> QED
  BY <1>4, <1>7 DEF t, f, h

LEMMA BehindOne ==
    ASSUME NEW T, NEW rest \in Seq(T), NEW a
    PROVE  (<<a>> \o rest)[1] = a /\ Tail(<<a>> \o rest) = rest
<1> DEFINE A == T \cup {a}
           h == <<a>>
           f == h \o rest
           n == Len(rest)
<1>1. h \in Seq(A) /\ Len(h) = 1 /\ h[1] = a /\ rest \in Seq(A) /\ n \in Nat
  BY LenProperties
<1> HIDE DEF h, A, n
<1>2. /\ f \in Seq(A) /\ Len(f) = Len(h) + Len(rest)
      /\ \A i \in 1..(Len(h) + Len(rest)) : f[i] = IF i <= Len(h) THEN h[i] ELSE rest[i - Len(h)]
  BY <1>1, ConcatProperties
<1> HIDE DEF f
<1>3. Len(f) = n + 1 /\ \A i \in 1..(n + 1) : f[i] = IF i <= 1 THEN h[i] ELSE rest[i - 1]
  <2>1. Len(h) + Len(rest) = n + 1
    BY <1>1 DEF n
  <2> QED
    BY <1>1, <1>2, <2>1
<1>4. f[1] = a
  BY <1>1, <1>3
<1>5. Tail(f) \in Seq(A) /\ Len(Tail(f)) = n /\ \A i \in 1..n : Tail(f)[i] = f[i + 1]
  BY <1>1, <1>2, <1>3
<1>6. \A i \in 1..n : Tail(f)[i] = rest[i]
  <2> TAKE i \in 1..n
  <2>1. i + 1 \in 1..(n + 1) /\ ~(i + 1 <= 1) /\ (i + 1) - 1 = i
    BY <1>1
  <2> QED
    BY <1>3, <1>5, <2>1
<1>7. Tail(f) = rest
  <2>1. Len(Tail(f)) = Len(rest) /\ \A i \in 1..Len(Tail(f)) : Tail(f)[i] = rest[i]
    BY <1>5, <1>6 DEF n
  <2> QED
    BY <1>1, <1>5, <2>1, SeqEqual
<1> QED
  BY <1>4, <1>7 DEF f, h

\* A function: the record of its algorithm, its size and its data.
WellFormed(f) ==
    /\ f = [algo |-> f.algo, size |-> f.size, data |-> f.data]
    /\ f.algo \in Algos
    /\ f.algo \in {"chm", "bmz", "bmz8"} => GraphData(f.data)
    /\ f.algo = "fch" => FchData(f.data)
    /\ f.algo = "bdz" => BdzData(f.data)
    /\ f.algo = "bdz_ph" => BdzPhData(f.data)
    /\ f.algo = "chd_ph" => ChdPhData(f.data)
    /\ f.algo = "chd" => ChdData(f.data)

LEMMA GraphDumps ==
    ASSUME NEW d
    PROVE  /\ \E T : chm_dump(d) \in Seq(T)
           /\ \E T : bmz_dump(d) \in Seq(T)
           /\ \E T : bmz8_dump(d) \in Seq(T)
<1>1. chm_dump(d) \in Seq({U32(2), U32(12), <<12, d.hashes[1]>>, <<12, d.hashes[2]>>, U32(d.n),
                           U32(d.m), Array(4, d.g)})
  BY DEF chm_dump, hash_state_dump
<1>2. bmz_dump(d) \in Seq({U32(2), U32(12), <<12, d.hashes[1]>>, <<12, d.hashes[2]>>, U32(d.n),
                           U32(d.m), Array(4, d.g)})
  BY DEF bmz_dump, hash_state_dump
<1>3. bmz8_dump(d) \in Seq({U8(2), U32(12), <<12, d.hashes[1]>>, <<12, d.hashes[2]>>, U8(d.n),
                            U8(d.m), Array(1, d.g)})
  BY DEF bmz8_dump, hash_state_dump
<1> QED
  BY <1>1, <1>2, <1>3

LEMMA OtherDumps ==
    ASSUME NEW d
    PROVE  /\ \E T : fch_dump(d) \in Seq(T)
           /\ \E T : bdz_dump(d) \in Seq(T)
           /\ \E T : bdz_ph_dump(d) \in Seq(T)
           /\ \E T : chd_dump(d) \in Seq(T)
<1>1. fch_dump(d) \in Seq({U32(12), <<12, d.h1>>, <<12, d.h2>>, U32(d.m), Double(d.c), U32(d.b),
                           Double(d.p1), Double(d.p2), Array(4, d.g)})
  BY DEF fch_dump, hash_state_dump
<1>2. bdz_dump(d) \in Seq({U32(12), <<12, d.hl>>, U32(d.n), U32(d.m), U32(d.r), Quarters(d.g),
                           U32(d.k), U8(d.b), U32(d.ranktablesize), Array(4, d.ranktable)})
  BY DEF bdz_dump, hash_state_dump
<1>3. bdz_ph_dump(d) \in Seq({U32(12), <<12, d.hl>>, U32(d.n), U32(d.m), U32(d.r), Array(1, d.g)})
  BY DEF bdz_ph_dump, hash_state_dump
<1> DEFINE size == Size(d.packed_cr)
<1>4. chd_dump(d) = <<U32(d.packed_chd_phf_size), Block(d.packed_chd_phf, d.packed_chd_phf_size),
                      U32(size), Block(d.packed_cr, size)>>
  BY DEF chd_dump
<1> HIDE DEF size
<1>5. chd_dump(d) \in Seq({U32(d.packed_chd_phf_size),
                           Block(d.packed_chd_phf, d.packed_chd_phf_size),
                           U32(size), Block(d.packed_cr, size)})
  BY <1>4
<1> QED
  BY <1>1, <1>2, <1>3, <1>5

LEMMA ChdPhDumps ==
    ASSUME NEW d
    PROVE  \E T : chd_ph_dump(d) \in Seq(T)
<1> DEFINE size == Size(compressed_seq_dump(d.cs))
           f == chd_ph_dump(d)
           c == compressed_seq_dump(d.cs)
           e == <<U32(d.n), U32(d.nbuckets)>>
           h == hash_state_dump(d.hl)
           t == <<U32(size)>>
           C == {c[j] : j \in DOMAIN c}
           A == Range(h) \cup Range(t) \cup C \cup Range(e)
<1>1. f = h \o t \o c \o e
  BY Zenon DEF chd_ph_dump
<1> HIDE DEF size, f
<1>2. c \in Seq(C)
  BY DEF compressed_seq_dump, select_dump
<1>3. h \in Seq(Range(h)) /\ t \in Seq(Range(t)) /\ e \in Seq(Range(e))
  BY DEF hash_state_dump, Range
<1> HIDE DEF c, C, h, t, e
<1>4. f \in Seq(A)
  BY <1>1, <1>2, <1>3
<1> HIDE DEF A
<1> QED
  BY <1>4 DEF f

\* A function is read back from its file as it was.
LEMMA FunctionLoaded ==
    ASSUME NEW f, WellFormed(f)
    PROVE  cmph_load(cmph_dump(f)) = f
<1> DEFINE name == <<Len(f.algo) + 1, f.algo>>
           file(rest) == <<name, U32(f.size)>> \o rest
           Read(rest) == [algo |-> f.algo, size |-> f.size,
                          data |-> CASE f.algo = "chm"    -> chm_load(rest)
                                     [] f.algo = "bmz"    -> bmz_load(rest)
                                     [] f.algo = "bmz8"   -> bmz8_load(rest)
                                     [] f.algo = "fch"    -> fch_load(rest)
                                     [] f.algo = "bdz"    -> bdz_load(rest)
                                     [] f.algo = "bdz_ph" -> bdz_ph_load(rest)
                                     [] f.algo = "chd_ph" -> chd_ph_load(rest)
                                     [] f.algo = "chd"    -> chd_load(rest)]
<1>1. ASSUME NEW T, NEW rest \in Seq(T) PROVE cmph_load(file(rest)) = Read(rest)
  <2> DEFINE w == file(rest)
  <2>1. w[1] = name /\ w[2] = U32(f.size) /\ SubSeq(w, 3, Len(w)) = rest
    BY BehindTwo
  <2>2. w[1][2] = f.algo /\ w[2][2] = f.size
    BY <2>1 DEF U32
  <2> HIDE DEF w
  <2>3. cmph_load(w) = Read(rest)
    BY <2>1, <2>2, Zenon DEF cmph_load
  <2> QED
    BY <2>3 DEF w
<1> HIDE DEF name
<1>2. CASE f.algo = "chm"
  <2> DEFINE rest == chm_dump(f.data)
  <2>1. cmph_dump(f) = file(rest)
    <3> HIDE DEF rest
    <3>1. cmph_dump(f) = file(chm_dump(f.data))
      BY <1>2 DEF cmph_dump, name
    <3> QED
      BY <3>1 DEF rest
  <2>2. PICK T : rest \in Seq(T)
    BY GraphDumps
  <2>3. chm_load(rest) = f.data
    BY <1>2, ChmLoaded DEF WellFormed
  <2> HIDE DEF rest
  <2>4. cmph_load(file(rest)) = Read(rest)
    BY <1>1, <2>2
  <2>5. Read(rest) = [algo |-> f.algo, size |-> f.size, data |-> f.data]
    BY <1>2, <2>3
  <2>6. cmph_load(cmph_dump(f)) = [algo |-> f.algo, size |-> f.size, data |-> f.data]
    BY <2>1, <2>4, <2>5
  <2> QED
    BY <2>6 DEF WellFormed
<1>3. CASE f.algo = "bmz"
  <2> DEFINE rest == bmz_dump(f.data)
  <2>1. cmph_dump(f) = file(rest)
    <3> HIDE DEF rest
    <3>1. cmph_dump(f) = file(bmz_dump(f.data))
      BY <1>3 DEF cmph_dump, name
    <3> QED
      BY <3>1 DEF rest
  <2>2. PICK T : rest \in Seq(T)
    BY GraphDumps
  <2>3. bmz_load(rest) = f.data
    BY <1>3, BmzLoaded DEF WellFormed
  <2> HIDE DEF rest
  <2>4. cmph_load(file(rest)) = Read(rest)
    BY <1>1, <2>2
  <2>5. Read(rest) = [algo |-> f.algo, size |-> f.size, data |-> f.data]
    BY <1>3, <2>3
  <2>6. cmph_load(cmph_dump(f)) = [algo |-> f.algo, size |-> f.size, data |-> f.data]
    BY <2>1, <2>4, <2>5
  <2> QED
    BY <2>6 DEF WellFormed
<1>4. CASE f.algo = "bmz8"
  <2> DEFINE rest == bmz8_dump(f.data)
  <2>1. cmph_dump(f) = file(rest)
    <3> HIDE DEF rest
    <3>1. cmph_dump(f) = file(bmz8_dump(f.data))
      BY <1>4 DEF cmph_dump, name
    <3> QED
      BY <3>1 DEF rest
  <2>2. PICK T : rest \in Seq(T)
    BY GraphDumps
  <2>3. bmz8_load(rest) = f.data
    BY <1>4, Bmz8Loaded DEF WellFormed
  <2> HIDE DEF rest
  <2>4. cmph_load(file(rest)) = Read(rest)
    BY <1>1, <2>2
  <2>5. Read(rest) = [algo |-> f.algo, size |-> f.size, data |-> f.data]
    BY <1>4, <2>3
  <2>6. cmph_load(cmph_dump(f)) = [algo |-> f.algo, size |-> f.size, data |-> f.data]
    BY <2>1, <2>4, <2>5
  <2> QED
    BY <2>6 DEF WellFormed
<1>5. CASE f.algo = "fch"
  <2> DEFINE rest == fch_dump(f.data)
  <2>1. cmph_dump(f) = file(rest)
    <3> HIDE DEF rest
    <3>1. cmph_dump(f) = file(fch_dump(f.data))
      BY <1>5 DEF cmph_dump, name
    <3> QED
      BY <3>1 DEF rest
  <2>2. PICK T : rest \in Seq(T)
    BY OtherDumps
  <2>3. fch_load(rest) = f.data
    BY <1>5, FchLoaded DEF WellFormed
  <2> HIDE DEF rest
  <2>4. cmph_load(file(rest)) = Read(rest)
    BY <1>1, <2>2
  <2>5. Read(rest) = [algo |-> f.algo, size |-> f.size, data |-> f.data]
    BY <1>5, <2>3
  <2>6. cmph_load(cmph_dump(f)) = [algo |-> f.algo, size |-> f.size, data |-> f.data]
    BY <2>1, <2>4, <2>5
  <2> QED
    BY <2>6 DEF WellFormed
<1>6. CASE f.algo = "bdz"
  <2> DEFINE rest == bdz_dump(f.data)
  <2>1. cmph_dump(f) = file(rest)
    <3> HIDE DEF rest
    <3>1. cmph_dump(f) = file(bdz_dump(f.data))
      BY <1>6 DEF cmph_dump, name
    <3> QED
      BY <3>1 DEF rest
  <2>2. PICK T : rest \in Seq(T)
    BY OtherDumps
  <2>3. bdz_load(rest) = f.data
    BY <1>6, BdzLoaded DEF WellFormed
  <2> HIDE DEF rest
  <2>4. cmph_load(file(rest)) = Read(rest)
    BY <1>1, <2>2
  <2>5. Read(rest) = [algo |-> f.algo, size |-> f.size, data |-> f.data]
    BY <1>6, <2>3
  <2>6. cmph_load(cmph_dump(f)) = [algo |-> f.algo, size |-> f.size, data |-> f.data]
    BY <2>1, <2>4, <2>5
  <2> QED
    BY <2>6 DEF WellFormed
<1>7. CASE f.algo = "bdz_ph"
  <2> DEFINE rest == bdz_ph_dump(f.data)
  <2>1. cmph_dump(f) = file(rest)
    <3> HIDE DEF rest
    <3>1. cmph_dump(f) = file(bdz_ph_dump(f.data))
      BY <1>7 DEF cmph_dump, name
    <3> QED
      BY <3>1 DEF rest
  <2>2. PICK T : rest \in Seq(T)
    BY OtherDumps
  <2>3. bdz_ph_load(rest) = f.data
    BY <1>7, BdzPhLoaded DEF WellFormed
  <2> HIDE DEF rest
  <2>4. cmph_load(file(rest)) = Read(rest)
    BY <1>1, <2>2
  <2>5. Read(rest) = [algo |-> f.algo, size |-> f.size, data |-> f.data]
    BY <1>7, <2>3
  <2>6. cmph_load(cmph_dump(f)) = [algo |-> f.algo, size |-> f.size, data |-> f.data]
    BY <2>1, <2>4, <2>5
  <2> QED
    BY <2>6 DEF WellFormed
<1>8. CASE f.algo = "chd_ph"
  <2> DEFINE rest == chd_ph_dump(f.data)
  <2>1. cmph_dump(f) = file(rest)
    <3> HIDE DEF rest
    <3>1. cmph_dump(f) = file(chd_ph_dump(f.data))
      BY <1>8 DEF cmph_dump, name
    <3> QED
      BY <3>1 DEF rest
  <2>2. PICK T : rest \in Seq(T)
    BY ChdPhDumps
  <2>3. chd_ph_load(rest) = f.data
    BY <1>8, ChdPhLoaded DEF WellFormed
  <2> HIDE DEF rest
  <2>4. cmph_load(file(rest)) = Read(rest)
    BY <1>1, <2>2
  <2>5. Read(rest) = [algo |-> f.algo, size |-> f.size, data |-> f.data]
    BY <1>8, <2>3
  <2>6. cmph_load(cmph_dump(f)) = [algo |-> f.algo, size |-> f.size, data |-> f.data]
    BY <2>1, <2>4, <2>5
  <2> QED
    BY <2>6 DEF WellFormed
<1>9. CASE f.algo = "chd"
  <2> DEFINE rest == chd_dump(f.data)
  <2>1. cmph_dump(f) = file(rest)
    <3> HIDE DEF rest
    <3>1. cmph_dump(f) = file(chd_dump(f.data))
      BY <1>9 DEF cmph_dump, name
    <3> QED
      BY <3>1 DEF rest
  <2>2. PICK T : rest \in Seq(T)
    BY OtherDumps
  <2>3. chd_load(rest) = f.data
    BY <1>9, ChdLoaded DEF WellFormed
  <2> HIDE DEF rest
  <2>4. cmph_load(file(rest)) = Read(rest)
    BY <1>1, <2>2
  <2>5. Read(rest) = [algo |-> f.algo, size |-> f.size, data |-> f.data]
    BY <1>9, <2>3
  <2>6. cmph_load(cmph_dump(f)) = [algo |-> f.algo, size |-> f.size, data |-> f.data]
    BY <2>1, <2>4, <2>5
  <2> QED
    BY <2>6 DEF WellFormed
<1> QED
  BY <1>2, <1>3, <1>4, <1>5, <1>6, <1>7, <1>8, <1>9 DEF WellFormed, Algos

LEMMA GraphPacks ==
    ASSUME NEW d
    PROVE  /\ \E T : chm_pack(d) \in Seq(T)
           /\ \E T : bmz_pack(d) \in Seq(T)
           /\ \E T : bmz8_pack(d) \in Seq(T)
<1>1. chm_pack(d) \in Seq({U32("jenkins"), <<4, d.hashes[1]>>, <<4, d.hashes[2]>>, U32(d.n),
                           U32(d.m), Array(4, d.g)})
  BY DEF chm_pack, hash_state_pack, hash_state_packed_size
<1>2. bmz_pack(d) \in Seq({U32("jenkins"), <<4, d.hashes[1]>>, <<4, d.hashes[2]>>, U32(d.n),
                           Array(4, d.g)})
  BY DEF bmz_pack, hash_state_pack, hash_state_packed_size
<1>3. bmz8_pack(d) \in Seq({U32("jenkins"), <<4, d.hashes[1]>>, <<4, d.hashes[2]>>, U8(d.n),
                            Array(1, d.g)})
  BY DEF bmz8_pack, hash_state_pack, hash_state_packed_size
<1> QED
  BY <1>1, <1>2, <1>3

LEMMA OtherPacks ==
    ASSUME NEW d
    PROVE  /\ \E T : fch_pack(d) \in Seq(T)
           /\ \E T : bdz_pack(d) \in Seq(T)
           /\ \E T : bdz_ph_pack(d) \in Seq(T)
           /\ \E T : chd_pack(d) \in Seq(T)
<1>1. fch_pack(d) \in Seq({U32("jenkins"), <<4, d.h1>>, <<4, d.h2>>, U32(d.m), U32(d.b),
                           Double(d.p1), Double(d.p2), Array(4, d.g)})
  BY DEF fch_pack, hash_state_pack, hash_state_packed_size
<1>2. bdz_pack(d) \in Seq({U32("jenkins"), <<4, d.hl>>, U32(d.r), U32(d.ranktablesize),
                           Array(4, d.ranktable), U8(d.b), Quarters(d.g)})
  BY DEF bdz_pack, hash_state_pack, hash_state_packed_size
<1>3. bdz_ph_pack(d) \in Seq({U32("jenkins"), <<4, d.hl>>, U32(d.r), Array(1, d.g)})
  BY DEF bdz_ph_pack, hash_state_pack, hash_state_packed_size
<1> DEFINE size == Size(d.packed_cr)
<1>4. chd_pack(d) = <<U32(size), Block(d.packed_cr, size), U32(d.packed_chd_phf_size),
                      Block(d.packed_chd_phf, d.packed_chd_phf_size)>>
  BY DEF chd_pack
<1> HIDE DEF size
<1>5. chd_pack(d) \in Seq({U32(d.packed_chd_phf_size),
                           Block(d.packed_chd_phf, d.packed_chd_phf_size),
                           U32(size), Block(d.packed_cr, size)})
  BY <1>4
<1> QED
  BY <1>1, <1>2, <1>3, <1>5

LEMMA ChdPhPacks ==
    ASSUME NEW d
    PROVE  \E T : chd_ph_pack(d) \in Seq(T)
<1> DEFINE h == hash_state_pack(d.hl) \o <<U32(d.n), U32(d.nbuckets)>>
           c == compressed_seq_dump(d.cs)
<1>1. chd_ph_pack(d) = h \o c
  BY Zenon DEF chd_ph_pack
<1>2. h \in Seq(Range(h))
  BY DEF hash_state_pack, Range
<1> HIDE DEF h, c
<1>3. h \o c \in Seq(Range(h) \cup SeqParts(d.cs))
  BY <1>2, SeqBehind, Zenon DEF c
<1> QED
  BY <1>1, <1>3

\* Packed into memory, a function yields the same numbers.
LEMMA FunctionPacked ==
    ASSUME NEW f, WellFormed(f), NEW x
    PROVE  cmph_search_packed(cmph_pack(f), x) = cmph_search(f, x)
<1> DEFINE block(rest) == <<U32(f.algo)>> \o rest
           Found(ptr) == CASE f.algo = "chm"    -> chm_search_packed(ptr, x)
                           [] f.algo = "bmz"    -> bmz_search_packed(ptr, x)
                           [] f.algo = "bmz8"   -> bmz8_search_packed(ptr, x)
                           [] f.algo = "fch"    -> fch_search_packed(ptr, x)
                           [] f.algo = "bdz"    -> bdz_search_packed(ptr, x)
                           [] f.algo = "bdz_ph" -> bdz_ph_search_packed(ptr, x)
                           [] f.algo = "chd_ph" -> chd_ph_search_packed(ptr, 0, x)
                           [] f.algo = "chd"    -> chd_search_packed(ptr, x)
<1>1. ASSUME NEW T, NEW rest \in Seq(T) PROVE cmph_search_packed(block(rest), x) = Found(rest)
  <2> DEFINE w == block(rest)
  <2>1. w[1] = U32(f.algo) /\ Tail(w) = rest
    BY BehindOne
  <2>2. w[1][2] = f.algo
    BY <2>1 DEF U32
  <2> HIDE DEF w
  <2>3. cmph_search_packed(w, x) = Found(rest)
    BY <2>1, <2>2, Zenon DEF cmph_search_packed
  <2> QED
    BY <2>3 DEF w
<1>2. CASE f.algo = "chm"
  <2> DEFINE rest == chm_pack(f.data)
  <2>1. cmph_pack(f) = block(rest)
    <3> HIDE DEF rest
    <3>1. cmph_pack(f) = block(chm_pack(f.data))
      BY <1>2 DEF cmph_pack
    <3> QED
      BY <3>1 DEF rest
  <2>2. PICK T : rest \in Seq(T)
    BY GraphPacks
  <2>3. chm_search_packed(rest, x) = chm_search(f.data, x)
    BY <1>2, ChmPacked DEF WellFormed
  <2> HIDE DEF rest
  <2>4. cmph_search_packed(block(rest), x) = Found(rest)
    BY <1>1, <2>2
  <2>5. Found(rest) = chm_search_packed(rest, x)
    BY <1>2
  <2>6. cmph_search(f, x) = chm_search(f.data, x)
    BY <1>2 DEF cmph_search
  <2> QED
    BY <2>1, <2>3, <2>4, <2>5, <2>6
<1>3. CASE f.algo = "bmz"
  <2> DEFINE rest == bmz_pack(f.data)
  <2>1. cmph_pack(f) = block(rest)
    <3> HIDE DEF rest
    <3>1. cmph_pack(f) = block(bmz_pack(f.data))
      BY <1>3 DEF cmph_pack
    <3> QED
      BY <3>1 DEF rest
  <2>2. PICK T : rest \in Seq(T)
    BY GraphPacks
  <2>3. bmz_search_packed(rest, x) = bmz_search(f.data, x)
    BY <1>3, BmzPacked DEF WellFormed
  <2> HIDE DEF rest
  <2>4. cmph_search_packed(block(rest), x) = Found(rest)
    BY <1>1, <2>2
  <2>5. Found(rest) = bmz_search_packed(rest, x)
    BY <1>3
  <2>6. cmph_search(f, x) = bmz_search(f.data, x)
    BY <1>3 DEF cmph_search
  <2> QED
    BY <2>1, <2>3, <2>4, <2>5, <2>6
<1>4. CASE f.algo = "bmz8"
  <2> DEFINE rest == bmz8_pack(f.data)
  <2>1. cmph_pack(f) = block(rest)
    <3> HIDE DEF rest
    <3>1. cmph_pack(f) = block(bmz8_pack(f.data))
      BY <1>4 DEF cmph_pack
    <3> QED
      BY <3>1 DEF rest
  <2>2. PICK T : rest \in Seq(T)
    BY GraphPacks
  <2>3. bmz8_search_packed(rest, x) = bmz8_search(f.data, x)
    BY <1>4, Bmz8Packed DEF WellFormed
  <2> HIDE DEF rest
  <2>4. cmph_search_packed(block(rest), x) = Found(rest)
    BY <1>1, <2>2
  <2>5. Found(rest) = bmz8_search_packed(rest, x)
    BY <1>4
  <2>6. cmph_search(f, x) = bmz8_search(f.data, x)
    BY <1>4 DEF cmph_search
  <2> QED
    BY <2>1, <2>3, <2>4, <2>5, <2>6
<1>5. CASE f.algo = "fch"
  <2> DEFINE rest == fch_pack(f.data)
  <2>1. cmph_pack(f) = block(rest)
    <3> HIDE DEF rest
    <3>1. cmph_pack(f) = block(fch_pack(f.data))
      BY <1>5 DEF cmph_pack
    <3> QED
      BY <3>1 DEF rest
  <2>2. PICK T : rest \in Seq(T)
    BY OtherPacks
  <2>3. fch_search_packed(rest, x) = fch_search(f.data, x)
    BY <1>5, FchPacked DEF WellFormed
  <2> HIDE DEF rest
  <2>4. cmph_search_packed(block(rest), x) = Found(rest)
    BY <1>1, <2>2
  <2>5. Found(rest) = fch_search_packed(rest, x)
    BY <1>5
  <2>6. cmph_search(f, x) = fch_search(f.data, x)
    BY <1>5 DEF cmph_search
  <2> QED
    BY <2>1, <2>3, <2>4, <2>5, <2>6
<1>6. CASE f.algo = "bdz"
  <2> DEFINE rest == bdz_pack(f.data)
  <2>1. cmph_pack(f) = block(rest)
    <3> HIDE DEF rest
    <3>1. cmph_pack(f) = block(bdz_pack(f.data))
      BY <1>6 DEF cmph_pack
    <3> QED
      BY <3>1 DEF rest
  <2>2. PICK T : rest \in Seq(T)
    BY OtherPacks
  <2>3. bdz_search_packed(rest, x) = bdz_search(f.data, x)
    BY <1>6, BdzPacked DEF WellFormed
  <2> HIDE DEF rest
  <2>4. cmph_search_packed(block(rest), x) = Found(rest)
    BY <1>1, <2>2
  <2>5. Found(rest) = bdz_search_packed(rest, x)
    BY <1>6
  <2>6. cmph_search(f, x) = bdz_search(f.data, x)
    BY <1>6 DEF cmph_search
  <2> QED
    BY <2>1, <2>3, <2>4, <2>5, <2>6
<1>7. CASE f.algo = "bdz_ph"
  <2> DEFINE rest == bdz_ph_pack(f.data)
  <2>1. cmph_pack(f) = block(rest)
    <3> HIDE DEF rest
    <3>1. cmph_pack(f) = block(bdz_ph_pack(f.data))
      BY <1>7 DEF cmph_pack
    <3> QED
      BY <3>1 DEF rest
  <2>2. PICK T : rest \in Seq(T)
    BY OtherPacks
  <2>3. bdz_ph_search_packed(rest, x) = bdz_ph_search(f.data, x)
    BY <1>7, BdzPhPacked DEF WellFormed
  <2> HIDE DEF rest
  <2>4. cmph_search_packed(block(rest), x) = Found(rest)
    BY <1>1, <2>2
  <2>5. Found(rest) = bdz_ph_search_packed(rest, x)
    BY <1>7
  <2>6. cmph_search(f, x) = bdz_ph_search(f.data, x)
    BY <1>7 DEF cmph_search
  <2> QED
    BY <2>1, <2>3, <2>4, <2>5, <2>6
<1>8. CASE f.algo = "chd_ph"
  <2> DEFINE rest == chd_ph_pack(f.data)
  <2>1. cmph_pack(f) = block(rest)
    <3> HIDE DEF rest
    <3>1. cmph_pack(f) = block(chd_ph_pack(f.data))
      BY <1>8 DEF cmph_pack
    <3> QED
      BY <3>1 DEF rest
  <2>2. PICK T : rest \in Seq(T)
    BY ChdPhPacks
  <2>3. chd_ph_search_packed(rest, 0, x) = chd_ph_search(f.data, x)
    BY <1>8, ChdPhPacked DEF WellFormed
  <2> HIDE DEF rest
  <2>4. cmph_search_packed(block(rest), x) = Found(rest)
    BY <1>1, <2>2
  <2>5. Found(rest) = chd_ph_search_packed(rest, 0, x)
    BY <1>8
  <2>6. cmph_search(f, x) = chd_ph_search(f.data, x)
    BY <1>8 DEF cmph_search
  <2> QED
    BY <2>1, <2>3, <2>4, <2>5, <2>6
<1>9. CASE f.algo = "chd"
  <2> DEFINE rest == chd_pack(f.data)
  <2>1. cmph_pack(f) = block(rest)
    <3> HIDE DEF rest
    <3>1. cmph_pack(f) = block(chd_pack(f.data))
      BY <1>9 DEF cmph_pack
    <3> QED
      BY <3>1 DEF rest
  <2>2. PICK T : rest \in Seq(T)
    BY OtherPacks
  <2>3. chd_search_packed(rest, x) = chd_search(f.data, x)
    BY <1>9, ChdPacked DEF WellFormed
  <2> HIDE DEF rest
  <2>4. cmph_search_packed(block(rest), x) = Found(rest)
    BY <1>1, <2>2
  <2>5. Found(rest) = chd_search_packed(rest, x)
    BY <1>9
  <2>6. cmph_search(f, x) = chd_search(f.data, x)
    BY <1>9 DEF cmph_search
  <2> QED
    BY <2>1, <2>3, <2>4, <2>5, <2>6
<1> QED
  BY <1>2, <1>3, <1>4, <1>5, <1>6, <1>7, <1>8, <1>9 DEF WellFormed, Algos

-----------------------------------------------------------------------------
(***************************************************************************)
(* The constructions leave functions that are well formed.                 *)
(***************************************************************************)
LEMMA CeilDivNat ==
    ASSUME NEW a \in Nat, NEW b \in Nat \ {0}
    PROVE  CeilDiv(a, b) \in Nat /\ (a >= 1 => CeilDiv(a, b) >= 1)
<1>1. (a + b - 1) \div b \in Nat
  OBVIOUS
<1>2. a >= 1 => (a + b - 1) \div b >= 1
  OBVIOUS
<1> QED
  BY <1>1, <1>2 DEF CeilDiv

LEMMA ILog2Range ==
    ASSUME NEW x
    PROVE  i_log2(x) \in 0..30 /\ AtLeastOne(i_log2(x)) \in 1..30
<1> DEFINE T == {r \in 1..30 : power2[r] <= x}
<1>5. T \in SUBSET (1..30)
  OBVIOUS
<1>1. IsFiniteSet(1..30) /\ Cardinality(1..30) = 30
  <2>1. 1 \in Int /\ 30 \in Int /\ ~(1 > 30) /\ 30 - 1 + 1 = 30
    OBVIOUS
  <2> QED
    BY <2>1, FS_Interval, Zenon
<1> HIDE DEF T
<1>6. IsFiniteSet(T) /\ Cardinality(T) <= Cardinality(1..30)
  BY <1>5, <1>1, FS_Subset
<1>2. Cardinality(T) <= 30
  BY <1>1, <1>6
<1>3. Cardinality(T) \in Nat
  BY <1>6, FS_CardinalityType
<1>4. i_log2(x) = Cardinality(T)
  BY DEF i_log2, T
<1> QED
  BY <1>2, <1>3, <1>4 DEF AtLeastOne

LEMMA SelectGenerated ==
    ASSUME NEW keys_vec, NEW n \in Nat, NEW q \in Nat, n + q >= 1
    PROVE  /\ SelectData(select_generate(keys_vec, n, q))
           /\ select_generate(keys_vec, n, q).n = n /\ select_generate(keys_vec, n, q).m = q
<1> DEFINE ones == Bits(keys_vec, n, q)[n + q + 1].ones
           table == select_generate_sel_table(ones, n)
           t == n \div STEP_SELECT_TABLE
<1>1. select_generate(keys_vec, n, q) = [n |-> n, m |-> q, ones |-> ones, select_table |-> table]
  BY DEF select_generate
<1>2. DOMAIN table = 0..t
  BY DEF select_generate_sel_table
<1>3. t \in Nat
  BY StepAssumption
<1> HIDE DEF ones, table, t
<1>4. Cardinality(DOMAIN table) = t + 1
  BY <1>2, <1>3, FS_Interval
<1> QED
  BY <1>1, <1>4 DEF SelectData, t

\* Whatever the values of a sequence are, its parts have their sizes.
LEMMA SeqGenerated ==
    ASSUME NEW vals, NEW n \in Nat \ {0}
    PROVE  SeqData(compressed_seq_generate(vals, n))
<1> DEFINE length == [i \in 0..(n - 1) |-> IF vals[i] = 0 THEN 0 ELSE i_log2(vals[i] + 1)]
           end == [i \in 0..(n - 1) |-> SumFunction([j \in 0..i |-> length[j]])]
           total == end[n - 1]
           r == AtLeastOne(i_log2(total \div n))
           q == total \div power2[r]
           sel == select_generate([i \in 0..(n - 1) |-> end[i] \div power2[r]], n, q)
           rems == UNION {BitsOf(end[i] % power2[r], r, i * r) : i \in 0..(n - 1)}
           store == UNION {BitsOf(vals[i] - (power2[length[i]] - 1), length[i], end[i] - length[i]) :
                                i \in 0..(n - 1)}
           cs == [n |-> n, rem_r |-> r, total_length |-> total, sel |-> sel,
                  length_rems |-> rems, store_table |-> store]
<1>1. compressed_seq_generate(vals, n) = cs
  BY Zenon DEF compressed_seq_generate
<1>2. \A i \in 0..(n - 1) : length[i] \in Nat
  BY ILog2Range
<1>3. total \in Nat
  <2> DEFINE w == [j \in 0..(n - 1) |-> length[j]]
  <2>1. total = SumFunction(w)
    OBVIOUS
  <2>2. IsFiniteSet(DOMAIN w) /\ \A j \in DOMAIN w : w[j] \in Nat
    <3> HIDE DEF length
    <3> QED
      BY <1>2, FS_Interval
  <2> HIDE DEF w
  <2>3. SumFunction(w) \in Nat
    BY <2>2, SumIsNat
  <2> HIDE DEF total
  <2> QED
    BY <2>1, <2>3
<1>4. r \in 1..30
  BY ILog2Range
<1> HIDE DEF r
<1>5. power2[r] \in Nat \ {0}
  BY <1>4, PowersPositive
<1> HIDE DEF total
<1>6. q \in Nat
  BY <1>3, <1>5
<1> HIDE DEF q
<1>7. SelectData(sel)
  BY <1>6, SelectGenerated
<1> HIDE DEF sel, rems, store
<1>8. SeqData(cs)
  BY <1>3, <1>4, <1>7 DEF SeqData
<1> QED
  BY <1>1, <1>8

\* bdz has an odd number of vertices in each third.
LEMMA ThirdsFacts ==
    ASSUME NEW c \in Nat \X (Nat \ {0}), NEW k \in Nat
    PROVE  bdz_r(c, k) \in Nat \ {0} /\ bdz_r(c, k) % 2 = 1
<1> DEFINE d == IF c[1] = 0 THEN <<123, 100>> ELSE c
           a == d[1] * k
           e == 3 * d[2]
           r == CeilDiv(a, e)
<1>1. d[1] \in Nat /\ d[2] \in Nat \ {0}
  OBVIOUS
<1> HIDE DEF d
<1>2. a \in Nat /\ e \in Nat \ {0}
  BY <1>1
<1>3. CeilMul(<<d[1], 3 * d[2]>>, k) = r
  BY DEF CeilMul
<1> HIDE DEF a, e
<1>4. r \in Nat
  BY <1>2, CeilDivNat
<1>5. bdz_r(c, k) = IF r % 2 = 0 THEN r + 1 ELSE r
  BY <1>3, Zenon DEF bdz_r, d
<1> HIDE DEF r
<1> QED
  BY <1>4, <1>5

\* The constants of the source, once there is one.
LEMMA SourceFacts ==
    ASSUME SettingsInv, phase # "config"
    PROVE  /\ config.algo \in Algos /\ config.c \in Nat \X (Nat \ {0})
           /\ keys \in Seq(Keys) /\ m \in Nat /\ (m > 0 => m \in DOMAIN Log2) /\ m < Word
           /\ config.algo \in {"chm", "bmz", "bmz8"} =>
                 \A h \in Draws : /\ h = [i \in 1..2 |-> h[i]]
                                  /\ \A x \in Keys : h[1][x] \in Nat /\ h[2][x] \in Nat
           /\ config.algo = "fch" =>
                 /\ \A h \in Draws.h1 \cup Draws.h2 : \A x \in Keys : h[x] \in Nat
                 /\ \A t \in Draws.tables :
                       /\ t \in [0..(m - 1) -> 0..(m - 1)]
                       /\ \A p \in 0..(m - 1) : \E y \in 0..(m - 1) : t[y] = p
           /\ config.algo \in {"bdz", "bdz_ph", "chd_ph", "chd"} =>
                 \A h \in Draws : \A x \in Keys : \A i \in 1..3 : h[x][i] \in Nat
<1>1. source \in DOMAIN Sources /\ Sources[source].algo = config.algo
  BY DEF SettingsInv, MadeFor
<1>2. config.algo \in Algos /\ config.c \in Nat \X (Nat \ {0})
  BY DEF SettingsInv, TypeOK, Settings
<1>3. keys \in Seq(Keys)
  BY <1>1, SourceAssumption DEF keys, Keys
<1>4. m \in Nat
  BY <1>3, LenProperties DEF m
<1>5. m > 0 => m \in DOMAIN Log2
  <2>1. keys # <<>> => m \in DOMAIN Log2
    BY <1>1, SourceAssumption, Zenon DEF keys, m
  <2> QED
    BY <1>3, <2>1, EmptySeq DEF m
<1>6. m < Word
  BY <1>1, SourceAssumption, Zenon DEF keys, m
<1> QED
  BY <1>1, <1>2, <1>3, <1>4, <1>5, <1>6, SourceAssumption, Zenon DEF keys, Keys, m, Draws

\* The number of bins of chd_ph and chd, the first accepted odd number.
LEMMA BinsFacts ==
    ASSUME SettingsInv, phase # "config", config.algo \in {"chd_ph", "chd"}
    PROVE  /\ config.data.b \in 1..14 /\ config.data.keys_per_bin \in 1..127
           /\ OddBins(config.c, m, config.data.keys_per_bin) \in Nat \ {0}
           /\ OddBins(config.c, m, config.data.keys_per_bin) % 2 = 1
           /\ chd_ph_n(config.c, m, config.data.keys_per_bin) \in Nat \ {0}
           /\ chd_ph_n(config.c, m, config.data.keys_per_bin)
                 >= OddBins(config.c, m, config.data.keys_per_bin)
           /\ IsNextPrime(OddBins(config.c, m, config.data.keys_per_bin),
                          chd_ph_n(config.c, m, config.data.keys_per_bin))
           /\ chd_ph_nbuckets(m, config.data.b) \in Nat \ {0}
<1> DEFINE t == config.data.keys_per_bin
           S == Sources[source]
           odd == OddBins(config.c, m, t)
           n == chd_ph_n(config.c, m, t)
           lf == load_factor(config.c)
           a == m * lf[2]
           e == t * lf[1]
           x == a \div e + 1
<1>1. config.data.b \in 1..14 /\ t \in 1..127 /\ config \in Settings
  BY DEF SettingsInv, TypeOK
<1>2. source \in DOMAIN Sources /\ MadeFor(config, source)
  BY DEF SettingsInv
<1>3. t = chd_ph_config_set_keys_per_bin(S.keys_per_bin)
  <2> DEFINE first == cmph_config_set_b(config, S.b)
             second == cmph_config_set_keys_per_bin(first, S.keys_per_bin)
  <2>1. /\ first.algo = config.algo /\ "keys_per_bin" \in DOMAIN first.data
        /\ "data" \in DOMAIN first
    BY <1>1 DEF cmph_config_set_b, Settings
  <2>2. config = second
    BY <1>2, Zenon DEF MadeFor
  <2> HIDE DEF first
  <2>3. second.data.keys_per_bin = chd_ph_config_set_keys_per_bin(S.keys_per_bin)
    BY <2>1 DEF cmph_config_set_keys_per_bin
  <2> HIDE DEF second
  <2> QED
    BY <2>2, <2>3
<1>4. m \in Nat /\ config.c \in Nat \X (Nat \ {0})
  BY SourceFacts
<1>5. lf[1] \in Nat \ {0} /\ lf[2] \in Nat \ {0}
  BY <1>4 DEF load_factor
<1>6. odd = IF x % 2 = 0 THEN x + 1 ELSE x
  BY Zenon DEF OddBins
<1> HIDE DEF lf
<1>7. a \in Nat /\ e \in Nat \ {0}
  BY <1>1, <1>4, <1>5
<1> HIDE DEF a, e
<1>8. x \in Nat \ {0}
  BY <1>7
<1> HIDE DEF x
<1>9. odd \in Nat \ {0} /\ odd % 2 = 1
  <2> HIDE DEF odd
  <2> QED
    BY <1>6, <1>8
<1>10. odd = OddBins(S.c, Len(S.keys), chd_ph_config_set_keys_per_bin(S.keys_per_bin))
  BY <1>2, <1>3 DEF MadeFor, m, keys
<1>11. \E p \in Candidates(odd) : IsNextPrime(odd, p)
  BY <1>2, <1>10, PrimesAssumption DEF MadeFor
<1>12. n = NextPrime(odd)
  BY DEF chd_ph_n
<1> HIDE DEF odd, n
<1>13. n \in Candidates(odd) /\ IsNextPrime(odd, n)
  BY <1>11, <1>12, Zenon DEF NextPrime
<1>14. n \in Nat \ {0} /\ n >= odd
  BY <1>9, <1>13 DEF Candidates
<1>15. chd_ph_nbuckets(m, config.data.b) \in Nat \ {0}
  <2> DEFINE b == config.data.b
  <2>1. b \in Nat \ {0}
    BY <1>1
  <2> HIDE DEF b
  <2>2. m \div b \in Nat
    BY <1>4, <2>1
  <2> QED
    BY <2>2 DEF chd_ph_nbuckets, b
<1> QED
  BY <1>1, <1>9, <1>13, <1>14, <1>15 DEF odd, n, t

\* The ranks of chd are stored with their sizes.
LEMMA RankGenerated ==
    ASSUME NEW vals, NEW n \in Nat \ {0}, vals[n - 1] \in Nat
    PROVE  Size(compressed_rank_dump(compressed_rank_generate(vals, n))) \in Nat \ {0}
<1> DEFINE max_val == vals[n - 1]
           r == AtLeastOne(i_log2(max_val \div n))
           q == max_val \div power2[r]
           First(i) == CHOOSE j \in DOMAIN vals :
                           vals[j] \div power2[r] >= i /\ \A l \in 0..(j - 1) : vals[l] \div power2[r] < i
           sel == select_generate([i \in 0..(q - 1) |-> First(i + 1)], q, n)
           rems == UNION {BitsOf(vals[i] % power2[r], r, i * r) : i \in DOMAIN vals}
           cr == [max_val |-> max_val, n |-> n, rem_r |-> r, sel |-> sel, vals_rems |-> rems]
           d == select_dump(sel)
           f == compressed_rank_dump(cr)
           w == Words(n * r)
           size == Size(d)
           T == {U32(max_val), U32(n), U32(r), U32(size), U32(sel.n), U32(sel.m),
                 BitVector(sel.n + sel.m, sel.ones), Array(4, sel.select_table),
                 BitVector(n * r, rems)}
<1>1. compressed_rank_generate(vals, n) = cr
  BY Zenon DEF compressed_rank_generate
<1>2. r \in 1..30
  BY ILog2Range
<1> HIDE DEF r
<1>3. power2[r] \in Nat \ {0}
  BY <1>2, PowersPositive
<1>4. max_val \in Nat
  OBVIOUS
<1> HIDE DEF max_val
<1>5. q \in Nat
  BY <1>3, <1>4
<1> HIDE DEF q
<1>6. SelectData(sel)
  BY <1>5, SelectGenerated
<1> HIDE DEF sel, rems
<1>7. n * r \in Nat
  BY <1>2
<1>8. w \in Nat
  BY <1>7, WordsFacts
<1>9. Words(sel.n + sel.m) \in Nat /\ Cardinality(DOMAIN sel.select_table) \in Nat
  BY <1>6, SelectSizes
<1>10. f = <<U32(max_val), U32(n), U32(r), U32(size)>> \o d \o <<BitVector(n * r, rems)>>
  BY Zenon DEF compressed_rank_dump
<1>11. d = <<U32(sel.n), U32(sel.m), BitVector(sel.n + sel.m, sel.ones), Array(4, sel.select_table)>>
  BY DEF select_dump
<1> HIDE DEF size
<1>12. /\ Len(f) = 9 /\ f \in Seq(T)
       /\ f[1] = U32(max_val) /\ f[2] = U32(n) /\ f[3] = U32(r) /\ f[4] = U32(size)
       /\ f[5] = U32(sel.n) /\ f[6] = U32(sel.m) /\ f[7] = BitVector(sel.n + sel.m, sel.ones)
       /\ f[8] = Array(4, sel.select_table) /\ f[9] = BitVector(n * r, rems)
  <2> HIDE DEF f, d
  <2> QED
    BY <1>10, <1>11
<1> HIDE DEF f, d, T
<1>13. f[1][1] = 4 /\ \A j \in 1..9 : f[j][1] \in Nat
  <2>1. /\ f[1][1] = 4 /\ f[2][1] = 4 /\ f[3][1] = 4 /\ f[4][1] = 4 /\ f[5][1] = 4 /\ f[6][1] = 4
        /\ f[7][1] = Words(sel.n + sel.m) /\ f[8][1] = 4 * Cardinality(DOMAIN sel.select_table)
        /\ f[9][1] = w
    BY <1>12 DEF U32, BitVector, Array
  <2> HIDE DEF w
  <2> QED
    BY <1>8, <1>9, <2>1
<1> DEFINE s == FieldStarts(f)
<1>14. s[1] = 0 /\ \A j \in 1..9 : s[j + 1] = s[j] + f[j][1]
  <2>1. 9 \in 0..Len(f) /\ \A j \in 1..9 : f[j][1] \in Nat
    BY <1>12, <1>13
  <2> QED
    BY <1>12, <2>1, FieldStartsFacts
<1>15. s[10] \in Nat \ {0}
  <2> HIDE DEF s
  <2>1. /\ s[2] = s[1] + 4 /\ s[3] = s[2] + f[2][1] /\ s[4] = s[3] + f[3][1]
        /\ s[5] = s[4] + f[4][1] /\ s[6] = s[5] + f[5][1] /\ s[7] = s[6] + f[6][1]
        /\ s[8] = s[7] + f[7][1] /\ s[9] = s[8] + f[8][1] /\ s[10] = s[9] + f[9][1]
    BY <1>13, <1>14
  <2>2. /\ f[2][1] \in Nat /\ f[3][1] \in Nat /\ f[4][1] \in Nat /\ f[5][1] \in Nat /\ f[6][1] \in Nat
        /\ f[7][1] \in Nat /\ f[8][1] \in Nat /\ f[9][1] \in Nat /\ s[1] = 0
    BY <1>13, <1>14
  <2> QED
    BY <2>1, <2>2
<1>16. Size(f) = s[10]
  BY <1>12 DEF Size, Offset
<1> QED
  BY <1>1, <1>15, <1>16 DEF f

-----------------------------------------------------------------------------
\* A function with the name of its algorithm, and a step that leaves none.
Named(f) == [algo |-> config.algo, size |-> f.size, data |-> f.data]
NoFunction == phase' \notin {"built", "dumped", "loaded", "packed"}
Serves == NoFunction \/ \E f : Build(f) /\ WellFormed(Named(f))

LEMMA WithoutOne ==
    ASSUME \/ Retry
           \/ Undefined
           \/ \E cry : Remap(cry)
           \/ \E l, cry : WithoutFunction("searching", l, cry)
    PROVE  NoFunction
BY DEF Retry, Undefined, Remap, WithoutFunction, End, NoFunction

LEMMA NamedFields ==
    ASSUME NEW f
    PROVE  /\ Named(f) = [algo |-> Named(f).algo, size |-> Named(f).size, data |-> Named(f).data]
           /\ Named(f).algo = config.algo /\ Named(f).data = f.data /\ Named(f).size = f.size
BY DEF Named

LEMMA GraphServes ==
    ASSUME SettingsInv, ChmAttempt \/ BmzAttempt \/ Bmz8Attempt
    PROVE  Serves
<1>1. phase = "drawn" /\ config.algo \in {"chm", "bmz", "bmz8"}
  BY DEF ChmAttempt, BmzAttempt, Bmz8Attempt
<1>2. draw = [i \in 1..2 |-> draw[i]]
  BY <1>1, SourceFacts DEF SettingsInv
<1>3. /\ \A n, G : GraphData(chm_new(keys, draw, n, G).data)
      /\ \A n, g : GraphData(bmz_new(keys, draw, n, g).data)
      /\ \A n, g : GraphData(bmz8_new(keys, draw, n, g).data)
  <2>1. ASSUME NEW n, NEW g
        PROVE  GraphData([hashes |-> draw, n |-> n, m |-> Len(keys), g |-> g])
    BY <1>2 DEF GraphData
  <2> QED
    BY <2>1 DEF chm_new, bmz_new, bmz8_new
<1>4. ASSUME NEW f, GraphData(f.data) PROVE WellFormed(Named(f))
  BY <1>1, <1>4, NamedFields DEF WellFormed, Algos
<1>5. CASE ChmAttempt
  BY <1>3, <1>4, <1>5, WithoutOne, Zenon DEF ChmAttempt, Serves
<1>6. ASSUME NEW n, NEW label, Labelled(n, label) PROVE Serves
  BY <1>3, <1>4, <1>6, WithoutOne, Zenon DEF Labelled, Serves
<1>7. CASE BmzAttempt
  BY <1>6, <1>7, WithoutOne, Zenon DEF BmzAttempt, Serves
<1>8. CASE Bmz8Attempt
  BY <1>6, <1>8, WithoutOne, Zenon DEF Bmz8Attempt, Serves
<1> QED
  BY <1>5, <1>7, <1>8

LEMMA BdzServes ==
    ASSUME SettingsInv, BdzAttempt \/ BdzPhAttempt
    PROVE  Serves
<1>1. phase = "drawn" /\ config.algo \in {"bdz", "bdz_ph"} /\ (BdzAttempt => config.algo = "bdz")
      /\ (BdzPhAttempt => config.algo = "bdz_ph")
  BY DEF BdzAttempt, BdzPhAttempt
<1> DEFINE r == bdz_r(config.c, m)
           b == config.data.b
<1>2. r \in Nat \ {0}
  BY <1>1, SourceFacts, ThirdsFacts
<1>3. CASE BdzAttempt
  <2> DEFINE att == bdz_mapping(keys, draw, r)
             f == bdz_new(keys, draw, r, b, att)
             n == 3 * r
             k == power2[b]
             size == CeilDiv(n, k)
  <2>1. b \in 3..10
    BY <1>1, <1>3 DEF SettingsInv, TypeOK
  <2> HIDE DEF b, r
  <2>2. k \in Nat \ {0}
    BY <2>1, PowersPositive
  <2>3. n \in Nat /\ n >= 1
    BY <1>2
  <2>4. f.data = [hl |-> draw, m |-> Len(keys), n |-> n, r |-> r, g |-> assigning(att.edges, att.queue, n),
                  k |-> k, b |-> b, ranktablesize |-> size,
                  ranktable |-> ranking(assigning(att.edges, att.queue, n), n, k)]
    BY DEF bdz_new
  <2>5. DOMAIN ranking(assigning(att.edges, att.queue, n), n, k) = 0..(size - 1)
    BY DEF ranking
  <2> HIDE DEF n, k, f
  <2>6. size \in Nat \ {0}
    BY <2>2, <2>3, CeilDivNat
  <2> HIDE DEF size
  <2>7. Cardinality(0..(size - 1)) = size
    BY <2>6, FS_Interval
  <2>8. BdzData(f.data)
    BY <2>4, <2>5, <2>6, <2>7 DEF BdzData
  <2>9. WellFormed(Named(f))
    BY <1>1, <1>3, <2>8, NamedFields DEF WellFormed, Algos
  <2>10. Build(f) \/ Retry
    BY <1>3, Zenon DEF BdzAttempt, r, f, b
  <2> HIDE DEF att
  <2> QED
    BY <2>9, <2>10, WithoutOne, Zenon DEF Serves
<1>4. CASE BdzPhAttempt
  <2> DEFINE att == bdz_ph_mapping(keys, draw, r)
             f == bdz_ph_new(keys, draw, r, att)
  <2>1. BdzPhData(f.data)
    BY DEF BdzPhData, bdz_ph_new
  <2> HIDE DEF f
  <2>2. WellFormed(Named(f))
    BY <1>1, <1>4, <2>1, NamedFields DEF WellFormed, Algos
  <2>3. Build(f) \/ Retry
    BY <1>4, Zenon DEF BdzPhAttempt, bdz_ph_r, f
  <2> QED
    BY <2>2, <2>3, WithoutOne, Zenon DEF Serves
<1> QED
  BY <1>3, <1>4

LEMMA FchServes ==
    ASSUME SettingsInv, FchSearch
    PROVE  Serves
<1>1. /\ config.algo = "fch" /\ left.rounds \in Nat \ {0}
  <2>1. phase = "searching"
    BY DEF FchSearch
  <2>2. config.algo = "fch" /\ left \in Attempts(config.algo)
    BY <2>1 DEF SettingsInv, Trying
  <2> QED
    BY <2>2, CappedPositive, LimitAssumption DEF Attempts, Algos
<1>2. PICK h2, b, search : Build(fch_new(keys, carry.h1, h2, fch_c(config.c), b, search.g))
                           \/ (\E cry : Remap(cry))
                           \/ (\E l, cry : WithoutFunction("searching", l, cry))
  <2>1. left.rounds > 1 \/ left.rounds = 1
    BY <1>1
  <2> QED
    BY <2>1, Zenon DEF FchSearch
<1> DEFINE f == fch_new(keys, carry.h1, h2, fch_c(config.c), b, search.g)
<1>3. FchData(f.data)
  BY DEF FchData, fch_new
<1> HIDE DEF f
<1>4. WellFormed(Named(f))
  BY <1>1, <1>3, NamedFields DEF WellFormed, Algos
<1>5. Build(f) \/ (\E cry : Remap(cry)) \/ (\E l, cry : WithoutFunction("searching", l, cry))
  BY <1>2 DEF f
<1> QED
  BY <1>4, <1>5, WithoutOne, Zenon DEF Serves

\* The numbers chd keeps for the bins that are empty.
LEMMA ValsFacts ==
    ASSUME NEW occup, NEW k \in Nat, NEW n \in Nat, NEW t, k < n
    PROVE  vals_table(occup, k, n, t)[n - k - 1] \in Nat
<1> DEFINE T == {i \in 0..(n - 1) : IF t = 1 THEN occup[i] = 0
                                    ELSE (occup[i \div 8] \div power2[i % 8]) % 2 = 0}
           empty == EmptyBins(occup, n, t)
           i == n - k - 1
<1>1. empty = InOrder(T)
  BY Zenon DEF EmptyBins
<1>2. T \in SUBSET (0..(n - 1))
  OBVIOUS
<1>3. IsFiniteSet(T)
  <2> HIDE DEF T
  <2>1. IsFiniteSet(0..(n - 1))
    BY FS_Interval
  <2> QED
    BY <1>2, <2>1, FS_Subset
<1> HIDE DEF T
<1>4. T \in SUBSET Int /\ T \in SUBSET Nat
  BY <1>2
<1>5. Len(empty) = Cardinality(T) /\ Cardinality(T) \in Nat
      /\ \A j \in 1..Cardinality(T) : empty[j] \in T
  BY <1>1, <1>3, <1>4, InOrderFacts
<1>6. vals_table(occup, k, n, t)[i] = IF i < Len(empty) THEN empty[i + 1] ELSE 0
  BY DEF vals_table
<1>7. i \in Nat
  OBVIOUS
<1> HIDE DEF empty, i
<1>8. vals_table(occup, k, n, t)[i] \in Nat
  <2>1. i < Len(empty) => empty[i + 1] \in T
    BY <1>5, <1>7
  <2>2. i < Len(empty) => empty[i + 1] \in Nat
    BY <1>4, <2>1
  <2>3. CASE i < Len(empty)
    BY <1>6, <2>2, <2>3
  <2>4. CASE ~(i < Len(empty))
    BY <1>6, <2>4
  <2> QED
    BY <2>3, <2>4
<1> QED
  BY <1>8 DEF i

LEMMA ChdServes ==
    ASSUME SettingsInv, ChdAttempt
    PROVE  Serves
<1> DEFINE t == config.data.keys_per_bin
           n == chd_ph_n(config.c, m, t)
           nbuckets == chd_ph_nbuckets(m, config.data.b)
           attempt == chd_ph_mapping(keys, draw, n, nbuckets)
           search == chd_ph_searching(attempt.buckets, m, n, t, carry)
           phf == chd_ph_new(draw, n, nbuckets, search.disp)
           f == chd_new(m, phf.data, search.occup, t)
<1>1. phase = "drawn" /\ config.algo \in {"chd_ph", "chd"}
  BY DEF ChdAttempt
<1>2. n \in Nat \ {0} /\ nbuckets \in Nat \ {0} /\ m \in Nat
  BY <1>1, BinsFacts, SourceFacts
<1>3. ChdSearched(n, search, phf) \/ Retry
  BY Zenon DEF ChdAttempt
<1> HIDE DEF n, nbuckets, search
<1>4. phf.data = [hl |-> draw, n |-> n, nbuckets |-> nbuckets,
                  cs |-> compressed_seq_generate(search.disp, nbuckets)]
  BY DEF chd_ph_new
<1>5. ChdPhData(phf.data)
  BY <1>2, <1>4, SeqGenerated DEF ChdPhData
<1>6. phf.data.n = n
  BY <1>4
<1> HIDE DEF phf
<1>7. config.algo = "chd_ph" => WellFormed(Named(phf))
  BY <1>5, NamedFields DEF WellFormed, Algos
<1>8. ASSUME config.algo = "chd", ValsFit(search.occup, m, n, t)
      PROVE  WellFormed(Named(f))
  <2> DEFINE vals == vals_table(search.occup, m, n, t)
             cr == compressed_rank_dump(compressed_rank_generate(vals, n - m))
  <2>1. m < n
    BY <1>8 DEF ValsFit
  <2>2. n - m \in Nat \ {0} /\ vals[n - m - 1] \in Nat
    BY <1>2, <2>1, ValsFacts
  <2>3. Size(cr) \in Nat \ {0}
    <3> HIDE DEF vals
    <3> QED
      BY <2>2, RankGenerated
  <2>4. f.data = [packed_chd_phf |-> PackedPh(phf.data), packed_chd_phf_size |-> chd_ph_packed_size(phf.data),
                  packed_cr |-> cr]
    BY <1>6 DEF chd_new
  <2> HIDE DEF cr, f
  <2>5. ChdData(f.data)
    BY <2>3, <2>4 DEF ChdData
  <2> QED
    BY <1>8, <2>5, NamedFields DEF WellFormed, Algos
<1>9. CASE Retry
  BY <1>9, WithoutOne DEF Serves
<1>10. CASE ChdSearched(n, search, phf)
  <2>1. \/ Remap(search.disp) \/ Undefined
        \/ config.algo = "chd_ph" /\ Build(phf)
        \/ config.algo = "chd" /\ ValsFit(search.occup, m, n, t) /\ Build(f)
    <3>1. config.algo = "chd_ph" \/ config.algo = "chd"
      BY <1>1
    <3> HIDE DEF f
    <3>2. CASE ~search.ok
      BY <1>10, <3>2, Zenon DEF ChdSearched
    <3>3. CASE search.ok /\ config.algo = "chd_ph"
      BY <1>10, <3>3, Zenon DEF ChdSearched
    <3>4. CASE search.ok /\ config.algo # "chd_ph"
      <4>1. ChdBuilt(n, search.occup, f)
        BY <1>10, <3>4, Zenon DEF ChdSearched, f
      <4> QED
        BY <3>1, <3>4, <4>1, Zenon DEF ChdBuilt
    <3> QED
      BY <3>2, <3>3, <3>4
  <2> HIDE DEF f
  <2> QED
    BY <1>7, <1>8, <2>1, WithoutOne, Zenon DEF Serves
<1> QED
  BY <1>3, <1>9, <1>10

-----------------------------------------------------------------------------
(***************************************************************************)
(* The function in memory, or the one the file was written from.           *)
(***************************************************************************)
Served(f) == [k \in Keys |-> cmph_search(f, k)]
FunctionInv ==
    /\ phase \in {"built", "loaded"} => WellFormed(mphf) /\ answers = Served(mphf)
    /\ phase = "dumped" => \E f : WellFormed(f) /\ image = cmph_dump(f) /\ answers = Served(f)

Kept == (phase \in {"dumped", "loaded"}) => (answers' = answers)

LEMMA ServesKeeps ==
    ASSUME SettingsInv, Serves, phase \notin {"dumped", "loaded"}
    PROVE  FunctionInv' /\ Kept
<1>1. Kept
  BY DEF Kept
<1>2. CASE NoFunction
  BY <1>1, <1>2 DEF FunctionInv, NoFunction
<1>3. CASE \E f : Build(f) /\ WellFormed(Named(f))
  <2>1. PICK f : Build(f) /\ WellFormed(Named(f))
    BY <1>3
  <2>2. /\ phase' = "built" /\ mphf' = Named(f) /\ source' = source
        /\ answers' = [k \in Keys |-> cmph_search(Named(f), k)]
    BY <2>1, Zenon DEF Build, End, Named
  <2> HIDE DEF Named
  <2>3. Keys' = Keys
    BY <2>2 DEF Keys, keys
  <2>4. WellFormed(mphf')
    BY <2>1, <2>2
  <2>5. answers' = Served(mphf)'
    BY <2>2, <2>3 DEF Served
  <2> QED
    BY <1>1, <2>2, <2>4, <2>5 DEF FunctionInv
<1> QED
  BY <1>2, <1>3 DEF Serves

LEMMA DumpKeepsFunction ==
    ASSUME FunctionInv, Dump
    PROVE  FunctionInv' /\ Kept
<1>1. /\ phase = "built" /\ phase' = "dumped" /\ image' = cmph_dump(mphf)
      /\ answers' = answers /\ source' = source
  BY DEF Dump
<1>2. WellFormed(mphf) /\ answers = Served(mphf)
  BY <1>1 DEF FunctionInv
<1>3. answers' = [k \in Keys' |-> cmph_search(mphf, k)]
  BY <1>1, <1>2 DEF Served, Keys, keys
<1>4. \E f : WellFormed(f) /\ image' = cmph_dump(f) /\ answers' = [k \in Keys' |-> cmph_search(f, k)]
  BY <1>1, <1>2, <1>3
<1> QED
  BY <1>1, <1>4 DEF FunctionInv, Kept, Served

LEMMA LoadKeepsFunction ==
    ASSUME FunctionInv, Load
    PROVE  FunctionInv' /\ Kept
<1>1. /\ phase = "dumped" /\ phase' = "loaded" /\ mphf' = cmph_load(image)
      /\ answers' = [k \in Keys |-> cmph_search(mphf', k)] /\ source' = source
  BY DEF Load
<1>2. PICK f : WellFormed(f) /\ image = cmph_dump(f) /\ answers = Served(f)
  BY <1>1 DEF FunctionInv
<1>3. mphf' = f
  BY <1>1, <1>2, FunctionLoaded
<1>4. answers' = [k \in Keys |-> cmph_search(f, k)]
  BY <1>1, <1>3, Zenon
<1>5. answers' = answers
  BY <1>2, <1>4 DEF Served
<1>6. Keys' = Keys
  BY <1>1 DEF Keys, keys
<1>7. WellFormed(mphf') /\ answers' = Served(mphf)'
  BY <1>2, <1>3, <1>4, <1>6 DEF Served
<1> QED
  BY <1>1, <1>5, <1>7 DEF FunctionInv, Kept

LEMMA PackKeepsFunction ==
    ASSUME FunctionInv, Pack
    PROVE  FunctionInv' /\ Kept
<1>1. /\ phase = "loaded" /\ phase' = "packed" /\ image' = cmph_pack(mphf)
      /\ answers' = [k \in Keys |-> cmph_search_packed(image', k)]
  BY DEF Pack
<1>2. WellFormed(mphf) /\ answers = Served(mphf)
  BY <1>1 DEF FunctionInv
<1>3. answers' = [k \in Keys |-> cmph_search_packed(cmph_pack(mphf), k)]
  BY <1>1, Zenon
<1>4. \A k : cmph_search_packed(cmph_pack(mphf), k) = cmph_search(mphf, k)
  BY <1>2, FunctionPacked
<1>5. answers' = answers
  BY <1>2, <1>3, <1>4 DEF Served
<1> QED
  BY <1>1, <1>5 DEF FunctionInv, Kept

LEMMA FunctionStutter ==
    ASSUME FunctionInv, UNCHANGED vars
    PROVE  FunctionInv'
<1>1. phase' = phase /\ mphf' = mphf /\ answers' = answers /\ image' = image /\ Keys' = Keys
  BY DEF vars, Keys, keys
<1> QED
  BY <1>1 DEF FunctionInv, Served

LEMMA FunctionKept ==
    ASSUME SettingsInv, FunctionInv, Next
    PROVE  FunctionInv' /\ Kept
<1>1. CASE Configure \/ cmph_new \/ Draw \/ FchMapping
  BY <1>1 DEF Configure, cmph_new, Draw, FchMapping, FunctionInv, Kept
<1>2. CASE ChmAttempt \/ BmzAttempt \/ Bmz8Attempt \/ BdzAttempt \/ BdzPhAttempt \/ ChdAttempt
           \/ FchSearch
  <2>1. Serves
    BY <1>2, GraphServes, BdzServes, ChdServes, FchServes
  <2>2. phase \notin {"dumped", "loaded"}
    BY <1>2 DEF ChmAttempt, BmzAttempt, Bmz8Attempt, BdzAttempt, BdzPhAttempt, ChdAttempt, FchSearch
  <2> QED
    BY <2>1, <2>2, ServesKeeps
<1>3. CASE Dump
  BY <1>3, DumpKeepsFunction
<1>4. CASE Load
  BY <1>4, LoadKeepsFunction
<1>5. CASE Pack
  BY <1>5, PackKeepsFunction
<1>6. CASE Done
  <2>1. UNCHANGED vars /\ phase \notin {"dumped", "loaded"}
    BY <1>6 DEF Done
  <2> QED
    BY <2>1, FunctionStutter DEF Kept
<1> QED
  BY <1>1, <1>2, <1>3, <1>4, <1>5, <1>6 DEF Next, Construction

THEOREM FunctionInvariant == Spec => [](SettingsInv /\ FunctionInv)
<1>1. Init => FunctionInv
  BY DEF Init, FunctionInv
<1>2. SettingsInv /\ FunctionInv /\ [Next]_vars => FunctionInv'
  BY FunctionKept, FunctionStutter
<1> QED
  BY <1>1, <1>2, SettingsInvariant, PTL DEF Spec

\* Writing, loading and packing a function never changes a value, whatever
\* the algorithm, the keys and the hash functions: load reads the fields
\* that dump wrote, and search_packed the offsets at which pack put them.
THEOREM AnswersSurvive == Spec => AnswersKept
<1>1. SettingsInv /\ FunctionInv /\ [Next]_vars
        => [(phase \in {"dumped", "loaded"}) => (answers' = answers)]_vars
  BY FunctionKept DEF Kept
<1> QED
  BY <1>1, FunctionInvariant, PTL DEF Spec, AnswersKept
=============================================================================
