--------------------------- MODULE MapEmbedProofs ---------------------------
(***************************************************************************)
(* Proofs about MapEmbed, for every number of pairs, layers, cells and     *)
(* slots, every choice of hash functions and every history of calls.  The  *)
(* first part has its inductive invariant; the second shows that MapEmbed  *)
(* implements HashStore, that an insert leaves the pairs of other cells    *)
(* where they are, that without lazy expansion every slot in use holds a   *)
(* pair of the table, and that the arrays and bitmaps of BucketSlots do    *)
(* what the sets of MapEmbed do.                                           *)
(*                                                                         *)
(* WalksTakeAll: a loop over slots is a function of the number of its      *)
(* rounds; its invariant says that no slot is in use twice, that what is   *)
(* gone was to be taken, that the slots passed hold nothing to be taken,   *)
(* and that rounds and slots end together.                                 *)
(*                                                                         *)
(* BitmapsTurn: a bitmap is a sum of powers of two, which splits at any    *)
(* place into its lower bits and, shifted, its upper ones; so what leaves  *)
(* at the top of a shift is the bitmap of what must come back at the       *)
(* bottom, and the bits of a sum are the set that was summed.              *)
(***************************************************************************)
EXTENDS BucketSlots, FiniteSetTheorems, WellFoundedInduction, SequenceTheorems, TLAPS

-----------------------------------------------------------------------------
(* Arithmetic of pages: bucket r of page g is number r + g * ps.           *)

\* A number below n * p, p to a page, is on one of the n pages.
LEMMA PageBound ==
    ASSUME NEW p \in Nat \ {0}, NEW n \in Nat \ {0}, NEW g \in 0 .. n - 1, NEW r \in 0 .. p - 1
    PROVE  r + g * p \in 0 .. n * p - 1
<1>1. g * p \in Nat /\ n * p \in Nat
  OBVIOUS
<1>2. (g + 1) * p <= n * p
  OBVIOUS
<1>3. (g + 1) * p = g * p + p
  OBVIOUS
<1> QED
  BY <1>1, <1>2, <1>3

\* The page and the place on it are determined by the number.
LEMMA PageUnique ==
    ASSUME NEW p \in Nat \ {0}, NEW g1 \in Nat, NEW g2 \in Nat,
           NEW r1 \in 0 .. p - 1, NEW r2 \in 0 .. p - 1,
           r1 + g1 * p = r2 + g2 * p
    PROVE  g1 = g2 /\ r1 = r2
<1>1. \A a, b \in Nat : a < b => a * p + p <= b * p
  <2> SUFFICES ASSUME NEW a \in Nat, NEW b \in Nat, a < b PROVE a * p + p <= b * p
    OBVIOUS
  <2>1. (a + 1) * p <= b * p
    OBVIOUS
  <2>2. (a + 1) * p = a * p + p
    OBVIOUS
  <2> QED
    BY <2>1, <2>2
<1>2. g1 * p \in Nat /\ g2 * p \in Nat
  OBVIOUS
<1>3. ~(g1 < g2)
  BY <1>1, <1>2
<1>4. ~(g2 < g1)
  BY <1>1, <1>2
<1> QED
  BY <1>2, <1>3, <1>4

\* The remainder and the quotient are what they should be.
LEMMA ModRange ==
    ASSUME NEW h \in Nat, NEW p \in Nat \ {0}
    PROVE  h % p \in 0 .. p - 1 /\ h \div p \in Nat /\ h = (h % p) + (h \div p) * p
  OBVIOUS

\* Division takes a bucket index of page and remainder apart.
LEMMA DivModOf ==
    ASSUME NEW p \in Nat \ {0}, NEW g \in Nat, NEW r \in 0 .. p - 1
    PROVE  (r + g * p) \div p = g /\ (r + g * p) % p = r
<1>1. g * p \in Nat /\ r + g * p \in Nat
  OBVIOUS
<1> DEFINE h == r + g * p
<1>2. h % p \in 0 .. p - 1 /\ h \div p \in Nat /\ h = (h % p) + (h \div p) * p
  BY <1>1, ModRange
<1> QED
  BY <1>2, PageUnique

\* Doubling a page: the place of a hash on the old page is its place on the
\* new one, within either half.
LEMMA HalfPage ==
    ASSUME NEW h \in Nat, NEW p \in Nat \ {0}
    PROVE  (h % (2 * p)) % p = h % p
<1> DEFINE w == 2 * p
           r == h % w
           q == h \div w
<1>1. w \in Nat \ {0}
  OBVIOUS
<1>2. r \in 0 .. w - 1 /\ q \in Nat /\ h = r + q * w
  BY <1>1, ModRange
<1>3. r \in Nat
  BY <1>1, <1>2
<1>4. r % p \in 0 .. p - 1 /\ r \div p \in Nat /\ r = (r % p) + (r \div p) * p
  BY <1>3, ModRange
<1>5. q * w = (2 * q) * p
  BY <1>2
<1>6. h = (r % p) + (r \div p + 2 * q) * p
  <2> DEFINE s == r \div p
             t == r % p
  <2>1. s \in Nat /\ t \in Nat /\ r = t + s * p /\ h = r + (2 * q) * p
    BY <1>2, <1>4, <1>5
  <2>2. (s + 2 * q) * p = s * p + (2 * q) * p
    BY <1>2, <2>1
  <2>3. s * p \in Nat /\ (2 * q) * p \in Nat
    BY <1>2, <2>1
  <2> HIDE DEF s, t
  <2>4. h = t + (s + 2 * q) * p
    BY <2>1, <2>2, <2>3
  <2> QED
    BY <2>4 DEF s, t
<1>7. h % p = r % p
  <2> DEFINE g == r \div p + 2 * q
             t == r % p
  <2>1. g \in Nat /\ t \in 0 .. p - 1
    BY <1>2, <1>4
  <2>2. h = t + g * p
    BY <1>6
  <2> HIDE DEF g, t
  <2>3. h % p = t
    BY <2>1, <2>2, DivModOf
  <2> QED
    BY <2>3 DEF t
<1> QED
  BY <1>7

-----------------------------------------------------------------------------
(* The hash operators.                                                     *)

\* The sizes and the value of a full cell.
LEMMA Sizes ==
    /\ cell_hash \in Nat /\ cell_hash >= 2
    /\ cell_full \in Guides /\ cell_full = cell_hash - 1
    /\ cell_layer \in Nat /\ cell_layer >= 1
    /\ N \in Nat /\ N >= 1
    /\ Guides \subseteq Nat
  BY SizeAssumption DEF cell_full, Guides

\* A cell of the table has a layer and an index in it.
LEMMA CellOfKey ==
    ASSUME hash \in Hashes, NEW q \in Key, NEW l \in Layers
    PROVE  calculate_cell(q, l) \in Cell /\ calculate_cell(q, l)[1] = l
<1>1. hash.cell[l][q] \in Nat
  BY HashAssumption
<1>2. cell_number[l] \in Nat \ {0}
  BY SizeAssumption
<1>3. hash.cell[l][q] % cell_number[l] \in 0 .. cell_number[l] - 1
  <2> DEFINE h == hash.cell[l][q]
             n == cell_number[l]
  <2>1. h \in Nat /\ n \in Nat \ {0}
    BY <1>1, <1>2
  <2> HIDE DEF h, n
  <2>2. h % n \in 0 .. n - 1
    BY <2>1
  <2> QED
    BY <2>2 DEF h, n
<1> QED
  BY <1>3 DEF calculate_cell, Cell

\* A cell is in a layer.
LEMMA CellLayer ==
    ASSUME NEW a \in Cell
    PROVE  a[1] \in Layers
  BY DEF Cell

\* A guide of a key is below cell_hash.
LEMMA GuideOfKey ==
    ASSUME hash \in Hashes, NEW q \in Key, NEW v \in Nat
    PROVE  calculate_guide(q, v) \in Guides
<1>1. hash.guide[q] \in Nat
  BY HashAssumption
<1> QED
  BY <1>1, SizeAssumption DEF calculate_guide, Guides

\* A guide and a cell select a bucket of the guide's page.
LEMMA BucketOfGuide ==
    ASSUME hash \in Hashes, NEW ps \in Nat \ {0}, NEW g \in Guides, NEW a \in Cell
    PROVE  /\ calculate_bucket_from_cell(ps, g, a) \in 0 .. cell_hash * ps - 1
           /\ hash.bucket[g][a] \in Nat
           /\ hash.bucket[g][a] % ps \in 0 .. ps - 1
<1>1. hash.bucket[g][a] \in Nat
  BY HashAssumption
<1>2. hash.bucket[g][a] % ps \in 0 .. ps - 1
  BY <1>1, ModRange
<1>3. g \in 0 .. cell_hash - 1 /\ cell_hash \in Nat \ {0}
  BY SizeAssumption DEF Guides
<1>4. (hash.bucket[g][a] % ps) + g * ps \in 0 .. cell_hash * ps - 1
  BY <1>2, <1>3, PageBound
<1> QED
  BY <1>1, <1>2, <1>4 DEF calculate_bucket_from_cell

\* Different guides select different buckets, whatever the cells.
LEMMA GuideOfBucket ==
    ASSUME hash \in Hashes, NEW ps \in Nat \ {0},
           NEW g1 \in Guides, NEW a1 \in Cell, NEW g2 \in Guides, NEW a2 \in Cell,
           calculate_bucket_from_cell(ps, g1, a1) = calculate_bucket_from_cell(ps, g2, a2)
    PROVE  g1 = g2
<1> DEFINE r1 == hash.bucket[g1][a1] % ps
           r2 == hash.bucket[g2][a2] % ps
<1>1. r1 \in 0 .. ps - 1 /\ r2 \in 0 .. ps - 1
  BY BucketOfGuide
<1>2. g1 \in Nat /\ g2 \in Nat
  BY Sizes
<1>3. r1 + g1 * ps = r2 + g2 * ps
  BY DEF calculate_bucket_from_cell
<1> HIDE DEF r1, r2
<1> QED
  BY <1>1, <1>2, <1>3, PageUnique

\* The guide that dispense_kvs computes is the one a query computes.
LEMMA NowGuide ==
    ASSUME hash \in Hashes, NEW x \in KV, NEW v \in Nat
    PROVE  /\ kvs_now_guide(x, v) = calculate_guide(KeyOf[x], v)
           /\ kvs_initial_guide(x) \in Guides
           /\ kvs_now_guide(x, v) \in Guides
<1>1. KeyOf[x] \in Key
  BY KVAssumption
<1>2. hash.guide[KeyOf[x]] \in Nat
  BY <1>1, HashAssumption
<1>3. kvs_initial_guide(x) = hash.guide[KeyOf[x]] % cell_hash
  BY <1>2, SizeAssumption DEF kvs_initial_guide, calculate_guide
<1>4. kvs_now_guide(x, v) = calculate_guide(KeyOf[x], v)
  BY <1>3 DEF kvs_now_guide, calculate_guide
<1>5. kvs_initial_guide(x) \in Guides
  BY <1>1, GuideOfKey DEF kvs_initial_guide
<1> QED
  BY <1>1, <1>4, <1>5, GuideOfKey

\* Turning a guide forward by v and comparing is turning the other one back:
\* check_kvs counts the pairs that dispense_kvs will send.
LEMMA TurnBack ==
    ASSUME NEW i \in Guides, NEW g \in Guides, NEW v \in Guides
    PROVE  (i + v) % cell_hash = g <=> i = (g + cell_hash - v) % cell_hash
<1>1. CASE cell_hash = 2
  BY <1>1 DEF Guides
<1>2. CASE cell_hash = 4
  BY <1>2 DEF Guides
<1>3. CASE cell_hash = 8
  BY <1>3 DEF Guides
<1>4. CASE cell_hash = 16
  BY <1>4 DEF Guides
<1> QED
  BY <1>1, <1>2, <1>3, <1>4, SizeAssumption

-----------------------------------------------------------------------------
(* The first open layer.                                                   *)

\* A set of naturals that is not empty has a least member.
LEMMA LeastElement ==
    ASSUME NEW S \in SUBSET Nat, S # {}
    PROVE  Min(S) \in S /\ \A y \in S : Min(S) <= y
<1>1. PICK x \in S : \A y \in S : ~(<<y, x>> \in OpToRel(<, Nat))
  BY NatLessThanWellFounded, WFMin
<1>2. \A y \in S : ~(<<y, x>> \in {ss \in Nat \X Nat : ss[1] < ss[2]})
  BY <1>1, Zenon DEF OpToRel
<1>3. \A y \in S : x <= y
  <2> TAKE y \in S
  <2>1. x \in Nat /\ y \in Nat /\ <<y, x>> \in Nat \X Nat
    OBVIOUS
  <2>2. ~(<<y, x>>[1] < <<y, x>>[2])
    BY <1>2, <2>1, Zenon
  <2> QED
    BY <2>1, <2>2
<1> QED
  BY <1>3 DEF Min

\* The cell that a key is looked up by is its first open one.
LEMMA FirstOpen ==
    ASSUME NEW c, NEW q, NEW s \in Nat, OpenLayers(c, q, s) # {}
    PROVE  \E l \in Layers :
              /\ HomeCell(c, q, s) = calculate_cell(q, l)
              /\ l >= s
              /\ c[calculate_cell(q, l)] # cell_full
              /\ \A m \in Layers : s <= m /\ m < l => c[calculate_cell(q, m)] = cell_full
<1> DEFINE S == OpenLayers(c, q, s)
<1>1. S \in SUBSET Nat
  BY DEF OpenLayers, Layers
<1>2. Min(S) \in S /\ \A y \in S : Min(S) <= y
  BY <1>1, LeastElement
<1>3. \A m \in Layers : s <= m /\ m < Min(S) => m \notin S
  BY <1>1, <1>2 DEF Layers
<1>4. Min(S) \in Layers
  BY <1>2 DEF OpenLayers
<1> WITNESS Min(S) \in Layers
<1> QED
  BY <1>2, <1>3 DEF HomeCell, OpenLayers, Layers

\* A layer with an open cell, all layers before it full, decides.
LEMMA HomeIs ==
    ASSUME NEW c, NEW q, NEW l \in Layers,
           c[calculate_cell(q, l)] # cell_full,
           \A m \in Layers : m < l => c[calculate_cell(q, m)] = cell_full
    PROVE  /\ OpenLayers(c, q, 0) # {}
           /\ HomeCell(c, q, 0) = calculate_cell(q, l)
           /\ \A ps : query_bucket(c, ps, q) = calculate_bucket(c, ps, q, calculate_cell(q, l))
<1>1. l \in OpenLayers(c, q, 0)
  BY DEF OpenLayers, Layers
<1>2. \A m \in OpenLayers(c, q, 0) : l <= m
  BY DEF OpenLayers, Layers
<1>3. Min(OpenLayers(c, q, 0)) = l
  <2>1. OpenLayers(c, q, 0) \in SUBSET Nat
    BY DEF OpenLayers, Layers
  <2>2. Min(OpenLayers(c, q, 0)) \in OpenLayers(c, q, 0) /\ Min(OpenLayers(c, q, 0)) <= l
    BY <1>1, <2>1, LeastElement
  <2> QED
    BY <1>2, <2>1, <2>2, <1>1
<1> QED
  BY <1>1, <1>3 DEF HomeCell, query_bucket

-----------------------------------------------------------------------------
(* One bucket.                                                             *)

BucketType == [items : SUBSET Entry, check : BOOLEAN]

\* Filing pairs under a cell takes no more slots than there are pairs.
LEMMA EntriesCount ==
    ASSUME NEW S, IsFiniteSet(S), NEW a
    PROVE  /\ IsFiniteSet(Entries(S, a))
           /\ Cardinality(Entries(S, a)) <= Cardinality(S)
<1> DEFINE f == [x \in S |-> [kv |-> x, at |-> a]]
<1>1. f \in Surjection(S, Entries(S, a))
  BY DEF Surjection, Entries
<1> QED
  BY <1>1, FS_Surjection

\* check_bucket drops only pairs that are looked up in another bucket.
LEMMA CheckBucket ==
    ASSUME NEW c, NEW ps, NEW d, NEW b \in BucketType
    PROVE  /\ check_bucket(c, ps, d, b) \in BucketType
           /\ check_bucket(c, ps, d, b).items \subseteq b.items
           /\ \A e \in b.items : query_bucket(c, ps, KeyOf[e.kv]) = d
                => e \in check_bucket(c, ps, d, b).items
           /\ IsFiniteSet(b.items)
                => /\ IsFiniteSet(check_bucket(c, ps, d, b).items)
                   /\ Cardinality(check_bucket(c, ps, d, b).items) <= Cardinality(b.items)
<1> DEFINE b1 == check_bucket(c, ps, d, b)
<1>1. /\ b1 \in BucketType
      /\ b1.items \subseteq b.items
      /\ \A e \in b.items : query_bucket(c, ps, KeyOf[e.kv]) = d => e \in b1.items
  BY DEF check_bucket, BucketType
<1>2. IsFiniteSet(b.items) => IsFiniteSet(b1.items) /\ Cardinality(b1.items) <= Cardinality(b.items)
  BY <1>1, FS_Subset
<1> QED
  BY <1>1, <1>2

\* A bucket without some of its entries is a bucket.
LEMMA Without ==
    ASSUME NEW b \in BucketType, NEW S
    PROVE  /\ [b EXCEPT !.items = @ \ S] \in BucketType
           /\ [b EXCEPT !.items = @ \ S].items = b.items \ S
  BY DEF BucketType

\* insert_kv_to_bucket takes all the pairs for which it has room.
LEMMA InsertKeeps ==
    ASSUME NEW c, NEW ps, NEW d, NEW b \in BucketType, NEW new \in SUBSET Entry,
           IsFiniteSet(b.items), IsFiniteSet(new),
           Cardinality(new) <= N - Cardinality(check_bucket(c, ps, d, b).items)
    PROVE  /\ insert_kv_to_bucket(c, ps, d, b, new) \in BucketType
           /\ insert_kv_to_bucket(c, ps, d, b, new).items
                = check_bucket(c, ps, d, b).items \cup new
           /\ IsFiniteSet(insert_kv_to_bucket(c, ps, d, b, new).items)
           /\ Cardinality(insert_kv_to_bucket(c, ps, d, b, new).items) <= N
<1> DEFINE b1 == check_bucket(c, ps, d, b)
<1>1. b1 \in BucketType /\ IsFiniteSet(b1.items)
  BY CheckBucket
<1>2. insert_kv_to_bucket(c, ps, d, b, new) = [b1 EXCEPT !.items = @ \cup new]
  BY DEF insert_kv_to_bucket
<1> HIDE DEF b1
<1>3. /\ insert_kv_to_bucket(c, ps, d, b, new) \in BucketType
      /\ insert_kv_to_bucket(c, ps, d, b, new).items = b1.items \cup new
  BY <1>1, <1>2 DEF BucketType
<1>4. /\ IsFiniteSet(b1.items \cup new)
      /\ Cardinality(b1.items \cup new)
            = Cardinality(b1.items) + Cardinality(new) - Cardinality(b1.items \cap new)
  BY <1>1, FS_Union
<1>5. /\ Cardinality(b1.items) \in Nat /\ Cardinality(new) \in Nat
      /\ Cardinality(b1.items \cap new) \in Nat
  BY <1>1, FS_CardinalityType, FS_Intersection
<1>6. Cardinality(new) <= N - Cardinality(b1.items)
  BY DEF b1
<1>7. Cardinality(b1.items \cup new) <= N
  BY <1>4, <1>5, <1>6, Sizes
<1> QED
  BY <1>3, <1>4, <1>7 DEF b1

-----------------------------------------------------------------------------
(* Steps that only drop copies from buckets.                               *)

\* The bucket array is cell_hash pages.
LEMMA PageFacts ==
    ASSUME TypeOK
    PROVE  /\ PageSize \in Nat \ {0}
           /\ Buckets = 0 .. cell_hash * PageSize - 1
           /\ hash \in Hashes
           /\ bucket \in [Buckets -> BucketType]
           /\ \A a \in Cell : cell[a] \in Nat
           /\ \A q \in Key, a \in Cell :
                /\ calculate_bucket(cell, PageSize, q, a) \in Buckets
                /\ calculate_bucket(cell, PageSize, q, a) \in cell_bucket(PageSize, a)
                /\ calculate_guide(q, cell[a]) \in Guides
           /\ \A a \in Cell : cell_bucket(PageSize, a) \subseteq Buckets
<1>1. PageSize \in Nat \ {0}
  BY Sizes DEF TypeOK, PageSize
<1>2. Buckets = 0 .. cell_hash * PageSize - 1
  BY DEF TypeOK, Buckets
<1>3. hash \in Hashes /\ bucket \in [Buckets -> BucketType] /\ \A a \in Cell : cell[a] \in Nat
  BY Sizes DEF TypeOK, BucketType, Guides
<1>4. \A q \in Key, a \in Cell : calculate_guide(q, cell[a]) \in Guides
  BY <1>3, GuideOfKey
<1>5. \A g \in Guides, a \in Cell : calculate_bucket_from_cell(PageSize, g, a) \in Buckets
  BY <1>1, <1>2, <1>3, BucketOfGuide
<1> QED
  BY <1>1, <1>2, <1>3, <1>4, <1>5 DEF calculate_bucket, cell_bucket

\* The lookup of a pair that is not closed.
LEMMA HomeFacts ==
    ASSUME TypeOK, NEW x \in KV, ~Closed(KeyOf[x])
    PROVE  \E l \in Layers :
              /\ HomeCell(cell, KeyOf[x], 0) = calculate_cell(KeyOf[x], l)
              /\ calculate_cell(KeyOf[x], l) \in Cell
              /\ calculate_cell(KeyOf[x], l)[1] = l
              /\ cell[calculate_cell(KeyOf[x], l)] # cell_full
              /\ \A m \in Layers : m < l => cell[calculate_cell(KeyOf[x], m)] = cell_full
              /\ Home(x) = calculate_bucket(cell, PageSize, KeyOf[x], calculate_cell(KeyOf[x], l))
              /\ Home(x) \in Buckets
              /\ Home(x) \in cell_bucket(PageSize, calculate_cell(KeyOf[x], l))
<1>1. KeyOf[x] \in Key
  BY KVAssumption
<1>2. PICK l \in Layers :
        /\ HomeCell(cell, KeyOf[x], 0) = calculate_cell(KeyOf[x], l)
        /\ cell[calculate_cell(KeyOf[x], l)] # cell_full
        /\ \A m \in Layers : 0 <= m /\ m < l => cell[calculate_cell(KeyOf[x], m)] = cell_full
  BY FirstOpen DEF Closed
<1>3. Home(x) = calculate_bucket(cell, PageSize, KeyOf[x], calculate_cell(KeyOf[x], l))
  BY <1>2 DEF Home, query_bucket, Closed
<1>4. calculate_cell(KeyOf[x], l) \in Cell /\ calculate_cell(KeyOf[x], l)[1] = l
  BY <1>1, PageFacts, CellOfKey
<1>5. Home(x) \in Buckets /\ Home(x) \in cell_bucket(PageSize, calculate_cell(KeyOf[x], l))
  BY <1>1, <1>3, <1>4, PageFacts
<1>6. \A m \in Layers : m < l => cell[calculate_cell(KeyOf[x], m)] = cell_full
  BY <1>2 DEF Layers
<1> QED
  BY <1>2, <1>3, <1>4, <1>5, <1>6

\* The hash functions never change: the next value of each operator is the
\* operator at the next cells and page size.
LEMMA SameHash ==
    ASSUME hash' = hash
    PROVE  /\ \A q, l : calculate_cell(q, l)' = calculate_cell(q, l)
           /\ \A q : Closed(q)' <=> OpenLayers(cell', q, 0) = {}
           /\ \A q, s : HomeCell(cell, q, s)' = HomeCell(cell', q, s)
           /\ \A x : Home(x)' = query_bucket(cell', PageSize', KeyOf[x])
           /\ \A a : cell_bucket(PageSize, a)' = cell_bucket(PageSize', a)
           /\ \A q, a : calculate_bucket(cell, PageSize, q, a)'
                            = calculate_bucket(cell', PageSize', q, a)
<1>1. \A q, l : calculate_cell(q, l)' = calculate_cell(q, l)
  BY DEF calculate_cell
<1>2. \A q, s : OpenLayers(cell, q, s)' = OpenLayers(cell', q, s)
  BY <1>1 DEF OpenLayers
<1>3. \A q : Closed(q)' <=> OpenLayers(cell', q, 0) = {}
  BY <1>2 DEF Closed
<1>4. \A q, s : HomeCell(cell, q, s)' = HomeCell(cell', q, s)
  BY <1>1, <1>2 DEF HomeCell
<1>5. \A a : cell_bucket(PageSize, a)' = cell_bucket(PageSize', a)
  BY DEF cell_bucket, calculate_bucket_from_cell
<1>6. \A q, a : calculate_bucket(cell, PageSize, q, a)' = calculate_bucket(cell', PageSize', q, a)
  BY DEF calculate_bucket, calculate_bucket_from_cell, calculate_guide
<1>7. \A x : Home(x)' = query_bucket(cell', PageSize', KeyOf[x])
  BY <1>2, <1>4, <1>6 DEF Home, query_bucket, calculate_bucket, calculate_bucket_from_cell,
                          calculate_guide
<1> QED
  BY <1>1, <1>3, <1>4, <1>5, <1>6, <1>7

Filing ==
    /\ HeldAtHomeCell
    /\ EntriesFiled
    /\ GuideSelects
    /\ PendingFiled
    /\ FiniteBuckets
    /\ BucketsFit

\* A step that changes nothing but buckets, each of which keeps what it is
\* looked up for.
LEMMA PurgeKeeps ==
    ASSUME TypeOK, Filing,
           UNCHANGED <<hash, cell, bucket_number, pending, called>>,
           bucket' \in [Buckets -> BucketType],
           \A d \in Buckets :
                /\ bucket'[d].items \subseteq bucket[d].items
                /\ \A e \in bucket[d].items :
                        query_bucket(cell, PageSize, KeyOf[e.kv]) = d => e \in bucket'[d].items
    PROVE  Filing'
<1>1. PageSize' = PageSize /\ Buckets' = Buckets
  BY DEF PageSize, Buckets
<1>2. HeldAtHomeCell'
  <2> SUFFICES ASSUME NEW x \in called, ~(x \in InFlight), ~Closed(KeyOf[x])
               PROVE  [kv |-> x, at |-> HomeCell(cell, KeyOf[x], 0)] \in bucket'[Home(x)].items
    <3>1. InFlight' = InFlight
      BY DEF InFlight
    <3> QED
      BY <1>1, <3>1, SameHash DEF HeldAtHomeCell, Closed, Home
  <2>1. x \in KV
    BY DEF TypeOK
  <2>2. Home(x) \in Buckets
    BY <2>1, HomeFacts
  <2>3. [kv |-> x, at |-> HomeCell(cell, KeyOf[x], 0)] \in bucket[Home(x)].items
    BY DEF Filing, HeldAtHomeCell
  <2> QED
    BY <2>2, <2>3 DEF Home
<1>3. EntriesFiled'
  BY <1>1, SameHash DEF Filing, EntriesFiled
<1>4. GuideSelects'
  BY <1>1, SameHash DEF Filing, GuideSelects
<1>5. PendingFiled'
  BY <1>1, SameHash DEF Filing, PendingFiled
<1>6. FiniteBuckets' /\ BucketsFit'
  <2> SUFFICES ASSUME NEW d \in Buckets
               PROVE  IsFiniteSet(bucket'[d].items) /\ Cardinality(bucket'[d].items) <= N
    BY <1>1 DEF FiniteBuckets, BucketsFit
  <2>1. IsFiniteSet(bucket[d].items) /\ Cardinality(bucket[d].items) <= N
    BY DEF Filing, FiniteBuckets, BucketsFit
  <2>2. /\ IsFiniteSet(bucket'[d].items)
        /\ Cardinality(bucket'[d].items) <= Cardinality(bucket[d].items)
    BY <2>1, FS_Subset
  <2>3. Cardinality(bucket'[d].items) \in Nat /\ Cardinality(bucket[d].items) \in Nat
    BY <2>1, <2>2, FS_CardinalityType
  <2> QED
    BY <2>1, <2>2, <2>3, Sizes
<1> QED
  BY <1>2, <1>3, <1>4, <1>5, <1>6 DEF Filing

\* Checking a bucket is such a step.
LEMMA Checked ==
    ASSUME TypeOK, NEW d \in Buckets
    PROVE  /\ TargetChecked(d) \in [Buckets -> BucketType]
           /\ \A j \in Buckets :
                /\ TargetChecked(d)[j].items \subseteq bucket[j].items
                /\ \A e \in bucket[j].items :
                        query_bucket(cell, PageSize, KeyOf[e.kv]) = j
                            => e \in TargetChecked(d)[j].items
           /\ TargetChecked(d)[d] = check_bucket(cell, PageSize, d, bucket[d])
           /\ \A j \in Buckets : j # d => TargetChecked(d)[j] = bucket[j]
<1>1. bucket \in [Buckets -> BucketType]
  BY PageFacts
<1>2. /\ TargetChecked(d)[d] = check_bucket(cell, PageSize, d, bucket[d])
      /\ \A j \in Buckets : j # d => TargetChecked(d)[j] = bucket[j]
  BY <1>1 DEF TargetChecked
<1>3. check_bucket(cell, PageSize, d, bucket[d]) \in BucketType
  BY <1>1, CheckBucket
<1>4. TargetChecked(d) \in [Buckets -> BucketType]
  BY <1>1, <1>3 DEF TargetChecked
<1>5. ASSUME NEW j \in Buckets
      PROVE  /\ TargetChecked(d)[j].items \subseteq bucket[j].items
             /\ \A e \in bucket[j].items :
                    query_bucket(cell, PageSize, KeyOf[e.kv]) = j
                        => e \in TargetChecked(d)[j].items
  BY <1>1, <1>2, CheckBucket
<1> QED
  BY <1>2, <1>4, <1>5

\* What checking all buckets does, as it does to each.
LEMMA AllCheckedFacts ==
    ASSUME NEW c, NEW ps, NEW D, NEW b \in [D -> BucketType]
    PROVE  /\ AllChecked(c, ps, b) \in [D -> BucketType]
           /\ \A j \in D :
                /\ AllChecked(c, ps, b)[j].items \subseteq b[j].items
                /\ \A e \in b[j].items :
                        query_bucket(c, ps, KeyOf[e.kv]) = j
                            => e \in AllChecked(c, ps, b)[j].items
<1>1. \A j \in D : AllChecked(c, ps, b)[j] = check_bucket(c, ps, j, b[j])
  BY DEF AllChecked
<1>2. \A j \in D : check_bucket(c, ps, j, b[j]) \in BucketType
  BY CheckBucket
<1>3. AllChecked(c, ps, b) \in [D -> BucketType]
  BY <1>2 DEF AllChecked
<1> QED
  BY <1>1, <1>3, CheckBucket

\* A pair in flight is in one of the loops, now and in the next state.
LEMMA InFlightMember ==
    /\ \A y : y \in InFlight <=> \E l \in 0 .. cell_layer : y \in pending[l]
    /\ \A y : y \in InFlight' <=> \E l \in 0 .. cell_layer : y \in pending'[l]
  BY DEF InFlight

\* The invariant in three parts.
LEMMA Parts == IInv <=> TypeOK /\ Filing /\ PendingApart
  BY DEF IInv, Filing

-----------------------------------------------------------------------------
(* The steps.                                                              *)

\* An empty table satisfies the invariant.
LEMMA InitStep == Init => IInv
<1> SUFFICES ASSUME Init PROVE IInv
  OBVIOUS
<1>1. PageSize = Page /\ bucket_number \in Nat
  <2>1. bucket_number = cell_hash * Page
    BY DEF Init
  <2>2. cell_hash \in {2, 4, 8, 16} /\ Page \in Nat \ {0}
    BY SizeAssumption
  <2> QED
    BY <2>1, <2>2 DEF PageSize
<1>2. TypeOK
  <2>1. bucket \in [Buckets -> [items : SUBSET Entry, check : BOOLEAN]]
    BY DEF Init, Buckets
  <2>2. cell \in [Cell -> 0 .. cell_full]
    BY Sizes DEF Init, Guides
  <2>3. pending \in [0 .. cell_layer -> SUBSET KV]
    BY DEF Init
  <2>4. PageSize > 0 /\ bucket_number = cell_hash * PageSize
    BY <1>1, SizeAssumption DEF Init
  <2> QED
    BY <1>1, <2>1, <2>2, <2>3, <2>4 DEF Init, TypeOK, NoReply
<1>3. InFlight = {}
  BY DEF Init, InFlight
<1>4. FiniteBuckets /\ BucketsFit
  <2> SUFFICES ASSUME NEW d \in Buckets
               PROVE  IsFiniteSet(bucket[d].items) /\ Cardinality(bucket[d].items) <= N
    BY DEF FiniteBuckets, BucketsFit
  <2>1. bucket[d].items = {}
    BY DEF Init, Buckets
  <2>2. IsFiniteSet({}) /\ Cardinality({}) = 0
    BY FS_EmptySet
  <2> QED
    BY <2>1, <2>2, Sizes
<1>5. HeldAtHomeCell /\ EntriesFiled /\ GuideSelects /\ PendingFiled
  BY DEF Init, HeldAtHomeCell, EntriesFiled, GuideSelects, PendingFiled, Buckets
<1>6. PendingApart
  BY <1>3 DEF Init, PendingApart
<1> QED
  BY <1>2, <1>4, <1>5, <1>6 DEF IInv

\* A call to insert(kv) puts the pair on the move.
LEMMA StartStep ==
    ASSUME IInv, NEW x \in KV, Insert(x)
    PROVE  IInv'
<1> USE Parts
<1>1. TypeOK'
  <2>1. pending' \in [0 .. cell_layer -> SUBSET KV]
    BY Sizes DEF Insert, TypeOK
  <2> QED
    BY <2>1 DEF Insert, TypeOK, NoReply, PageSize, Buckets
<1>2. /\ InFlight = {}
      /\ \A l \in 0 .. cell_layer : pending[l] = {}
      /\ \A l \in 0 .. cell_layer : pending'[l] = IF l = 0 THEN {x} ELSE {}
      /\ InFlight' = {x}
  <2>1. InFlight = {} /\ \A l \in 0 .. cell_layer : pending[l] = {}
    BY DEF Insert, PendingApart, InFlight
  <2>2. \A l \in 0 .. cell_layer : pending'[l] = IF l = 0 THEN {x} ELSE {}
    BY <2>1 DEF Insert, TypeOK
  <2> QED
    <3>1. 0 \in 0 .. cell_layer
      BY Sizes
    <3>2. \A y : y \in InFlight' <=> y = x
      BY <2>2, <3>1, InFlightMember
    <3> QED
      BY <2>1, <2>2, <3>2
<1>3. /\ UNCHANGED <<hash, cell, bucket, bucket_number>>
      /\ x \notin called /\ called' = called \cup {x}
      /\ PageSize' = PageSize /\ Buckets' = Buckets
  BY DEF Insert, PageSize, Buckets
<1>4. HeldAtHomeCell'
  <2> SUFFICES ASSUME NEW y \in called', ~(y \in InFlight'), ~Closed(KeyOf[y])'
               PROVE  [kv |-> y, at |-> HomeCell(cell, KeyOf[y], 0)'] \in bucket'[Home(y)'].items
    BY DEF HeldAtHomeCell
  <2>1. y \in called /\ ~(y \in InFlight)
    BY <1>2, <1>3
  <2>2. ~Closed(KeyOf[y])
    BY <1>3, SameHash DEF Closed
  <2>3. HomeCell(cell, KeyOf[y], 0)' = HomeCell(cell, KeyOf[y], 0) /\ Home(y)' = Home(y)
    BY <1>3, SameHash DEF Home
  <2> QED
    BY <1>3, <2>1, <2>2, <2>3 DEF Filing, HeldAtHomeCell
<1>5. EntriesFiled'
  BY <1>3, SameHash DEF Filing, EntriesFiled
<1>6. GuideSelects'
  BY <1>3, SameHash DEF Filing, GuideSelects
<1>7. PendingFiled'
  <2>1. \A d \in Buckets : \A e \in bucket[d].items : e.kv # x
    BY <1>3 DEF Filing, EntriesFiled
  <2>2. \A m \in Layers : ~(m < 0)
    BY DEF Layers
  <2> QED
    BY <1>2, <1>3, <2>1, <2>2 DEF PendingFiled
<1>8. FiniteBuckets' /\ BucketsFit'
  BY <1>3 DEF Filing, FiniteBuckets, BucketsFit
<1>9. PendingApart'
  <2>1. call' # NoKV
    BY KVAssumption DEF Insert
  <2> QED
    BY <1>2, <2>1 DEF PendingApart, Idle
<1> QED
  BY <1>1, <1>4, <1>5, <1>6, <1>7, <1>8, <1>9 DEF IInv

\* Query and calculate_bucket_items only check buckets.
LEMMA CheckingStep ==
    ASSUME IInv,
           UNCHANGED <<hash, cell, bucket_number, pending, ret, call, called>>,
           reply'.op \in {"none", "insert", "query", "count"},
           bucket' \in [Buckets -> BucketType],
           \A d \in Buckets :
                /\ bucket'[d].items \subseteq bucket[d].items
                /\ \A e \in bucket[d].items :
                        query_bucket(cell, PageSize, KeyOf[e.kv]) = d => e \in bucket'[d].items
    PROVE  IInv'
<1>1. TypeOK'
  BY DEF IInv, TypeOK, BucketType, PageSize, Buckets
<1>2. Filing'
  BY Parts, PurgeKeeps
<1>3. PendingApart'
  BY DEF IInv, PendingApart, Idle, InFlight
<1> QED
  BY <1>1, <1>2, <1>3 DEF IInv, Filing

\* A query only checks the bucket that it looks at.
LEMMA QueryStep ==
    ASSUME IInv, NEW q \in Key, Query(q)
    PROVE  IInv'
<1> DEFINE d == query_bucket(cell, PageSize, q)
<1>1. UNCHANGED <<hash, cell, bucket_number, pending, ret, call, called>>
  BY DEF Query
<1>2. reply'.op = "query"
  BY DEF Query, QueryReply
<1>3. \/ bucket' = bucket
      \/ d # -1 /\ bucket' = TargetChecked(d)
  BY DEF Query
<1>4. CASE bucket' = bucket
  BY <1>1, <1>2, <1>4, CheckingStep, PageFacts DEF IInv
<1>5. CASE d # -1 /\ bucket' = TargetChecked(d)
  <2>1. d \in Buckets
    <3>1. OpenLayers(cell, q, 0) # {}
          /\ d = calculate_bucket(cell, PageSize, q, HomeCell(cell, q, 0))
      BY <1>5 DEF query_bucket
    <3>2. PICK l \in Layers : HomeCell(cell, q, 0) = calculate_cell(q, l)
      BY <3>1, FirstOpen
    <3>3. calculate_cell(q, l) \in Cell
      BY CellOfKey, PageFacts DEF IInv
    <3> QED
      BY <3>1, <3>2, <3>3, PageFacts DEF IInv
  <2> HIDE DEF d
  <2> QED
    BY <1>1, <1>2, <1>5, <2>1, Checked, CheckingStep DEF IInv
<1> QED
  BY <1>3, <1>4, <1>5

\* The count only checks all buckets.
LEMMA CountStep ==
    ASSUME IInv, calculate_bucket_items
    PROVE  IInv'
<1>1. UNCHANGED <<hash, cell, bucket_number, pending, ret, call, called>>
      /\ reply'.op = "count" /\ bucket' = AllChecked(cell, PageSize, bucket)
  BY DEF calculate_bucket_items
<1>2. bucket \in [Buckets -> BucketType]
  BY PageFacts DEF IInv
<1> QED
  BY <1>1, <1>2, AllCheckedFacts, CheckingStep

\* The return of insert(kv) leaves the table alone.
LEMMA ReturnStep ==
    ASSUME IInv, Return
    PROVE  IInv'
<1>1. UNCHANGED <<hash, cell, bucket, bucket_number, pending, ret, called>>
      /\ reply'.op = "insert" /\ call' = NoKV /\ InFlight = {}
  BY DEF Return
<1>2. TypeOK'
  BY <1>1 DEF IInv, TypeOK, BucketType, PageSize, Buckets
<1>3. Filing'
  <2>1. bucket' \in [Buckets -> BucketType]
    BY <1>1, PageFacts DEF IInv
  <2> QED
    BY <1>1, <2>1, Parts, PurgeKeeps
<1>4. PendingApart'
  BY <1>1 DEF IInv, PendingApart, Idle, InFlight
<1> QED
  BY <1>2, <1>3, <1>4 DEF IInv, Filing

\* Every bucket of the doubled array is a copy, and the bucket of a guide and
\* a cell is a copy of their bucket in the array before.
LEMMA Copies ==
    ASSUME TypeOK
    PROVE  /\ \A j \in 0 .. 2 * bucket_number - 1 : CopiedFrom(j) \in Buckets
           /\ 2 * PageSize \in Nat \ {0}
           /\ \A g \in Guides, a \in Cell :
                /\ calculate_bucket_from_cell(2 * PageSize, g, a) \in 0 .. 2 * bucket_number - 1
                /\ CopiedFrom(calculate_bucket_from_cell(2 * PageSize, g, a))
                        = calculate_bucket_from_cell(PageSize, g, a)
<1> DEFINE p == PageSize
           w == 2 * p
<1>1. p \in Nat \ {0} /\ w \in Nat \ {0} /\ hash \in Hashes
  BY PageFacts
<1>2. /\ cell_hash \in Nat \ {0}
      /\ Buckets = 0 .. cell_hash * p - 1
      /\ 2 * bucket_number = cell_hash * w
  BY <1>1, PageFacts, Sizes DEF TypeOK
<1> HIDE DEF p
<1>3. ASSUME NEW j \in 0 .. 2 * bucket_number - 1
      PROVE  CopiedFrom(j) \in Buckets
  <2> DEFINE r == j % w
             g == j \div w
  <2>1. cell_hash * w \in Nat
    BY <1>1, <1>2
  <2>2. j \in Nat /\ j < cell_hash * w
    BY <1>2, <2>1
  <2>3. r \in 0 .. w - 1 /\ g \in Nat /\ j = r + g * w
    BY <1>1, <2>2, ModRange
  <2> HIDE DEF w, r, g
  <2>4. g < cell_hash
    <3> SUFFICES ASSUME g >= cell_hash PROVE FALSE
      BY <1>2, <2>3
    <3>1. g * w >= cell_hash * w
      BY <1>1, <1>2, <2>3
    <3>2. g * w \in Nat
      BY <1>1, <2>3
    <3> QED
      BY <2>1, <2>2, <2>3, <3>1, <3>2
  <2>5. r % p \in 0 .. p - 1
    BY <1>1, <2>3, ModRange
  <2>6. (r % p) + g * p \in 0 .. cell_hash * p - 1
    BY <1>1, <1>2, <2>3, <2>4, <2>5, PageBound
  <2>7. CopiedFrom(j) = g * p + (r % p)
    BY DEF CopiedFrom, g, r, w, p
  <2>8. g * p \in Nat
    BY <1>1, <2>3
  <2> QED
    BY <1>2, <2>5, <2>6, <2>7, <2>8
<1>4. ASSUME NEW g \in Guides, NEW a \in Cell
      PROVE  /\ calculate_bucket_from_cell(w, g, a) \in 0 .. 2 * bucket_number - 1
             /\ CopiedFrom(calculate_bucket_from_cell(w, g, a))
                    = calculate_bucket_from_cell(p, g, a)
  <2> DEFINE h == hash.bucket[g][a]
             j == calculate_bucket_from_cell(w, g, a)
  <2>1. j \in 0 .. cell_hash * w - 1 /\ h \in Nat /\ h % w \in 0 .. w - 1
    BY <1>1, BucketOfGuide
  <2>2. j = (h % w) + g * w
    BY DEF calculate_bucket_from_cell
  <2>3. g \in Nat
    BY Sizes
  <2>4. CopiedFrom(j) = (j \div w) * p + ((j % w) % p)
    BY DEF CopiedFrom, p
  <2>5. calculate_bucket_from_cell(p, g, a) = (h % p) + g * p
    BY DEF calculate_bucket_from_cell
  <2> HIDE DEF h, j
  <2>6. (h % w) % p = h % p
    BY <1>1, <2>1, HalfPage
  <2> HIDE DEF w
  <2>7. j \div w = g /\ j % w = h % w
    BY <1>1, <2>1, <2>2, <2>3, DivModOf
  <2>8. h % p \in 0 .. p - 1 /\ g * p \in Nat
    BY <1>1, <2>1, <2>3, ModRange
  <2>9. CopiedFrom(j) = calculate_bucket_from_cell(p, g, a)
    BY <2>4, <2>5, <2>6, <2>7, <2>8
  <2> QED
    BY <1>2, <2>1, <2>9 DEF j
<1> QED
  BY <1>1, <1>3, <1>4 DEF p

\* Doubling the pages keeps each pair in the copy that it is looked up in.
LEMMA ExtendStep ==
    ASSUME IInv, NEW lazy \in BOOLEAN, extend(lazy)
    PROVE  IInv'
<1> DEFINE B2 == 0 .. 2 * bucket_number - 1
<1>1. /\ UNCHANGED <<hash, cell, pending, ret, call, called, reply>>
      /\ bucket_number' = 2 * bucket_number
      /\ bucket' = IF lazy THEN Doubled ELSE AllChecked(cell, 2 * PageSize, Doubled)
  BY DEF extend
<1>2. /\ Buckets' = B2
      /\ PageSize' = 2 * PageSize
      /\ bucket_number' = cell_hash * PageSize' /\ bucket_number' \in Nat
  <2>1. bucket_number = cell_hash * PageSize /\ PageSize \in Nat \ {0} /\ bucket_number \in Nat
    BY PageFacts DEF IInv, TypeOK
  <2>2. cell_hash \in {2, 4, 8, 16}
    BY SizeAssumption
  <2>3. 2 * bucket_number = cell_hash * (2 * PageSize)
    BY <2>1, <2>2
  <2>4. (2 * bucket_number) \div cell_hash = 2 * PageSize
    BY <2>1, <2>2
  <2> QED
    BY <1>1, <2>1, <2>3, <2>4 DEF PageSize, Buckets
<1>3. bucket \in [Buckets -> BucketType] /\ hash \in Hashes
  BY PageFacts DEF IInv
<1>4. /\ Doubled \in [B2 -> BucketType]
      /\ \A j \in B2 : CopiedFrom(j) \in Buckets /\ Doubled[j].items = bucket[CopiedFrom(j)].items
  BY <1>3, Copies DEF Doubled, BucketType, IInv
<1>5. /\ bucket' \in [B2 -> BucketType]
      /\ \A j \in B2 :
            /\ bucket'[j].items \subseteq bucket[CopiedFrom(j)].items
            /\ \A e \in bucket[CopiedFrom(j)].items :
                  query_bucket(cell, 2 * PageSize, KeyOf[e.kv]) = j => e \in bucket'[j].items
  <2>1. CASE lazy
    BY <1>1, <1>4, <2>1
  <2>2. CASE ~lazy
    BY <1>1, <1>4, <2>2, AllCheckedFacts
  <2> QED
    BY <2>1, <2>2
<1>6. TypeOK'
  BY <1>1, <1>2, <1>5, PageFacts DEF IInv, TypeOK, BucketType
<1>7. HeldAtHomeCell'
  <2> SUFFICES ASSUME NEW x \in called, ~(x \in InFlight), ~Closed(KeyOf[x])
               PROVE  [kv |-> x, at |-> HomeCell(cell, KeyOf[x], 0)]
                        \in bucket'[query_bucket(cell, 2 * PageSize, KeyOf[x])].items
    <3>1. InFlight' = InFlight
      BY <1>1 DEF InFlight
    <3> QED
      BY <1>1, <1>2, <3>1, SameHash DEF HeldAtHomeCell, Closed
  <2> DEFINE q == KeyOf[x]
             a == HomeCell(cell, q, 0)
             e == [kv |-> x, at |-> a]
             g == calculate_guide(q, cell[a])
             j == query_bucket(cell, 2 * PageSize, q)
  <2>1. x \in KV
    BY DEF IInv, TypeOK
  <2>2. a \in Cell /\ Home(x) = calculate_bucket(cell, PageSize, q, a) /\ g \in Guides
    BY <2>1, HomeFacts, PageFacts, KVAssumption DEF IInv
  <2>3. j = calculate_bucket_from_cell(2 * PageSize, g, a)
    BY DEF query_bucket, Closed, calculate_bucket
  <2>4. Home(x) = calculate_bucket_from_cell(PageSize, g, a)
    BY <2>2 DEF calculate_bucket
  <2>5. e \in bucket[Home(x)].items
    BY DEF IInv, HeldAtHomeCell
  <2>6. j \in B2 /\ CopiedFrom(j) = Home(x)
    BY <2>2, <2>3, <2>4, Copies DEF IInv
  <2>7. e.kv = x
    OBVIOUS
  <2> HIDE DEF e, j
  <2>8. query_bucket(cell, 2 * PageSize, KeyOf[e.kv]) = j
    BY <2>7 DEF j
  <2>9. e \in bucket'[j].items
    BY <1>5, <2>5, <2>6, <2>8
  <2> QED
    BY <2>9 DEF e, j
<1>8. EntriesFiled'
  BY <1>1, <1>2, <1>4, <1>5, SameHash DEF IInv, EntriesFiled
<1>9. GuideSelects'
  <2> SUFFICES ASSUME NEW j \in B2, NEW e \in bucket'[j].items,
                      cell[e.at] # cell_full, j \in cell_bucket(2 * PageSize, e.at)
               PROVE  j = calculate_bucket(cell, 2 * PageSize, KeyOf[e.kv], e.at)
    BY <1>1, <1>2, SameHash DEF GuideSelects
  <2>1. e \in bucket[CopiedFrom(j)].items /\ CopiedFrom(j) \in Buckets
    BY <1>4, <1>5
  <2>2. e.at \in Cell /\ e.kv \in KV
    BY <1>3, <2>1 DEF BucketType, Entry
  <2>3. PICK g \in Guides : j = calculate_bucket_from_cell(2 * PageSize, g, e.at)
    BY DEF cell_bucket
  <2>4. CopiedFrom(j) = calculate_bucket_from_cell(PageSize, g, e.at)
    BY <2>2, <2>3, Copies DEF IInv
  <2>5. CopiedFrom(j) = calculate_bucket(cell, PageSize, KeyOf[e.kv], e.at)
    BY <2>1, <2>4 DEF IInv, GuideSelects, cell_bucket
  <2>6. calculate_guide(KeyOf[e.kv], cell[e.at]) = g
    BY <2>2, <2>4, <2>5, GuideOfBucket, PageFacts, KVAssumption DEF IInv, calculate_bucket
  <2> QED
    BY <2>3, <2>6 DEF calculate_bucket
<1>10. PendingFiled'
  BY <1>1, <1>2, <1>4, <1>5, SameHash DEF IInv, PendingFiled
<1>11. PendingApart'
  BY <1>1 DEF IInv, PendingApart, Idle, InFlight
<1>12. FiniteBuckets' /\ BucketsFit'
  <2> SUFFICES ASSUME NEW j \in B2
               PROVE  IsFiniteSet(bucket'[j].items) /\ Cardinality(bucket'[j].items) <= N
    BY <1>2 DEF FiniteBuckets, BucketsFit
  <2> DEFINE S == bucket[CopiedFrom(j)].items
  <2>1. IsFiniteSet(S) /\ Cardinality(S) <= N /\ bucket'[j].items \subseteq S
    BY <1>4, <1>5 DEF IInv, FiniteBuckets, BucketsFit
  <2>2. IsFiniteSet(bucket'[j].items) /\ Cardinality(bucket'[j].items) <= Cardinality(S)
    BY <2>1, FS_Subset
  <2>3. Cardinality(bucket'[j].items) \in Nat /\ Cardinality(S) \in Nat
    BY <2>1, <2>2, FS_CardinalityType
  <2> QED
    BY <2>1, <2>2, <2>3, Sizes
<1> QED
  BY <1>6, <1>7, <1>8, <1>9, <1>10, <1>11, <1>12 DEF IInv

\* The pair that leaves a loop is in no other.
LEMMA LeavesLoop ==
    ASSUME TypeOK, PendingApart, NEW s \in 0 .. cell_layer, NEW x \in pending[s],
           pending' = [pending EXCEPT ![s] = @ \ {x}]
    PROVE  /\ pending' \in [0 .. cell_layer -> SUBSET KV]
           /\ \A l \in 0 .. cell_layer : pending'[l] = pending[l] \ {x}
           /\ \A y : y \in InFlight' <=> y \in InFlight /\ y # x
           /\ x \in KV /\ call # NoKV
<1>1. pending \in [0 .. cell_layer -> SUBSET KV]
  BY DEF TypeOK
<1>2. x \in KV /\ x \in InFlight
  BY <1>1, InFlightMember
<1>3. \A l \in 0 .. cell_layer : pending'[l] = pending[l] \ {x}
  BY <1>1 DEF PendingApart
<1>4. pending' \in [0 .. cell_layer -> SUBSET KV]
  BY <1>1
<1>5. \A y : y \in InFlight' <=> y \in InFlight /\ y # x
  BY <1>3, InFlightMember
<1> QED
  BY <1>2, <1>3, <1>4, <1>5 DEF PendingApart, Idle

\* An insert fails only for a pair without an open cell.
LEMMA FailStep ==
    ASSUME IInv, NEW s \in 0 .. cell_layer, NEW x \in pending[s], InsertFails(x, s)
    PROVE  IInv'
<1>1. /\ pending' = [pending EXCEPT ![s] = @ \ {x}]
      /\ UNCHANGED <<hash, cell, bucket, bucket_number, call, called, reply>>
      /\ OpenLayers(cell, KeyOf[x], s) = {} /\ ret' = FALSE
      /\ PageSize' = PageSize /\ Buckets' = Buckets
  BY DEF InsertFails, PageSize, Buckets
<1>2. /\ pending' \in [0 .. cell_layer -> SUBSET KV]
      /\ \A l \in 0 .. cell_layer : pending'[l] = pending[l] \ {x}
      /\ \A y : y \in InFlight' <=> y \in InFlight /\ y # x
      /\ x \in KV /\ call # NoKV
  BY <1>1, LeavesLoop DEF IInv
<1>3. TypeOK'
  BY <1>1, <1>2 DEF IInv, TypeOK
<1>4. Closed(KeyOf[x])
  <2>1. \A m \in Layers : m < s => cell[calculate_cell(KeyOf[x], m)] = cell_full
    BY DEF IInv, PendingFiled
  <2>2. \A m \in Layers : m >= s => cell[calculate_cell(KeyOf[x], m)] = cell_full
    BY <1>1 DEF OpenLayers
  <2> QED
    BY <2>1, <2>2 DEF Closed, OpenLayers, Layers
<1>5. HeldAtHomeCell'
  <2> SUFFICES ASSUME NEW y \in called, ~(y \in InFlight'), ~Closed(KeyOf[y])
               PROVE  [kv |-> y, at |-> HomeCell(cell, KeyOf[y], 0)] \in bucket[Home(y)].items
    BY <1>1, SameHash DEF HeldAtHomeCell, Closed, Home
  <2>1. ~(y \in InFlight)
    BY <1>2, <1>4
  <2> QED
    BY <2>1 DEF IInv, HeldAtHomeCell
<1>6. EntriesFiled'
  BY <1>1, SameHash DEF IInv, EntriesFiled
<1>7. GuideSelects'
  BY <1>1, SameHash DEF IInv, GuideSelects
<1>8. PendingFiled'
  BY <1>1, <1>2, SameHash DEF IInv, PendingFiled
<1>9. PendingApart'
  BY <1>1, <1>2 DEF IInv, PendingApart, Idle
<1>10. FiniteBuckets' /\ BucketsFit'
  BY <1>1 DEF IInv, FiniteBuckets, BucketsFit
<1> QED
  BY <1>3, <1>5, <1>6, <1>7, <1>8, <1>9, <1>10 DEF IInv

\* Where a pair that is to be inserted goes: the cell is open, belongs to the
\* pair's key, and is the one a query will come to.
LEMMA Target ==
    ASSUME IInv, NEW s \in 0 .. cell_layer, NEW x \in pending[s],
           OpenLayers(cell, KeyOf[x], s) # {},
           NEW a, a = HomeCell(cell, KeyOf[x], s)
    PROVE  /\ x \in KV /\ x \in called /\ KeyOf[x] \in Key
           /\ a \in Cell /\ a = calculate_cell(KeyOf[x], a[1])
           /\ a[1] \in Layers /\ a[1] >= s /\ a[1] + 1 \in 0 .. cell_layer
           /\ cell[a] # cell_full
           /\ \A m \in Layers : m < a[1] => cell[calculate_cell(KeyOf[x], m)] = cell_full
           /\ calculate_bucket(cell, PageSize, KeyOf[x], a) \in Buckets
           /\ \A d \in Buckets : \A e \in bucket[d].items : e.kv = x => cell[e.at] = cell_full
<1>1. x \in KV /\ x \in called /\ KeyOf[x] \in Key
  <2>1. x \in KV
    BY DEF IInv, TypeOK
  <2> QED
    BY <2>1, KVAssumption DEF IInv, PendingFiled
<1>2. PICK l \in Layers :
        /\ a = calculate_cell(KeyOf[x], l)
        /\ l >= s
        /\ cell[calculate_cell(KeyOf[x], l)] # cell_full
        /\ \A m \in Layers : s <= m /\ m < l => cell[calculate_cell(KeyOf[x], m)] = cell_full
  BY FirstOpen
<1>3. a \in Cell /\ a[1] = l
  BY <1>1, <1>2, CellOfKey, PageFacts DEF IInv
<1>4. \A m \in Layers : m < s => cell[calculate_cell(KeyOf[x], m)] = cell_full
  BY DEF IInv, PendingFiled
<1>5. \A m \in Layers : m < l => cell[calculate_cell(KeyOf[x], m)] = cell_full
  BY <1>2, <1>4 DEF Layers
<1>6. calculate_bucket(cell, PageSize, KeyOf[x], a) \in Buckets
  BY <1>1, <1>3, PageFacts DEF IInv
<1>7. \A d \in Buckets : \A e \in bucket[d].items : e.kv = x => cell[e.at] = cell_full
  BY DEF IInv, PendingFiled
<1>8. l + 1 \in 0 .. cell_layer
  BY Sizes DEF Layers
<1> QED
  BY <1>1, <1>2, <1>3, <1>5, <1>6, <1>7, <1>8

\* An insert into a checked bucket with room files the pair under its cell.
LEMMA DirectStep ==
    ASSUME IInv, NEW s \in 0 .. cell_layer, NEW x \in pending[s], InsertDirect(x, s)
    PROVE  IInv'
<1> DEFINE q == KeyOf[x]
           a == HomeCell(cell, q, s)
           d == calculate_bucket(cell, PageSize, q, a)
           e0 == [kv |-> x, at |-> a]
           b1 == check_bucket(cell, PageSize, d, bucket[d])
<1>1. /\ pending' = [pending EXCEPT ![s] = @ \ {x}]
      /\ UNCHANGED <<hash, cell, bucket_number, ret, call, called, reply>>
      /\ OpenLayers(cell, q, s) # {}
      /\ HasRoom(TargetChecked(d)[d])
      /\ bucket' = [bucket EXCEPT ![d] = insert_kv_to_bucket(cell, PageSize, d, @, Entries({x}, a))]
      /\ PageSize' = PageSize /\ Buckets' = Buckets
  BY DEF InsertDirect, PageSize, Buckets
<1>2. /\ pending' \in [0 .. cell_layer -> SUBSET KV]
      /\ \A l \in 0 .. cell_layer : pending'[l] = pending[l] \ {x}
      /\ \A y : y \in InFlight' <=> y \in InFlight /\ y # x
      /\ x \in KV /\ call # NoKV
  BY <1>1, LeavesLoop DEF IInv
<1>3. /\ x \in KV /\ x \in called /\ q \in Key
      /\ a \in Cell /\ a = calculate_cell(q, a[1])
      /\ a[1] \in Layers /\ a[1] >= s
      /\ cell[a] # cell_full
      /\ \A m \in Layers : m < a[1] => cell[calculate_cell(q, m)] = cell_full
      /\ d \in Buckets
  BY <1>1, Target
<1>4. bucket \in [Buckets -> BucketType]
  BY PageFacts DEF IInv
<1>5. Entries({x}, a) = {e0} /\ e0 \in Entry /\ e0.kv = x /\ e0.at = a
  BY <1>3 DEF Entries, Entry
<1>6. /\ b1 \in BucketType /\ IsFiniteSet(b1.items) /\ b1.items \subseteq bucket[d].items
      /\ \A e \in bucket[d].items : query_bucket(cell, PageSize, KeyOf[e.kv]) = d => e \in b1.items
  BY <1>3, <1>4, CheckBucket DEF IInv, FiniteBuckets
<1>7. Cardinality(b1.items) < N
  BY <1>1, <1>3, Checked DEF IInv, HasRoom
<1> HIDE DEF e0, b1, d, a
<1>8. IsFiniteSet({e0}) /\ Cardinality({e0}) = 1
  BY FS_Singleton
<1>9. Cardinality({e0}) <= N - Cardinality(b1.items)
  BY <1>6, <1>7, <1>8, FS_CardinalityType, Sizes
<1>10. /\ bucket'[d] \in BucketType
       /\ bucket'[d].items = b1.items \cup {e0}
       /\ IsFiniteSet(bucket'[d].items) /\ Cardinality(bucket'[d].items) <= N
  <2>1. bucket'[d] = insert_kv_to_bucket(cell, PageSize, d, bucket[d], {e0})
    BY <1>1, <1>3, <1>4, <1>5
  <2>2. IsFiniteSet(bucket[d].items) /\ bucket[d] \in BucketType /\ {e0} \in SUBSET Entry
    BY <1>3, <1>4, <1>5 DEF IInv, FiniteBuckets
  <2>3. Cardinality({e0}) <= N - Cardinality(check_bucket(cell, PageSize, d, bucket[d]).items)
    BY <1>9 DEF b1
  <2> DEFINE i == insert_kv_to_bucket(cell, PageSize, d, bucket[d], {e0})
  <2>4. /\ i \in BucketType
        /\ i.items = check_bucket(cell, PageSize, d, bucket[d]).items \cup {e0}
        /\ IsFiniteSet(i.items) /\ Cardinality(i.items) <= N
    BY <1>8, <2>2, <2>3, InsertKeeps
  <2> QED
    BY <2>1, <2>4 DEF b1
<1>11. \A j \in Buckets : j # d => bucket'[j] = bucket[j]
  BY <1>1, <1>4
<1>12. bucket' \in [Buckets -> BucketType]
  BY <1>1, <1>4, <1>10, <1>11
<1>13. \A j \in Buckets : \A e \in bucket'[j].items :
            e \in bucket[j].items \/ (j = d /\ e = e0)
  BY <1>6, <1>10, <1>11
<1>14. \A j \in Buckets : \A e \in bucket[j].items :
            query_bucket(cell, PageSize, KeyOf[e.kv]) = j => e \in bucket'[j].items
  BY <1>6, <1>10, <1>11
<1>15. TypeOK'
  BY <1>1, <1>2, <1>12 DEF IInv, TypeOK, BucketType
<1>16. HeldAtHomeCell'
  <2> SUFFICES ASSUME NEW y \in called, ~(y \in InFlight'), ~Closed(KeyOf[y])
               PROVE  [kv |-> y, at |-> HomeCell(cell, KeyOf[y], 0)] \in bucket'[Home(y)].items
    BY <1>1, SameHash DEF HeldAtHomeCell, Closed, Home
  <2>1. CASE y = x
    <3>1. HomeCell(cell, q, 0) = a /\ query_bucket(cell, PageSize, q) = d
      BY <1>3, HomeIs DEF d
    <3>2. e0 \in bucket'[d].items
      BY <1>10
    <3> QED
      BY <2>1, <3>1, <3>2 DEF Home, e0
  <2>2. CASE y # x
    <3>1. [kv |-> y, at |-> HomeCell(cell, KeyOf[y], 0)] \in bucket[Home(y)].items
      BY <1>2, <2>2 DEF IInv, HeldAtHomeCell
    <3>2. y \in KV /\ Home(y) \in Buckets
      BY HomeFacts DEF IInv, TypeOK
    <3> QED
      BY <1>14, <3>1, <3>2 DEF Home
  <2> QED
    BY <2>1, <2>2
<1>17. EntriesFiled'
  <2> SUFFICES ASSUME NEW j \in Buckets, NEW e \in bucket'[j].items
               PROVE  /\ e.kv \in called
                      /\ e.at = calculate_cell(KeyOf[e.kv], e.at[1])
                      /\ \A m \in Layers : m < e.at[1]
                            => cell[calculate_cell(KeyOf[e.kv], m)] = cell_full
    BY <1>1, SameHash DEF EntriesFiled
  <2>1. CASE e \in bucket[j].items
    BY <2>1 DEF IInv, EntriesFiled
  <2>2. CASE e = e0
    BY <1>3, <1>5, <2>2
  <2> QED
    BY <1>13, <2>1, <2>2
<1>18. GuideSelects'
  <2> SUFFICES ASSUME NEW j \in Buckets, NEW e \in bucket'[j].items,
                      cell[e.at] # cell_full, j \in cell_bucket(PageSize, e.at)
               PROVE  j = calculate_bucket(cell, PageSize, KeyOf[e.kv], e.at)
    BY <1>1, SameHash DEF GuideSelects
  <2>1. CASE e \in bucket[j].items
    BY <2>1 DEF IInv, GuideSelects
  <2>2. CASE j = d /\ e = e0
    BY <1>5, <2>2 DEF d
  <2> QED
    BY <1>13, <2>1, <2>2
<1>19. PendingFiled'
  <2>0. /\ cell' = cell /\ called' = called /\ Buckets' = Buckets
        /\ \A k, m : calculate_cell(k, m)' = calculate_cell(k, m)
    BY <1>1, SameHash
  <2> SUFFICES ASSUME NEW l \in 0 .. cell_layer, NEW y \in pending'[l]
               PROVE  /\ y \in called
                      /\ \A m \in Layers : m < l => cell[calculate_cell(KeyOf[y], m)] = cell_full
                      /\ \A j \in Buckets : \A e \in bucket'[j].items :
                            e.kv = y => cell[e.at] = cell_full
    BY <2>0 DEF PendingFiled
  <2>1. y \in pending[l] /\ y # x
    BY <1>2
  <2>2. \A j \in Buckets : \A e \in bucket'[j].items : e.kv = y => e \in bucket[j].items
    BY <1>5, <1>13, <2>1
  <2> QED
    BY <2>1, <2>2 DEF IInv, PendingFiled
<1>20. PendingApart'
  BY <1>1, <1>2 DEF IInv, PendingApart, Idle
<1>21. FiniteBuckets' /\ BucketsFit'
  BY <1>1, <1>10, <1>11 DEF IInv, FiniteBuckets, BucketsFit
<1> QED
  BY <1>15, <1>16, <1>17, <1>18, <1>19, <1>20, <1>21 DEF IInv

-----------------------------------------------------------------------------
(* Taking the pairs of a cell out of their buckets, and filing them again. *)

\* What collecting the pairs kvs of cell a, x among them, leaves in b2.
CollectedFor(x, a, kvs, b2) ==
    /\ b2 \in [Buckets -> BucketType]
    /\ \A j \in Buckets : b2[j].items \subseteq bucket[j].items
    /\ \A j \in cell_bucket(PageSize, a) : \A e \in b2[j].items : e.at # a
    /\ \A j \in Buckets : IsFiniteSet(b2[j].items) /\ Cardinality(b2[j].items) <= N
    /\ kvs \in SUBSET KV /\ kvs \subseteq called /\ IsFiniteSet(kvs)
    /\ \A y \in kvs :
         /\ a = calculate_cell(KeyOf[y], a[1])
         /\ \A m \in Layers : m < a[1] => cell[calculate_cell(KeyOf[y], m)] = cell_full
         /\ y = x \/ ~(y \in InFlight)
         /\ \A j \in Buckets : \A e \in bucket[j].items :
                 e.kv = y => cell[e.at] = cell_full \/ e.at = a
    /\ \A y \in called :
         ~(y \in kvs) /\ ~(y \in InFlight) /\ ~Closed(KeyOf[y])
             => /\ HomeCell(cell, KeyOf[y], 0) # a
                /\ [kv |-> y, at |-> HomeCell(cell, KeyOf[y], 0)] \in b2[Home(y)].items

\* What collect_kv takes out are the pairs of the cell, all of them.
LEMMA Collecting ==
    ASSUME IInv, NEW s \in 0 .. cell_layer, NEW x \in pending[s],
           OpenLayers(cell, KeyOf[x], s) # {},
           NEW a, a = HomeCell(cell, KeyOf[x], s),
           NEW d, d = calculate_bucket(cell, PageSize, KeyOf[x], a),
           NEW b1, b1 = TargetChecked(d),
           NEW kvs, kvs = {x} \cup collect_kv(b1, PageSize, a),
           NEW b2, b2 = Collected(b1, PageSize, a)
    PROVE  CollectedFor(x, a, kvs, b2)
<1>1. /\ x \in KV /\ x \in called /\ KeyOf[x] \in Key
      /\ a \in Cell /\ a = calculate_cell(KeyOf[x], a[1])
      /\ a[1] \in Layers
      /\ cell[a] # cell_full
      /\ \A m \in Layers : m < a[1] => cell[calculate_cell(KeyOf[x], m)] = cell_full
      /\ d \in Buckets
      /\ \A j \in Buckets : \A e \in bucket[j].items : e.kv = x => cell[e.at] = cell_full
  BY Target
<1>2. /\ b1 \in [Buckets -> BucketType]
      /\ \A j \in Buckets :
            /\ b1[j].items \subseteq bucket[j].items
            /\ \A e \in bucket[j].items :
                    query_bucket(cell, PageSize, KeyOf[e.kv]) = j => e \in b1[j].items
  BY <1>1, Checked DEF IInv
<1>3. bucket \in [Buckets -> BucketType] /\ cell_bucket(PageSize, a) \subseteq Buckets
  BY <1>1, PageFacts DEF IInv
<1>4. /\ b2 \in [Buckets -> BucketType]
      /\ \A j \in Buckets : b2[j].items \subseteq b1[j].items
      /\ \A j \in cell_bucket(PageSize, a) : \A e \in b2[j].items : e.at # a
      /\ \A j \in Buckets : \A e \in b1[j].items : e.at # a => e \in b2[j].items
  <2>1. DOMAIN b1 = Buckets
    BY <1>2
  <2>2. \A j \in Buckets :
            b2[j] = IF j \in cell_bucket(PageSize, a)
                    THEN [b1[j] EXCEPT !.items = @ \ AtCell(b1[j], a)]
                    ELSE b1[j]
    BY <2>1 DEF Collected
  <2>3. ASSUME NEW j \in Buckets
        PROVE  /\ b2[j] \in BucketType
               /\ b2[j].items = IF j \in cell_bucket(PageSize, a)
                                THEN b1[j].items \ AtCell(b1[j], a)
                                ELSE b1[j].items
    <3> DEFINE b == b1[j]
               S == AtCell(b, a)
               w == [b EXCEPT !.items = @ \ S]
    <3>1. b \in BucketType
      BY <1>2
    <3>2. b2[j] = IF j \in cell_bucket(PageSize, a) THEN w ELSE b
      BY <2>2
    <3>3. w \in BucketType /\ w.items = b.items \ S
      <4> HIDE DEF b, S
      <4> QED
        BY <3>1, Without
    <3> HIDE DEF w
    <3> QED
      BY <3>1, <3>2, <3>3
  <2>4. b2 \in [Buckets -> BucketType]
    BY <2>1, <2>3 DEF Collected
  <2>5. \A j \in Buckets :
            b2[j].items = IF j \in cell_bucket(PageSize, a)
                          THEN b1[j].items \ AtCell(b1[j], a)
                          ELSE b1[j].items
    BY <2>3
  <2>6. ASSUME NEW j \in Buckets
        PROVE  /\ b2[j].items \subseteq b1[j].items
               /\ j \in cell_bucket(PageSize, a) => \A e \in b2[j].items : e.at # a
               /\ \A e \in b1[j].items : e.at # a => e \in b2[j].items
    <3>1. b2[j].items = IF j \in cell_bucket(PageSize, a)
                        THEN b1[j].items \ AtCell(b1[j], a)
                        ELSE b1[j].items
      BY <2>5
    <3>2. \A e \in b1[j].items : e \in AtCell(b1[j], a) <=> e.at = a
      BY DEF AtCell
    <3> QED
      BY <3>1, <3>2
  <2> QED
    BY <1>3, <2>4, <2>6
<1>5. \A j \in Buckets : b2[j].items \subseteq bucket[j].items
  BY <1>2, <1>4
<1>6. \A y \in kvs : y = x \/ \E j \in cell_bucket(PageSize, a) :
            /\ [kv |-> y, at |-> a] \in bucket[j].items
            /\ y \in KV
  <2> SUFFICES ASSUME NEW y \in collect_kv(b1, PageSize, a)
               PROVE  \E j \in cell_bucket(PageSize, a) :
                        [kv |-> y, at |-> a] \in bucket[j].items /\ y \in KV
    OBVIOUS
  <2>0. PICK j \in cell_bucket(PageSize, a) : \E e \in b1[j].items : e.kv = y /\ e.at = a
    BY DEF collect_kv, AtCell
  <2>1. PICK e \in b1[j].items : e.kv = y /\ e.at = a
    BY <2>0
  <2>2. e \in bucket[j].items /\ e \in Entry
    BY <1>2, <1>3, <2>1 DEF BucketType
  <2>3. e = [kv |-> y, at |-> a] /\ y \in KV
    BY <2>1, <2>2 DEF Entry
  <2> QED
    BY <2>2, <2>3
<1>7. ASSUME NEW j \in cell_bucket(PageSize, a), NEW y \in KV,
             [kv |-> y, at |-> a] \in bucket[j].items
      PROVE  /\ y \in called
             /\ a = calculate_cell(KeyOf[y], a[1])
             /\ \A m \in Layers : m < a[1] => cell[calculate_cell(KeyOf[y], m)] = cell_full
             /\ ~(y \in InFlight)
             /\ \A i \in Buckets : \A e \in bucket[i].items :
                    e.kv = y => cell[e.at] = cell_full \/ e.at = a
  <2> DEFINE e0 == [kv |-> y, at |-> a]
  <2>1. j \in Buckets /\ e0 \in bucket[j].items /\ e0.kv = y /\ e0.at = a
    BY <1>3, <1>7
  <2> HIDE DEF e0
  <2>2. /\ y \in called
        /\ a = calculate_cell(KeyOf[y], a[1])
        /\ \A m \in Layers : m < a[1] => cell[calculate_cell(KeyOf[y], m)] = cell_full
    BY <2>1 DEF IInv, EntriesFiled
  <2>3. ~(y \in InFlight)
    BY <1>1, <2>1, InFlightMember DEF IInv, PendingFiled
  <2>4. ASSUME NEW i \in Buckets, NEW e \in bucket[i].items, e.kv = y, e.at # a
        PROVE  cell[e.at] = cell_full
    <3>1. /\ e.at = calculate_cell(KeyOf[y], e.at[1])
          /\ \A m \in Layers : m < e.at[1] => cell[calculate_cell(KeyOf[y], m)] = cell_full
      BY <2>4 DEF IInv, EntriesFiled
    <3>2. e.at \in Cell
      BY <1>3 DEF BucketType, Entry
    <3>3. e.at[1] \in Layers /\ e.at[1] \in Int /\ a[1] \in Int
      BY <1>1, <3>2, CellLayer DEF Layers
    <3>4. e.at[1] # a[1]
      BY <2>2, <2>4, <3>1
    <3>5. ~(a[1] < e.at[1])
      BY <1>1, <2>2, <3>1
    <3>6. e.at[1] < a[1]
      BY <3>3, <3>4, <3>5
    <3> QED
      BY <2>2, <3>1, <3>3, <3>6
  <2> QED
    BY <2>2, <2>3, <2>4
<1>8. \A y \in kvs :
        /\ y \in KV /\ y \in called
        /\ a = calculate_cell(KeyOf[y], a[1])
        /\ \A m \in Layers : m < a[1] => cell[calculate_cell(KeyOf[y], m)] = cell_full
        /\ y = x \/ ~(y \in InFlight)
        /\ \A j \in Buckets : \A e \in bucket[j].items :
                e.kv = y => cell[e.at] = cell_full \/ e.at = a
  <2> TAKE y \in kvs
  <2>1. CASE y = x
    BY <1>1, <2>1
  <2>2. CASE y # x
    <3>1. PICK j \in cell_bucket(PageSize, a) : [kv |-> y, at |-> a] \in bucket[j].items /\ y \in KV
      BY <1>6, <2>2
    <3> QED
      BY <1>7, <3>1
  <2> QED
    BY <2>1, <2>2
<1>9. ASSUME NEW y \in called, ~(y \in kvs), ~(y \in InFlight), ~Closed(KeyOf[y])
      PROVE  /\ HomeCell(cell, KeyOf[y], 0) # a
             /\ [kv |-> y, at |-> HomeCell(cell, KeyOf[y], 0)] \in b2[Home(y)].items
  <2> DEFINE h == HomeCell(cell, KeyOf[y], 0)
             e0 == [kv |-> y, at |-> h]
  <2>1. y \in KV
    BY DEF IInv, TypeOK
  <2>2. e0 \in bucket[Home(y)].items
    BY <1>9 DEF IInv, HeldAtHomeCell
  <2>3. Home(y) \in Buckets /\ Home(y) \in cell_bucket(PageSize, h)
    BY <1>9, <2>1, HomeFacts DEF IInv
  <2>4. e0.kv = y /\ e0.at = h
    OBVIOUS
  <2> HIDE DEF e0, h
  <2>5. e0 \in b1[Home(y)].items
    BY <1>2, <2>2, <2>3, <2>4 DEF Home
  <2>6. h # a
    <3> SUFFICES ASSUME h = a PROVE FALSE
      OBVIOUS
    <3>1. e0 \in AtCell(b1[Home(y)], a) /\ Home(y) \in cell_bucket(PageSize, a)
      BY <2>3, <2>4, <2>5 DEF AtCell
    <3>2. y \in collect_kv(b1, PageSize, a)
      BY <2>4, <3>1 DEF collect_kv
    <3> QED
      BY <1>9, <3>2
  <2>7. e0 \in b2[Home(y)].items
    BY <1>4, <2>3, <2>4, <2>5, <2>6
  <2> QED
    BY <2>6, <2>7 DEF e0, h
<1>10. kvs \subseteq KV /\ IsFiniteSet(kvs)
  <2>1. kvs \in SUBSET KV
    BY <1>8
  <2> QED
    BY <2>1, KVAssumption, FS_Subset
<1>11. \A j \in Buckets : IsFiniteSet(b2[j].items) /\ Cardinality(b2[j].items) <= N
  <2> SUFFICES ASSUME NEW j \in Buckets
               PROVE  IsFiniteSet(b2[j].items) /\ Cardinality(b2[j].items) <= N
    OBVIOUS
  <2>1. IsFiniteSet(bucket[j].items) /\ Cardinality(bucket[j].items) <= N
    BY DEF IInv, FiniteBuckets, BucketsFit
  <2>2. IsFiniteSet(b2[j].items) /\ Cardinality(b2[j].items) <= Cardinality(bucket[j].items)
    BY <1>5, <2>1, FS_Subset
  <2>3. Cardinality(b2[j].items) \in Nat /\ Cardinality(bucket[j].items) \in Nat
    BY <2>1, <2>2, FS_CardinalityType
  <2> QED
    BY <2>1, <2>2, <2>3, Sizes
<1> QED
  BY <1>4, <1>5, <1>8, <1>9, <1>10, <1>11 DEF CollectedFor

\* What filing the pairs kvs again under value c[a] makes of the buckets b2.
DispensedTo(c, ps, a, kvs, D, b2, b3) ==
    /\ b3 \in [D -> BucketType]
    /\ \A j \in D : IsFiniteSet(b3[j].items) /\ Cardinality(b3[j].items) <= N
    /\ \A j \in D : \A e \in b3[j].items :
         \/ e \in b2[j].items
         \/ /\ e.kv \in kvs /\ e.at = a
            /\ j = calculate_bucket(c, ps, KeyOf[e.kv], a)
    /\ \A y \in kvs : [kv |-> y, at |-> a] \in b3[calculate_bucket(c, ps, KeyOf[y], a)].items
    /\ \A j \in D : \A e \in b2[j].items :
         query_bucket(c, ps, KeyOf[e.kv]) = j => e \in b3[j].items

\* The pairs sent to one bucket are those with one guide, which check_kvs
\* counted: none of the inserts of dispense_kvs finds its bucket full.
LEMMA Dispensing ==
    ASSUME hash \in Hashes, NEW ps \in Nat \ {0}, NEW D, D = 0 .. cell_hash * ps - 1,
           NEW b2 \in [D -> BucketType],
           \A j \in D : IsFiniteSet(b2[j].items) /\ Cardinality(b2[j].items) <= N,
           NEW a \in Cell, NEW v \in Guides, NEW c, c[a] = v,
           NEW kvs \in SUBSET KV, IsFiniteSet(kvs),
           check_kvs(b2, ps, a, kvs, v),
           NEW b3, b3 = dispense_kvs(c, b2, ps, a, kvs)
    PROVE  DispensedTo(c, ps, a, kvs, D, b2, b3)
<1> DEFINE to(y) == calculate_bucket_from_cell(ps, kvs_now_guide(y, v), a)
           mine(j) == {y \in kvs : j = to(y)}
<1>1. \A y \in kvs : /\ kvs_now_guide(y, v) \in Guides /\ kvs_initial_guide(y) \in Guides
                     /\ to(y) = calculate_bucket(c, ps, KeyOf[y], a)
                     /\ to(y) \in D
  <2> TAKE y \in kvs
  <2>1. y \in KV /\ v \in Nat
    BY Sizes
  <2>2. /\ kvs_now_guide(y, v) = calculate_guide(KeyOf[y], v)
        /\ kvs_now_guide(y, v) \in Guides /\ kvs_initial_guide(y) \in Guides
    BY <2>1, NowGuide
  <2>3. to(y) \in D
    BY <2>2, BucketOfGuide
  <2> QED
    BY <2>2, <2>3 DEF calculate_bucket
<1>2. \A j \in D :
        b3[j] = IF mine(j) = {} THEN b2[j]
                ELSE insert_kv_to_bucket(c, ps, j, b2[j], Entries(mine(j), a))
  BY DEF dispense_kvs
<1>3. ASSUME NEW j \in D, mine(j) # {}
      PROVE  /\ b3[j] \in BucketType
             /\ b3[j].items = check_bucket(c, ps, j, b2[j]).items \cup Entries(mine(j), a)
             /\ IsFiniteSet(b3[j].items) /\ Cardinality(b3[j].items) <= N
  <2>1. PICK y0 \in kvs : j = to(y0)
    BY <1>3
  <2> DEFINE g == kvs_now_guide(y0, v)
             back == (g + cell_hash - v) % cell_hash
  <2>2. g \in Guides
    BY <1>1
  <2>3. \A y \in kvs : j = to(y) <=> kvs_now_guide(y, v) = g
    <3> TAKE y \in kvs
    <3>1. kvs_now_guide(y, v) \in Guides
      BY <1>1
    <3>2. ASSUME j = to(y) PROVE kvs_now_guide(y, v) = g
      <4>1. calculate_bucket_from_cell(ps, kvs_now_guide(y, v), a)
                = calculate_bucket_from_cell(ps, g, a)
        BY <2>1, <3>2
      <4> HIDE DEF g
      <4> QED
        BY <2>2, <3>1, <4>1, GuideOfBucket
    <3> QED
      BY <2>1, <3>2
  <2>4. \A y \in kvs : kvs_now_guide(y, v) = g <=> kvs_initial_guide(y) = back
    BY <1>1, <2>2, TurnBack DEF kvs_now_guide
  <2>5. mine(j) = {y \in kvs : kvs_initial_guide(y) = back}
    BY <2>3, <2>4
  <2>6. kvs_guide_bucket_count(kvs, back) = Cardinality(mine(j))
    BY <2>5 DEF kvs_guide_bucket_count
  <2>7. kvs_guide_bucket_count(kvs, back) <= N - Cardinality(b2[j].items)
    BY <2>1, <2>2 DEF check_kvs, bucket_empty
  <2>8. IsFiniteSet(mine(j)) /\ Cardinality(mine(j)) \in Nat
    <3>1. mine(j) \in SUBSET kvs
      OBVIOUS
    <3> QED
      BY <3>1, FS_Subset, FS_CardinalityType
  <2>9. IsFiniteSet(Entries(mine(j), a)) /\ Cardinality(Entries(mine(j), a)) <= Cardinality(mine(j))
    BY <2>8, EntriesCount
  <2>10. Cardinality(Entries(mine(j), a)) \in Nat
    BY <2>9, FS_CardinalityType
  <2>11. /\ IsFiniteSet(check_bucket(c, ps, j, b2[j]).items)
         /\ Cardinality(check_bucket(c, ps, j, b2[j]).items) <= Cardinality(b2[j].items)
    BY CheckBucket
  <2>12. /\ Cardinality(check_bucket(c, ps, j, b2[j]).items) \in Nat
         /\ Cardinality(b2[j].items) \in Nat
    BY <2>11, FS_CardinalityType
  <2>13. Cardinality(Entries(mine(j), a)) <= N - Cardinality(check_bucket(c, ps, j, b2[j]).items)
    <3> DEFINE x == Cardinality(Entries(mine(j), a))
               y == Cardinality(check_bucket(c, ps, j, b2[j]).items)
               z == Cardinality(b2[j].items)
               w == Cardinality(mine(j))
    <3>1. x \in Nat /\ y \in Nat /\ z \in Nat /\ w \in Nat /\ x <= w /\ w <= N - z /\ y <= z
      <4> DEFINE t == kvs_guide_bucket_count(kvs, back)
      <4>1. w = t
        BY <2>6
      <4>2. t <= N - z
        BY <2>7
      <4>3. x \in Nat /\ y \in Nat /\ z \in Nat /\ w \in Nat
        BY <2>8, <2>10, <2>12
      <4>4. x <= w /\ y <= z
        BY <2>9, <2>11
      <4> HIDE DEF x, y, z, w, t
      <4> QED
        BY <4>1, <4>2, <4>3, <4>4
    <3> HIDE DEF x, y, z, w
    <3>2. x <= N - y
      BY <3>1, Sizes
    <3> QED
      BY <3>2 DEF x, y
  <2>14. Entries(mine(j), a) \in SUBSET Entry
    BY DEF Entries, Entry
  <2>15. IsFiniteSet(b2[j].items) /\ b2[j] \in BucketType
    OBVIOUS
  <2> DEFINE i == insert_kv_to_bucket(c, ps, j, b2[j], Entries(mine(j), a))
  <2>16. /\ i \in BucketType
         /\ i.items = check_bucket(c, ps, j, b2[j]).items \cup Entries(mine(j), a)
         /\ IsFiniteSet(i.items) /\ Cardinality(i.items) <= N
    <3> HIDE DEF mine
    <3> QED
      BY <2>9, <2>13, <2>14, <2>15, InsertKeeps
  <2>17. b3[j] = i
    BY <1>2, <1>3
  <2> QED
    BY <2>16, <2>17
<1>4. \A j \in D : mine(j) = {} => b3[j] = b2[j]
  BY <1>2
<1>5. b3 \in [D -> BucketType]
  <2>1. DOMAIN b3 = D /\ b3 = [j \in D |-> b3[j]]
    BY DEF dispense_kvs
  <2>2. \A j \in D : b3[j] \in BucketType
    BY <1>3, <1>4
  <2> QED
    BY <2>1, <2>2
<1>6. \A j \in D : IsFiniteSet(b3[j].items) /\ Cardinality(b3[j].items) <= N
  BY <1>3, <1>4
<1>7. \A j \in D : \A e \in b3[j].items :
        \/ e \in b2[j].items
        \/ e.kv \in kvs /\ e.at = a /\ j = calculate_bucket(c, ps, KeyOf[e.kv], a)
  <2> SUFFICES ASSUME NEW j \in D, NEW e \in b3[j].items, ~(e \in b2[j].items)
               PROVE  e.kv \in kvs /\ e.at = a /\ j = calculate_bucket(c, ps, KeyOf[e.kv], a)
    OBVIOUS
  <2>1. mine(j) # {}
    BY <1>4
  <2>2. e \in Entries(mine(j), a)
    BY <1>3, <2>1, CheckBucket
  <2>3. PICK y \in mine(j) : e = [kv |-> y, at |-> a]
    BY <2>2 DEF Entries
  <2> QED
    BY <1>1, <2>3
<1>8. \A y \in kvs : [kv |-> y, at |-> a] \in b3[calculate_bucket(c, ps, KeyOf[y], a)].items
  <2> TAKE y \in kvs
  <2>1. y \in mine(to(y)) /\ to(y) \in D /\ to(y) = calculate_bucket(c, ps, KeyOf[y], a)
    BY <1>1
  <2>2. [kv |-> y, at |-> a] \in Entries(mine(to(y)), a)
    BY <2>1 DEF Entries
  <2>3. [kv |-> y, at |-> a] \in b3[to(y)].items
    BY <1>3, <2>1, <2>2
  <2> QED
    BY <2>1, <2>3
<1>9. \A j \in D : \A e \in b2[j].items :
        query_bucket(c, ps, KeyOf[e.kv]) = j => e \in b3[j].items
  <2> SUFFICES ASSUME NEW j \in D, NEW e \in b2[j].items, query_bucket(c, ps, KeyOf[e.kv]) = j
               PROVE  e \in b3[j].items
    OBVIOUS
  <2>1. e \in check_bucket(c, ps, j, b2[j]).items
    BY CheckBucket
  <2> QED
    BY <1>3, <1>4, <2>1
<1> QED
  BY <1>5, <1>6, <1>7, <1>8, <1>9 DEF DispensedTo

\* Giving an open cell another value: what was full stays full, and the
\* lookups that the cell does not decide stay as they were.
LEMMA Raised ==
    ASSUME TypeOK, NEW a \in Cell, cell[a] # cell_full,
           NEW c, \A z \in Cell : z # a => c[z] = cell[z]
    PROVE  /\ \A q \in Key, m \in Layers :
                cell[calculate_cell(q, m)] = cell_full => c[calculate_cell(q, m)] = cell_full
           /\ \A q, z : z \in Cell /\ z # a
                => calculate_bucket(c, PageSize, q, z) = calculate_bucket(cell, PageSize, q, z)
           /\ \A y \in KV : OpenLayers(c, KeyOf[y], 0) # {} => ~Closed(KeyOf[y])
           /\ \A y \in KV : ~Closed(KeyOf[y]) /\ HomeCell(cell, KeyOf[y], 0) # a
                => /\ HomeCell(c, KeyOf[y], 0) = HomeCell(cell, KeyOf[y], 0)
                   /\ query_bucket(c, PageSize, KeyOf[y]) = Home(y)
<1>1. \A z \in Cell : z # a => c[z] = cell[z]
  OBVIOUS
<1>2. \A q \in Key, m \in Layers :
        /\ calculate_cell(q, m) \in Cell
        /\ cell[calculate_cell(q, m)] = cell_full => c[calculate_cell(q, m)] = cell_full
  <2> TAKE q \in Key, m \in Layers
  <2>1. calculate_cell(q, m) \in Cell
    BY CellOfKey, PageFacts
  <2> HIDE DEF calculate_cell
  <2> QED
    BY <1>1, <2>1
<1>3. \A q, z : z \in Cell /\ z # a
        => calculate_bucket(c, PageSize, q, z) = calculate_bucket(cell, PageSize, q, z)
  BY <1>1 DEF calculate_bucket
<1>4. \A y \in KV : OpenLayers(c, KeyOf[y], 0) # {} => ~Closed(KeyOf[y])
  BY <1>2, KVAssumption DEF OpenLayers, Closed
<1>5. ASSUME NEW y \in KV, ~Closed(KeyOf[y]), HomeCell(cell, KeyOf[y], 0) # a
      PROVE  /\ HomeCell(c, KeyOf[y], 0) = HomeCell(cell, KeyOf[y], 0)
             /\ query_bucket(c, PageSize, KeyOf[y]) = Home(y)
  <2> DEFINE q == KeyOf[y]
  <2>1. PICK l \in Layers :
          /\ HomeCell(cell, q, 0) = calculate_cell(q, l)
          /\ calculate_cell(q, l) \in Cell
          /\ cell[calculate_cell(q, l)] # cell_full
          /\ \A m \in Layers : m < l => cell[calculate_cell(q, m)] = cell_full
          /\ Home(y) = calculate_bucket(cell, PageSize, q, calculate_cell(q, l))
    BY <1>5, HomeFacts
  <2>2. q \in Key
    BY KVAssumption
  <2>3. /\ c[calculate_cell(q, l)] # cell_full
        /\ \A m \in Layers : m < l => c[calculate_cell(q, m)] = cell_full
    BY <1>1, <1>2, <1>5, <2>1, <2>2
  <2>4. /\ HomeCell(c, q, 0) = calculate_cell(q, l)
        /\ query_bucket(c, PageSize, q) = calculate_bucket(c, PageSize, q, calculate_cell(q, l))
    BY <2>3, HomeIs
  <2>5. calculate_bucket(c, PageSize, q, calculate_cell(q, l)) = Home(y)
    BY <1>3, <1>5, <2>1
  <2> QED
    BY <2>1, <2>4, <2>5
<1> QED
  BY <1>1, <1>2, <1>3, <1>4, <1>5

\* Moving a cell to another value takes all its pairs along, and no other.
LEMMA MovesStep ==
    ASSUME IInv, NEW s \in 0 .. cell_layer, NEW x \in pending[s], InsertMoves(x, s)
    PROVE  IInv'
<1> DEFINE q == KeyOf[x]
           a == HomeCell(cell, q, s)
           d == calculate_bucket(cell, PageSize, q, a)
           b1 == TargetChecked(d)
           kvs == {x} \cup collect_kv(b1, PageSize, a)
           b2 == Collected(b1, PageSize, a)
           fits == NextCellValues(b2, PageSize, a, kvs)
           v == Min(fits)
<1>1. /\ pending' = [pending EXCEPT ![s] = @ \ {x}]
      /\ UNCHANGED <<hash, bucket_number, ret, call, called, reply>>
      /\ OpenLayers(cell, q, s) # {}
      /\ fits # {}
      /\ cell' = [cell EXCEPT ![a] = v]
      /\ bucket' = dispense_kvs(cell', b2, PageSize, a, kvs)
      /\ PageSize' = PageSize /\ Buckets' = Buckets
  BY DEF InsertMoves, PageSize, Buckets
<1>2. /\ pending' \in [0 .. cell_layer -> SUBSET KV]
      /\ \A l \in 0 .. cell_layer : pending'[l] = pending[l] \ {x}
      /\ \A y : y \in InFlight' <=> y \in InFlight /\ y # x
      /\ x \in KV /\ call # NoKV
  BY <1>1, LeavesLoop DEF IInv
<1>3. /\ a \in Cell /\ a[1] \in Layers /\ cell[a] # cell_full
  BY <1>1, Target
<1>6. /\ a = HomeCell(cell, q, s) /\ d = calculate_bucket(cell, PageSize, q, a)
      /\ b1 = TargetChecked(d) /\ kvs = {x} \cup collect_kv(b1, PageSize, a)
      /\ b2 = Collected(b1, PageSize, a) /\ fits = NextCellValues(b2, PageSize, a, kvs)
      /\ v = Min(fits) /\ x \in kvs
  OBVIOUS
<1> HIDE DEF v, fits, b2, kvs, b1, d, a
<1>4. /\ v \in Guides /\ v # cell_full /\ v \in 0 .. cell_full
      /\ check_kvs(b2, PageSize, a, kvs, v)
  <2>1. fits \subseteq cell[a] + 1 .. cell_full - 1
    BY <1>6 DEF NextCellValues
  <2>2. cell[a] \in Nat /\ cell_full \in Nat /\ cell_full = cell_hash - 1 /\ cell_hash \in Nat
    BY <1>3, PageFacts, Sizes DEF IInv
  <2>3. fits \in SUBSET Nat
    BY <2>1, <2>2
  <2>4. v \in fits
    BY <1>1, <1>6, <2>3, LeastElement
  <2>5. check_kvs(b2, PageSize, a, kvs, v)
    BY <1>6, <2>4 DEF NextCellValues, CellValueFits
  <2>6. v \in cell[a] + 1 .. cell_full - 1
    BY <2>1, <2>4
  <2> QED
    BY <2>2, <2>5, <2>6 DEF Guides
<1>5. /\ b2 \in [Buckets -> BucketType]
      /\ \A j \in Buckets : b2[j].items \subseteq bucket[j].items
      /\ \A j \in cell_bucket(PageSize, a) : \A e \in b2[j].items : e.at # a
      /\ \A j \in Buckets : IsFiniteSet(b2[j].items) /\ Cardinality(b2[j].items) <= N
      /\ kvs \in SUBSET KV /\ kvs \subseteq called /\ IsFiniteSet(kvs)
      /\ \A y \in kvs :
            /\ a = calculate_cell(KeyOf[y], a[1])
            /\ \A m \in Layers : m < a[1] => cell[calculate_cell(KeyOf[y], m)] = cell_full
            /\ y = x \/ ~(y \in InFlight)
      /\ \A y \in called :
            ~(y \in kvs) /\ ~(y \in InFlight) /\ ~Closed(KeyOf[y])
                => /\ HomeCell(cell, KeyOf[y], 0) # a
                   /\ [kv |-> y, at |-> HomeCell(cell, KeyOf[y], 0)] \in b2[Home(y)].items
  <2>1. /\ OpenLayers(cell, KeyOf[x], s) # {}
        /\ a = HomeCell(cell, KeyOf[x], s) /\ d = calculate_bucket(cell, PageSize, KeyOf[x], a)
        /\ b1 = TargetChecked(d) /\ kvs = {x} \cup collect_kv(b1, PageSize, a)
        /\ b2 = Collected(b1, PageSize, a)
    BY <1>1, <1>6
  <2>2. CollectedFor(x, a, kvs, b2)
    BY <2>1, Collecting
  <2> QED
    BY <2>2 DEF CollectedFor
<1>7. /\ cell'[a] = v
      /\ \A z \in Cell : z # a => cell'[z] = cell[z]
      /\ \A k \in Key, m \in Layers :
            cell[calculate_cell(k, m)] = cell_full => cell'[calculate_cell(k, m)] = cell_full
      /\ \A k, z : z \in Cell /\ z # a
            => calculate_bucket(cell', PageSize, k, z) = calculate_bucket(cell, PageSize, k, z)
      /\ \A y \in KV : OpenLayers(cell', KeyOf[y], 0) # {} => ~Closed(KeyOf[y])
      /\ \A y \in KV : ~Closed(KeyOf[y]) /\ HomeCell(cell, KeyOf[y], 0) # a
            => /\ HomeCell(cell', KeyOf[y], 0) = HomeCell(cell, KeyOf[y], 0)
               /\ query_bucket(cell', PageSize, KeyOf[y]) = Home(y)
  <2>1. cell'[a] = v /\ \A z \in Cell : z # a => cell'[z] = cell[z]
    BY <1>1, <1>3 DEF IInv, TypeOK
  <2> QED
    BY <1>3, <2>1, Raised DEF IInv
<1>8. /\ bucket' \in [Buckets -> BucketType]
      /\ \A j \in Buckets : IsFiniteSet(bucket'[j].items) /\ Cardinality(bucket'[j].items) <= N
      /\ \A j \in Buckets : \A e \in bucket'[j].items :
            \/ e \in b2[j].items
            \/ /\ e.kv \in kvs /\ e.at = a
               /\ j = calculate_bucket(cell', PageSize, KeyOf[e.kv], a)
      /\ \A y \in kvs : [kv |-> y, at |-> a]
                            \in bucket'[calculate_bucket(cell', PageSize, KeyOf[y], a)].items
      /\ \A j \in Buckets : \A e \in b2[j].items :
            query_bucket(cell', PageSize, KeyOf[e.kv]) = j => e \in bucket'[j].items
  <2>1. hash \in Hashes /\ PageSize \in Nat \ {0} /\ Buckets = 0 .. cell_hash * PageSize - 1
    BY PageFacts DEF IInv
  <2>2. /\ a \in Cell /\ v \in Guides /\ cell'[a] = v
        /\ check_kvs(b2, PageSize, a, kvs, v)
        /\ bucket' = dispense_kvs(cell', b2, PageSize, a, kvs)
    BY <1>1, <1>3, <1>4, <1>7
  <2>3. /\ b2 \in [Buckets -> BucketType]
        /\ \A j \in Buckets : IsFiniteSet(b2[j].items) /\ Cardinality(b2[j].items) <= N
        /\ kvs \in SUBSET KV /\ IsFiniteSet(kvs)
    BY <1>5
  <2>4. DispensedTo(cell', PageSize, a, kvs, Buckets, b2, bucket')
    BY <2>1, <2>2, <2>3, Dispensing
  <2> QED
    BY <2>4 DEF DispensedTo
<1>9. bucket \in [Buckets -> BucketType]
  BY PageFacts DEF IInv
<1>10. \A j \in Buckets : \A e \in b2[j].items :
            e \in bucket[j].items /\ e.kv \in KV /\ KeyOf[e.kv] \in Key /\ e.at \in Cell
  BY <1>5, KVAssumption DEF BucketType, Entry
<1>11. TypeOK'
  <2>1. cell' \in [Cell -> 0 .. cell_full]
    BY <1>1, <1>3, <1>4 DEF IInv, TypeOK
  <2> QED
    BY <1>1, <1>2, <1>8, <2>1 DEF IInv, TypeOK, BucketType
<1>12. HeldAtHomeCell'
  <2> SUFFICES ASSUME NEW y \in called, ~(y \in InFlight'), OpenLayers(cell', KeyOf[y], 0) # {}
               PROVE  [kv |-> y, at |-> HomeCell(cell', KeyOf[y], 0)]
                        \in bucket'[query_bucket(cell', PageSize, KeyOf[y])].items
    BY <1>1, SameHash DEF HeldAtHomeCell
  <2>1. y \in KV
    BY DEF IInv, TypeOK
  <2>2. CASE y \in kvs
    <3>1. /\ a = calculate_cell(KeyOf[y], a[1])
          /\ \A m \in Layers : m < a[1] => cell'[calculate_cell(KeyOf[y], m)] = cell_full
      BY <1>5, <1>7, <2>1, <2>2, KVAssumption
    <3>2. /\ HomeCell(cell', KeyOf[y], 0) = a
          /\ query_bucket(cell', PageSize, KeyOf[y])
                = calculate_bucket(cell', PageSize, KeyOf[y], a)
      BY <1>3, <1>4, <1>7, <3>1, HomeIs
    <3> QED
      BY <1>8, <2>2, <3>2
  <2>3. CASE ~(y \in kvs)
    <3>1. ~(y \in InFlight) /\ ~Closed(KeyOf[y])
      BY <1>2, <1>6, <1>7, <2>1, <2>3
    <3>2. /\ HomeCell(cell, KeyOf[y], 0) # a
          /\ [kv |-> y, at |-> HomeCell(cell, KeyOf[y], 0)] \in b2[Home(y)].items
      BY <1>5, <2>3, <3>1
    <3>3. /\ HomeCell(cell', KeyOf[y], 0) = HomeCell(cell, KeyOf[y], 0)
          /\ query_bucket(cell', PageSize, KeyOf[y]) = Home(y)
      BY <1>7, <2>1, <3>1, <3>2
    <3>4. Home(y) \in Buckets
      BY <2>1, <3>1, HomeFacts DEF IInv
    <3> QED
      BY <1>8, <3>2, <3>3, <3>4
  <2> QED
    BY <2>2, <2>3
<1>13. EntriesFiled'
  <2>0. /\ hash' = hash /\ called' = called /\ Buckets' = Buckets /\ PageSize' = PageSize
        /\ \A k, m : calculate_cell(k, m)' = calculate_cell(k, m)
        /\ \A z : cell_bucket(PageSize, z)' = cell_bucket(PageSize, z)
        /\ \A k, z : calculate_bucket(cell, PageSize, k, z)'
                        = calculate_bucket(cell', PageSize, k, z)
    BY <1>1, SameHash
  <2> SUFFICES ASSUME NEW j \in Buckets, NEW e \in bucket'[j].items
               PROVE  /\ e.kv \in called
                      /\ e.at = calculate_cell(KeyOf[e.kv], e.at[1])
                      /\ \A m \in Layers : m < e.at[1]
                            => cell'[calculate_cell(KeyOf[e.kv], m)] = cell_full
    BY <2>0 DEF EntriesFiled
  <2>1. CASE e \in b2[j].items
    <3>1. /\ e.kv \in called
          /\ e.at = calculate_cell(KeyOf[e.kv], e.at[1])
          /\ \A m \in Layers : m < e.at[1] => cell[calculate_cell(KeyOf[e.kv], m)] = cell_full
      BY <1>10, <2>1 DEF IInv, EntriesFiled
    <3> QED
      BY <1>7, <1>10, <2>1, <3>1
  <2>2. CASE e.kv \in kvs /\ e.at = a
    BY <1>5, <1>7, <2>2, KVAssumption
  <2> QED
    BY <1>8, <2>1, <2>2
<1>14. GuideSelects'
  <2>0. /\ hash' = hash /\ called' = called /\ Buckets' = Buckets /\ PageSize' = PageSize
        /\ \A k, m : calculate_cell(k, m)' = calculate_cell(k, m)
        /\ \A z : cell_bucket(PageSize, z)' = cell_bucket(PageSize, z)
        /\ \A k, z : calculate_bucket(cell, PageSize, k, z)'
                        = calculate_bucket(cell', PageSize, k, z)
    BY <1>1, SameHash
  <2> SUFFICES ASSUME NEW j \in Buckets, NEW e \in bucket'[j].items,
                      cell'[e.at] # cell_full, j \in cell_bucket(PageSize, e.at)
               PROVE  j = calculate_bucket(cell', PageSize, KeyOf[e.kv], e.at)
    BY <2>0 DEF GuideSelects
  <2>1. CASE e \in b2[j].items
    <3>1. e.at # a /\ e.at \in Cell
      BY <1>5, <1>10, <2>1
    <3>2. j = calculate_bucket(cell, PageSize, KeyOf[e.kv], e.at)
      BY <1>7, <1>10, <2>1, <3>1 DEF IInv, GuideSelects
    <3> QED
      BY <1>7, <3>1, <3>2
  <2>2. CASE e.kv \in kvs /\ e.at = a /\ j = calculate_bucket(cell', PageSize, KeyOf[e.kv], a)
    BY <2>2
  <2> QED
    BY <1>8, <2>1, <2>2
<1>15. PendingFiled'
  <2>0. called' = called /\ Buckets' = Buckets
        /\ \A k, m : calculate_cell(k, m)' = calculate_cell(k, m)
    BY <1>1, SameHash
  <2> SUFFICES ASSUME NEW l \in 0 .. cell_layer, NEW y \in pending'[l]
               PROVE  /\ y \in called
                      /\ \A m \in Layers : m < l => cell'[calculate_cell(KeyOf[y], m)] = cell_full
                      /\ \A j \in Buckets : \A e \in bucket'[j].items :
                            e.kv = y => cell'[e.at] = cell_full
    BY <2>0 DEF PendingFiled
  <2>1. y \in pending[l] /\ y # x /\ y \in InFlight
    BY <1>2, InFlightMember
  <2>2. y \in KV /\ KeyOf[y] \in Key
    BY <2>1, KVAssumption DEF IInv, TypeOK
  <2>3. ASSUME NEW j \in Buckets, NEW e \in bucket'[j].items, e.kv = y
        PROVE  cell'[e.at] = cell_full
    <3>1. e \in b2[j].items
      BY <1>5, <1>8, <2>1, <2>3
    <3>2. e \in bucket[j].items /\ e.at \in Cell /\ cell[e.at] = cell_full
      BY <1>10, <2>1, <2>3, <3>1 DEF IInv, PendingFiled
    <3> QED
      BY <1>3, <1>7, <3>2
  <2> QED
    BY <1>7, <2>1, <2>2, <2>3 DEF IInv, PendingFiled
<1>16. PendingApart'
  BY <1>1, <1>2 DEF IInv, PendingApart, Idle
<1>17. FiniteBuckets' /\ BucketsFit'
  BY <1>1, <1>8 DEF FiniteBuckets, BucketsFit
<1> QED
  BY <1>11, <1>12, <1>13, <1>14, <1>15, <1>16, <1>17 DEF IInv

\* A cell that is closed leaves its pairs to the loop over the next layers.
LEMMA OverflowStep ==
    ASSUME IInv, NEW s \in 0 .. cell_layer, Turn(s), NEW x \in pending[s], InsertOverflows(x, s)
    PROVE  IInv'
<1> DEFINE q == KeyOf[x]
           a == HomeCell(cell, q, s)
           d == calculate_bucket(cell, PageSize, q, a)
           b1 == TargetChecked(d)
           kvs == {x} \cup collect_kv(b1, PageSize, a)
           b2 == Collected(b1, PageSize, a)
           t == a[1] + 1
<1>1. /\ pending' = [pending EXCEPT ![s] = @ \ {x}, ![t] = kvs]
      /\ UNCHANGED <<hash, bucket_number, ret, call, called, reply>>
      /\ OpenLayers(cell, q, s) # {}
      /\ cell' = [cell EXCEPT ![a] = cell_full]
      /\ bucket' = b2
      /\ PageSize' = PageSize /\ Buckets' = Buckets
  BY DEF InsertOverflows, PageSize, Buckets
<1>2. /\ a \in Cell /\ a[1] \in Layers /\ cell[a] # cell_full
      /\ a[1] >= s /\ t \in 0 .. cell_layer
      /\ x \in KV
  BY <1>1, Target
<1>4. /\ a = HomeCell(cell, q, s) /\ d = calculate_bucket(cell, PageSize, q, a)
      /\ b1 = TargetChecked(d) /\ kvs = {x} \cup collect_kv(b1, PageSize, a)
      /\ b2 = Collected(b1, PageSize, a) /\ x \in kvs
  OBVIOUS
<1> HIDE DEF b2, kvs, b1, d, a
<1>3. /\ b2 \in [Buckets -> BucketType]
      /\ \A j \in Buckets : b2[j].items \subseteq bucket[j].items
      /\ \A j \in Buckets : IsFiniteSet(b2[j].items) /\ Cardinality(b2[j].items) <= N
      /\ kvs \in SUBSET KV /\ kvs \subseteq called
      /\ \A y \in kvs :
            /\ a = calculate_cell(KeyOf[y], a[1])
            /\ \A m \in Layers : m < a[1] => cell[calculate_cell(KeyOf[y], m)] = cell_full
            /\ y = x \/ ~(y \in InFlight)
            /\ \A j \in Buckets : \A e \in bucket[j].items :
                    e.kv = y => cell[e.at] = cell_full \/ e.at = a
      /\ \A y \in called :
            ~(y \in kvs) /\ ~(y \in InFlight) /\ ~Closed(KeyOf[y])
                => /\ HomeCell(cell, KeyOf[y], 0) # a
                   /\ [kv |-> y, at |-> HomeCell(cell, KeyOf[y], 0)] \in b2[Home(y)].items
  <2>1. CollectedFor(x, a, kvs, b2)
    BY <1>1, <1>4, Collecting
  <2> QED
    BY <2>1 DEF CollectedFor
<1>5. s \in Int /\ t > s /\ t = a[1] + 1 /\ a[1] \in Int
  BY <1>2, Sizes DEF Layers
<1> HIDE DEF t
<1>6. /\ pending' \in [0 .. cell_layer -> SUBSET KV]
      /\ pending'[t] = kvs
      /\ pending[t] = {}
      /\ \A l \in 0 .. cell_layer : l # t => pending'[l] = pending[l] \ {x}
  <2>1. pending \in [0 .. cell_layer -> SUBSET KV]
    BY DEF IInv, TypeOK
  <2>2. pending' \in [0 .. cell_layer -> SUBSET KV] /\ pending'[t] = kvs
    BY <1>1, <1>2, <1>3, <2>1
  <2>3. pending[t] = {}
    BY <1>2, <1>5 DEF Turn
  <2>4. \A l \in 0 .. cell_layer : l # s => ~(x \in pending[l])
    BY DEF IInv, PendingApart
  <2>5. \A l \in 0 .. cell_layer : l # t => pending'[l] = pending[l] \ {x}
    BY <1>1, <1>2, <2>1, <2>4
  <2> QED
    BY <2>2, <2>3, <2>5
<1>7. \A y : y \in InFlight' <=> y \in InFlight \/ y \in kvs
  <2>1. ASSUME NEW y \in InFlight' PROVE y \in InFlight \/ y \in kvs
    BY <1>6, InFlightMember
  <2>2. ASSUME NEW y \in kvs PROVE y \in InFlight'
    BY <1>2, <1>6, InFlightMember
  <2>3. ASSUME NEW y \in InFlight PROVE y \in InFlight'
    <3>1. PICK l \in 0 .. cell_layer : y \in pending[l]
      BY InFlightMember
    <3>2. CASE y = x
      BY <1>4, <2>2, <3>2
    <3>3. CASE y # x
      BY <1>6, <3>1, <3>3, InFlightMember
    <3> QED
      BY <3>2, <3>3
  <2> QED
    BY <2>1, <2>2, <2>3
<1>8. /\ cell'[a] = cell_full
      /\ \A z \in Cell : z # a => cell'[z] = cell[z]
      /\ \A k \in Key, m \in Layers :
            cell[calculate_cell(k, m)] = cell_full => cell'[calculate_cell(k, m)] = cell_full
      /\ \A k, z : z \in Cell /\ z # a
            => calculate_bucket(cell', PageSize, k, z) = calculate_bucket(cell, PageSize, k, z)
      /\ \A y \in KV : OpenLayers(cell', KeyOf[y], 0) # {} => ~Closed(KeyOf[y])
      /\ \A y \in KV : ~Closed(KeyOf[y]) /\ HomeCell(cell, KeyOf[y], 0) # a
            => /\ HomeCell(cell', KeyOf[y], 0) = HomeCell(cell, KeyOf[y], 0)
               /\ query_bucket(cell', PageSize, KeyOf[y]) = Home(y)
  <2>1. cell'[a] = cell_full /\ \A z \in Cell : z # a => cell'[z] = cell[z]
    BY <1>1, <1>2 DEF IInv, TypeOK
  <2> QED
    BY <1>2, <2>1, Raised DEF IInv
<1>9. \A j \in Buckets : \A e \in b2[j].items :
            e \in bucket[j].items /\ e.kv \in KV /\ KeyOf[e.kv] \in Key /\ e.at \in Cell
  BY <1>3, KVAssumption DEF BucketType, Entry
<1>10. TypeOK'
  <2>1. cell' \in [Cell -> 0 .. cell_full]
    BY <1>1, <1>2, Sizes DEF IInv, TypeOK, Guides
  <2> QED
    BY <1>1, <1>3, <1>6, <2>1 DEF IInv, TypeOK, BucketType
<1>11. HeldAtHomeCell'
  <2> SUFFICES ASSUME NEW y \in called, ~(y \in InFlight'), OpenLayers(cell', KeyOf[y], 0) # {}
               PROVE  [kv |-> y, at |-> HomeCell(cell', KeyOf[y], 0)]
                        \in b2[query_bucket(cell', PageSize, KeyOf[y])].items
    BY <1>1, SameHash DEF HeldAtHomeCell
  <2>1. y \in KV
    BY DEF IInv, TypeOK
  <2>2. ~(y \in InFlight) /\ ~(y \in kvs) /\ ~Closed(KeyOf[y])
    BY <1>7, <1>8, <2>1
  <2>3. /\ HomeCell(cell, KeyOf[y], 0) # a
        /\ [kv |-> y, at |-> HomeCell(cell, KeyOf[y], 0)] \in b2[Home(y)].items
    BY <1>3, <2>2
  <2> QED
    BY <1>8, <2>1, <2>2, <2>3
<1>12. EntriesFiled'
  <2>0. /\ hash' = hash /\ called' = called /\ Buckets' = Buckets /\ PageSize' = PageSize
        /\ \A k, m : calculate_cell(k, m)' = calculate_cell(k, m)
        /\ \A z : cell_bucket(PageSize, z)' = cell_bucket(PageSize, z)
        /\ \A k, z : calculate_bucket(cell, PageSize, k, z)'
                        = calculate_bucket(cell', PageSize, k, z)
        /\ bucket' = b2
    BY <1>1, SameHash
  <2> SUFFICES ASSUME NEW j \in Buckets, NEW e \in b2[j].items
               PROVE  /\ e.kv \in called
                      /\ e.at = calculate_cell(KeyOf[e.kv], e.at[1])
                      /\ \A m \in Layers : m < e.at[1]
                            => cell'[calculate_cell(KeyOf[e.kv], m)] = cell_full
    BY <2>0 DEF EntriesFiled
  <2>1. /\ e.kv \in called
        /\ e.at = calculate_cell(KeyOf[e.kv], e.at[1])
        /\ \A m \in Layers : m < e.at[1] => cell[calculate_cell(KeyOf[e.kv], m)] = cell_full
    BY <1>9 DEF IInv, EntriesFiled
  <2> QED
    BY <1>8, <1>9, <2>1
<1>13. GuideSelects'
  <2>0. /\ hash' = hash /\ called' = called /\ Buckets' = Buckets /\ PageSize' = PageSize
        /\ \A k, m : calculate_cell(k, m)' = calculate_cell(k, m)
        /\ \A z : cell_bucket(PageSize, z)' = cell_bucket(PageSize, z)
        /\ \A k, z : calculate_bucket(cell, PageSize, k, z)'
                        = calculate_bucket(cell', PageSize, k, z)
        /\ bucket' = b2
    BY <1>1, SameHash
  <2> SUFFICES ASSUME NEW j \in Buckets, NEW e \in b2[j].items,
                      cell'[e.at] # cell_full, j \in cell_bucket(PageSize, e.at)
               PROVE  j = calculate_bucket(cell', PageSize, KeyOf[e.kv], e.at)
    BY <2>0 DEF GuideSelects
  <2>1. e.at # a /\ e.at \in Cell
    BY <1>8, <1>9
  <2>2. j = calculate_bucket(cell, PageSize, KeyOf[e.kv], e.at)
    BY <1>8, <1>9, <2>1 DEF IInv, GuideSelects
  <2> QED
    BY <1>8, <2>1, <2>2
<1>14. PendingFiled'
  <2>0. called' = called /\ Buckets' = Buckets
        /\ \A k, m : calculate_cell(k, m)' = calculate_cell(k, m)
    BY <1>1, SameHash
  <2> SUFFICES ASSUME NEW l \in 0 .. cell_layer, NEW y \in pending'[l]
               PROVE  /\ y \in called
                      /\ \A m \in Layers : m < l => cell'[calculate_cell(KeyOf[y], m)] = cell_full
                      /\ \A j \in Buckets : \A e \in b2[j].items :
                            e.kv = y => cell'[e.at] = cell_full
    BY <1>1, <2>0 DEF PendingFiled
  <2>1. CASE l = t
    <3>1. y \in kvs /\ y \in KV /\ KeyOf[y] \in Key
      BY <1>3, <1>6, <2>1, KVAssumption
    <3>2. \A m \in Layers : m < t => m = a[1] \/ m < a[1]
      BY <1>5 DEF Layers
    <3>3. /\ cell'[calculate_cell(KeyOf[y], a[1])] = cell_full
          /\ \A m \in Layers : m < a[1] => cell'[calculate_cell(KeyOf[y], m)] = cell_full
      BY <1>3, <1>8, <3>1
    <3>4. \A j \in Buckets : \A e \in b2[j].items : e.kv = y => cell'[e.at] = cell_full
      BY <1>2, <1>3, <1>8, <1>9, <3>1
    <3> QED
      BY <1>3, <2>1, <3>1, <3>2, <3>3, <3>4
  <2>2. CASE l # t
    <3>1. y \in pending[l] /\ y \in KV /\ KeyOf[y] \in Key
      BY <1>6, <2>2, KVAssumption DEF IInv, TypeOK
    <3>2. /\ y \in called
          /\ \A m \in Layers : m < l => cell[calculate_cell(KeyOf[y], m)] = cell_full
          /\ \A j \in Buckets : \A e \in bucket[j].items : e.kv = y => cell[e.at] = cell_full
      BY <3>1 DEF IInv, PendingFiled
    <3>3. \A j \in Buckets : \A e \in b2[j].items : e.kv = y => cell'[e.at] = cell_full
      BY <1>2, <1>8, <1>9, <3>2
    <3> QED
      BY <1>8, <3>1, <3>2, <3>3
  <2> QED
    BY <2>1, <2>2
<1>15. PendingApart'
  <2>1. call # NoKV
    <3>1. x \in InFlight
      BY InFlightMember
    <3> QED
      BY <3>1 DEF IInv, PendingApart, Idle
  <2>2. \A l \in 0 .. cell_layer : l # t => pending'[l] \cap kvs = {}
    BY <1>3, <1>6, InFlightMember
  <2>3. \A l, m \in 0 .. cell_layer : l # m => pending'[l] \cap pending'[m] = {}
    BY <1>6, <2>2 DEF IInv, PendingApart
  <2> QED
    BY <1>1, <2>1, <2>3 DEF PendingApart, Idle
<1>16. FiniteBuckets' /\ BucketsFit'
  BY <1>1, <1>3 DEF FiniteBuckets, BucketsFit
<1> QED
  BY <1>10, <1>11, <1>12, <1>13, <1>14, <1>15, <1>16 DEF IInv

-----------------------------------------------------------------------------
(* The invariant, and what follows from it.                                *)

\* Every step keeps the invariant.
LEMMA NextStep == IInv /\ [Next]_vars => IInv'
<1> SUFFICES ASSUME IInv, [Next]_vars PROVE IInv'
  OBVIOUS
<1>1. ASSUME NEW x \in KV, Insert(x) PROVE IInv'
  BY <1>1, StartStep
<1>2. CASE InsertStep
  <2>1. PICK s \in 0 .. cell_layer : Turn(s) /\ \E x \in pending[s] :
          InsertFails(x, s) \/ InsertDirect(x, s) \/ InsertMoves(x, s) \/ InsertOverflows(x, s)
    BY <1>2 DEF InsertStep
  <2>2. PICK x \in pending[s] :
          InsertFails(x, s) \/ InsertDirect(x, s) \/ InsertMoves(x, s) \/ InsertOverflows(x, s)
    BY <2>1
  <2>3. CASE InsertFails(x, s)
    BY <2>3, FailStep
  <2>4. CASE InsertDirect(x, s)
    BY <2>4, DirectStep
  <2>5. CASE InsertMoves(x, s)
    BY <2>5, MovesStep
  <2>6. CASE InsertOverflows(x, s)
    BY <2>1, <2>6, OverflowStep
  <2> QED
    BY <2>2, <2>3, <2>4, <2>5, <2>6
<1>3. CASE Return
  BY <1>3, ReturnStep
<1>4. ASSUME NEW q \in Key, Query(q) PROVE IInv'
  BY <1>4, QueryStep
<1>5. ASSUME NEW lazy \in LazyModes, extend(lazy) PROVE IInv'
  <2>1. lazy \in BOOLEAN
    BY SizeAssumption
  <2> QED
    BY <1>5, <2>1, ExtendStep
<1>6. CASE calculate_bucket_items
  BY <1>6, CountStep
<1>7. CASE UNCHANGED vars
  <2>1. PageSize' = PageSize /\ Buckets' = Buckets
    BY <1>7 DEF vars, PageSize, Buckets
  <2>2. TypeOK'
    BY <1>7, <2>1 DEF vars, IInv, TypeOK
  <2>3. Filing'
    BY <1>7, <2>1, PageFacts, PurgeKeeps, Parts DEF vars
  <2>4. PendingApart'
    BY <1>7 DEF vars, IInv, PendingApart, Idle, InFlight
  <2>5. IInv' <=> TypeOK' /\ Filing' /\ PendingApart'
    BY DEF IInv, Filing
  <2> QED
    BY <2>2, <2>3, <2>4, <2>5
<1> QED
  BY <1>1, <1>2, <1>3, <1>4, <1>5, <1>6, <1>7 DEF Next

\* The inductive invariant holds in every reachable state of the table.
THEOREM Invariance == Spec => []IInv
<1>1. Init => IInv
  BY InitStep
<1>2. IInv /\ [Next]_vars => IInv'
  BY NextStep
<1> QED
  BY <1>1, <1>2, PTL DEF Spec

\* The state has its types, and the bucket array its cell_hash equal pages.
THEOREM TypeCorrect == Spec => []TypeOK
<1>1. IInv => TypeOK
  BY DEF IInv
<1> QED
  BY <1>1, Invariance, PTL

\* No pair is dropped silently: insert, overflow, check_bucket and extend keep
\* it where its key is looked up, until its cells are all closed.
THEOREM NoSilentLoss == Spec => []NothingLost
<1>1. IInv => NothingLost
  <2> SUFFICES ASSUME IInv, NEW x \in called
               PROVE  x \in InFlight \/ Held(x) \/ Closed(KeyOf[x])
    BY DEF NothingLost
  <2>1. \/ x \in InFlight
        \/ Closed(KeyOf[x])
        \/ [kv |-> x, at |-> HomeCell(cell, KeyOf[x], 0)] \in bucket[Home(x)].items
    BY DEF IInv, HeldAtHomeCell
  <2> QED
    BY <2>1 DEF Held
<1> QED
  BY <1>1, Invariance, PTL

\* collect_kv never moves a copy that a lazy extend() left behind, although it
\* reads buckets that were not checked.
THEOREM CollectingIsSafe == Spec => []CollectsLiveOnly
<1>1. IInv => CollectsLiveOnly
  <2> SUFFICES ASSUME IInv, NEW d \in Buckets, NEW e \in bucket[d].items,
                      cell[e.at] # cell_full, d \in cell_bucket(PageSize, e.at)
               PROVE  Home(e.kv) = d
    BY DEF CollectsLiveOnly
  <2>1. d = calculate_bucket(cell, PageSize, KeyOf[e.kv], e.at)
    BY DEF IInv, GuideSelects
  <2>2. /\ e.at = calculate_cell(KeyOf[e.kv], e.at[1])
        /\ \A m \in Layers : m < e.at[1] => cell[calculate_cell(KeyOf[e.kv], m)] = cell_full
    BY DEF IInv, EntriesFiled
  <2>3. e.at \in Cell
    BY PageFacts DEF IInv, BucketType, Entry
  <2>4. e.at[1] \in Layers
    BY <2>3, CellLayer
  <2>5. query_bucket(cell, PageSize, KeyOf[e.kv])
            = calculate_bucket(cell, PageSize, KeyOf[e.kv], e.at)
    BY <2>2, <2>4, HomeIs
  <2> QED
    BY <2>1, <2>5 DEF Home
<1> QED
  BY <1>1, Invariance, PTL

\* An action property: a key whose cells are all closed stays closed, for no
\* operation lowers or reopens a cell, and extend() adds room but no cell.
THEOREM ClosedStays == Spec => ClosedForEver
<1>1. IInv /\ [Next]_vars => \A q \in Key : Closed(q) => Closed(q)'
  <2> SUFFICES ASSUME IInv, [Next]_vars, NEW q \in Key, Closed(q) PROVE Closed(q)'
    OBVIOUS
  <2>1. hash' = hash
    <3>1. CASE InsertStep
      BY <3>1 DEF InsertStep, InsertFails, InsertDirect, InsertMoves, InsertOverflows
    <3>2. CASE ~InsertStep
      BY <3>2 DEF Next, vars, Insert, Return, Query, extend, calculate_bucket_items
    <3> QED
      BY <3>1, <3>2
  <2>2. CASE cell' = cell
    BY <2>1, <2>2, SameHash DEF Closed
  <2>3. CASE InsertStep
    <3>0. PICK s \in 0 .. cell_layer : \E x \in pending[s] :
            InsertFails(x, s) \/ InsertDirect(x, s) \/ InsertMoves(x, s) \/ InsertOverflows(x, s)
      BY <2>3 DEF InsertStep
    <3>1. PICK x \in pending[s] :
            InsertFails(x, s) \/ InsertDirect(x, s) \/ InsertMoves(x, s) \/ InsertOverflows(x, s)
      BY <3>0
    <3>2. CASE cell' = cell
      BY <2>2, <3>2
    <3> DEFINE a == HomeCell(cell, KeyOf[x], s)
    <3>3. CASE OpenLayers(cell, KeyOf[x], s) # {} /\ \E w : cell' = [cell EXCEPT ![a] = w]
      <4>1. a \in Cell /\ cell[a] # cell_full
        BY <3>3, Target
      <4> HIDE DEF a
      <4>2. \A z \in Cell : z # a => cell'[z] = cell[z]
        BY <3>3 DEF IInv, TypeOK
      <4>3. \A m \in Layers :
              cell[calculate_cell(q, m)] = cell_full => cell'[calculate_cell(q, m)] = cell_full
        BY <4>1, <4>2, Raised DEF IInv
      <4> QED
        BY <2>1, <4>3, SameHash DEF Closed, OpenLayers
    <3> QED
      BY <3>1, <3>2, <3>3 DEF InsertFails, InsertDirect, InsertMoves, InsertOverflows
  <2> QED
    BY <2>2, <2>3 DEF Next, vars, Insert, Return, Query, extend, calculate_bucket_items
<1>2. IInv /\ [Next]_vars => [\A q \in Key : Closed(q) => Closed(q)']_vars
  BY <1>1
<1> QED
  BY <1>2, Invariance, PTL DEF Spec, ClosedForEver

-----------------------------------------------------------------------------
Stored == {x \in called : x \in InFlight \/ Held(x)}

-----------------------------------------------------------------------------
(* What one step does.                                                     *)

\* In a state of the invariant the table holds the pairs on their way and
\* those that still have an open cell.
OpenOrMoving ==
    \A y : y \in Stored <=> y \in called /\ (y \in InFlight \/ ~Closed(KeyOf[y]))

\* No pair with an open cell is missing in a state of the invariant.
LEMMA StoredIs == IInv => OpenOrMoving
<1> SUFFICES ASSUME IInv, NEW y, y \in called, ~Closed(KeyOf[y]), ~(y \in InFlight)
             PROVE  Held(y)
  BY DEF Stored, Held, OpenOrMoving
<1>1. [kv |-> y, at |-> HomeCell(cell, KeyOf[y], 0)] \in bucket[Home(y)].items
  BY DEF IInv, HeldAtHomeCell
<1> QED
  BY <1>1 DEF Held

\* The same of the next state.
LEMMA StoredThen ==
    ASSUME IInv'
    PROVE  \A y : y \in Stored' <=> y \in called' /\ (y \in InFlight' \/ ~Closed(KeyOf[y])')
<1>1. OpenOrMoving'
  BY StoredIs, PTL
<1> QED
  BY <1>1 DEF OpenOrMoving

\* An entry of an open cell is filed under the cell its key is looked up by.
LEMMA FiledAtHome ==
    ASSUME IInv, NEW d \in Buckets, NEW e \in bucket[d].items, cell[e.at] # cell_full
    PROVE  /\ e.kv \in KV /\ e.kv \in called /\ e.at \in Cell
           /\ ~Closed(KeyOf[e.kv])
           /\ HomeCell(cell, KeyOf[e.kv], 0) = e.at
<1>1. /\ e.kv \in called
      /\ e.at = calculate_cell(KeyOf[e.kv], e.at[1])
      /\ \A m \in Layers : m < e.at[1] => cell[calculate_cell(KeyOf[e.kv], m)] = cell_full
  BY DEF IInv, EntriesFiled
<1>2. e.at \in Cell /\ e.kv \in KV
  BY PageFacts DEF IInv, BucketType, Entry
<1>3. e.at[1] \in Layers
  BY <1>2, CellLayer
<1> QED
  BY <1>1, <1>2, <1>3, HomeIs DEF Closed

\* Checking the target and collecting a cell keeps, in each bucket, the pairs
\* of other cells that are looked up there.
LEMMA CollectingKeeps ==
    ASSUME IInv, NEW a \in Cell, NEW d \in Buckets,
           NEW j \in Buckets, NEW e \in bucket[j].items,
           query_bucket(cell, PageSize, KeyOf[e.kv]) = j, e.at # a
    PROVE  e \in Collected(TargetChecked(d), PageSize, a)[j].items
<1>1. TargetChecked(d) \in [Buckets -> BucketType] /\ e \in TargetChecked(d)[j].items
  BY Checked DEF IInv
<1> DEFINE b1 == TargetChecked(d)
<1> HIDE DEF b1
<1>2. DOMAIN b1 = Buckets /\ b1[j] \in BucketType /\ e \in b1[j].items
  BY <1>1 DEF b1
<1>3. e \in Collected(b1, PageSize, a)[j].items
  BY <1>2, Without DEF Collected, AtCell
<1> QED
  BY <1>3 DEF b1

\* What InsertDirect does to the buckets.
LEMMA Directed ==
    ASSUME IInv, NEW s \in 0 .. cell_layer, NEW x \in pending[s], InsertDirect(x, s),
           NEW a, a = HomeCell(cell, KeyOf[x], s),
           NEW d, d = calculate_bucket(cell, PageSize, KeyOf[x], a)
    PROVE  /\ d \in Buckets /\ a \in Cell /\ x \in KV
           /\ \A k \in Buckets : k # d => bucket'[k] = bucket[k]
           /\ bucket'[d].items = check_bucket(cell, PageSize, d, bucket[d]).items
                                    \cup {[kv |-> x, at |-> a]}
           /\ check_bucket(cell, PageSize, d, bucket[d]).items \subseteq bucket'[d].items
<1> DEFINE new == Entries({x}, a)
           b1 == check_bucket(cell, PageSize, d, bucket[d])
<1>1. /\ OpenLayers(cell, KeyOf[x], s) # {}
      /\ HasRoom(TargetChecked(d)[d])
      /\ bucket' = [bucket EXCEPT ![d] = insert_kv_to_bucket(cell, PageSize, d, @, new)]
  BY DEF InsertDirect
<1>2. d \in Buckets /\ a \in Cell /\ x \in KV
  BY <1>1, Target
<1>3. bucket \in [Buckets -> BucketType] /\ bucket[d] \in BucketType
      /\ IsFiniteSet(bucket[d].items)
  BY <1>2, PageFacts DEF IInv, FiniteBuckets
<1>4. IsFiniteSet(b1.items)
  BY <1>3, CheckBucket
<1>5. Cardinality(b1.items) < N /\ Cardinality(b1.items) \in Nat
  BY <1>1, <1>2, <1>4, Checked, FS_CardinalityType DEF HasRoom, IInv
<1>6. new \in SUBSET Entry /\ new = {[kv |-> x, at |-> a]}
  BY <1>2 DEF Entries, Entry
<1>7. IsFiniteSet(new) /\ Cardinality(new) <= 1 /\ Cardinality(new) \in Nat
  <2>1. IsFiniteSet({x}) /\ Cardinality({x}) = 1
    BY FS_Singleton
  <2>2. IsFiniteSet(new) /\ Cardinality(new) <= Cardinality({x})
    BY <2>1, EntriesCount
  <2> QED
    BY <2>1, <2>2, FS_CardinalityType
<1>8. Cardinality(new) <= N - Cardinality(check_bucket(cell, PageSize, d, bucket[d]).items)
  BY <1>5, <1>7, Sizes
<1> HIDE DEF new
<1>9. insert_kv_to_bucket(cell, PageSize, d, bucket[d], new).items = b1.items \cup new
  BY <1>3, <1>6, <1>7, <1>8, InsertKeeps
<1> QED
  BY <1>1, <1>2, <1>3, <1>6, <1>9

\* What InsertMoves does to cells and buckets.
LEMMA Moved ==
    ASSUME IInv, NEW s \in 0 .. cell_layer, NEW x \in pending[s], InsertMoves(x, s),
           NEW a, a = HomeCell(cell, KeyOf[x], s)
    PROVE  /\ UNCHANGED <<hash, bucket_number, ret, call, called, reply>>
           /\ pending' = [pending EXCEPT ![s] = @ \ {x}]
           /\ OpenLayers(cell, KeyOf[x], s) # {}
           /\ a \in Cell /\ cell[a] # cell_full
           /\ cell'[a] \in Guides /\ cell'[a] # cell[a] /\ cell'[a] # cell_full
           /\ \A z \in Cell : z # a => cell'[z] = cell[z]
           /\ \E kvs, b2 :
                /\ CollectedFor(x, a, kvs, b2)
                /\ x \in kvs
                /\ \A j \in Buckets : \A e \in bucket[j].items :
                     query_bucket(cell, PageSize, KeyOf[e.kv]) = j /\ e.at # a
                         => e \in b2[j].items
                /\ DispensedTo(cell', PageSize, a, kvs, Buckets, b2, bucket')
<1> DEFINE q == KeyOf[x]
           d == calculate_bucket(cell, PageSize, q, a)
           b1 == TargetChecked(d)
           kvs == {x} \cup collect_kv(b1, PageSize, a)
           b2 == Collected(b1, PageSize, a)
           fits == NextCellValues(b2, PageSize, a, kvs)
           v == Min(fits)
<1>1. /\ pending' = [pending EXCEPT ![s] = @ \ {x}]
      /\ UNCHANGED <<hash, bucket_number, ret, call, called, reply>>
      /\ OpenLayers(cell, q, s) # {}
      /\ fits # {}
      /\ cell' = [cell EXCEPT ![a] = v]
      /\ bucket' = dispense_kvs(cell', b2, PageSize, a, kvs)
  BY DEF InsertMoves
<1>2. a \in Cell /\ cell[a] # cell_full /\ d \in Buckets
  BY <1>1, Target
<1>3. CollectedFor(x, a, kvs, b2)
  BY <1>1, Collecting
<1>4. \A j \in Buckets : \A e \in bucket[j].items :
        query_bucket(cell, PageSize, KeyOf[e.kv]) = j /\ e.at # a => e \in b2[j].items
  BY <1>2, CollectingKeeps
<1>5. x \in kvs /\ v = Min(fits) /\ fits = NextCellValues(b2, PageSize, a, kvs)
  OBVIOUS
<1> HIDE DEF v, fits, b2, kvs, b1, d
<1>6. v \in Guides /\ v # cell_full /\ v # cell[a] /\ check_kvs(b2, PageSize, a, kvs, v)
  <2>1. fits \subseteq cell[a] + 1 .. cell_full - 1
    BY <1>5 DEF NextCellValues
  <2>2. cell[a] \in Nat /\ cell_full \in Nat /\ cell_full = cell_hash - 1 /\ cell_hash \in Nat
    BY <1>2, PageFacts, Sizes DEF IInv
  <2>3. fits \in SUBSET Nat
    BY <2>1, <2>2
  <2>4. v \in fits
    BY <1>1, <1>5, <2>3, LeastElement
  <2>5. check_kvs(b2, PageSize, a, kvs, v)
    BY <1>5, <2>4 DEF NextCellValues, CellValueFits
  <2>6. v \in cell[a] + 1 .. cell_full - 1
    BY <2>1, <2>4
  <2> QED
    BY <2>2, <2>5, <2>6 DEF Guides
<1>7. /\ cell'[a] = v
      /\ \A z \in Cell : z # a => cell'[z] = cell[z]
  BY <1>1, <1>2 DEF IInv, TypeOK
<1>8. /\ b2 \in [Buckets -> BucketType]
      /\ \A j \in Buckets : IsFiniteSet(b2[j].items) /\ Cardinality(b2[j].items) <= N
      /\ kvs \in SUBSET KV /\ IsFiniteSet(kvs)
  BY <1>3 DEF CollectedFor
<1>9. DispensedTo(cell', PageSize, a, kvs, Buckets, b2, bucket')
  <2>1. PageSize \in Nat \ {0} /\ Buckets = 0 .. cell_hash * PageSize - 1 /\ hash \in Hashes
    BY PageFacts DEF IInv
  <2> QED
    BY <1>1, <1>2, <1>6, <1>7, <1>8, <2>1, Dispensing
<1>10. \E kk, bb :
        /\ CollectedFor(x, a, kk, bb)
        /\ x \in kk
        /\ \A j \in Buckets : \A e \in bucket[j].items :
             query_bucket(cell, PageSize, KeyOf[e.kv]) = j /\ e.at # a
                 => e \in bb[j].items
        /\ DispensedTo(cell', PageSize, a, kk, Buckets, bb, bucket')
  BY <1>3, <1>4, <1>5, <1>9
<1> QED
  BY <1>1, <1>2, <1>6, <1>7, <1>10

\* What InsertOverflows does to cells, buckets and the pairs on their way.
LEMMA Overflowed ==
    ASSUME IInv, NEW s \in 0 .. cell_layer, Turn(s), NEW x \in pending[s],
           InsertOverflows(x, s), NEW a, a = HomeCell(cell, KeyOf[x], s)
    PROVE  /\ UNCHANGED <<hash, bucket_number, ret, call, called, reply>>
           /\ OpenLayers(cell, KeyOf[x], s) # {}
           /\ a \in Cell /\ cell[a] # cell_full /\ cell'[a] = cell_full
           /\ \A z \in Cell : z # a => cell'[z] = cell[z]
           /\ \E kvs :
                /\ CollectedFor(x, a, kvs, bucket')
                /\ \A y : y \in InFlight' <=> y \in InFlight \/ y \in kvs
           /\ \A j \in Buckets : \A e \in bucket[j].items :
                query_bucket(cell, PageSize, KeyOf[e.kv]) = j /\ e.at # a
                    => e \in bucket'[j].items
<1> DEFINE q == KeyOf[x]
           d == calculate_bucket(cell, PageSize, q, a)
           b1 == TargetChecked(d)
           kvs == {x} \cup collect_kv(b1, PageSize, a)
           t == a[1] + 1
<1>1. /\ pending' = [pending EXCEPT ![s] = @ \ {x}, ![t] = kvs]
      /\ UNCHANGED <<hash, bucket_number, ret, call, called, reply>>
      /\ OpenLayers(cell, q, s) # {}
      /\ cell' = [cell EXCEPT ![a] = cell_full]
      /\ bucket' = Collected(b1, PageSize, a)
  BY DEF InsertOverflows
<1>2. /\ a \in Cell /\ cell[a] # cell_full /\ d \in Buckets
      /\ a[1] \in Layers /\ a[1] >= s /\ t \in 0 .. cell_layer
  BY <1>1, Target
<1>3. CollectedFor(x, a, kvs, bucket') /\ x \in kvs
  BY <1>1, Collecting
<1>4. \A j \in Buckets : \A e \in bucket[j].items :
        query_bucket(cell, PageSize, KeyOf[e.kv]) = j /\ e.at # a => e \in bucket'[j].items
  BY <1>1, <1>2, CollectingKeeps
<1>5. cell'[a] = cell_full /\ \A z \in Cell : z # a => cell'[z] = cell[z]
  BY <1>1, <1>2 DEF IInv, TypeOK
<1> HIDE DEF kvs, b1, d
<1>6. s \in Int /\ t > s
  BY <1>2, Sizes DEF Layers
<1> HIDE DEF t
<1>7. \A y : y \in InFlight' <=> y \in InFlight \/ y \in kvs
  <2>1. pending \in [0 .. cell_layer -> SUBSET KV] /\ pending[t] = {}
    BY <1>2, <1>6 DEF IInv, TypeOK, Turn
  <2>2. /\ pending'[t] = kvs
        /\ \A l \in 0 .. cell_layer : l # t /\ l # s => pending'[l] = pending[l]
        /\ pending'[s] = pending[s] \ {x}
    BY <1>1, <1>2, <1>6, <2>1
  <2>3. ASSUME NEW y \in InFlight' PROVE y \in InFlight \/ y \in kvs
    BY <2>2, <2>3, InFlightMember
  <2>4. ASSUME NEW y \in kvs PROVE y \in InFlight'
    BY <1>2, <2>2, <2>4, InFlightMember
  <2>5. ASSUME NEW y \in InFlight PROVE y \in InFlight'
    <3>1. PICK l \in 0 .. cell_layer : y \in pending[l]
      BY <2>5, InFlightMember
    <3>2. CASE y = x
      BY <1>3, <2>4, <3>2
    <3>3. CASE y # x
      <4>1. y \in pending'[l]
        BY <2>1, <2>2, <3>1, <3>3
      <4> QED
        BY <4>1, InFlightMember
    <3> QED
      BY <3>2, <3>3
  <2> QED
    BY <2>3, <2>4, <2>5
<1> QED
  BY <1>1, <1>2, <1>3, <1>4, <1>5, <1>7

\* A query goes to a bucket of the array, unless the key's cells are closed.
LEMMA QueryBucket ==
    ASSUME TypeOK, NEW q \in Key
    PROVE  /\ Closed(q) <=> query_bucket(cell, PageSize, q) = -1
           /\ ~Closed(q) => query_bucket(cell, PageSize, q) \in Buckets
<1>1. CASE Closed(q)
  BY <1>1 DEF Closed, query_bucket
<1>2. CASE ~Closed(q)
  <2>1. OpenLayers(cell, q, 0) # {} /\ 0 \in Nat
    BY <1>2 DEF Closed
  <2>2. PICK l \in Layers : HomeCell(cell, q, 0) = calculate_cell(q, l)
    BY <2>1, FirstOpen
  <2>3. HomeCell(cell, q, 0) \in Cell
    BY <2>2, CellOfKey, PageFacts
  <2>4. query_bucket(cell, PageSize, q) \in Buckets
    BY <2>1, <2>3, PageFacts DEF query_bucket
  <2>5. query_bucket(cell, PageSize, q) # -1
    BY <2>4, PageFacts
  <2> QED
    BY <1>2, <2>4, <2>5
<1> QED
  BY <1>1, <1>2

-----------------------------------------------------------------------------
(* Pairs of other cells stay.                                              *)

\* An insert keeps, in each bucket, the pairs that are looked up there and
\* whose cell keeps its value.
LEMMA InsertKeepsOthers ==
    ASSUME IInv, InsertStep, NEW j \in Buckets, NEW e \in bucket[j].items,
           e.kv \in KV, ~Closed(KeyOf[e.kv]), Home(e.kv) = j,
           cell'[HomeCell(cell, KeyOf[e.kv], 0)] = cell[HomeCell(cell, KeyOf[e.kv], 0)]
    PROVE  e \in bucket'[j].items
<1>1. PICK s \in 0 .. cell_layer : Turn(s) /\ \E x \in pending[s] :
        InsertFails(x, s) \/ InsertDirect(x, s) \/ InsertMoves(x, s) \/ InsertOverflows(x, s)
  BY DEF InsertStep
<1>2. PICK x \in pending[s] :
        InsertFails(x, s) \/ InsertDirect(x, s) \/ InsertMoves(x, s) \/ InsertOverflows(x, s)
  BY <1>1
<1> DEFINE q == KeyOf[x]
           a == HomeCell(cell, q, s)
<1>3. query_bucket(cell, PageSize, KeyOf[e.kv]) = j
  BY DEF Home
<1>4. ASSUME cell[a] # cell_full, e.at = a
      PROVE  HomeCell(cell, KeyOf[e.kv], 0) = a
  BY <1>4, FiledAtHome
<1>5. CASE InsertFails(x, s)
  BY <1>5 DEF InsertFails
<1>6. CASE InsertDirect(x, s)
  <2> DEFINE d == calculate_bucket(cell, PageSize, q, a)
  <2>1. /\ d \in Buckets
        /\ \A k \in Buckets : k # d => bucket'[k] = bucket[k]
        /\ check_bucket(cell, PageSize, d, bucket[d]).items \subseteq bucket'[d].items
    BY <1>6, Directed
  <2>2. bucket[d] \in BucketType
    BY <2>1, PageFacts DEF IInv
  <2> QED
    BY <1>3, <2>1, <2>2, CheckBucket
<1>7. CASE InsertMoves(x, s)
  <2> HIDE DEF a
  <2>1. /\ a \in Cell /\ cell[a] # cell_full /\ cell'[a] # cell[a]
        /\ \A z \in Cell : z # a => cell'[z] = cell[z]
    BY <1>7, Moved DEF a
  <2>2. PICK kvs, b2 :
        /\ \A k \in Buckets : \A f \in bucket[k].items :
             query_bucket(cell, PageSize, KeyOf[f.kv]) = k /\ f.at # a => f \in b2[k].items
        /\ DispensedTo(cell', PageSize, a, kvs, Buckets, b2, bucket')
    BY <1>7, Moved DEF a
  <2>3. HomeCell(cell, KeyOf[e.kv], 0) # a
    BY <2>1
  <2>4. e \in b2[j].items
    BY <1>3, <1>4, <2>1, <2>2, <2>3
  <2>5. query_bucket(cell', PageSize, KeyOf[e.kv]) = j
    BY <2>1, <2>3, Raised DEF IInv
  <2> QED
    BY <2>2, <2>4, <2>5 DEF DispensedTo
<1>8. CASE InsertOverflows(x, s)
  <2> HIDE DEF a
  <2>1. /\ a \in Cell /\ cell[a] # cell_full /\ cell'[a] = cell_full
        /\ \A k \in Buckets : \A f \in bucket[k].items :
             query_bucket(cell, PageSize, KeyOf[f.kv]) = k /\ f.at # a
                 => f \in bucket'[k].items
    BY <1>1, <1>8, Overflowed DEF a
  <2>2. HomeCell(cell, KeyOf[e.kv], 0) # a
    BY <2>1
  <2> QED
    BY <1>3, <1>4, <2>1, <2>2
<1> QED
  BY <1>2, <1>5, <1>6, <1>7, <1>8

\* A pair stays in its slot unless its own cell is moved or closed, or the
\* bucket array is replaced.
THEOREM OthersAreKept == Spec => OthersStay
<1> DEFINE Keeps ==
        \A x \in called :
            (Held(x) /\ bucket_number' = bucket_number
                /\ cell'[HomeCell(cell, KeyOf[x], 0)] = cell[HomeCell(cell, KeyOf[x], 0)])
            => \E e \in bucket'[Home(x)].items : e.kv = x
<1>1. IInv /\ [Next]_vars => [Keeps]_vars
  <2> SUFFICES ASSUME IInv, [Next]_vars, NEW x \in called, Held(x),
                      bucket_number' = bucket_number,
                      cell'[HomeCell(cell, KeyOf[x], 0)] = cell[HomeCell(cell, KeyOf[x], 0)]
               PROVE  \E e \in bucket'[Home(x)].items : e.kv = x
    OBVIOUS
  <2>1. PICK e \in bucket[Home(x)].items : e.kv = x
    BY DEF Held
  <2>2. x \in KV /\ ~Closed(KeyOf[x])
    BY DEF IInv, TypeOK, Held
  <2>3. Home(x) \in Buckets
    BY <2>2, HomeFacts DEF IInv
  <2>4. query_bucket(cell, PageSize, KeyOf[e.kv]) = Home(x)
    BY <2>1 DEF Home
  <2>5. CASE InsertStep
    <3>1. e \in bucket'[Home(x)].items
      BY <2>1, <2>2, <2>3, <2>5, InsertKeepsOthers
    <3> QED
      BY <2>1, <3>1
  <2>6. CASE bucket' = bucket
    BY <2>1, <2>6
  <2>7. CASE \E d \in Buckets : bucket' = TargetChecked(d)
    <3>1. e \in bucket'[Home(x)].items
      BY <2>1, <2>3, <2>4, <2>7, Checked DEF IInv
    <3> QED
      BY <2>1, <3>1
  <2>8. ASSUME NEW q \in Key, Query(q)
        PROVE  bucket' = bucket \/ \E d \in Buckets : bucket' = TargetChecked(d)
    <3> DEFINE d == query_bucket(cell, PageSize, q)
    <3>1. bucket' = bucket \/ (d # -1 /\ bucket' = TargetChecked(d))
      BY <2>8 DEF Query
    <3>2. d # -1 => d \in Buckets
      BY QueryBucket DEF IInv
    <3> QED
      BY <3>1, <3>2
  <2>9. CASE calculate_bucket_items
    <3>1. bucket' = AllChecked(cell, PageSize, bucket) /\ bucket \in [Buckets -> BucketType]
      BY <2>9, PageFacts DEF calculate_bucket_items, IInv
    <3>2. e \in bucket'[Home(x)].items
      BY <2>1, <2>3, <2>4, <3>1, AllCheckedFacts
    <3> QED
      BY <2>1, <3>2
  <2>10. ~ \E lazy \in LazyModes : extend(lazy)
    <3>1. bucket_number \in Nat /\ bucket_number # 0
      BY Sizes DEF IInv, TypeOK, PageSize
    <3> QED
      BY <3>1 DEF extend
  <2> QED
    BY <2>5, <2>6, <2>7, <2>8, <2>9, <2>10 DEF Next, vars, Insert, Return
<1> QED
  BY <1>1, Invariance, PTL DEF Spec, OthersStay

-----------------------------------------------------------------------------
(* MapEmbed implements HashStore.                                          *)

\* Pairs on their way and open cells as before: the store is as before.
LEMMA SameStore ==
    ASSUME IInv, IInv', UNCHANGED <<hash, called>>,
           \A y \in called :
                (y \in InFlight' \/ OpenLayers(cell', KeyOf[y], 0) # {})
                    <=> (y \in InFlight \/ ~Closed(KeyOf[y]))
    PROVE  Stored' = Stored
<1>1. \A y : y \in Stored <=> y \in called /\ (y \in InFlight \/ ~Closed(KeyOf[y]))
  BY StoredIs DEF OpenOrMoving
<1>2. \A y : y \in Stored' <=> y \in called /\ (y \in InFlight' \/ ~Closed(KeyOf[y])')
  BY StoredThen
<1>3. \A q : Closed(q)' <=> OpenLayers(cell', q, 0) = {}
  BY SameHash
<1>4. \A y : y \in Stored' <=> y \in Stored
  BY <1>1, <1>2, <1>3
<1> QED
  BY <1>4

\* The store is also as it was when the cells are.
LEMMA SameCells ==
    ASSUME hash' = hash, cell' = cell
    PROVE  \A q : OpenLayers(cell', q, 0) # {} <=> ~Closed(q)
BY DEF Closed

\* A pair with an open cell: whatever layer the call began at, the store has it.
LEMMA TargetIsOpen ==
    ASSUME IInv, NEW s \in 0 .. cell_layer, NEW x \in pending[s],
           OpenLayers(cell, KeyOf[x], s) # {}
    PROVE  ~Closed(KeyOf[x]) /\ x \in KV
BY DEF OpenLayers, Closed, IInv, TypeOK, Layers

\* InsertFails loses its pair; the other calls leave the store alone.
LEMMA InsertStepMaps ==
    ASSUME IInv, IInv', InsertStep
    PROVE  /\ UNCHANGED <<call, reply>> /\ call # NoKV
           /\ \/ Stored' = Stored /\ ret' = ret
              \/ ret' = FALSE /\ \E x \in KV : x \in Stored /\ Stored' = Stored \ {x}
<1>1. PICK s \in 0 .. cell_layer : Turn(s) /\ \E x \in pending[s] :
        InsertFails(x, s) \/ InsertDirect(x, s) \/ InsertMoves(x, s) \/ InsertOverflows(x, s)
  BY DEF InsertStep
<1>2. PICK x \in pending[s] :
        InsertFails(x, s) \/ InsertDirect(x, s) \/ InsertMoves(x, s) \/ InsertOverflows(x, s)
  BY <1>1
<1> DEFINE q == KeyOf[x]
           a == HomeCell(cell, q, s)
<1>3. UNCHANGED <<hash, call, called, reply>>
  BY <1>2 DEF InsertFails, InsertDirect, InsertMoves, InsertOverflows
<1>4. x \in InFlight /\ x \in called /\ x \in KV
  BY InFlightMember DEF IInv, PendingFiled, TypeOK
<1>5. call # NoKV
  BY <1>4 DEF IInv, PendingApart, Idle
<1>6. pending' = [pending EXCEPT ![s] = @ \ {x}]
        => \A y : y \in InFlight' <=> y \in InFlight /\ y # x
  BY LeavesLoop DEF IInv
<1>7. CASE InsertFails(x, s)
  <2>1. /\ cell' = cell /\ ret' = FALSE
        /\ OpenLayers(cell, q, s) = {}
        /\ \A y : y \in InFlight' <=> y \in InFlight /\ y # x
    BY <1>6, <1>7 DEF InsertFails
  <2>2. Closed(q)
    <3> SUFFICES ASSUME NEW l \in Layers, cell[calculate_cell(q, l)] # cell_full PROVE FALSE
      BY DEF Closed, OpenLayers
    <3>1. l < s \/ l >= s
      BY Sizes DEF Layers
    <3> QED
      BY <2>1, <3>1 DEF IInv, PendingFiled, OpenLayers
  <2>3. \A y : y \in Stored <=> y \in called /\ (y \in InFlight \/ ~Closed(KeyOf[y]))
    BY StoredIs DEF OpenOrMoving
  <2>4. \A y : y \in Stored' <=> y \in called /\ (y \in InFlight' \/ ~Closed(KeyOf[y])')
    BY <1>3, StoredThen
  <2>5. \A k : Closed(k)' <=> Closed(k)
    BY <1>3, <2>1, SameHash DEF Closed
  <2>6. x \in Stored /\ \A y : y \in Stored' <=> y \in Stored /\ y # x
    BY <1>4, <2>1, <2>2, <2>3, <2>4, <2>5
  <2>7. Stored' = Stored \ {x}
    BY <2>6
  <2> QED
    BY <1>3, <1>4, <1>5, <2>1, <2>6, <2>7
<1>8. CASE InsertDirect(x, s)
  <2>1. /\ cell' = cell /\ ret' = ret
        /\ OpenLayers(cell, q, s) # {}
        /\ \A y : y \in InFlight' <=> y \in InFlight /\ y # x
    BY <1>6, <1>8 DEF InsertDirect
  <2>2. ~Closed(q)
    BY <2>1, TargetIsOpen
  <2>3. Stored' = Stored
    BY <1>3, <2>1, <2>2, SameStore, SameCells
  <2> QED
    BY <1>3, <1>5, <2>1, <2>3
<1>9. CASE InsertMoves(x, s)
  <2> HIDE DEF a
  <2>1. /\ ret' = ret
        /\ OpenLayers(cell, q, s) # {}
        /\ a \in Cell /\ cell[a] # cell_full /\ cell'[a] # cell_full
        /\ \A z \in Cell : z # a => cell'[z] = cell[z]
        /\ \A y : y \in InFlight' <=> y \in InFlight /\ y # x
    BY <1>6, <1>9, Moved DEF a
  <2>2. ~Closed(q)
    BY <2>1, TargetIsOpen
  <2>3. ASSUME NEW y \in KV
        PROVE  OpenLayers(cell', KeyOf[y], 0) # {} <=> ~Closed(KeyOf[y])
    <3>1. \A l \in Layers : calculate_cell(KeyOf[y], l) \in Cell
      BY KVAssumption, CellOfKey, PageFacts DEF IInv
    <3> QED
      BY <2>1, <3>1 DEF OpenLayers, Closed
  <2>4. called \subseteq KV
    BY DEF IInv, TypeOK
  <2>5. Stored' = Stored
    BY <1>3, <2>1, <2>2, <2>3, <2>4, SameStore
  <2> QED
    BY <1>3, <1>5, <2>1, <2>5
<1>10. CASE InsertOverflows(x, s)
  <2> HIDE DEF a
  <2>1. /\ ret' = ret
        /\ a \in Cell /\ cell[a] # cell_full
        /\ \A z \in Cell : z # a => cell'[z] = cell[z]
    BY <1>1, <1>10, Overflowed DEF a
  <2>2. PICK kvs :
        /\ CollectedFor(x, a, kvs, bucket')
        /\ \A y : y \in InFlight' <=> y \in InFlight \/ y \in kvs
    BY <1>1, <1>10, Overflowed DEF a
  <2>3. called \subseteq KV
    BY DEF IInv, TypeOK
  <2>4. ASSUME NEW y \in called, ~Closed(KeyOf[y]), ~(y \in InFlight'), ~(y \in InFlight)
        PROVE  OpenLayers(cell', KeyOf[y], 0) # {}
    <3>1. y \in KV
      BY <2>3
    <3>2. HomeCell(cell, KeyOf[y], 0) # a
      BY <2>2, <2>4 DEF CollectedFor
    <3>3. PICK l \in Layers :
            /\ HomeCell(cell, KeyOf[y], 0) = calculate_cell(KeyOf[y], l)
            /\ calculate_cell(KeyOf[y], l) \in Cell
            /\ cell[calculate_cell(KeyOf[y], l)] # cell_full
      BY <2>4, <3>1, HomeFacts DEF IInv
    <3>4. cell'[calculate_cell(KeyOf[y], l)] # cell_full
      BY <2>1, <3>2, <3>3
    <3> QED
      BY <3>4, Sizes DEF OpenLayers, Layers
  <2>5. \A y \in KV : OpenLayers(cell', KeyOf[y], 0) # {} => ~Closed(KeyOf[y])
    BY <2>1, Raised DEF IInv
  <2>6. ASSUME NEW y \in kvs PROVE ~Closed(KeyOf[y])
    <3>1. a = calculate_cell(KeyOf[y], a[1]) /\ a[1] \in Layers
      BY <2>1, <2>2, <2>6, CellLayer DEF CollectedFor
    <3> QED
      BY <2>1, <3>1, Sizes DEF Closed, OpenLayers, Layers
  <2>7. Stored' = Stored
    <3>1. ASSUME NEW y \in called
          PROVE  (y \in InFlight' \/ OpenLayers(cell', KeyOf[y], 0) # {})
                    <=> (y \in InFlight \/ ~Closed(KeyOf[y]))
      BY <2>2, <2>3, <2>4, <2>5, <2>6
    <3> QED
      BY <1>3, <3>1, SameStore
  <2> QED
    BY <1>3, <1>5, <2>1, <2>7
<1> QED
  BY <1>2, <1>7, <1>8, <1>9, <1>10

\* A query answers from the store: the bucket it checks has the pairs of its
\* key, and copies of no other pair of that key.
LEMMA QueryMaps ==
    ASSUME IInv, IInv', NEW q \in Key, Query(q)
    PROVE  /\ Stored' = Stored /\ UNCHANGED <<call, ret>> /\ call = NoKV
           /\ \/ \E x \in KV : reply' = QueryReply(q, x) /\ x \in Stored /\ KeyOf[x] = q
              \/ /\ reply' = QueryReply(q, NoKV)
                 /\ \A y \in Stored : KeyOf[y] # q
<1> DEFINE d == query_bucket(cell, PageSize, q)
           found == Matches(TargetChecked(d)[d], q)
<1>1. UNCHANGED <<hash, cell, bucket_number, pending, ret, call, called>> /\ call = NoKV
  BY DEF Query, Idle
<1>2. \A y : y \in InFlight' <=> y \in InFlight
  BY <1>1, InFlightMember
<1>3. Stored' = Stored
  BY <1>1, <1>2, SameStore, SameCells
<1>4. \A y : y \in Stored <=> y \in called /\ ~Closed(KeyOf[y])
  <2>1. InFlight = {}
    BY <1>1 DEF IInv, PendingApart, Idle
  <2> QED
    BY <2>1, StoredIs DEF OpenOrMoving
<1>5. CASE d = -1
  <2>1. Closed(q) /\ reply' = QueryReply(q, NoKV)
    BY <1>5, QueryBucket DEF Query, IInv
  <2> QED
    BY <1>1, <1>3, <1>4, <2>1
<1>6. CASE d # -1
  <2>1. ~Closed(q) /\ d \in Buckets
    BY <1>6, QueryBucket DEF IInv
  <2>2. \/ \E x \in found : reply' = QueryReply(q, x)
        \/ found = {} /\ reply' = QueryReply(q, NoKV)
    BY <1>6 DEF Query
  <2>3. /\ TargetChecked(d) \in [Buckets -> BucketType]
        /\ TargetChecked(d)[d].items \subseteq bucket[d].items
        /\ \A e \in bucket[d].items :
             query_bucket(cell, PageSize, KeyOf[e.kv]) = d => e \in TargetChecked(d)[d].items
    BY <2>1, Checked DEF IInv
  <2>4. ASSUME NEW x \in found PROVE x \in KV /\ x \in Stored /\ KeyOf[x] = q
    <3>1. PICK e \in TargetChecked(d)[d].items : e.kv = x /\ KeyOf[e.kv] = q
      BY <2>4 DEF Matches
    <3>2. e \in bucket[d].items
      BY <2>3, <3>1
    <3>3. x \in called /\ x \in KV
      BY <2>1, <3>1, <3>2 DEF IInv, EntriesFiled, TypeOK
    <3> QED
      BY <1>4, <2>1, <3>1, <3>3
  <2>5. ASSUME found = {}, NEW y \in Stored, KeyOf[y] = q PROVE FALSE
    <3>1. Held(y)
      BY <1>1, <2>5 DEF Stored, IInv, PendingApart, Idle
    <3>2. PICK e \in bucket[d].items : e.kv = y
      BY <2>5, <3>1 DEF Held, Home
    <3>3. e \in TargetChecked(d)[d].items
      BY <2>3, <2>5, <3>2
    <3>4. y \in found
      BY <2>5, <3>2, <3>3 DEF Matches
    <3> QED
      BY <2>5, <3>4
  <2> QED
    BY <1>1, <1>3, <2>2, <2>4, <2>5
<1> QED
  BY <1>5, <1>6

\* Every pair of the store takes a slot of its own when no insert runs.
SlotsCover ==
    /\ UsedSlots(bucket) \in Nat
    /\ Idle => Cardinality(Stored) <= UsedSlots(bucket)

\* There are as many slots in use as pairs in the table, or more.
LEMMA SlotsCovered == IInv => SlotsCover
<1> SUFFICES ASSUME IInv PROVE SlotsCover
  OBVIOUS
<1> DEFINE slots(d) == {d} \X bucket[d].items
           Slots == UNION {slots(d) : d \in Buckets}
<1>1. bucket \in [Buckets -> BucketType] /\ DOMAIN bucket = Buckets
  BY PageFacts DEF IInv
<1>2. UsedSlots(bucket) = Cardinality(Slots)
  BY <1>1 DEF UsedSlots
<1>3. IsFiniteSet(Slots)
  <2>1. IsFiniteSet(Buckets)
    BY FS_Interval DEF Buckets, IInv, TypeOK
  <2>2. ASSUME NEW d \in Buckets PROVE IsFiniteSet(slots(d))
    <3>1. IsFiniteSet({d}) /\ IsFiniteSet(bucket[d].items)
      BY <2>2, FS_Singleton DEF IInv, FiniteBuckets
    <3> QED
      BY <3>1, FS_Product
  <2>3. IsFiniteSet({slots(d) : d \in Buckets})
    <3> DEFINE g == [d \in Buckets |-> slots(d)]
    <3>1. g \in Surjection(Buckets, {slots(d) : d \in Buckets})
      <4> HIDE DEF slots
      <4> QED
        BY DEF Surjection
    <3> HIDE DEF g, slots
    <3> QED
      BY <2>1, <3>1, FS_Surjection
  <2> QED
    BY <2>2, <2>3, FS_UNION
<1>4. Cardinality(Slots) \in Nat
  BY <1>3, FS_CardinalityType
<1>5. ASSUME Idle PROVE Cardinality(Stored) <= Cardinality(Slots)
  <2> DEFINE slot(y) == <<Home(y), [kv |-> y, at |-> HomeCell(cell, KeyOf[y], 0)]>>
             f == [p \in {slot(y) : y \in Stored} |-> p[2].kv]
  <2>1. ASSUME NEW y \in Stored PROVE slot(y) \in Slots
    <3>1. y \in KV /\ y \in called /\ ~Closed(KeyOf[y]) /\ ~(y \in InFlight)
      BY <1>5, <2>1 DEF Stored, Held, IInv, PendingApart, TypeOK
    <3>2. Home(y) \in Buckets
      BY <3>1, HomeFacts DEF IInv
    <3>3. [kv |-> y, at |-> HomeCell(cell, KeyOf[y], 0)] \in bucket[Home(y)].items
      BY <3>1 DEF IInv, HeldAtHomeCell
    <3>4. slot(y) \in slots(Home(y))
      BY <3>3
    <3> HIDE DEF slots, slot
    <3> QED
      BY <3>2, <3>4
  <2>2. {slot(y) : y \in Stored} \subseteq Slots
    BY <2>1
  <2>3. /\ IsFiniteSet({slot(y) : y \in Stored})
        /\ Cardinality({slot(y) : y \in Stored}) <= Cardinality(Slots)
    BY <1>3, <2>2, FS_Subset
  <2>4. f \in Surjection({slot(y) : y \in Stored}, Stored)
    <3>1. \A y : slot(y)[2].kv = y
      OBVIOUS
    <3> HIDE DEF slot
    <3>2. \A y \in Stored : slot(y) \in {slot(z) : z \in Stored} /\ f[slot(y)] = y
      BY <3>1
    <3>3. f \in [{slot(y) : y \in Stored} -> Stored]
      BY <3>1
    <3> HIDE DEF f
    <3> QED
      BY <3>2, <3>3 DEF Surjection
  <2>5. Cardinality(Stored) <= Cardinality({slot(y) : y \in Stored})
        /\ IsFiniteSet(Stored)
    <3> HIDE DEF f, slot
    <3> QED
      BY <2>3, <2>4, FS_Surjection
  <2> QED
    BY <1>4, <2>3, <2>5, FS_CardinalityType
<1> QED
  BY <1>2, <1>4, <1>5 DEF SlotsCover

\* calculate_bucket_items counts at least the pairs of the store.
LEMMA CountMaps ==
    ASSUME IInv, IInv', calculate_bucket_items
    PROVE  /\ Stored' = Stored /\ UNCHANGED <<call, ret>> /\ call = NoKV
           /\ \E n \in Nat : reply' = [op |-> "count", n |-> n] /\ n >= Cardinality(Stored)
<1>1. /\ UNCHANGED <<hash, cell, bucket_number, pending, ret, call, called>> /\ call = NoKV
      /\ reply' = [op |-> "count", n |-> UsedSlots(bucket')]
  BY DEF calculate_bucket_items, Idle
<1>2. \A y : y \in InFlight' <=> y \in InFlight
  BY <1>1, InFlightMember
<1>3. Stored' = Stored
  BY <1>1, <1>2, SameStore, SameCells
<1>4. SlotsCover'
  BY SlotsCovered, PTL
<1>5. UsedSlots(bucket') \in Nat /\ Cardinality(Stored) <= UsedSlots(bucket')
  BY <1>1, <1>3, <1>4 DEF SlotsCover, Idle, UsedSlots
<1>6. Cardinality(Stored) \in Nat
  <2>1. Stored \subseteq KV
    BY DEF Stored, IInv, TypeOK
  <2> QED
    BY <2>1, KVAssumption, FS_Subset, FS_CardinalityType
<1> QED
  BY <1>1, <1>3, <1>5, <1>6

\* The first step of an insert puts its pair in the store.
LEMMA InsertMaps ==
    ASSUME IInv, IInv', NEW x \in KV, Insert(x)
    PROVE  Stored' = Stored \cup {x}
<1>1. /\ called' = called \cup {x} /\ UNCHANGED <<hash, cell>>
      /\ pending' = [pending EXCEPT ![0] = {x}] /\ Idle
  BY DEF Insert
<1>2. InFlight = {}
  BY <1>1 DEF IInv, PendingApart
<1>3. \A y : y \in InFlight' <=> y = x
  <2>1. /\ \A l \in 0 .. cell_layer : pending[l] = {}
        /\ 0 \in 0 .. cell_layer
        /\ pending \in [0 .. cell_layer -> SUBSET KV]
    BY <1>2, InFlightMember, Sizes DEF IInv, TypeOK
  <2>2. \A l \in 0 .. cell_layer : pending'[l] = IF l = 0 THEN {x} ELSE {}
    BY <1>1, <2>1
  <2> QED
    BY <2>1, <2>2, InFlightMember
<1>4. \A y : y \in Stored <=> y \in called /\ (y \in InFlight \/ ~Closed(KeyOf[y]))
  BY StoredIs DEF OpenOrMoving
<1>5. \A y : y \in Stored' <=> y \in called' /\ (y \in InFlight' \/ ~Closed(KeyOf[y])')
  BY StoredThen
<1>6. \A q : Closed(q)' <=> Closed(q)
  BY <1>1, SameHash DEF Closed
<1>7. \A y : y \in Stored' <=> y \in Stored \cup {x}
  BY <1>1, <1>2, <1>3, <1>4, <1>5, <1>6
<1> QED
  BY <1>7

\* The steps that change neither the pairs on their way nor the cells.
LEMMA StoreUntouched ==
    ASSUME IInv, IInv', UNCHANGED <<hash, cell, pending, called>>
    PROVE  Stored' = Stored
<1>1. \A y : y \in InFlight' <=> y \in InFlight
  BY InFlightMember
<1> QED
  BY <1>1, SameStore, SameCells

\* Every step of the table is a step of HashStore or leaves it as it is.
LEMMA StepMaps ==
    ASSUME IInv, IInv', [Next]_vars
    PROVE  [Store!Next]_(Store!absVars)
<1> USE DEF Stored
<1>1. ASSUME NEW x \in KV, Insert(x) PROVE Store!Next
  <2>1. Stored' = Stored \cup {x}
    BY <1>1, InsertMaps
  <2>2. Store!Insert(x)
    BY <1>1, <2>1 DEF Insert, Idle, NoReply, Store!Insert, Store!NoReply
  <2> QED
    BY <2>2 DEF Store!Next
<1>2. CASE InsertStep
  <2>1. CASE Stored' = Stored /\ ret' = ret
    BY <1>2, <2>1, InsertStepMaps DEF Store!absVars
  <2>2. ASSUME ret' = FALSE, NEW x \in KV, x \in Stored, Stored' = Stored \ {x}
        PROVE  Store!Next
    <3>1. Store!Lose(x)
      BY <1>2, <2>2, InsertStepMaps DEF Store!Lose
    <3> QED
      BY <3>1 DEF Store!Next
  <2> QED
    BY <1>2, <2>1, <2>2, InsertStepMaps
<1>3. CASE Return
  <2>1. Stored' = Stored
    BY <1>3, StoreUntouched DEF Return
  <2>2. Store!Return
    BY <1>3, <2>1 DEF Return, Idle, Store!Return, Store!InsertReply
  <2> QED
    BY <2>2 DEF Store!Next
<1>4. ASSUME NEW q \in Key, Query(q) PROVE Store!Next
  <2>1. Store!Query(q)
    <3>1. Stored' = Stored /\ UNCHANGED <<call, ret>> /\ call = NoKV
      BY <1>4, QueryMaps
    <3>2. CASE \E x \in KV : reply' = QueryReply(q, x) /\ x \in Stored /\ KeyOf[x] = q
      BY <3>1, <3>2 DEF QueryReply, Store!Query, Store!QueryReply, Store!Stored
    <3>3. CASE reply' = QueryReply(q, NoKV) /\ \A y \in Stored : KeyOf[y] # q
      BY <3>1, <3>3 DEF QueryReply, Store!Query, Store!QueryReply, Store!Stored
    <3> QED
      BY <1>4, <3>2, <3>3, QueryMaps
  <2> QED
    BY <2>1 DEF Store!Next
<1>5. ASSUME NEW lazy \in LazyModes, extend(lazy) PROVE UNCHANGED Store!absVars
  <2>1. Stored' = Stored
    BY <1>5, StoreUntouched DEF extend
  <2> QED
    BY <1>5, <2>1 DEF extend, Store!absVars
<1>6. CASE calculate_bucket_items
  <2>1. Stored' = Stored /\ UNCHANGED <<call, ret>> /\ call = NoKV
    BY <1>6, CountMaps
  <2>2. PICK n \in Nat : reply' = [op |-> "count", n |-> n] /\ n >= Cardinality(Stored)
    BY <1>6, CountMaps
  <2>3. reply' \in Store!CountReplies /\ reply'.n >= Cardinality(Stored)
    BY <2>2 DEF Store!CountReplies
  <2>4. Store!Cardinality(Stored) = Cardinality(Stored)
    BY DEF Cardinality, Store!Cardinality
  <2>5. Store!Count
    BY <2>1, <2>3, <2>4 DEF Store!Count
  <2> QED
    BY <2>5 DEF Store!Next
<1>7. CASE UNCHANGED vars
  <2>1. Stored' = Stored
    BY <1>7, StoreUntouched DEF vars
  <2> QED
    BY <1>7, <2>1 DEF vars, Store!absVars
<1> QED
  BY <1>1, <1>2, <1>3, <1>4, <1>5, <1>6, <1>7 DEF Next

\* The table implements HashStore: the set of pairs it holds grows by an insert
\* alone, loses a pair only during an insert that then returns false, and is
\* what queries answer from; moves, overflows, checks and both ways of
\* expanding are invisible to the caller.
THEOREM Implements == Spec => Refinement
<1>1. Init => Store!Init
  <2> SUFFICES ASSUME Init PROVE Store!Init
    OBVIOUS
  <2>1. {x \in called : x \in InFlight \/ Held(x)} = {}
    BY DEF Init
  <2> QED
    BY <2>1 DEF Init, NoReply, Store!Init, Store!NoReply
<1>2. IInv /\ IInv' /\ [Next]_vars => [Store!Next]_(Store!absVars)
  BY StepMaps
<1> QED
  BY <1>1, <1>2, Invariance, PTL DEF Spec, Store!Spec, Refinement

-----------------------------------------------------------------------------
(* Without lazy expansion.                                                 *)

\* The client never asks for a lazy extend().
EagerOnly == LazyModes = {FALSE}

\* No bucket has a copy: every entry belongs to an open cell and is in the
\* bucket its key is looked up in.  A lazy extend() leaves copies, which only
\* a later check_bucket removes.
NoCopies ==
    \A d \in Buckets : \A e \in bucket[d].items :
        cell[e.at] # cell_full /\ Home(e.kv) = d

\* When there are no copies a cell can only have entries in its own buckets,
\* and collect_kv takes them all.
LEMMA AllCollected ==
    ASSUME IInv, NoCopies, NEW a \in Cell, NEW b2,
           \A j \in Buckets : b2[j].items \subseteq bucket[j].items,
           \A j \in cell_bucket(PageSize, a) : \A e \in b2[j].items : e.at # a,
           NEW j \in Buckets, NEW e \in b2[j].items
    PROVE  /\ e.at # a /\ e.at \in Cell /\ e.kv \in KV
           /\ cell[e.at] # cell_full /\ Home(e.kv) = j /\ ~Closed(KeyOf[e.kv])
           /\ HomeCell(cell, KeyOf[e.kv], 0) = e.at
<1>1. e \in bucket[j].items
  OBVIOUS
<1>2. cell[e.at] # cell_full /\ Home(e.kv) = j
  BY <1>1 DEF NoCopies
<1>3. /\ e.kv \in KV /\ e.at \in Cell /\ ~Closed(KeyOf[e.kv])
      /\ HomeCell(cell, KeyOf[e.kv], 0) = e.at
  BY <1>1, <1>2, FiledAtHome
<1>4. ASSUME e.at = a PROVE FALSE
  <2>1. j = calculate_bucket(cell, PageSize, KeyOf[e.kv], a)
    BY <1>2, <1>3, <1>4 DEF Home, query_bucket, Closed
  <2>2. j \in cell_bucket(PageSize, a)
    BY <1>3, <2>1, KVAssumption, PageFacts DEF IInv
  <2> QED
    BY <1>4, <2>2
<1> QED
  BY <1>2, <1>3, <1>4

\* What is kept for its own bucket while an open cell a changes is no copy
\* afterwards.
LEMMA StaysLive ==
    ASSUME IInv, NEW a \in Cell, cell[a] # cell_full,
           UNCHANGED <<hash, bucket_number>>, \A z \in Cell : z # a => cell'[z] = cell[z],
           NEW e, e.at # a, e.at \in Cell, e.kv \in KV, NEW j,
           cell[e.at] # cell_full, Home(e.kv) = j, ~Closed(KeyOf[e.kv]),
           HomeCell(cell, KeyOf[e.kv], 0) = e.at
    PROVE  cell'[e.at] # cell_full /\ Home(e.kv)' = j
<1>1. query_bucket(cell', PageSize, KeyOf[e.kv]) = j
  BY Raised DEF IInv
<1>2. Home(e.kv)' = query_bucket(cell', PageSize', KeyOf[e.kv])
  BY SameHash
<1> QED
  BY <1>1, <1>2 DEF PageSize

\* A call of the recursion leaves no copy.
LEMMA InsertStepNoCopies ==
    ASSUME IInv, NoCopies, InsertStep
    PROVE  NoCopies'
<1>1. PICK s \in 0 .. cell_layer : Turn(s) /\ \E x \in pending[s] :
        InsertFails(x, s) \/ InsertDirect(x, s) \/ InsertMoves(x, s) \/ InsertOverflows(x, s)
  BY DEF InsertStep
<1>2. PICK x \in pending[s] :
        InsertFails(x, s) \/ InsertDirect(x, s) \/ InsertMoves(x, s) \/ InsertOverflows(x, s)
  BY <1>1
<1> DEFINE q == KeyOf[x]
           a == HomeCell(cell, q, s)
<1>3. UNCHANGED <<hash, bucket_number>> /\ PageSize' = PageSize /\ Buckets' = Buckets
  BY <1>2 DEF InsertFails, InsertDirect, InsertMoves, InsertOverflows, PageSize, Buckets
<1>4. CASE InsertFails(x, s)
  BY <1>3, <1>4, SameHash DEF InsertFails, NoCopies, Home
<1>5. CASE InsertDirect(x, s)
  <2> DEFINE d == calculate_bucket(cell, PageSize, q, a)
  <2>1. cell' = cell /\ OpenLayers(cell, q, s) # {}
    BY <1>5 DEF InsertDirect
  <2>2. /\ d \in Buckets /\ a \in Cell /\ x \in KV
        /\ \A k \in Buckets : k # d => bucket'[k] = bucket[k]
        /\ bucket'[d].items = check_bucket(cell, PageSize, d, bucket[d]).items
                                    \cup {[kv |-> x, at |-> a]}
    BY <1>5, Directed
  <2>3. check_bucket(cell, PageSize, d, bucket[d]).items \subseteq bucket[d].items
    BY <2>2, PageFacts, CheckBucket DEF IInv
  <2>4. cell[a] # cell_full /\ Home(x) = d
    <3>1. /\ a = calculate_cell(q, a[1]) /\ a[1] \in Layers /\ cell[a] # cell_full
          /\ \A m \in Layers : m < a[1] => cell[calculate_cell(q, m)] = cell_full
      BY <2>1, Target
    <3>2. query_bucket(cell, PageSize, q) = calculate_bucket(cell, PageSize, q, a)
      <4> HIDE DEF a
      <4> QED
        BY <3>1, HomeIs
    <3> QED
      BY <3>1, <3>2 DEF Home
  <2>5. \A y : Home(y)' = Home(y)
    BY <1>3, <2>1, SameHash DEF Home
  <2> HIDE DEF a, d
  <2>6. ASSUME NEW k \in Buckets, NEW e \in bucket'[k].items
        PROVE  cell[e.at] # cell_full /\ Home(e.kv) = k
    <3>1. CASE e \in bucket[k].items
      BY <3>1 DEF NoCopies
    <3>2. CASE k = d /\ e = [kv |-> x, at |-> a]
      BY <2>4, <3>2
    <3> QED
      BY <2>2, <2>3, <2>6, <3>1, <3>2
  <2> QED
    BY <1>3, <2>1, <2>5, <2>6 DEF NoCopies
<1>6. CASE InsertMoves(x, s)
  <2> HIDE DEF a
  <2>1. /\ a \in Cell /\ cell[a] # cell_full /\ cell'[a] # cell_full
        /\ \A z \in Cell : z # a => cell'[z] = cell[z]
    BY <1>6, Moved DEF a
  <2>2. PICK kvs, b2 :
        /\ CollectedFor(x, a, kvs, b2)
        /\ DispensedTo(cell', PageSize, a, kvs, Buckets, b2, bucket')
    BY <1>6, Moved DEF a
  <2>3. ASSUME NEW j \in Buckets, NEW e \in bucket'[j].items
        PROVE  cell'[e.at] # cell_full /\ Home(e.kv)' = j
    <3>1. CASE e \in b2[j].items
      <4>1. /\ e.at # a /\ e.at \in Cell /\ e.kv \in KV
            /\ cell[e.at] # cell_full /\ Home(e.kv) = j /\ ~Closed(KeyOf[e.kv])
            /\ HomeCell(cell, KeyOf[e.kv], 0) = e.at
        BY <2>1, <2>2, <3>1, AllCollected DEF CollectedFor
      <4> QED
        BY <1>3, <2>1, <4>1, StaysLive
    <3>2. CASE /\ e.kv \in kvs /\ e.at = a
               /\ j = calculate_bucket(cell', PageSize, KeyOf[e.kv], a)
      <4> DEFINE k == KeyOf[e.kv]
      <4>1. /\ e.kv \in KV /\ k \in Key
            /\ a = calculate_cell(k, a[1]) /\ a[1] \in Layers
            /\ \A m \in Layers : m < a[1] => cell[calculate_cell(k, m)] = cell_full
        BY <2>1, <2>2, <3>2, CellLayer, KVAssumption DEF CollectedFor
      <4>2. \A m \in Layers : m < a[1] => cell'[calculate_cell(k, m)] = cell_full
        BY <2>1, <4>1, Raised DEF IInv
      <4>3. query_bucket(cell', PageSize, k) = j
        BY <2>1, <3>2, <4>1, <4>2, HomeIs
      <4> QED
        BY <1>3, <2>1, <3>2, <4>3, SameHash
    <3> QED
      BY <2>2, <2>3, <3>1, <3>2 DEF DispensedTo
  <2> QED
    BY <1>3, <2>3 DEF NoCopies
<1>7. CASE InsertOverflows(x, s)
  <2> HIDE DEF a
  <2>1. /\ a \in Cell /\ cell[a] # cell_full
        /\ \A z \in Cell : z # a => cell'[z] = cell[z]
    BY <1>1, <1>7, Overflowed DEF a
  <2>2. PICK kvs : CollectedFor(x, a, kvs, bucket')
    BY <1>1, <1>7, Overflowed DEF a
  <2>3. ASSUME NEW j \in Buckets, NEW e \in bucket'[j].items
        PROVE  cell'[e.at] # cell_full /\ Home(e.kv)' = j
    <3>1. /\ e.at # a /\ e.at \in Cell /\ e.kv \in KV
          /\ cell[e.at] # cell_full /\ Home(e.kv) = j /\ ~Closed(KeyOf[e.kv])
          /\ HomeCell(cell, KeyOf[e.kv], 0) = e.at
      BY <2>1, <2>2, <2>3, AllCollected DEF CollectedFor
    <3> QED
      BY <1>3, <2>1, <3>1, StaysLive
  <2> QED
    BY <1>3, <2>3 DEF NoCopies
<1> QED
  BY <1>2, <1>4, <1>5, <1>6, <1>7

\* An extend() that checks every bucket leaves no copy.
LEMMA ExtendNoCopies ==
    ASSUME IInv, NoCopies, extend(FALSE)
    PROVE  NoCopies'
<1>1. /\ UNCHANGED <<hash, cell>> /\ bucket_number' = 2 * bucket_number
      /\ bucket' = AllChecked(cell, 2 * PageSize, Doubled)
  BY DEF extend
<1>2. PageSize' = 2 * PageSize
  <2>1. bucket_number = cell_hash * PageSize /\ PageSize \in Nat
    BY PageFacts DEF IInv, TypeOK
  <2>2. cell_hash \in {2, 4, 8, 16}
    BY SizeAssumption
  <2> QED
    BY <1>1, <2>1, <2>2 DEF PageSize
<1>3. Buckets' = 0 .. 2 * bucket_number - 1
  BY <1>1 DEF Buckets
<1>4. ASSUME NEW j \in 0 .. 2 * bucket_number - 1, NEW e \in bucket'[j].items
      PROVE  cell[e.at] # cell_full /\ query_bucket(cell, 2 * PageSize, KeyOf[e.kv]) = j
  <2>1. bucket'[j] = check_bucket(cell, 2 * PageSize, j, Doubled[j])
    BY <1>1 DEF AllChecked, Doubled
  <2>2. Doubled[j] = [items |-> bucket[CopiedFrom(j)].items, check |-> FALSE]
    BY DEF Doubled
  <2>3. /\ e \in bucket[CopiedFrom(j)].items
        /\ query_bucket(cell, 2 * PageSize, KeyOf[e.kv]) = j
    BY <1>4, <2>1, <2>2 DEF check_bucket
  <2>4. CopiedFrom(j) \in Buckets
    BY Copies DEF IInv
  <2> QED
    BY <2>3, <2>4 DEF NoCopies
<1>5. \A y : Home(y)' = query_bucket(cell, 2 * PageSize, KeyOf[y])
  BY <1>1, <1>2, SameHash
<1> QED
  BY <1>1, <1>3, <1>4, <1>5 DEF NoCopies

\* A step that only drops entries leaves no copy.
LEMMA PurgeNoCopies ==
    ASSUME NoCopies, UNCHANGED <<hash, cell, bucket_number>>,
           \A d \in Buckets : bucket'[d].items \subseteq bucket[d].items
    PROVE  NoCopies'
<1>1. PageSize' = PageSize /\ Buckets' = Buckets
  BY DEF PageSize, Buckets
<1>2. \A y : Home(y)' = Home(y)
  BY <1>1, SameHash DEF Home
<1> QED
  BY <1>1, <1>2 DEF NoCopies

\* No step but a lazy extend() leaves a copy.
LEMMA NoCopiesStep ==
    ASSUME IInv, NoCopies, [Next]_vars,
           ~ \E lazy \in LazyModes : lazy # FALSE /\ extend(lazy)
    PROVE  NoCopies'
<1>1. CASE InsertStep
  BY <1>1, InsertStepNoCopies
<1>2. ASSUME NEW lazy \in LazyModes, extend(lazy) PROVE NoCopies'
  <2>1. lazy = FALSE
    BY <1>2
  <2> QED
    BY <1>2, <2>1, ExtendNoCopies
<1>3. CASE UNCHANGED <<hash, cell, bucket_number, bucket>>
  BY <1>3, PurgeNoCopies
<1>4. ASSUME NEW q \in Key, Query(q) PROVE NoCopies'
  <2> DEFINE d == query_bucket(cell, PageSize, q)
  <2>1. UNCHANGED <<hash, cell, bucket_number>>
        /\ (bucket' = bucket \/ (d # -1 /\ bucket' = TargetChecked(d)))
    BY <1>4 DEF Query
  <2>2. CASE d # -1 /\ bucket' = TargetChecked(d)
    <3>1. d \in Buckets
      BY <2>2, QueryBucket DEF IInv
    <3> QED
      BY <2>1, <2>2, <3>1, Checked, PurgeNoCopies DEF IInv
  <2> QED
    BY <2>1, <2>2, PurgeNoCopies
<1>5. CASE calculate_bucket_items
  <2>1. UNCHANGED <<hash, cell, bucket_number>>
        /\ bucket' = AllChecked(cell, PageSize, bucket) /\ bucket \in [Buckets -> BucketType]
    BY <1>5, PageFacts DEF calculate_bucket_items, IInv
  <2> QED
    BY <2>1, AllCheckedFacts, PurgeNoCopies
<1> QED
  BY <1>1, <1>2, <1>3, <1>4, <1>5 DEF Next, vars, Insert, Return

\* As long as no expansion is lazy, no bucket ever has a copy.
LEMMA CopiesNever ==
    ASSUME EagerOnly
    PROVE  Spec => []NoCopies
<1>1. Init => NoCopies
  BY DEF Init, NoCopies, Buckets
<1>2. IInv /\ NoCopies /\ [Next]_vars => NoCopies'
  BY NoCopiesStep DEF EagerOnly
<1> QED
  BY <1>1, <1>2, Invariance, PTL DEF Spec

\* Nor has one in a table that was not expanded yet.
NotExpanded == bucket_number = cell_hash * Page
CopiesLater == bucket_number >= cell_hash * Page /\ (NotExpanded => NoCopies)

LEMMA NoCopiesYet == Spec => []CopiesLater
<1>1. cell_hash * Page \in Nat /\ cell_hash * Page > 0
  <2>1. cell_hash \in {2, 4, 8, 16} /\ Page \in Nat /\ Page > 0
    BY SizeAssumption
  <2> QED
    BY <2>1
<1>2. Init => CopiesLater
  BY <1>1 DEF Init, CopiesLater, NotExpanded, NoCopies, Buckets
<1>3. ASSUME IInv, CopiesLater, [Next]_vars PROVE CopiesLater'
  <2>1. bucket_number \in Nat
    BY <1>3 DEF IInv, TypeOK
  <2>2. CASE \E lazy \in LazyModes : extend(lazy)
    <3>1. bucket_number' = 2 * bucket_number
      BY <2>2 DEF extend
    <3> QED
      BY <1>1, <1>3, <2>1, <3>1 DEF CopiesLater, NotExpanded
  <2>3. CASE ~ \E lazy \in LazyModes : extend(lazy)
    <3>1. bucket_number' = bucket_number
      <4>1. CASE InsertStep
        BY <4>1 DEF InsertStep, InsertFails, InsertDirect, InsertMoves, InsertOverflows
      <4>2. ASSUME NEW x \in KV, Insert(x) PROVE bucket_number' = bucket_number
        BY <4>2 DEF Insert
      <4>3. ASSUME NEW q \in Key, Query(q) PROVE bucket_number' = bucket_number
        BY <4>3 DEF Query
      <4>4. CASE Return \/ calculate_bucket_items \/ UNCHANGED vars
        BY <4>4 DEF Return, calculate_bucket_items, vars
      <4> QED
        BY <1>3, <2>3, <4>1, <4>2, <4>3, <4>4 DEF Next
    <3>2. NoCopies => NoCopies'
      BY <1>3, <2>3, NoCopiesStep
    <3> QED
      BY <1>3, <3>1, <3>2 DEF CopiesLater, NotExpanded
  <2> QED
    BY <2>2, <2>3
<1> QED
  BY <1>2, <1>3, Invariance, PTL DEF Spec

\* The slots in use are then the pairs held, one each.
LEMMA OneSlotEach == IInv /\ NoCopies => SlotsExact
<1> SUFFICES ASSUME IInv, NoCopies PROVE SlotsExact
  OBVIOUS
<1> DEFINE Slots == UNION {{d} \X bucket[d].items : d \in Buckets}
           Live == {x \in called : Held(x) /\ x \notin InFlight}
           f == [p \in Slots |-> p[2].kv]
<1>1. UsedSlots(bucket) = Cardinality(Slots)
  BY PageFacts DEF UsedSlots, IInv
<1>2. ASSUME NEW p \in Slots
      PROVE  /\ p[1] = Home(p[2].kv) /\ p = <<p[1], p[2]>>
             /\ p[2] = [kv |-> p[2].kv, at |-> HomeCell(cell, KeyOf[p[2].kv], 0)]
             /\ p[2].kv \in Live
  <2>1. PICK d \in Buckets : p \in {d} \X bucket[d].items
    BY <1>2
  <2>2. p = <<p[1], p[2]>> /\ p[1] = d /\ p[2] \in bucket[d].items
    BY <2>1
  <2> DEFINE e == p[2]
  <2>3. cell[e.at] # cell_full /\ Home(e.kv) = d
    BY <2>2 DEF NoCopies
  <2>4. /\ e.kv \in KV /\ e.kv \in called /\ ~Closed(KeyOf[e.kv])
        /\ HomeCell(cell, KeyOf[e.kv], 0) = e.at
    BY <2>2, <2>3, FiledAtHome
  <2>5. e = [kv |-> e.kv, at |-> e.at]
    BY <2>2, PageFacts DEF IInv, BucketType, Entry
  <2>6. Held(e.kv)
    BY <2>2, <2>3, <2>4 DEF Held
  <2>7. e.kv \notin InFlight
    BY <2>2, <2>3, InFlightMember DEF IInv, PendingFiled
  <2> QED
    BY <2>2, <2>3, <2>4, <2>5, <2>6, <2>7
<1>3. ASSUME NEW x \in Live PROVE \E p \in Slots : f[p] = x
  <2>1. PICK e \in bucket[Home(x)].items : e.kv = x
    BY DEF Held
  <2>2. Home(x) \in Buckets
    BY HomeFacts DEF IInv, TypeOK, Held
  <2>3. <<Home(x), e>> \in Slots
    BY <2>1, <2>2
  <2> QED
    BY <2>1, <2>3
<1> HIDE DEF Slots, Live
<1>4. f \in Bijection(Slots, Live)
  <2>1. f \in [Slots -> Live]
    BY <1>2
  <2>2. ASSUME NEW p1 \in Slots, NEW p2 \in Slots, f[p1] = f[p2] PROVE p1 = p2
    <3> DEFINE slot(y) == <<Home(y), [kv |-> y, at |-> HomeCell(cell, KeyOf[y], 0)]>>
    <3>1. ASSUME NEW p \in Slots PROVE p = slot(f[p])
      <4>1. p[1] = Home(p[2].kv) /\ p = <<p[1], p[2]>>
            /\ p[2] = [kv |-> p[2].kv, at |-> HomeCell(cell, KeyOf[p[2].kv], 0)]
        BY <1>2
      <4>2. f[p] = p[2].kv
        OBVIOUS
      <4> QED
        BY <4>1, <4>2, Zenon
    <3> HIDE DEF f, slot
    <3>2. p1 = slot(f[p1]) /\ p2 = slot(f[p2])
      BY <3>1
    <3> QED
      BY <2>2, <3>2
  <2>3. \A x \in Live : \E p \in Slots : f[p] = x
    BY <1>3
  <2> HIDE DEF f
  <2> QED
    BY <2>1, <2>2, <2>3 DEF Bijection, Injection, IsInjective, Surjection
<1>5. IsFiniteSet(Live)
  <2>1. Live \subseteq KV
    BY DEF Live, IInv, TypeOK
  <2> QED
    BY <2>1, KVAssumption, FS_Subset
<1>6. Cardinality(Slots) = Cardinality(Live)
  <2>1. f \in Injection(Slots, Live) /\ f \in Surjection(Slots, Live)
    BY <1>4 DEF Bijection
  <2>2. IsFiniteSet(Slots)
    BY <1>5, <2>1, FS_Injection
  <2> HIDE DEF f
  <2> QED
    BY <2>1, <2>2, FS_Surjection
<1> QED
  BY <1>1, <1>6 DEF SlotsExact, Live

\* Without lazy expansion each held pair takes exactly one slot.
THEOREM SlotsAreExact ==
    ASSUME EagerOnly
    PROVE  Spec => []SlotsExact
<1>1. IInv /\ NoCopies => SlotsExact
  BY OneSlotEach
<1> QED
  BY <1>1, Invariance, CopiesNever, PTL

\* Whichever way the client expands, it is so until it does: the items that
\* main.cpp prints before its extend() are the pairs in the table.
THEOREM ExactUntilExpanded == Spec => [](NotExpanded => SlotsExact)
<1>1. IInv /\ CopiesLater => (NotExpanded => SlotsExact)
  BY OneSlotEach DEF CopiesLater
<1> QED
  BY <1>1, Invariance, NoCopiesYet, PTL

\* The answer stands as long as no other call is made.
CountRight == CountIsItems /\ (reply.op = "count" => Idle)

\* Without lazy expansion calculate_bucket_items() counts the pairs in the
\* table, as main.cpp has it; after a lazy extend() it does not.
THEOREM CountsItems ==
    ASSUME EagerOnly
    PROVE  Spec => []CountIsItems
<1>1. Init => CountRight
  BY DEF Init, NoReply, CountRight, CountIsItems
<1>2. ASSUME IInv, IInv', SlotsExact', CountRight, [Next]_vars
      PROVE  CountRight'
  <2>2. CASE calculate_bucket_items
    <3>1. reply' = [op |-> "count", n |-> UsedSlots(bucket)'] /\ Idle'
      BY <2>2 DEF calculate_bucket_items, UsedSlots, Idle
    <3>2. InFlight' = {}
      BY <1>2, <3>1 DEF IInv, PendingApart
    <3> QED
      BY <1>2, <3>1, <3>2 DEF SlotsExact, CountRight, CountIsItems
  <2>3. CASE reply.op = "count" /\ UNCHANGED <<hash, cell, pending, call, called, reply>>
    <3>1. Idle /\ Idle' /\ Stored' = Stored
      BY <1>2, <2>3, StoreUntouched DEF CountRight, Idle
    <3>2. InFlight = {} /\ InFlight' = {}
      BY <1>2, <3>1 DEF IInv, PendingApart
    <3>3. \A x : x \in Stored <=> x \in called /\ Held(x)
      BY <3>2 DEF Stored
    <3>4. \A x : x \in Stored' <=> x \in called' /\ Held(x)'
      BY <3>2 DEF Stored
    <3>5. {x \in called : Held(x)}' = {x \in called : Held(x)}
      BY <3>1, <3>3, <3>4
    <3> QED
      BY <1>2, <2>3, <3>1, <3>5 DEF CountRight, CountIsItems
  <2>4. CASE reply'.op # "count"
    BY <2>4 DEF CountRight, CountIsItems
  <2>5. ASSUME NEW lazy \in LazyModes, extend(lazy) PROVE CountRight'
    BY <2>3, <2>4, <2>5 DEF extend
  <2>6. CASE InsertStep
    <3>1. call # NoKV /\ reply' = reply
      BY <1>2, <2>6, InsertStepMaps
    <3> QED
      BY <1>2, <3>1 DEF CountRight, CountIsItems, Idle
  <2>7. CASE UNCHANGED vars
    BY <2>3, <2>4, <2>7 DEF vars
  <2> QED
    BY <1>2, <2>2, <2>4, <2>5, <2>6, <2>7
        DEF Next, Insert, Return, Query, NoReply, QueryReply
<1>3. CountRight => CountIsItems
  BY DEF CountRight
<1> QED
  BY <1>1, <1>2, <1>3, Invariance, SlotsAreExact, PTL DEF Spec

-----------------------------------------------------------------------------
(* Counting to n.                                                          *)

\* A set that has 0 and with each number the next one has all up to n.
LEMMA Induction ==
    ASSUME NEW n \in Nat, NEW P, 0 \in P, \A i \in 1 .. n : i - 1 \in P => i \in P
    PROVE  0 .. n \subseteq P
<1> DEFINE Rest == {i \in 0 .. n : i \notin P}
<1>1. SUFFICES ASSUME Rest # {} PROVE FALSE
  OBVIOUS
<1>2. Min(Rest) \in Rest /\ \A y \in Rest : Min(Rest) <= y
  <2>1. Rest \in SUBSET Nat
    OBVIOUS
  <2> HIDE DEF Rest
  <2> QED
    BY <1>1, <2>1, LeastElement
<1>3. PICK i \in 0 .. n : i \notin P /\ \A y \in Rest : i <= y
  BY <1>2
<1>4. i # 0 /\ i \in 1 .. n /\ i - 1 \in 0 .. n
  BY <1>3
<1>5. i - 1 \notin P
  BY <1>3, <1>4
<1>6. i - 1 \in Rest
  BY <1>4, <1>5
<1> QED
  BY <1>3, <1>4, <1>6

\* f is the iterates of a function, up to the n-th, from b.
Iterated(f, n, b, step) == f[0] = b /\ \A i \in 1 .. n : f[i] = step[f[i - 1]]

\* Every function on a set has its iterates.
LEMMA Iterates ==
    ASSUME NEW n \in Nat, NEW S, NEW b \in S, NEW step \in [S -> S]
    PROVE  \E f \in [0 .. n -> S] : Iterated(f, n, b, step)
<1> DEFINE Good(m) == \E f \in [0 .. m -> S] :
                         f[0] = b /\ \A i \in 1 .. m : f[i] = step[f[i - 1]]
           P == {m \in 0 .. n : Good(m)}
<1>1. Good(0)
  <2>1. [i \in 0 .. 0 |-> b] \in [0 .. 0 -> S] /\ [i \in 0 .. 0 |-> b][0] = b
    OBVIOUS
  <2>2. 1 .. 0 = {}
    OBVIOUS
  <2> QED
    BY <2>1, <2>2
<1>2. ASSUME NEW m \in 0 .. n, m + 1 \in 0 .. n, Good(m)
      PROVE  Good(m + 1)
  <2>1. PICK f \in [0 .. m -> S] : f[0] = b /\ \A i \in 1 .. m : f[i] = step[f[i - 1]]
    BY <1>2
  <2> DEFINE g == [i \in 0 .. m + 1 |-> IF i = m + 1 THEN step[f[m]] ELSE f[i]]
  <2>2. step[f[m]] \in S
    OBVIOUS
  <2>3. g \in [0 .. m + 1 -> S]
    BY <2>2
  <2>4. g[0] = b /\ g[m + 1] = step[f[m]] /\ g[m] = f[m]
    BY <2>1
  <2>5. \A i \in 1 .. m : g[i] = f[i] /\ g[i - 1] = f[i - 1]
    OBVIOUS
  <2> HIDE DEF g
  <2>6. ASSUME NEW i \in 1 .. m + 1 PROVE g[i] = step[g[i - 1]]
    <3>1. CASE i = m + 1
      BY <2>4, <3>1
    <3>2. CASE i # m + 1
      BY <2>1, <2>5, <3>2
    <3> QED
      BY <3>1, <3>2
  <2> QED
    BY <2>3, <2>4, <2>6
<1>3. 0 \in P
  BY <1>1
<1>4. ASSUME NEW i \in 1 .. n, i - 1 \in P PROVE i \in P
  <2>1. i - 1 \in 0 .. n /\ (i - 1) + 1 = i /\ Good(i - 1)
    BY <1>4
  <2> HIDE DEF Good
  <2>2. Good((i - 1) + 1)
    BY <1>2, <2>1
  <2> QED
    BY <2>1, <2>2
<1>5. 0 .. n \subseteq P
  <2> HIDE DEF P
  <2> QED
    BY <1>3, <1>4, Induction
<1>6. Good(n)
  BY <1>5
<1> QED
  BY <1>6 DEF Iterated

-----------------------------------------------------------------------------
(* The loop of collect_kv.                                                 *)

Distinct(s) == \A i, l \in 1 .. Len(s) : s[i] = s[l] => i = l
Among(s, e) == \E i \in 1 .. Len(s) : s[i] = e

\* The set of a sequence.
LEMMA InSetOf ==
    ASSUME NEW U, NEW s \in Seq(U)
    PROVE  /\ SetOf(s) \subseteq U
           /\ \A e : e \in SetOf(s) <=> Among(s, e)
  BY DEF SetOf, Among

\* A sequence without repetitions has as many members as it is long.
LEMMA LengthIsCardinality ==
    ASSUME NEW U, NEW s \in Seq(U), Distinct(s)
    PROVE  IsFiniteSet(SetOf(s)) /\ Cardinality(SetOf(s)) = Len(s)
<1> DEFINE f == [i \in 1 .. Len(s) |-> s[i]]
<1>1. Len(s) \in Nat /\ DOMAIN s = 1 .. Len(s)
  OBVIOUS
<1>2. \A i \in 1 .. Len(s) : s[i] \in SetOf(s)
  BY <1>1 DEF SetOf
<1>3. f \in [1 .. Len(s) -> SetOf(s)]
  BY <1>2
<1>4. f \in Injection(1 .. Len(s), SetOf(s))
  BY <1>3 DEF Injection, IsInjective, Distinct
<1>5. f \in Surjection(1 .. Len(s), SetOf(s))
  BY <1>1, <1>3 DEF Surjection, SetOf
<1>6. IsFiniteSet(1 .. Len(s)) /\ Cardinality(1 .. Len(s)) = Len(s)
  BY <1>1, FS_Interval
<1> HIDE DEF f
<1> QED
  BY <1>4, <1>5, <1>6, FS_Surjection

\* An order of the slots has every entry in one slot.
LEMMA OrderFacts ==
    ASSUME NEW b, IsFiniteSet(b.items), NEW s \in Orders(b)
    PROVE  /\ s \in Seq(b.items) /\ Len(s) = Cardinality(b.items)
           /\ Distinct(s)
           /\ \A e \in b.items : Among(s, e)
<1> DEFINE n == Cardinality(b.items)
<1>1. n \in Nat
  BY FS_CardinalityType
<1>2. s \in [1 .. n -> b.items] /\ \A i, j \in 1 .. n : s[i] = s[j] => i = j
  BY DEF Orders
<1>3. s \in Seq(b.items) /\ Len(s) = n
  <2>1. s \in [1 .. n -> b.items]
    BY <1>2
  <2> HIDE DEF n
  <2>2. s \in Seq(b.items)
    BY <1>1, <2>1, SeqDef
  <2> QED
    BY <1>1, <2>1, <2>2
<1>4. s \in Injection(1 .. n, b.items)
  BY <1>2 DEF Injection, IsInjective
<1>5. IsFiniteSet(1 .. n) /\ Cardinality(1 .. n) = n
  BY <1>1, FS_Interval
<1>6. s \in Surjection(1 .. n, b.items)
  BY <1>4, <1>5, FS_Injection
<1> QED
  BY <1>2, <1>3, <1>6 DEF Surjection, Distinct, Among

\* A sequence without its last element.
LEMMA Shorter ==
    ASSUME NEW U, NEW s \in Seq(U), Len(s) >= 1
    PROVE  /\ SubSeq(s, 1, Len(s) - 1) \in Seq(U)
           /\ Len(SubSeq(s, 1, Len(s) - 1)) = Len(s) - 1
           /\ \A i \in 1 .. Len(s) - 1 : SubSeq(s, 1, Len(s) - 1)[i] = s[i]
<1> DEFINE l == Len(s) - 1
<1>1. 1 \in Int /\ l \in Nat /\ l \in Int /\ \A i \in 1 .. l : s[i] \in U
  OBVIOUS
<1> HIDE DEF l
<1>2. /\ SubSeq(s, 1, l) \in Seq(U)
      /\ Len(SubSeq(s, 1, l)) = IF 1 <= l THEN l - 1 + 1 ELSE 0
      /\ \A i \in 1 .. l - 1 + 1 : SubSeq(s, 1, l)[i] = s[1 + i - 1]
  BY <1>1, SubSeqProperties
<1>3. Len(SubSeq(s, 1, l)) = l /\ l - 1 + 1 = l
  BY <1>1, <1>2
<1>4. \A i \in 1 .. l : SubSeq(s, 1, l)[i] = s[i]
  BY <1>1, <1>2
<1> QED
  BY <1>2, <1>3, <1>4 DEF l

\* What TakeOut leaves: the slots but for one, the last entry in its place.
LEMMA TakeOutFacts ==
    ASSUME NEW U, NEW s \in Seq(U), NEW j \in 1 .. Len(s)
    PROVE  /\ TakeOut(s, j).slots \in Seq(U)
           /\ Len(TakeOut(s, j).slots) = Len(s) - 1
           /\ \A i \in 1 .. Len(s) - 1 :
                 TakeOut(s, j).slots[i] = IF i = j THEN s[Len(s)] ELSE s[i]
           /\ TakeOut(s, j).j = IF j = Len(s) THEN j + 1 ELSE j
<1> DEFINE r == SubSeq(s, 1, Len(s) - 1)
<1>1. Len(s) \in Nat /\ Len(s) >= 1 /\ \A i \in 1 .. Len(s) : s[i] \in U
  OBVIOUS
<1>2. r \in Seq(U) /\ Len(r) = Len(s) - 1 /\ \A i \in 1 .. Len(s) - 1 : r[i] = s[i]
  BY <1>1, Shorter
<1>3. CASE j = Len(s)
  <2>1. TakeOut(s, j) = [slots |-> SubSeq(s, 1, j - 1), j |-> j + 1]
    BY <1>3 DEF TakeOut
  <2>2. TakeOut(s, j).slots = r /\ TakeOut(s, j).j = j + 1
    BY <1>3, <2>1
  <2> HIDE DEF r
  <2> QED
    BY <1>2, <1>3, <2>2
<1>4. CASE j # Len(s)
  <2>1. TakeOut(s, j).slots = [r EXCEPT ![j] = s[Len(s)]] /\ TakeOut(s, j).j = j
    BY <1>4 DEF TakeOut
  <2> HIDE DEF r
  <2>2. j \in 1 .. Len(r)
    BY <1>2, <1>4
  <2>3. /\ [r EXCEPT ![j] = s[Len(s)]] \in Seq(U)
        /\ Len([r EXCEPT ![j] = s[Len(s)]]) = Len(r)
        /\ \A i \in 1 .. Len(r) : [r EXCEPT ![j] = s[Len(s)]][i] = IF i = j THEN s[Len(s)] ELSE r[i]
    BY <1>1, <1>2, <2>2, ExceptSeq
  <2> QED
    BY <1>2, <1>4, <2>1, <2>3
<1> QED
  BY <1>3, <1>4

\* Without the entry of a slot that the last one fills, no entry comes twice
\* and none is lost but the one of the slot.
LEMMA Replaced ==
    ASSUME NEW s, NEW t, Len(s) \in Nat, NEW j \in 1 .. Len(s), Len(t) = Len(s) - 1,
           \A i \in 1 .. Len(s) - 1 : t[i] = IF i = j THEN s[Len(s)] ELSE s[i]
    PROVE  /\ Distinct(s) => Distinct(t)
           /\ \A e : Among(s, e) => Among(t, e) \/ e = s[j]
<1>0. Len(s) \in Nat /\ Len(s) \in 1 .. Len(s) /\ Len(t) \in Nat
  OBVIOUS
<1>1. ASSUME Distinct(s), NEW i \in 1 .. Len(t), NEW l \in 1 .. Len(t), t[i] = t[l]
      PROVE  i = l
  <2>1. i \in 1 .. Len(s) - 1 /\ l \in 1 .. Len(s) - 1 /\ i \in 1 .. Len(s) /\ l \in 1 .. Len(s)
    BY <1>0
  <2>2. i # Len(s) /\ l # Len(s)
    BY <1>0, <2>1
  <2>3. \A p, q \in 1 .. Len(s) : s[p] = s[q] => p = q
    BY <1>1 DEF Distinct
  <2>4. CASE i = j /\ l # j
    BY <1>0, <1>1, <2>1, <2>2, <2>3, <2>4
  <2>5. CASE i # j /\ l = j
    BY <1>0, <1>1, <2>1, <2>2, <2>3, <2>5
  <2>6. CASE i # j /\ l # j
    BY <1>1, <2>1, <2>3, <2>6
  <2> QED
    BY <2>4, <2>5, <2>6
<1>2. ASSUME NEW e, Among(s, e), e # s[j]
      PROVE  Among(t, e)
  <2>1. PICK i \in 1 .. Len(s) : s[i] = e
    BY <1>2 DEF Among
  <2>2. i # j
    BY <1>2, <2>1
  <2>3. CASE i = Len(s)
    <3>1. j \in 1 .. Len(s) - 1 /\ j \in 1 .. Len(t)
      BY <1>0, <2>2, <2>3
    <3>2. t[j] = e
      BY <2>1, <2>3, <3>1
    <3> QED
      BY <3>1, <3>2 DEF Among
  <2>4. CASE i # Len(s)
    <3>1. i \in 1 .. Len(s) - 1 /\ i \in 1 .. Len(t)
      BY <1>0, <2>4
    <3>2. t[i] = e
      BY <2>1, <2>2, <3>1
    <3> QED
      BY <3>1, <3>2 DEF Among
  <2> QED
    BY <2>3, <2>4
<1> QED
  BY <1>1, <1>2 DEF Distinct

\* What the loop over the slots of a bucket of so many entries, the set U,
\* keeps: no entry is in two slots; the entries gone were of cell a, and the
\* pairs so far are theirs; the slots passed hold none of cell a; and after n
\* rounds the slots passed and the entries gone are n, or the loop is over.
CollectType(U) == [slots : Seq(U), j : Nat \ {0}, kvs : Seq(KV)]
GoneCollected(U, a, w) ==
    /\ \A e \in U : Among(w.slots, e) \/ (e.at = a /\ Among(w.kvs, e.kv))
    /\ \A i \in 1 .. Len(w.kvs) : \E e \in U : e.at = a /\ w.kvs[i] = e.kv
CollectInv(U, count, a, n, w) ==
    /\ Distinct(w.slots)
    /\ Len(w.slots) + Len(w.kvs) = count
    /\ \A i \in 1 .. Len(w.slots) : i < w.j => w.slots[i].at # a
    /\ GoneCollected(U, a, w)
    /\ n <= w.j - 1 + Len(w.kvs) \/ w.j > Len(w.slots)

\* A round keeps the invariant.
LEMMA CollectRoundKeeps ==
    ASSUME NEW U \in SUBSET Entry, NEW count \in Nat, NEW a, NEW n \in Nat,
           NEW w \in CollectType(U)
    PROVE  /\ CollectRound(a, w) \in CollectType(U)
           /\ CollectInv(U, count, a, n, w) => CollectInv(U, count, a, n + 1, CollectRound(a, w))
<1> DEFINE v == CollectRound(a, w)
           s == w.slots
           j == w.j
<1>1. /\ s \in Seq(U) /\ j \in Nat \ {0} /\ w.kvs \in Seq(KV) /\ Len(s) \in Nat
      /\ \A i \in 1 .. Len(s) : s[i] \in U /\ s[i].kv \in KV
  BY DEF CollectType, Entry
<1>2. CASE j > Len(s)
  BY <1>1, <1>2 DEF CollectRound, CollectInv
<1>3. CASE j <= Len(s) /\ s[j].at # a
  <2>1. v = [w EXCEPT !.j = j + 1]
    BY <1>3, <1>1 DEF CollectRound
  <2>2. v.slots = s /\ v.j = j + 1 /\ v.kvs = w.kvs /\ v \in CollectType(U)
    BY <1>1, <2>1 DEF CollectType
  <2>3. ASSUME CollectInv(U, count, a, n, w) PROVE CollectInv(U, count, a, n + 1, v)
    <3> HIDE DEF v
    <3>1. GoneCollected(U, a, v)
      BY <2>2, <2>3 DEF GoneCollected, CollectInv
    <3>2. \A i \in 1 .. Len(v.slots) : i < v.j => v.slots[i].at # a
      BY <1>1, <1>3, <2>2, <2>3 DEF CollectInv
    <3>3. n + 1 <= v.j - 1 + Len(v.kvs) \/ v.j > Len(v.slots)
      BY <1>1, <2>2, <2>3 DEF CollectInv
    <3> QED
      BY <2>2, <2>3, <3>1, <3>2, <3>3 DEF CollectInv
  <2> QED
    BY <2>2, <2>3
<1>4. CASE j <= Len(s) /\ s[j].at = a
  <2> DEFINE r == TakeOut(s, j)
  <2>1. v = [slots |-> r.slots, j |-> r.j, kvs |-> Append(w.kvs, s[j].kv)]
    BY <1>1, <1>4 DEF CollectRound
  <2>2. v.slots = r.slots /\ v.j = r.j /\ v.kvs = Append(w.kvs, s[j].kv)
    BY <2>1
  <2>3. j \in 1 .. Len(s)
    BY <1>1, <1>4
  <2>4. /\ v.slots \in Seq(U) /\ Len(v.slots) = Len(s) - 1
        /\ \A i \in 1 .. Len(s) - 1 : v.slots[i] = IF i = j THEN s[Len(s)] ELSE s[i]
        /\ v.j = IF j = Len(s) THEN j + 1 ELSE j
    <3> HIDE DEF s, j
    <3>1. /\ r.slots \in Seq(U) /\ Len(r.slots) = Len(s) - 1
          /\ \A i \in 1 .. Len(s) - 1 : r.slots[i] = IF i = j THEN s[Len(s)] ELSE s[i]
          /\ r.j = IF j = Len(s) THEN j + 1 ELSE j
      BY <1>1, <2>3, TakeOutFacts
    <3> HIDE DEF v, r
    <3> QED
      BY <2>2, <3>1
  <2>5. /\ v.kvs \in Seq(KV) /\ Len(v.kvs) = Len(w.kvs) + 1
        /\ \A i \in 1 .. Len(w.kvs) : v.kvs[i] = w.kvs[i]
        /\ v.kvs[Len(w.kvs) + 1] = s[j].kv
    BY <1>1, <2>2, <2>3, AppendProperties
  <2>6. v \in CollectType(U)
    <3>1. v.j \in Nat \ {0}
      BY <1>1, <2>4
    <3> QED
      BY <2>1, <2>2, <2>4, <2>5, <3>1 DEF CollectType
  <2> HIDE DEF v, r
  <2>7. ASSUME CollectInv(U, count, a, n, w) PROVE CollectInv(U, count, a, n + 1, v)
    <3>0. Len(w.kvs) \in Nat
      BY <1>1
    <3>a. /\ Distinct(s)
          /\ Len(s) + Len(w.kvs) = count
          /\ \A i \in 1 .. Len(s) : i < j => s[i].at # a
      BY <2>7 DEF CollectInv
    <3>c. n <= j - 1 + Len(w.kvs) \/ j > Len(s)
      BY <2>7 DEF CollectInv
    <3>d. /\ j \in Nat /\ j <= Len(s) /\ Len(s) \in Nat
          /\ v.j = IF j = Len(s) THEN j + 1 ELSE j
          /\ Len(v.slots) = Len(s) - 1 /\ Len(v.kvs) = Len(w.kvs) + 1
      BY <1>1, <1>4, <2>4, <2>5
    <3> HIDE DEF s, j
    <3>b. /\ Distinct(s) => Distinct(v.slots)
          /\ \A e : Among(s, e) => Among(v.slots, e) \/ e = s[j]
      <4> DEFINE t == v.slots
      <4>1. /\ Len(s) \in Nat /\ j \in 1 .. Len(s) /\ Len(t) = Len(s) - 1
            /\ \A i \in 1 .. Len(s) - 1 : t[i] = IF i = j THEN s[Len(s)] ELSE s[i]
        BY <1>1, <2>3, <2>4
      <4> HIDE DEF t
      <4>2. /\ Distinct(s) => Distinct(t)
            /\ \A e : Among(s, e) => Among(t, e) \/ e = s[j]
        BY <4>1, Replaced
      <4> QED
        BY <4>2 DEF t
    <3>1. Distinct(v.slots)
      BY <3>a, <3>b
    <3>2. Len(v.slots) + Len(v.kvs) = count
      BY <3>0, <3>a, <3>d
    <3>3. ASSUME NEW i \in 1 .. Len(v.slots), i < v.j PROVE v.slots[i].at # a
      <4>1. i \in 1 .. Len(s) - 1 /\ i \in 1 .. Len(s) /\ i # Len(s)
        BY <1>1, <2>4
      <4>2. i # j /\ i < j
        BY <3>3, <3>d, <4>1
      <4>3. v.slots[i] = s[i]
        BY <2>4, <4>1, <4>2
      <4> QED
        BY <3>a, <4>1, <4>2, <4>3
    <3>4. ASSUME NEW e \in U PROVE Among(v.slots, e) \/ (e.at = a /\ Among(v.kvs, e.kv))
      <4>1. CASE e.at = a /\ Among(w.kvs, e.kv)
        BY <2>5, <3>0, <4>1 DEF Among
      <4>2. CASE Among(s, e)
        <5>1. CASE e = s[j]
          <6>1. Len(w.kvs) + 1 \in 1 .. Len(v.kvs)
            BY <2>5, <3>0
          <6> QED
            BY <1>4, <2>5, <5>1, <6>1 DEF Among, s, j
        <5> QED
          BY <3>b, <4>2, <5>1
      <4> QED
        BY <2>7, <4>1, <4>2 DEF CollectInv, GoneCollected, s
    <3>5. ASSUME NEW i \in 1 .. Len(v.kvs) PROVE \E e \in U : e.at = a /\ v.kvs[i] = e.kv
      <4>1. CASE i = Len(w.kvs) + 1
        BY <1>1, <1>4, <2>3, <2>5, <4>1
      <4>2. CASE i # Len(w.kvs) + 1
        <5>1. i \in 1 .. Len(w.kvs) /\ v.kvs[i] = w.kvs[i]
          BY <2>5, <3>0, <4>2
        <5> QED
          BY <2>7, <5>1 DEF CollectInv, GoneCollected
      <4> QED
        BY <4>1, <4>2
    <3>6. n + 1 <= v.j - 1 + Len(v.kvs) \/ v.j > Len(v.slots)
      <4>1. CASE j = Len(s)
        <5>1. v.j > Len(v.slots)
          BY <3>d, <4>1
        <5> QED
          BY <5>1
      <4>2. CASE j # Len(s)
        <5>1. v.j = j /\ n <= j - 1 + Len(w.kvs)
          BY <3>c, <3>d, <4>2
        <5>2. n + 1 <= j - 1 + (Len(w.kvs) + 1)
          BY <3>0, <3>d, <5>1
        <5> QED
          BY <3>d, <5>1, <5>2
      <4> QED
        BY <4>1, <4>2
    <3>7. GoneCollected(U, a, v)
      BY <3>4, <3>5 DEF GoneCollected
    <3> QED
      BY <3>1, <3>2, <3>3, <3>6, <3>7 DEF CollectInv
  <2> QED
    BY <2>6, <2>7 DEF v
<1> QED
  BY <1>1, <1>2, <1>3, <1>4

\* f holds what the loop has after each of its rounds.
CollectRounds(f, slots, a) ==
    /\ f[0] = [slots |-> slots, j |-> 1, kvs |-> <<>>]
    /\ \A i \in 1 .. Len(slots) : f[i] = CollectRound(a, f[i - 1])

\* The loop is the last of its rounds.
LEMMA CollectLoopIs ==
    ASSUME NEW U \in SUBSET Entry, NEW slots \in Seq(U), NEW a
    PROVE  \E f \in [0 .. Len(slots) -> CollectType(U)] :
              CollectLoop(slots, a) = f[Len(slots)] /\ CollectRounds(f, slots, a)
<1> DEFINE S == CollectType(U)
           n == Len(slots)
           b == [slots |-> slots, j |-> 1, kvs |-> <<>>]
           step == [w \in S |-> CollectRound(a, w)]
<1>1. n \in Nat
  OBVIOUS
<1>2. b \in S
  BY DEF CollectType
<1>3. step \in [S -> S]
  BY CollectRoundKeeps
<1>4. \A w \in S : step[w] = CollectRound(a, w)
  OBVIOUS
<1> HIDE DEF S, n, step, b
<1>a. PICK f \in [0 .. n -> S] : Iterated(f, n, b, step)
  BY <1>1, <1>2, <1>3, Iterates
<1>5. f[0] = b /\ \A i \in 1 .. n : f[i] = step[f[i - 1]]
  BY <1>a DEF Iterated
<1>6. \A i \in 1 .. n : f[i - 1] \in S /\ f[i] = CollectRound(a, f[i - 1])
  <2> TAKE i \in 1 .. n
  <2>1. i - 1 \in 0 .. n
    BY <1>1
  <2>2. f[i - 1] \in S
    BY <2>1
  <2> QED
    BY <1>4, <1>5, <2>2
<1>7. f = [i \in 0 .. n |-> IF i = 0 THEN b ELSE CollectRound(a, f[i - 1])]
  BY <1>1, <1>5, <1>6
<1> DEFINE Walk == CHOOSE g : g = [i \in 0 .. n |-> IF i = 0 THEN b ELSE CollectRound(a, g[i - 1])]
<1>8. Walk = [i \in 0 .. n |-> IF i = 0 THEN b ELSE CollectRound(a, Walk[i - 1])]
  BY <1>7
<1>9. CollectLoop(slots, a) = Walk[n]
  BY DEF CollectLoop, n, b
<1> HIDE DEF Walk
<1>10. DOMAIN Walk = 0 .. n /\ Walk[0] = b /\ \A i \in 1 .. n : Walk[i] = CollectRound(a, Walk[i - 1])
  BY <1>1, <1>8
<1> DEFINE P == {i \in 0 .. n : Walk[i] = f[i]}
<1>11. 0 \in P
  BY <1>1, <1>5, <1>10
<1>12. \A i \in 1 .. n : i - 1 \in P => i \in P
  BY <1>1, <1>6, <1>10
<1>13. 0 .. n \subseteq P
  <2> HIDE DEF P
  <2> QED
    BY <1>1, <1>11, <1>12, Induction
<1>14. Walk[n] = f[n]
  BY <1>1, <1>13
<1> QED
  BY <1>5, <1>6, <1>9, <1>14 DEF S, n, b, CollectRounds

\* collect_kv takes the entries of a cell out of a bucket, all of them and
\* no other, and each pair once.
LEMMA CollectsAll ==
    ASSUME NEW b, b.items \in SUBSET Entry, IsFiniteSet(b.items), NEW slots \in Orders(b), NEW a
    PROVE  LET walk == CollectLoop(slots, a)
           IN  /\ SetOf(walk.slots) = b.items \ AtCell(b, a)
               /\ Len(walk.kvs) = Cardinality(AtCell(b, a))
               /\ SetOf(walk.kvs) = {e.kv : e \in AtCell(b, a)}
<1> DEFINE U == b.items
           n == Len(slots)
           Inv(i, w) == CollectInv(U, n, a, i, w)
<1>1. /\ slots \in Seq(U) /\ n \in Nat /\ n = Cardinality(U)
      /\ Distinct(slots) /\ \A e \in U : Among(slots, e)
  BY OrderFacts
<1>b. PICK f \in [0 .. Len(slots) -> CollectType(U)] :
              CollectLoop(slots, a) = f[Len(slots)] /\ CollectRounds(f, slots, a)
  <2>1. U \in SUBSET Entry /\ slots \in Seq(U)
    BY <1>1
  <2> HIDE DEF U
  <2> QED
    BY <2>1, CollectLoopIs, Zenon
<1>2. /\ f \in [0 .. n -> CollectType(U)]
      /\ CollectLoop(slots, a) = f[n]
      /\ f[0] = [slots |-> slots, j |-> 1, kvs |-> <<>>]
      /\ \A i \in 1 .. n : f[i] = CollectRound(a, f[i - 1])
  BY <1>b DEF CollectRounds
<1>3. Inv(0, f[0])
  <2>1. f[0].slots = slots /\ f[0].j = 1 /\ f[0].kvs = <<>> /\ Len(<<>>) = 0
    BY <1>2
  <2>2. GoneCollected(U, a, f[0])
    BY <1>1, <2>1 DEF GoneCollected
  <2>3. \A i \in 1 .. n : ~(i < 1)
    BY <1>1
  <2> QED
    BY <1>1, <2>1, <2>2, <2>3 DEF CollectInv
<1>4. \A i \in 1 .. n : Inv(i - 1, f[i - 1]) => Inv(i, f[i])
  <2> TAKE i \in 1 .. n
  <2>1. i - 1 \in Nat /\ (i - 1) + 1 = i /\ f[i - 1] \in CollectType(U) /\ U \in SUBSET Entry
    BY <1>1, <1>2
  <2> HIDE DEF U
  <2>2. CollectInv(U, n, a, i - 1, f[i - 1])
            => CollectInv(U, n, a, (i - 1) + 1, CollectRound(a, f[i - 1]))
    BY <1>1, <2>1, CollectRoundKeeps
  <2> QED
    BY <1>2, <2>1, <2>2
<1>5. Inv(n, f[n])
  <2> DEFINE P == {i \in 0 .. n : Inv(i, f[i])}
  <2> HIDE DEF Inv
  <2>1. 0 \in P /\ \A i \in 1 .. n : i - 1 \in P => i \in P
    BY <1>1, <1>3, <1>4
  <2>2. 0 .. n \subseteq P
    <3> HIDE DEF P
    <3> QED
      BY <1>1, <2>1, Induction
  <2> QED
    BY <1>1, <2>2
<1> DEFINE w == f[n]
<1>a. w \in CollectType(U) /\ CollectInv(U, n, a, n, w)
  BY <1>1, <1>2, <1>5
<1> HIDE DEF w
<1>6. /\ w.slots \in Seq(U) /\ w.kvs \in Seq(KV) /\ w.j \in Nat
      /\ Distinct(w.slots) /\ GoneCollected(U, a, w)
      /\ \A i \in 1 .. Len(w.slots) : i < w.j => w.slots[i].at # a
  BY <1>a DEF CollectInv, CollectType
<1>7. Len(w.slots) \in Nat /\ Len(w.kvs) \in Nat
  BY <1>6
<1>c. /\ Len(w.slots) + Len(w.kvs) = n
      /\ n <= w.j - 1 + Len(w.kvs) \/ w.j > Len(w.slots)
  BY <1>a, Zenon DEF CollectInv
<1>8. w.j > Len(w.slots)
  <2>1. w.j \in Nat
    BY <1>6
  <2> DEFINE l == Len(w.slots)
             q == Len(w.kvs)
             j == w.j
  <2>2. l \in Nat /\ q \in Nat /\ j \in Nat /\ l + q = n
    BY <1>7, <1>c, <2>1
  <2>3. ASSUME n <= j - 1 + q PROVE j > l
    <3> HIDE DEF n, l, q, j
    <3> QED
      BY <2>2, <2>3
  <2> QED
    BY <1>c, <2>3
<1>9. \A i \in 1 .. Len(w.slots) : w.slots[i].at # a
  BY <1>6, <1>7, <1>8
<1>10. SetOf(w.slots) = U \ AtCell(b, a)
  <2>1. SetOf(w.slots) \subseteq U /\ \A e : e \in SetOf(w.slots) <=> Among(w.slots, e)
    BY <1>6, InSetOf
  <2>2. ASSUME NEW e \in SetOf(w.slots) PROVE e \in U \ AtCell(b, a)
    BY <1>9, <2>1 DEF Among, AtCell
  <2>3. ASSUME NEW e \in U \ AtCell(b, a) PROVE e \in SetOf(w.slots)
    BY <1>6, <2>1 DEF GoneCollected, AtCell
  <2> QED
    BY <2>2, <2>3
<1>11. Len(w.kvs) = Cardinality(AtCell(b, a))
  <2>1. AtCell(b, a) \subseteq U
    BY DEF AtCell
  <2>2. /\ IsFiniteSet(AtCell(b, a)) /\ Cardinality(AtCell(b, a)) \in Nat
        /\ Cardinality(U \ AtCell(b, a)) = Cardinality(U) - Cardinality(U \cap AtCell(b, a))
    BY <2>1, FS_Subset, FS_Difference, FS_CardinalityType
  <2>3. U \cap AtCell(b, a) = AtCell(b, a)
    BY <2>1
  <2>4. Cardinality(SetOf(w.slots)) = Len(w.slots)
    BY <1>6, LengthIsCardinality
  <2> QED
    <3> DEFINE A == Cardinality(AtCell(b, a))
    <3>1. A \in Nat /\ Len(w.slots) = n - A
      BY <1>1, <1>10, <2>2, <2>3, <2>4
    <3> HIDE DEF A, n
    <3>2. Len(w.kvs) = A
      BY <1>1, <1>7, <1>c, <3>1
    <3> QED
      BY <3>2 DEF A
<1>12. SetOf(w.kvs) = {e.kv : e \in AtCell(b, a)}
  <2>1. \A x : x \in SetOf(w.kvs) <=> Among(w.kvs, x)
    BY <1>6, InSetOf
  <2>2. ASSUME NEW x \in SetOf(w.kvs) PROVE x \in {e.kv : e \in AtCell(b, a)}
    <3>1. PICK i \in 1 .. Len(w.kvs) : w.kvs[i] = x
      BY <2>1 DEF Among
    <3> QED
      BY <1>6, <3>1 DEF GoneCollected, AtCell
  <2>3. ASSUME NEW e \in AtCell(b, a) PROVE e.kv \in SetOf(w.kvs)
    <3>1. e \in U /\ e.at = a /\ ~Among(w.slots, e)
      BY <1>9 DEF Among, AtCell
    <3> QED
      BY <1>6, <2>1, <3>1 DEF GoneCollected
  <2> QED
    BY <2>2, <2>3
<1> QED
  BY <1>2, <1>10, <1>11, <1>12 DEF w

-----------------------------------------------------------------------------
(* The loop of check_bucket.                                               *)

\* What the loop keeps: the slots passed hold entries that are looked up in
\* the bucket, d, and none of these is gone; after n rounds the slots passed
\* and the entries gone are n, or the loop is over.
Stays(ps, d, x) == query_bucket(cell, ps, KeyOf[x.kv]) = d
CheckType(U) == [slots : Seq(U), i : Nat \ {0}]
StayingKept(U, ps, d, w) ==
    /\ \A l \in 1 .. Len(w.slots) : l < w.i => Stays(ps, d, w.slots[l])
    /\ \A x \in U : Among(w.slots, x) \/ ~Stays(ps, d, x)
CheckInv(U, count, ps, d, n, w) ==
    /\ StayingKept(U, ps, d, w)
    /\ n <= w.i - 1 + (count - Len(w.slots)) \/ w.i > Len(w.slots)

\* A round keeps the invariant.
LEMMA CheckRoundKeeps ==
    ASSUME NEW U, NEW count \in Nat, NEW ps, NEW d, NEW n \in Nat, NEW w \in CheckType(U)
    PROVE  /\ CheckRound(ps, d, w) \in CheckType(U)
           /\ CheckInv(U, count, ps, d, n, w)
                => CheckInv(U, count, ps, d, n + 1, CheckRound(ps, d, w))
<1> DEFINE v == CheckRound(ps, d, w)
           s == w.slots
           i == w.i
<1>1. /\ s \in Seq(U) /\ i \in Nat \ {0} /\ Len(s) \in Nat
      /\ \A l \in 1 .. Len(s) : s[l] \in U
  BY DEF CheckType
<1>2. CASE i > Len(s)
  BY <1>1, <1>2 DEF CheckRound, CheckInv
<1>3. CASE i <= Len(s) /\ Stays(ps, d, s[i])
  <2>1. v = [w EXCEPT !.i = i + 1]
    BY <1>1, <1>3 DEF CheckRound, Stays
  <2>2. v.slots = s /\ v.i = i + 1 /\ v \in CheckType(U)
    BY <1>1, <2>1 DEF CheckType
  <2>3. ASSUME CheckInv(U, count, ps, d, n, w) PROVE CheckInv(U, count, ps, d, n + 1, v)
    <3> HIDE DEF v
    <3>1. ASSUME NEW l \in 1 .. Len(s), l < i + 1 PROVE Stays(ps, d, s[l])
      <4>1. l < i \/ l = i
        BY <1>1, <3>1
      <4>2. l < i => Stays(ps, d, s[l])
        BY <2>3 DEF CheckInv, StayingKept
      <4> QED
        BY <1>3, <4>1, <4>2
    <3>2. StayingKept(U, ps, d, v)
      BY <2>2, <2>3, <3>1 DEF CheckInv, StayingKept
    <3>3. n <= i - 1 + (count - Len(s)) \/ i > Len(s)
      BY <2>3 DEF CheckInv
    <3>4. n + 1 <= v.i - 1 + (count - Len(v.slots)) \/ v.i > Len(v.slots)
      <4> HIDE DEF s, i
      <4> QED
        BY <1>1, <2>2, <3>3
    <3> QED
      BY <3>2, <3>4 DEF CheckInv
  <2> QED
    BY <2>2, <2>3
<1>4. CASE i <= Len(s) /\ ~Stays(ps, d, s[i])
  <2> DEFINE r == [s EXCEPT ![i] = s[Len(s)]]
             t == SubSeq(r, 1, Len(s) - 1)
  <2>1. v = [w EXCEPT !.slots = t]
    BY <1>1, <1>4 DEF CheckRound, Stays
  <2>2. i \in 1 .. Len(s) /\ Len(s) \in 1 .. Len(s)
    BY <1>1, <1>4
  <2> HIDE DEF s, i
  <2>3. /\ r \in Seq(U) /\ Len(r) = Len(s)
        /\ \A l \in 1 .. Len(s) : r[l] = IF l = i THEN s[Len(s)] ELSE s[l]
    BY <1>1, <2>2, ExceptSeq
  <2> HIDE DEF r
  <2>4. t \in Seq(U) /\ Len(t) = Len(s) - 1 /\ \A l \in 1 .. Len(s) - 1 : t[l] = r[l]
    BY <1>1, <1>4, <2>3, Shorter
  <2> HIDE DEF t
  <2>5. \A l \in 1 .. Len(s) - 1 : t[l] = IF l = i THEN s[Len(s)] ELSE s[l]
    BY <1>1, <2>3, <2>4
  <2>6. \A x : Among(s, x) => Among(t, x) \/ x = s[i]
    <3>1. /\ Len(s) \in Nat /\ i \in 1 .. Len(s) /\ Len(t) = Len(s) - 1
          /\ \A l \in 1 .. Len(s) - 1 : t[l] = IF l = i THEN s[Len(s)] ELSE s[l]
      BY <1>1, <2>2, <2>4, <2>5
    <3> QED
      BY <3>1, Replaced
  <2>7. v.slots = t /\ v.i = i /\ v \in CheckType(U)
    BY <1>1, <2>1, <2>4 DEF CheckType, s, i
  <2> HIDE DEF v
  <2>8. ASSUME CheckInv(U, count, ps, d, n, w) PROVE CheckInv(U, count, ps, d, n + 1, v)
    <3>1. /\ \A l \in 1 .. Len(s) : l < i => Stays(ps, d, s[l])
          /\ \A x \in U : Among(s, x) \/ ~Stays(ps, d, x)
      BY <2>8 DEF CheckInv, StayingKept, s, i
    <3>2. n <= i - 1 + (count - Len(s)) \/ i > Len(s)
      BY <2>8 DEF CheckInv, s, i
    <3>3. ASSUME NEW l \in 1 .. Len(t), l < i PROVE Stays(ps, d, t[l])
      <4>1. l \in 1 .. Len(s) - 1 /\ l \in 1 .. Len(s) /\ l # i
        BY <1>1, <2>2, <2>4, <3>3
      <4>2. t[l] = s[l]
        BY <2>5, <4>1
      <4> QED
        BY <3>1, <3>3, <4>1, <4>2
    <3>4. \A x \in U : Among(t, x) \/ ~Stays(ps, d, x)
      BY <1>4, <2>6, <3>1 DEF s, i
    <3>5. StayingKept(U, ps, d, v)
      BY <2>7, <3>3, <3>4 DEF StayingKept
    <3>6. n + 1 <= i - 1 + (count - Len(t))
      BY <1>1, <2>2, <2>4, <3>2
    <3> QED
      BY <2>7, <3>5, <3>6 DEF CheckInv
  <2> QED
    BY <2>7, <2>8 DEF v
<1> QED
  BY <1>1, <1>2, <1>3, <1>4

\* f holds what the loop has after each of its rounds.
CheckRounds(f, slots, ps, d) ==
    /\ f[0] = [slots |-> slots, i |-> 1]
    /\ \A l \in 1 .. Len(slots) : f[l] = CheckRound(ps, d, f[l - 1])

\* The loop is the last of its rounds.
LEMMA CheckLoopIs ==
    ASSUME NEW U, NEW slots \in Seq(U), NEW ps, NEW d
    PROVE  \E f \in [0 .. Len(slots) -> CheckType(U)] :
              CheckLoop(slots, ps, d) = f[Len(slots)].slots /\ CheckRounds(f, slots, ps, d)
<1> DEFINE S == CheckType(U)
           n == Len(slots)
           b == [slots |-> slots, i |-> 1]
           step == [w \in S |-> CheckRound(ps, d, w)]
<1>1. n \in Nat
  OBVIOUS
<1>2. b \in S
  BY DEF CheckType
<1>3. step \in [S -> S]
  BY CheckRoundKeeps
<1>4. \A w \in S : step[w] = CheckRound(ps, d, w)
  OBVIOUS
<1> HIDE DEF S, n, step, b
<1>a. PICK f \in [0 .. n -> S] : Iterated(f, n, b, step)
  BY <1>1, <1>2, <1>3, Iterates
<1>5. f[0] = b /\ \A l \in 1 .. n : f[l] = step[f[l - 1]]
  BY <1>a DEF Iterated
<1>6. \A l \in 1 .. n : f[l - 1] \in S /\ f[l] = CheckRound(ps, d, f[l - 1])
  <2> TAKE l \in 1 .. n
  <2>1. l - 1 \in 0 .. n
    BY <1>1
  <2>2. f[l - 1] \in S
    BY <2>1
  <2> QED
    BY <1>4, <1>5, <2>2
<1>7. f = [l \in 0 .. n |-> IF l = 0 THEN b ELSE CheckRound(ps, d, f[l - 1])]
  BY <1>1, <1>5, <1>6
<1> DEFINE Walk ==
        CHOOSE g : g = [l \in 0 .. n |-> IF l = 0 THEN b ELSE CheckRound(ps, d, g[l - 1])]
<1>8. Walk = [l \in 0 .. n |-> IF l = 0 THEN b ELSE CheckRound(ps, d, Walk[l - 1])]
  BY <1>7
<1>9. CheckLoop(slots, ps, d) = Walk[n].slots
  BY DEF CheckLoop, n, b
<1> HIDE DEF Walk
<1>10. Walk[0] = b /\ \A l \in 1 .. n : Walk[l] = CheckRound(ps, d, Walk[l - 1])
  BY <1>1, <1>8
<1> DEFINE P == {l \in 0 .. n : Walk[l] = f[l]}
<1>11. 0 \in P
  BY <1>1, <1>5, <1>10
<1>12. \A l \in 1 .. n : l - 1 \in P => l \in P
  BY <1>1, <1>6, <1>10
<1>13. 0 .. n \subseteq P
  <2> HIDE DEF P
  <2> QED
    BY <1>1, <1>11, <1>12, Induction
<1>14. Walk[n] = f[n]
  BY <1>1, <1>13
<1> QED
  BY <1>5, <1>6, <1>9, <1>14 DEF S, n, b, CheckRounds

\* check_bucket keeps the entries that are looked up in the bucket, all of
\* them and no other.
LEMMA ChecksAll ==
    ASSUME NEW b, IsFiniteSet(b.items), NEW slots \in Orders(b), NEW ps, NEW d
    PROVE  SetOf(CheckLoop(slots, ps, d)) = {x \in b.items : Stays(ps, d, x)}
<1> DEFINE U == b.items
           n == Len(slots)
           Inv(l, w) == CheckInv(U, n, ps, d, l, w)
<1>1. slots \in Seq(U) /\ n \in Nat /\ \A x \in U : Among(slots, x)
  BY OrderFacts
<1>a. PICK f \in [0 .. Len(slots) -> CheckType(U)] :
              CheckLoop(slots, ps, d) = f[Len(slots)].slots /\ CheckRounds(f, slots, ps, d)
  <2> HIDE DEF U
  <2> QED
    BY <1>1, CheckLoopIs, Zenon
<1>2. /\ f \in [0 .. n -> CheckType(U)]
      /\ CheckLoop(slots, ps, d) = f[n].slots
      /\ f[0] = [slots |-> slots, i |-> 1]
      /\ \A l \in 1 .. n : f[l] = CheckRound(ps, d, f[l - 1])
  BY <1>a DEF CheckRounds
<1>3. Inv(0, f[0])
  <2>1. f[0].slots = slots /\ f[0].i = 1
    BY <1>2
  <2>2. StayingKept(U, ps, d, f[0])
    BY <1>1, <2>1 DEF StayingKept
  <2>3. 0 <= 1 - 1 + (n - n)
    BY <1>1
  <2> QED
    BY <2>1, <2>2, <2>3 DEF CheckInv
<1>4. \A l \in 1 .. n : Inv(l - 1, f[l - 1]) => Inv(l, f[l])
  <2> TAKE l \in 1 .. n
  <2>1. l - 1 \in Nat /\ (l - 1) + 1 = l /\ f[l - 1] \in CheckType(U)
    BY <1>1, <1>2
  <2> HIDE DEF U
  <2>2. CheckInv(U, n, ps, d, l - 1, f[l - 1])
            => CheckInv(U, n, ps, d, (l - 1) + 1, CheckRound(ps, d, f[l - 1]))
    BY <1>1, <2>1, CheckRoundKeeps
  <2> QED
    BY <1>2, <2>1, <2>2
<1>5. Inv(n, f[n])
  <2> DEFINE P == {l \in 0 .. n : Inv(l, f[l])}
  <2> HIDE DEF Inv
  <2>1. 0 \in P /\ \A l \in 1 .. n : l - 1 \in P => l \in P
    BY <1>1, <1>3, <1>4
  <2>2. 0 .. n \subseteq P
    <3> HIDE DEF P
    <3> QED
      BY <1>1, <2>1, Induction
  <2> QED
    BY <1>1, <2>2
<1> DEFINE w == f[n]
<1>6. w \in CheckType(U) /\ StayingKept(U, ps, d, w)
  BY <1>1, <1>2, <1>5 DEF CheckInv
<1>7. n <= w.i - 1 + (n - Len(w.slots)) \/ w.i > Len(w.slots)
  BY <1>5 DEF CheckInv
<1> HIDE DEF w
<1>8. w.slots \in Seq(U) /\ Len(w.slots) \in Nat /\ w.i \in Nat
  BY <1>6 DEF CheckType
<1>9. w.i > Len(w.slots)
  <2> DEFINE l == Len(w.slots)
             i == w.i
  <2>1. l \in Nat /\ i \in Nat /\ (n <= i - 1 + (n - l) \/ i > l)
    BY <1>7, <1>8
  <2> HIDE DEF l, i, n
  <2>2. i > l
    BY <1>1, <2>1
  <2> QED
    BY <2>2 DEF l, i
<1>10. \A l \in 1 .. Len(w.slots) : Stays(ps, d, w.slots[l])
  BY <1>6, <1>8, <1>9 DEF StayingKept
<1>11. SetOf(w.slots) \subseteq U /\ \A x : x \in SetOf(w.slots) <=> Among(w.slots, x)
  BY <1>8, InSetOf
<1>12. ASSUME NEW x \in SetOf(w.slots) PROVE x \in U /\ Stays(ps, d, x)
  BY <1>10, <1>11 DEF Among
<1>13. ASSUME NEW x \in U, Stays(ps, d, x) PROVE x \in SetOf(w.slots)
  BY <1>6, <1>11, <1>13 DEF StayingKept
<1> QED
  BY <1>2, <1>12, <1>13 DEF w

-----------------------------------------------------------------------------
(* The property.                                                           *)

\* The walks do what MapEmbed makes of them when buckets are finite sets of
\* entries.
LEMMA Walks == TypeOK /\ FiniteBuckets => WalksTakeAll
<1> SUFFICES ASSUME TypeOK, FiniteBuckets, NEW d \in DOMAIN bucket, NEW slots \in Orders(bucket[d])
    PROVE  /\ \A a \in Cell :
                 LET walk == CollectLoop(slots, a)
                 IN  /\ SetOf(walk.slots) = bucket[d].items \ AtCell(bucket[d], a)
                     /\ Len(walk.kvs) = Cardinality(AtCell(bucket[d], a))
                     /\ SetOf(walk.kvs) = {e.kv : e \in AtCell(bucket[d], a)}
           /\ LET kept == CheckLoop(slots, PageSize, d)
              IN  SetOf(kept)
                    = check_bucket(cell, PageSize, d, [bucket[d] EXCEPT !.check = FALSE]).items
  BY DEF WalksTakeAll
<1>1. d \in Buckets /\ bucket[d] \in BucketType
  BY DEF TypeOK, BucketType
<1>2. bucket[d].items \in SUBSET Entry /\ IsFiniteSet(bucket[d].items)
  BY <1>1 DEF FiniteBuckets, BucketType
<1>3. check_bucket(cell, PageSize, d, [bucket[d] EXCEPT !.check = FALSE]).items
        = {x \in bucket[d].items : Stays(PageSize, d, x)}
  BY <1>1 DEF check_bucket, Stays, BucketType
<1>4. SetOf(CheckLoop(slots, PageSize, d)) = {x \in bucket[d].items : Stays(PageSize, d, x)}
  BY <1>2, ChecksAll
<1> QED
  BY <1>2, <1>3, <1>4, CollectsAll

\* The loops of collect_kv and check_bucket, which take entries out of the
\* array they walk, take out each entry they should, once, and no other, in
\* every reachable state and for every order of the slots.
THEOREM LoopsTakeAll == Spec => []WalksTakeAll
<1>1. IInv => TypeOK /\ FiniteBuckets
  BY DEF IInv
<1> QED
  BY <1>1, Invariance, Walks, PTL

-----------------------------------------------------------------------------
(* Powers of two and sums of them.                                         *)

\* What the size of a bitmap says of its places.
LEMMA PlacesFacts ==
    /\ 2 * cell_hash - 2 \in Nat
    /\ cell_hash \in Nat \ {0} /\ cell_hash \in Places
    /\ 0 .. cell_hash \subseteq Places
    /\ Places \subseteq Nat
  BY SizeAssumption DEF Places

\* Each power is twice the one before.
LEMMA PowerFacts ==
    /\ \A g \in Places : Power[g] \in Nat \ {0}
    /\ Power[0] = 1
    /\ \A g \in Places : g # 0 => g - 1 \in Places /\ Power[g] = 2 * Power[g - 1]
<1> DEFINE n == 2 * cell_hash - 2
           S == Nat \ {0}
           step == [w \in S |-> 2 * w]
<1>1. n \in Nat /\ Places = 0 .. n /\ 1 \in S /\ step \in [S -> S]
  BY PlacesFacts DEF Places
<1>2. \A w \in S : step[w] = 2 * w
  OBVIOUS
<1> HIDE DEF n, S, step
<1>3. PICK f \in [0 .. n -> S] : Iterated(f, n, 1, step)
  BY <1>1, Iterates
<1>4. f[0] = 1 /\ \A g \in 1 .. n : f[g] = step[f[g - 1]]
  BY <1>3 DEF Iterated
<1>5. \A g \in 1 .. n : g - 1 \in 0 .. n /\ f[g - 1] \in S /\ f[g] = 2 * f[g - 1]
  <2> TAKE g \in 1 .. n
  <2>1. g - 1 \in 0 .. n
    BY <1>1
  <2>2. f[g - 1] \in S
    BY <2>1
  <2> QED
    BY <1>2, <1>4, <2>1, <2>2
<1>6. f = [g \in Places |-> IF g = 0 THEN 1 ELSE 2 * f[g - 1]]
  BY <1>1, <1>4, <1>5
<1>7. Power = [g \in Places |-> IF g = 0 THEN 1 ELSE 2 * Power[g - 1]]
  BY <1>6 DEF Power
<1>8. Power[0] = 1 /\ \A g \in 1 .. n : Power[g] = 2 * Power[g - 1]
  BY <1>1, <1>7
<1> DEFINE P == {g \in 0 .. n : Power[g] \in S}
<1>9. 0 \in P /\ \A g \in 1 .. n : g - 1 \in P => g \in P
  <2>1. 0 \in P
    BY <1>1, <1>8
  <2>2. ASSUME NEW g \in 1 .. n, g - 1 \in P PROVE g \in P
    <3>1. g \in 0 .. n /\ Power[g] = 2 * Power[g - 1]
      BY <1>1, <1>8
    <3>2. Power[g - 1] \in Nat \ {0}
      BY <2>2 DEF S
    <3> HIDE DEF P
    <3>3. Power[g] \in S
      BY <3>1, <3>2 DEF S
    <3> QED
      BY <3>1, <3>3 DEF P
  <2> QED
    BY <2>1, <2>2
<1>10. 0 .. n \subseteq P
  <2> HIDE DEF P
  <2> QED
    BY <1>1, <1>9, Induction
<1> QED
  BY <1>1, <1>8, <1>10 DEF S

\* Powers multiply as their exponents add.
LEMMA PowerSum ==
    ASSUME NEW i \in Nat, NEW j \in Nat, i + j \in Places
    PROVE  Power[i + j] = Power[i] * Power[j]
<1> DEFINE P == {l \in 0 .. j : Power[i + l] = Power[i] * Power[l]}
<1>1. ASSUME NEW l \in 0 .. j
      PROVE  i + l \in Places /\ l \in Places /\ i \in Places
  BY PlacesFacts DEF Places
<1>2. 0 \in P
  <2>1. i \in Places
    BY <1>1
  <2>2. Power[i] \in Nat /\ Power[0] = 1 /\ i + 0 = i
    BY <2>1, PowerFacts
  <2>3. Power[i + 0] = Power[i] * Power[0]
    BY <2>2
  <2> QED
    BY <2>3
<1>3. ASSUME NEW l \in 1 .. j, l - 1 \in P
      PROVE  l \in P
  <2>1. i + l \in Places /\ l \in Places /\ i \in Places /\ l # 0 /\ i + l # 0
    BY <1>1
  <2>2. l - 1 \in Places /\ (i + l) - 1 = i + (l - 1)
    BY <2>1, PowerFacts
  <2>3. Power[i + l] = 2 * Power[i + (l - 1)] /\ Power[l] = 2 * Power[l - 1]
    BY <2>1, <2>2, PowerFacts
  <2>4. Power[i + (l - 1)] = Power[i] * Power[l - 1]
    BY <1>3
  <2> DEFINE x == Power[i]
             y == Power[l - 1]
  <2>5. x \in Nat /\ y \in Nat
    BY <2>1, <2>2, PowerFacts
  <2> HIDE DEF x, y
  <2>6. 2 * (x * y) = x * (2 * y)
    BY <2>5
  <2>7. Power[i + l] = Power[i] * Power[l]
    BY <2>3, <2>4, <2>6 DEF x, y
  <2> QED
    BY <2>7
<1> HIDE DEF P
<1>4. 0 .. j \subseteq P
  BY <1>2, <1>3, Induction
<1>5. j \in P
  BY <1>4
<1> QED
  BY <1>5 DEF P

\* The place g in the bitmap of T.
Bit(T, g) == IF g \in T THEN Power[g] ELSE 0

\* A bitmap is the sum of its bits.
LEMMA SumsFacts ==
    ASSUME NEW T
    PROVE  /\ \A i \in 0 .. cell_hash : Sums(T)[i] \in Nat
           /\ Sums(T)[0] = 0
           /\ \A i \in 1 .. cell_hash : Sums(T)[i] = Sums(T)[i - 1] + Bit(T, i - 1)
<1> DEFINE n == cell_hash
           S == Nat \X Nat
           next(w) == IF w[1] \in 0 .. n THEN w[2] + Bit(T, w[1]) ELSE 0
           step == [w \in S |-> <<w[1] + 1, next(w)>>]
<1>1. n \in Nat /\ <<0, 0>> \in S
  BY PlacesFacts
<1>2. \A g \in 0 .. n : Bit(T, g) \in Nat
  BY PlacesFacts, PowerFacts DEF Bit
<1>3. \A w \in S : w[1] + 1 \in Nat /\ next(w) \in Nat
  BY <1>2
<1>4. step \in [S -> S] /\ \A w \in S : step[w][1] = w[1] + 1 /\ step[w][2] = next(w)
  <2> HIDE DEF next
  <2> QED
    BY <1>3
<1> HIDE DEF n, S, step, next
<1>5. PICK f \in [0 .. n -> S] : Iterated(f, n, <<0, 0>>, step)
  BY <1>1, <1>4, Iterates
<1>6. f[0] = <<0, 0>> /\ \A i \in 1 .. n : f[i] = step[f[i - 1]]
  BY <1>5 DEF Iterated
<1>7. \A i \in 1 .. n : i - 1 \in 0 .. n /\ f[i - 1] \in S
  BY <1>1
<1> DEFINE P == {i \in 0 .. n : f[i][1] = i}
<1>8. 0 \in P /\ \A i \in 1 .. n : i - 1 \in P => i \in P
  <2>1. 0 \in P
    BY <1>1, <1>6
  <2>2. ASSUME NEW i \in 1 .. n, f[i - 1][1] = i - 1 PROVE f[i][1] = i
    <3>1. f[i][1] = f[i - 1][1] + 1
      BY <1>4, <1>6, <1>7
    <3> QED
      BY <1>1, <2>2, <3>1
  <2> QED
    BY <1>7, <2>1, <2>2
<1> HIDE DEF P
<1>9. 0 .. n \subseteq P
  BY <1>1, <1>8, Induction
<1>10. \A i \in 0 .. n : f[i][1] = i /\ f[i][2] \in Nat
  BY <1>9 DEF P, S
<1> DEFINE s == [i \in 0 .. n |-> f[i][2]]
<1>11. \A i \in 1 .. n : f[i][2] = f[i - 1][2] + Bit(T, i - 1)
  <2> TAKE i \in 1 .. n
  <2>1. f[i][2] = next(f[i - 1])
    BY <1>4, <1>6, <1>7
  <2>2. f[i - 1][1] = i - 1 /\ i - 1 \in 0 .. n
    BY <1>7, <1>10
  <2> QED
    BY <2>1, <2>2 DEF next
<1>12. s = [i \in 0 .. n |-> IF i = 0 THEN 0 ELSE s[i - 1] + Bit(T, i - 1)]
  BY <1>1, <1>6, <1>7, <1>11
<1> DEFINE R == CHOOSE g : g = [i \in 0 .. n |-> IF i = 0 THEN 0 ELSE g[i - 1] + Bit(T, i - 1)]
<1> HIDE DEF s
<1>13. R = [i \in 0 .. n |-> IF i = 0 THEN 0 ELSE R[i - 1] + Bit(T, i - 1)]
  BY <1>12
<1>14. Sums(T) = R
  BY DEF Sums, Bit, n
<1> HIDE DEF R
<1>15. R[0] = 0 /\ \A i \in 1 .. n : R[i] = R[i - 1] + Bit(T, i - 1)
  BY <1>1, <1>13
<1> DEFINE Q == {i \in 0 .. n : R[i] \in Nat}
<1>16. 0 \in Q /\ \A i \in 1 .. n : i - 1 \in Q => i \in Q
  BY <1>1, <1>2, <1>7, <1>15
<1> HIDE DEF Q
<1>17. 0 .. n \subseteq Q
  BY <1>1, <1>16, Induction
<1> QED
  BY <1>14, <1>15, <1>17 DEF Q, n

\* The members of T from i on, counted from there.
Down(T, i) == {m \in Nat : m + i \in T}

\* A bitmap is its lower bits and, shifted, its upper ones.
LEMMA SumsSplit ==
    ASSUME NEW T, NEW i \in Nat, NEW j \in Nat, i + j \in 0 .. cell_hash
    PROVE  Sums(T)[i + j] = Sums(T)[i] + Power[i] * Sums(Down(T, i))[j]
<1> DEFINE D == Down(T, i)
           F == Sums(T)
           G == Sums(D)
           P == {l \in 0 .. j : F[i + l] = F[i] + Power[i] * G[l]}
<1>0. ASSUME NEW l \in 0 .. j
      PROVE  i + l \in 0 .. cell_hash /\ l \in 0 .. cell_hash /\ i \in 0 .. cell_hash
  BY PlacesFacts
<1>1. /\ F[i] \in Nat /\ Power[i] \in Nat
      /\ \A l \in 0 .. j : G[l] \in Nat /\ F[i + l] \in Nat
  <2>1. i \in 0 .. cell_hash /\ i \in Places
    BY <1>0, PlacesFacts
  <2> QED
    BY <1>0, <2>1, SumsFacts, PowerFacts
<1>2. 0 \in P
  <2>1. G[0] = 0 /\ i + 0 = i
    BY SumsFacts
  <2>2. F[i + 0] = F[i] + Power[i] * G[0]
    <3> HIDE DEF F, G
    <3> QED
      BY <1>1, <2>1
  <2> QED
    BY <2>2
<1>3. ASSUME NEW l \in 1 .. j, l - 1 \in P
      PROVE  l \in P
  <2>1. /\ i + l \in 1 .. cell_hash /\ l \in 1 .. cell_hash /\ l - 1 \in 0 .. j
        /\ (i + l) - 1 = i + (l - 1) /\ i + (l - 1) \in Places /\ l - 1 \in Nat
    BY <1>0, PlacesFacts
  <2>2. F[i + l] = F[i + (l - 1)] + Bit(T, i + (l - 1)) /\ G[l] = G[l - 1] + Bit(D, l - 1)
    BY <2>1, SumsFacts
  <2>3. F[i + (l - 1)] = F[i] + Power[i] * G[l - 1]
    BY <1>3
  <2>4. Bit(T, i + (l - 1)) = Power[i] * Bit(D, l - 1) /\ Bit(D, l - 1) \in Nat
    <3>1. Power[i + (l - 1)] = Power[i] * Power[l - 1]
      BY <2>1, PowerSum
    <3>2. i + (l - 1) \in T <=> l - 1 \in D
      BY <2>1 DEF Down
    <3>3. l - 1 \in Places
      BY <2>1, PlacesFacts
    <3>4. Power[l - 1] \in Nat
      BY <3>3, PowerFacts
    <3> HIDE DEF D
    <3> QED
      BY <1>1, <3>1, <3>2, <3>4 DEF Bit
  <2> DEFINE a == F[i]
             p == Power[i]
             g == G[l - 1]
             b == Bit(D, l - 1)
  <2>5. a \in Nat /\ p \in Nat /\ g \in Nat /\ b \in Nat
    BY <1>1, <2>1, <2>4
  <2>6. F[i + l] = (a + p * g) + p * b /\ G[l] = g + b
    <3> HIDE DEF F, G, D
    <3> QED
      BY <2>2, <2>3, <2>4
  <2> HIDE DEF a, p, g, b
  <2>7. (a + p * g) + p * b = a + p * (g + b)
    BY <2>5
  <2>8. F[i + l] = a + p * G[l]
    <3> HIDE DEF F, G, D
    <3> QED
      BY <2>6, <2>7
  <2> QED
    BY <2>8 DEF a, p
<1> HIDE DEF P
<1>4. 0 .. j \subseteq P
  BY <1>2, <1>3, Induction
<1>5. j \in P
  BY <1>4
<1> QED
  BY <1>5 DEF P

\* The places below i hold less than the power of i.
LEMMA SumsBound ==
    ASSUME NEW T, NEW i \in 0 .. cell_hash
    PROVE  Sums(T)[i] < Power[i]
<1> DEFINE P == {l \in 0 .. cell_hash : Sums(T)[l] < Power[l]}
<1>1. 0 \in P
  BY PlacesFacts, SumsFacts, PowerFacts
<1>2. ASSUME NEW l \in 1 .. cell_hash, l - 1 \in P
      PROVE  l \in P
  <2>1. l \in Places /\ l # 0 /\ l - 1 \in 0 .. cell_hash /\ l \in 0 .. cell_hash
    BY PlacesFacts
  <2>2. l - 1 \in Places /\ Power[l] = 2 * Power[l - 1] /\ Power[l - 1] \in Nat
    BY <2>1, PowerFacts
  <2>3. Sums(T)[l] = Sums(T)[l - 1] + Bit(T, l - 1) /\ Sums(T)[l - 1] \in Nat
    BY <2>1, SumsFacts
  <2>4. Bit(T, l - 1) \in Nat /\ Bit(T, l - 1) <= Power[l - 1]
    BY <2>2 DEF Bit
  <2>5. Sums(T)[l - 1] < Power[l - 1]
    BY <1>2
  <2>6. Sums(T)[l] < Power[l]
    BY <2>2, <2>3, <2>4, <2>5
  <2> QED
    BY <2>1, <2>6
<1> HIDE DEF P
<1>3. 0 .. cell_hash \subseteq P
  BY <1>1, <1>2, PlacesFacts, Induction
<1> QED
  BY <1>3 DEF P

\* Places that T does not use hold nothing.
LEMMA SumsZero ==
    ASSUME NEW T, NEW i \in 0 .. cell_hash, \A g \in T : g \notin 0 .. i - 1
    PROVE  Sums(T)[i] = 0
<1> DEFINE P == {l \in 0 .. i : Sums(T)[l] = 0}
<1>1. 0 \in P
  BY SumsFacts
<1>2. ASSUME NEW l \in 1 .. i, l - 1 \in P
      PROVE  l \in P
  <2>1. l \in 1 .. cell_hash /\ l - 1 \notin T
    BY PlacesFacts
  <2>2. Sums(T)[l] = Sums(T)[l - 1] + Bit(T, l - 1)
    BY <2>1, SumsFacts
  <2>3. Sums(T)[l] = 0
    BY <1>2, <2>1, <2>2 DEF Bit
  <2> QED
    BY <2>3
<1> HIDE DEF P
<1>3. 0 .. i \subseteq P
  BY <1>1, <1>2, Induction
<1> QED
  BY <1>3 DEF P

\* A higher place has a higher power.
LEMMA PowerGrows ==
    ASSUME NEW i \in Places, NEW g \in Places, i <= g
    PROVE  Power[i] <= Power[g]
<1>1. g - i \in Places /\ i \in Nat /\ g - i \in Nat /\ i + (g - i) = g
  BY PlacesFacts DEF Places
<1>2. Power[g] = Power[i] * Power[g - i]
  BY <1>1, PowerSum
<1> DEFINE x == Power[i]
           y == Power[g - i]
<1>3. x \in Nat \ {0} /\ y \in Nat \ {0}
  BY <1>1, PowerFacts
<1> HIDE DEF x, y
<1>4. x <= x * y
  BY <1>3
<1> QED
  BY <1>2, <1>4 DEF x, y

\* The bit of place g of a bitmap says whether g is in the set.
LEMMA BitOfSum ==
    ASSUME NEW T, NEW i \in 0 .. cell_hash, NEW g \in 0 .. i - 1
    PROVE  (Sums(T)[i] \div Power[g]) % 2 = 1 <=> g \in T
<1> DEFINE D == Down(T, g)
           l == i - g
           E == Down(D, 1)
           lower == Sums(T)[g]
           upper == Sums(D)[l]
           rest == Sums(E)[l - 1]
           p == Power[g]
           bit == IF g \in T THEN 1 ELSE 0
<1>1. /\ g \in Nat /\ l \in Nat \ {0} /\ l - 1 \in Nat /\ g + l = i /\ 1 + (l - 1) = l
      /\ g \in 0 .. cell_hash /\ l \in 0 .. cell_hash /\ l - 1 \in 0 .. cell_hash
      /\ g \in Places /\ 1 \in 1 .. cell_hash /\ 1 \in Places /\ 0 \in Places
  BY PlacesFacts, SizeAssumption DEF Places
<1>2. Sums(T)[i] = lower + p * upper
  <2>1. Sums(T)[g + l] = Sums(T)[g] + Power[g] * Sums(Down(T, g))[l]
    BY <1>1, SumsSplit
  <2> HIDE DEF l
  <2> QED
    BY <1>1, <2>1
<1>3. upper = Sums(D)[1] + Power[1] * rest
  <2> HIDE DEF D, l
  <2>1. Sums(D)[1 + (l - 1)] = Sums(D)[1] + Power[1] * Sums(Down(D, 1))[l - 1]
    BY <1>1, SumsSplit
  <2> QED
    BY <1>1, <2>1
<1>4. lower \in Nat /\ upper \in Nat /\ rest \in Nat /\ p \in Nat \ {0} /\ lower < p
  <2> HIDE DEF D, E, l
  <2> QED
    BY <1>1, SumsFacts, SumsBound, PowerFacts
<1>5. Power[1] = 2
  BY <1>1, PowerFacts
<1>6. Sums(D)[1] = bit
  <2>1. 0 \in D <=> g \in T
    BY <1>1 DEF Down
  <2> HIDE DEF D
  <2>2. Sums(D)[1] = Sums(D)[0] + Bit(D, 0) /\ Sums(D)[0] = 0
    BY <1>1, SumsFacts
  <2>3. Bit(D, 0) = bit
    BY <2>1, PowerFacts DEF Bit
  <2> QED
    BY <2>2, <2>3
<1>7. bit \in 0 .. 2 - 1
  OBVIOUS
<1> HIDE DEF lower, upper, rest, p
<1>8. upper = bit + rest * 2
  <2> HIDE DEF bit, D
  <2> QED
    BY <1>3, <1>4, <1>5, <1>6, <1>7
<1>9. Sums(T)[i] = lower + upper * p
  BY <1>2, <1>4
<1>10. Sums(T)[i] \div p = upper
  <2>1. lower \in 0 .. p - 1
    BY <1>4
  <2> QED
    BY <1>4, <1>9, <2>1, DivModOf
<1>11. upper % 2 = bit
  <2> HIDE DEF bit
  <2> QED
    BY <1>4, <1>7, <1>8, DivModOf
<1> QED
  BY <1>10, <1>11 DEF p

\* The bits of a bitmap are the set it was made of.
LEMMA BitsOfSums ==
    ASSUME NEW T, NEW i \in 0 .. cell_hash
    PROVE  Bits(Sums(T)[i]) = T \cap 0 .. i - 1
<1>1. ASSUME NEW g \in Places, g \notin 0 .. i - 1
      PROVE  (Sums(T)[i] \div Power[g]) % 2 = 0
  <2>1. i \in Places /\ i <= g
    BY <1>1, PlacesFacts
  <2> DEFINE p == Power[g]
             x == Sums(T)[i]
  <2>2. x \in Nat /\ p \in Nat \ {0} /\ x < p
    <3>1. Sums(T)[i] < Power[i] /\ Power[i] <= Power[g]
      BY <2>1, SumsBound, PowerGrows
    <3>2. x \in Nat /\ p \in Nat \ {0} /\ Power[i] \in Nat
      BY <2>1, SumsFacts, PowerFacts
    <3> QED
      BY <3>1, <3>2
  <2> HIDE DEF p, x
  <2>3. x = x + 0 * p /\ x \in 0 .. p - 1
    BY <2>2
  <2>4. x \div p = 0
    BY <2>2, <2>3, DivModOf
  <2> QED
    BY <2>4 DEF p, x
<1>2. 0 .. i - 1 \subseteq Places
  BY PlacesFacts
<1>3. \A g \in Places :
         (Sums(T)[i] \div Power[g]) % 2 = 1 <=> g \in T \cap 0 .. i - 1
  BY <1>1, BitOfSum
<1> QED
  BY <1>2, <1>3 DEF Bits

\* A place turned by v: those that leave at the top come back at the bottom.
LEMMA TurnedPlace ==
    ASSUME NEW g \in Guides, NEW v \in Guides
    PROVE  (g + v) % cell_hash = IF g + v < cell_hash THEN g + v ELSE g + v - cell_hash
<1>1. cell_hash \in Nat \ {0} /\ g \in 0 .. cell_hash - 1 /\ v \in 0 .. cell_hash - 1
  BY Sizes DEF Guides
<1>2. CASE g + v < cell_hash
  <2>1. g + v \in 0 .. cell_hash - 1 /\ (g + v) + 0 * cell_hash = g + v
    BY <1>1, <1>2
  <2>2. ((g + v) + 0 * cell_hash) % cell_hash = g + v
    BY <1>1, <2>1, DivModOf
  <2> QED
    BY <1>2, <2>1, <2>2
<1>3. CASE ~(g + v < cell_hash)
  <2>1. /\ g + v - cell_hash \in 0 .. cell_hash - 1
        /\ (g + v - cell_hash) + 1 * cell_hash = g + v
    BY <1>1, <1>3
  <2>2. ((g + v - cell_hash) + 1 * cell_hash) % cell_hash = g + v - cell_hash
    BY <1>1, <2>1, DivModOf
  <2> QED
    BY <1>3, <2>1, <2>2
<1> QED
  BY <1>2, <1>3

\* The bitmap of a set of guides, turned, has the bits of the turned guides.
LEMMA Turned ==
    ASSUME NEW S \in SUBSET Guides, NEW v \in Guides
    PROVE  ShiftedBits(BitmapOf(S), v) = {(g + v) % cell_hash : g \in S}
<1> DEFINE c == cell_hash
           k == c - v
           up == {m \in Nat : m - v \in S}
           over == Down(S, k)
           low == Sums(up)[c]
           high == Sums(over)[v]
<1>1. /\ v \in Nat /\ k \in Nat /\ k + v = c /\ v + k = c
      /\ v \in 0 .. c - 1 /\ v \in 0 .. c /\ k \in 0 .. c /\ c \in 0 .. c /\ c \in Nat \ {0}
      /\ v \in Places /\ k \in Places /\ c \in Places /\ v <= c
      /\ \A g \in S : g \in Nat /\ g < c
  BY PlacesFacts, Sizes DEF Guides
<1> HIDE DEF c, k, up, over
<1>2. Sums(S)[c] = Sums(S)[k] + Power[k] * high
  <2>1. k + v \in 0 .. cell_hash
    BY <1>1 DEF c
  <2>2. Sums(S)[k + v] = Sums(S)[k] + Power[k] * Sums(Down(S, k))[v]
    BY <1>1, <2>1, SumsSplit
  <2> QED
    BY <1>1, <2>2 DEF over
<1>3. low = Power[v] * Sums(S)[k]
  <2>1. v + k \in 0 .. cell_hash
    BY <1>1 DEF c
  <2>2. Sums(up)[v + k] = Sums(up)[v] + Power[v] * Sums(Down(up, v))[k]
    BY <1>1, <2>1, SumsSplit
  <2>3. Down(up, v) = S
    <3>1. \A m \in Nat : (m + v) - v = m /\ m + v \in Nat
      BY <1>1
    <3>2. \A m \in Nat : m + v \in up <=> m \in S
      BY <3>1 DEF up
    <3>3. S \subseteq Nat
      BY <1>1
    <3> QED
      BY <3>2, <3>3 DEF Down
  <2>4. \A g \in up : g \notin 0 .. v - 1
    BY <1>1 DEF up
  <2>5. Sums(up)[v] = 0
    BY <1>1, <2>4, SumsZero DEF c
  <2>6. Power[v] \in Nat /\ Sums(S)[k] \in Nat
    BY <1>1, PowerFacts, SumsFacts DEF c
  <2>7. Sums(up)[c] = 0 + Power[v] * Sums(S)[k]
    BY <1>1, <2>2, <2>3, <2>5
  <2> QED
    BY <2>6, <2>7
<1>4. Power[c] = Power[k] * Power[v]
  BY <1>1, PowerSum
<1> DEFINE pc == Power[c]
           pk == Power[k]
           pv == Power[v]
           part == Sums(S)[k]
<1>5. /\ pc \in Nat \ {0} /\ pk \in Nat \ {0} /\ pv \in Nat \ {0} /\ pv <= pc
      /\ low \in Nat /\ low < pc /\ high \in Nat /\ high < pv /\ part \in Nat
  BY <1>1, PowerFacts, PowerGrows, SumsFacts, SumsBound DEF c
<1>6. BitmapOf(S) = part + pk * high
  BY <1>2 DEF BitmapOf, c
<1>7. ShiftedBits(BitmapOf(S), v)
        = Bits((BitmapOf(S) * pv) % pc)
            \cup Bits((((BitmapOf(S) * pv) \div pc) % pv) % pc)
  BY DEF ShiftedBits, c
<1> HIDE DEF low, high, pc, pk, pv, part
<1>8. BitmapOf(S) * pv = low + high * pc
  <2>1. low = pv * part
    BY <1>3 DEF pv, part
  <2>2. pc = pk * pv
    BY <1>4 DEF pc, pk, pv
  <2>3. (part + pk * high) * pv = pv * part + high * (pk * pv)
    BY <1>5
  <2> QED
    BY <1>6, <2>1, <2>2, <2>3
<1>9. (BitmapOf(S) * pv) \div pc = high /\ (BitmapOf(S) * pv) % pc = low
  <2>1. low \in 0 .. pc - 1
    BY <1>5
  <2> QED
    BY <1>5, <1>8, <2>1, DivModOf
<1>10. high % pv = high /\ high % pc = high
  <2>1. high \in 0 .. pv - 1 /\ high \in 0 .. pc - 1 /\ high + 0 * pv = high /\ high + 0 * pc = high
    BY <1>5
  <2>2. (high + 0 * pv) % pv = high /\ (high + 0 * pc) % pc = high
    BY <1>5, <2>1, DivModOf
  <2> QED
    BY <2>1, <2>2
<1>11. ShiftedBits(BitmapOf(S), v) = Bits(low) \cup Bits(high)
  BY <1>7, <1>9, <1>10
<1>12. Bits(low) = up \cap 0 .. c - 1 /\ Bits(high) = over \cap 0 .. v - 1
  BY <1>1, BitsOfSums DEF low, high, c
<1>13. ASSUME NEW g \in S
       PROVE  (g + v) % c \in (up \cap 0 .. c - 1) \cup (over \cap 0 .. v - 1)
  <2>1. (g + v) % c = IF g + v < c THEN g + v ELSE g + v - c
    BY TurnedPlace DEF c
  <2>2. CASE g + v < c
    <3>1. g + v \in up \cap 0 .. c - 1
      BY <1>1, <2>2 DEF up
    <3> QED
      BY <2>1, <2>2, <3>1
  <2>3. CASE ~(g + v < c)
    <3>1. g + v - c \in Nat /\ (g + v - c) + k = g /\ g + v - c \in 0 .. v - 1
      BY <1>1, <2>3 DEF k
    <3>2. g + v - c \in over
      BY <3>1 DEF over, Down
    <3> QED
      BY <2>1, <2>3, <3>1, <3>2
  <2> QED
    BY <2>2, <2>3
<1>14. ASSUME NEW m \in up \cap 0 .. c - 1
       PROVE  \E g \in S : m = (g + v) % c
  <2>1. m - v \in S /\ (m - v) + v = m /\ m < c
    BY <1>1 DEF up
  <2>2. ((m - v) + v) % c = m
    BY <2>1, TurnedPlace DEF c
  <2> QED
    BY <2>1, <2>2
<1>15. ASSUME NEW m \in over \cap 0 .. v - 1
       PROVE  \E g \in S : m = (g + v) % c
  <2>1. m + k \in S /\ (m + k) + v - c = m /\ ~((m + k) + v < c)
    BY <1>1 DEF over, Down, k
  <2>2. ((m + k) + v) % c = m
    BY <2>1, TurnedPlace DEF c
  <2> QED
    BY <2>1, <2>2
<1> QED
  BY <1>11, <1>12, <1>13, <1>14, <1>15 DEF c

\* The bitmaps turn as dispense_kvs turns the guides.
LEMMA Turns == TypeOK => BitmapsTurn
<1> SUFFICES ASSUME TypeOK, NEW a \in Cell, NEW v \in cell[a] .. cell_full
    PROVE  LET kvs == collect_kv(bucket, PageSize, a)
           IN  ShiftedBits(calculate_kvs_initial_bitmap(kvs), v) = {kvs_now_guide(x, v) : x \in kvs}
  BY DEF BitmapsTurn
<1> DEFINE kvs == collect_kv(bucket, PageSize, a)
           S == {kvs_initial_guide(x) : x \in kvs}
<1>1. hash \in Hashes /\ cell[a] \in 0 .. cell_full
  BY DEF TypeOK
<1>2. v \in Guides
  BY <1>1, Sizes DEF Guides
<1>3. kvs \in SUBSET KV
  <2>1. cell_bucket(PageSize, a) \subseteq Buckets
    BY PageFacts
  <2>2. ASSUME NEW d \in cell_bucket(PageSize, a), NEW e \in AtCell(bucket[d], a)
        PROVE  e.kv \in KV
    <3>1. bucket[d].items \in SUBSET Entry
      BY <2>1 DEF TypeOK
    <3> QED
      BY <3>1 DEF AtCell, Entry
  <2> QED
    BY <2>2 DEF collect_kv
<1> HIDE DEF kvs
<1>4. \A x \in kvs : kvs_initial_guide(x) \in Guides
  <2> TAKE x \in kvs
  <2>1. 0 \in Nat /\ x \in KV
    BY <1>3
  <2> QED
    BY <1>1, <2>1, NowGuide
<1>5. S \in SUBSET Guides
  BY <1>4
<1>6. {(g + v) % cell_hash : g \in S} = {kvs_now_guide(x, v) : x \in kvs}
  BY DEF kvs_now_guide
<1>7. calculate_kvs_initial_bitmap(kvs) = BitmapOf(S)
  BY DEF calculate_kvs_initial_bitmap
<1> HIDE DEF S
<1>8. ShiftedBits(BitmapOf(S), v) = {(g + v) % cell_hash : g \in S}
  BY <1>2, <1>5, Turned
<1> QED
  BY <1>6, <1>7, <1>8 DEF kvs

\* The bitmap of the pairs of a cell, rotated by a cell value, holds the
\* guides of the pairs under that value, in every reachable state.
THEOREM RotationTurnsGuides == Spec => []BitmapsTurn
<1>1. IInv => TypeOK
  BY DEF IInv
<1> QED
  BY <1>1, Invariance, Turns, PTL
===============================================================================
