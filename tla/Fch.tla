--------------------------------- MODULE Fch ---------------------------------
(***************************************************************************)
(* The construction fch of CMPH (cmph/src/fch.c, fch_buckets.c): keys fall *)
(* into b buckets by a first hash; the buckets are taken by decreasing     *)
(* size, and each gets a displacement that moves the second hashes of its  *)
(* keys to free positions.  brz uses it for its buckets.                   *)
(***************************************************************************)
EXTENDS CmphFormat

fch_iterations == 100          \* mappings
searching_iterations == 10     \* second hashes that split every bucket
iteration_to_generate_h2 == 1000

fch_c(c) == IF c[1] <= 2 * c[2] THEN <<26, 10>> ELSE c
fch_calc_b(c, m) == IF m = 0 THEN 0 ELSE CeilDiv(1000 * c[1] * m, c[2] * (Log2[m] + 1000))
fch_calc_p1(m) == CeilDiv(55 * m, 100)
fch_calc_p2(b) == CeilDiv(3 * b, 10)

mixh10h11h12(b, p1, p2, initial_index) ==
    IF initial_index < p1 THEN initial_index % p2
    ELSE LET i == initial_index % b IN IF i < p2 THEN i + p2 ELSE i

\* The bucket of a key under the first hash.
fch_bucket(h1, k, b, m) == mixh10h11h12(b, fch_calc_p1(m), fch_calc_p2(b), h1[k] % m)

\* The buckets: the keys of each, in the order they were read.
fch_mapping(keys, h1, b) ==
    [i \in 0..(b - 1) |->
        Those(keys, {j \in DOMAIN keys : fch_bucket(h1, keys[j], b, Len(keys)) = i})]

\* The buckets by decreasing size, equal sizes in the order of their index.
fch_buckets_get_indexes_sorted_by_size(buckets) ==
    Ranked(DOMAIN buckets,
           {p \in (DOMAIN buckets) \X (DOMAIN buckets) :
               \/ Len(buckets[p[1]]) > Len(buckets[p[2]])
               \/ Len(buckets[p[1]]) = Len(buckets[p[2]]) /\ p[1] < p[2]})

check_for_collisions_h2(buckets, h2, m) ==
    \E i \in DOMAIN buckets : \E x, y \in DOMAIN buckets[i] :
        x # y /\ h2[buckets[i][x]] % m = h2[buckets[i][y]] % m

-----------------------------------------------------------------------------
(***************************************************************************)
(* random_table lists the positions 0 .. m - 1, the taken ones first;      *)
(* map_table is its inverse, WhereIs.  A try s has the table, the number   *)
(* of taken positions, the displacement d and whether every key fitted.    *)
(***************************************************************************)
WhereIs(random_table, p) == CHOOSE y \in DOMAIN random_table : random_table[y] = p

\* Position p is taken unless it is already.
Take(s, p) ==
    LET y == WhereIs(s.table, p)
    IN  IF y < s.filled THEN [s EXCEPT !.ok = FALSE]
        ELSE [s EXCEPT !.table = [s.table EXCEPT ![y] = s.table[s.filled], ![s.filled] = p],
                       !.filled = @ + 1]

\* The keys of a bucket with one displacement.  When one does not fit the
\* positions are free again, but the table stays as it was permuted.
KeysTaken(table, filled, bucket, h2, m, d) ==
    LET taken[i \in 0..Len(bucket)] ==
            IF i = 0 THEN [table |-> table, filled |-> filled, d |-> d, ok |-> TRUE]
            ELSE LET s == taken[i - 1]
                 IN  IF s.ok THEN Take(s, (h2[bucket[i]] + d) % m) ELSE s
    IN  taken
PlaceBucket(table, filled, bucket, h2, m, d) ==
    LET s == KeysTaken(table, filled, bucket, h2, m, d)[Len(bucket)]
    IN  IF s.ok THEN s ELSE [s EXCEPT !.filled = filled]

\* The displacements that send the first key to random_table[filled + z],
\* until one fits.
Displacement(table, filled, bucket, h2, m, z) ==
    (m + table[filled + z] - (h2[bucket[1]] % m)) % m
Displace(table, filled, bucket, h2, m) ==
    LET try[z \in 0..(m - filled)] ==
            IF z = 0 THEN [table |-> table, filled |-> filled, d |-> 0, ok |-> FALSE]
            ELSE LET s == try[z - 1]
                 IN  IF s.ok THEN s
                     ELSE PlaceBucket(s.table, filled, bucket, h2, m,
                                      Displacement(s.table, filled, bucket, h2, m, z - 1))
    IN  try

\* One round of the loop of searching(): all buckets that have a key.
SearchBucketOf(s, i, buckets, h2, m) ==
    LET t == Displace(s.table, s.filled, buckets[i], h2, m)[m - s.filled]
    IN  IF ~s.ok \/ buckets[i] = <<>> THEN s
        ELSE [table |-> t.table, filled |-> t.filled, ok |-> t.ok,
              g |-> IF t.ok THEN [s.g EXCEPT ![i] = t.d] ELSE s.g]
Searched(buckets, table, h2, m) ==
    LET order == fch_buckets_get_indexes_sorted_by_size(buckets)
        searched[j \in 0..Len(order)] ==
            IF j = 0 THEN [table |-> table, filled |-> 0, ok |-> TRUE,
                           g |-> [i \in DOMAIN buckets |-> 0]]
            ELSE SearchBucketOf(searched[j - 1], order[j], buckets, h2, m)
    IN  searched
fch_searching(buckets, table, h2, m) ==
    Searched(buckets, table, h2, m)[Cardinality(DOMAIN buckets)]

fch_new(keys, h1, h2, c, b, g) ==
    [size |-> Len(keys),
     data |-> [h1 |-> h1, h2 |-> h2, m |-> Len(keys), c |-> c, b |-> b,
               p1 |-> fch_calc_p1(Len(keys)), p2 |-> fch_calc_p2(b), g |-> g]]

fch_search(d, k) ==
    ((d.h2[k] % d.m) + d.g[mixh10h11h12(d.b, d.p1, d.p2, d.h1[k] % d.m)]) % d.m

-----------------------------------------------------------------------------
Double(x) == <<8, x>>

fch_dump(d) ==
    hash_state_dump(d.h1) \o hash_state_dump(d.h2)
    \o <<U32(d.m), Double(d.c), U32(d.b), Double(d.p1), Double(d.p2), Array(4, d.g)>>

fch_load(f) ==
    [h1 |-> hash_state_load(f, 1), h2 |-> hash_state_load(f, 3), m |-> f[5][2], c |-> f[6][2],
     b |-> f[7][2], p1 |-> f[8][2], p2 |-> f[9][2], g |-> f[10][2]]

\* p1 and p2 are cut to integers, which they are.
fch_pack(d) ==
    hash_state_pack(d.h1) \o hash_state_pack(d.h2)
    \o <<U32(d.m), U32(d.b), Double(d.p1), Double(d.p2), Array(4, d.g)>>

fch_packed_size(d) == 4 + 2 * hash_state_packed_size + 4 * 4 + 2 * 8 + 4 * d.b

fch_search_packed(p, k) ==
    LET h2_ptr == 4 + hash_state_packed_size
        g_ptr  == h2_ptr + 4 + hash_state_packed_size
    IN  fch_search([h1 |-> At(p, 4), h2 |-> At(p, h2_ptr + 4), m |-> At(p, g_ptr),
                    b |-> At(p, g_ptr + 4), p1 |-> At(p, g_ptr + 8), p2 |-> At(p, g_ptr + 16),
                    g |-> At(p, g_ptr + 24)], k)
=============================================================================
