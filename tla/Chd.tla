--------------------------------- MODULE Chd ---------------------------------
(***************************************************************************)
(* The constructions chd_ph and chd of CMPH (cmph/src/chd_ph.c, chd.c):    *)
(* keys fall into buckets; the buckets, largest first, are displaced until *)
(* all their keys find room in a bin, and the displacements are stored as  *)
(* a compressed sequence.  chd makes the function minimal: it subtracts    *)
(* from a bin the number of empty bins before it.                          *)
(*                                                                         *)
(* The hash state hl yields three numbers: hl[k][1] for the bucket of a    *)
(* key, hl[k][2] and hl[k][3] for its positions.                           *)
(***************************************************************************)
EXTENDS Succinct, SequencesExt

chd_ph_iterations == 100
mapping_iterations == 1000

chd_ph_config_set_b(keys_per_bucket) ==
    IF keys_per_bucket \in 1..14 THEN keys_per_bucket ELSE 4
chd_ph_config_set_keys_per_bin(keys_per_bin) ==
    IF keys_per_bin \in 2..127 THEN keys_per_bin ELSE 1

\* a to the power d, modulo n: one round for every bit of d.
int_pow(a, d, n) ==
    LET pow[i \in 0..31] ==
            IF i = 0 THEN [a |-> a, d |-> d, r |-> 1]
            ELSE LET s == pow[i - 1]
                 IN  [a |-> (s.a * s.a) % n, d |-> s.d \div 2,
                      r |-> IF s.d % 2 = 1 THEN (s.r * s.a) % n ELSE s.r]
    IN  pow[31].r

\* n - 1 = 2^s * d with d odd; some a^(2^i * d) tells that n may be prime.
check_witness(a, n) ==
    LET s == CHOOSE s \in 1..30 : (n - 1) % power2[s] = 0 /\ ((n - 1) \div power2[s]) % 2 = 1
        d == (n - 1) \div power2[s]
    IN  \/ int_pow(a, d, n) = 1
        \/ \E i \in 0..(s - 1) : int_pow(a, d * power2[i], n) = n - 1

\* The primes 3, 5, 7 and 61 are refused.
check_primality(n) ==
    /\ \A p \in {2, 3, 5, 7} : n % p # 0
    /\ \A a \in {2, 7, 61} : check_witness(a, n)

\* The first of n, n + 2, n + 4, ... that is accepted.
IsNextPrime(n, p) ==
    check_primality(p) /\ \A q \in n..(p - 1) : (q - n) % 2 = 0 => ~check_primality(q)
Candidates(n) == {n + 2 * i : i \in 0..(n + 5)}
NextPrime(n) == CHOOSE p \in Candidates(n) : IsNextPrime(n, p)

load_factor(c) ==
    IF 2 * c[1] < c[2] THEN <<1, 2>> ELSE IF 100 * c[1] >= 99 * c[2] THEN <<99, 100>> ELSE c

\* The numbers of buckets and of bins, which is a prime that is not below
\* an odd number.
chd_ph_nbuckets(m, keys_per_bucket) == (m \div keys_per_bucket) + 1
OddBins(c, m, keys_per_bin) ==
    LET lf == load_factor(c)
        n == (m * lf[2]) \div (keys_per_bin * lf[1]) + 1
    IN  IF n % 2 = 0 THEN n + 1 ELSE n
chd_ph_n(c, m, keys_per_bin) == NextPrime(OddBins(c, m, keys_per_bin))

\* A twentieth of 2^20 for every bit of m: none at all for a single key.
max_probes(m) == (52429 * Log2[m]) \div 1000

-----------------------------------------------------------------------------
\* chd_ph_map_item_t: the bucket of a key, and f and h of its positions.
chd_ph_map_item(hl, k, n, nbuckets) ==
    [g |-> hl[k][1] % nbuckets, f |-> hl[k][2] % n, h |-> (hl[k][3] % (n - 1)) + 1]

\* The items by bucket; two equal ones spoil the hash state.
chd_ph_mapping(keys, hl, n, nbuckets) ==
    LET items == [i \in DOMAIN keys |-> chd_ph_map_item(hl, keys[i], n, nbuckets)]
    IN  [ok |-> \A i, j \in DOMAIN items : items[i] = items[j] => i = j,
         buckets |-> [g \in 0..(nbuckets - 1) |-> Those(items, {i \in DOMAIN items : items[i].g = g})]]

\* The buckets of a size, in the order of their index.
chd_ph_ordering(buckets, size) == InOrder({g \in DOMAIN buckets : Len(buckets[g]) = size})

\* Where probe number q puts an item: q is probe0_num + probe1_num * n.
Position(item, q, n) == (item.f + (item.h * (q % n)) + (q \div n)) % n

\* An item takes a place in bin p, which holds keys_per_bin keys.
AddItem(s, p, keys_per_bin) ==
    IF s.occup[p] >= keys_per_bin THEN [s EXCEPT !.ok = FALSE] ELSE [s EXCEPT !.occup[p] = @ + 1]

\* The items of a bucket, up to the first that finds its bin full.
ItemsAdded(occup, bucket, q, n, keys_per_bin) ==
    LET added[i \in 0..Len(bucket)] ==
            IF i = 0 THEN [occup |-> occup, ok |-> TRUE]
            ELSE LET s == added[i - 1]
                 IN  IF s.ok THEN AddItem(s, Position(bucket[i], q, n), keys_per_bin) ELSE s
    IN  added

\* The undoing empties the bins of the bucket, whoever is in them.
wrong_place_bucket_probe(occup, bucket, q, n, keys_per_bin) ==
    LET s == ItemsAdded(occup, bucket, q, n, keys_per_bin)[Len(bucket)]
        bins == {Position(bucket[i], q, n) : i \in DOMAIN bucket}
    IN  IF s.ok THEN s
        ELSE [s EXCEPT !.occup = [p \in DOMAIN occup |-> IF p \in bins THEN 0 ELSE occup[p]]]

\* All the keys of the bucket are placed, or none.
place_bucket_probe(occup, bucket, q, n, keys_per_bin) ==
    LET s == ItemsAdded(occup, bucket, q, n, keys_per_bin)[Len(bucket)]
    IN  IF s.ok THEN s ELSE [s EXCEPT !.occup = occup]

\* All the buckets left over from the rounds before, with probe q.
PlaceBucketOf(t, g, buckets, q, n, keys_per_bin) ==
    LET u == place_bucket_probe(t.occup, buckets[g], q, n, keys_per_bin)
    IN  IF u.ok THEN [t EXCEPT !.occup = u.occup, !.disp[g] = q]
        ELSE [t EXCEPT !.occup = u.occup, !.left = Append(@, g)]
PlaceRound(s, buckets, q, n, keys_per_bin) ==
    LET placed[i \in 0..Len(s.left)] ==
            IF i = 0 THEN [s EXCEPT !.left = <<>>]
            ELSE PlaceBucketOf(placed[i - 1], s.left[i], buckets, q, n, keys_per_bin)
    IN  placed

\* The buckets of a size, with probe q; after the last probe it is too late
\* even when none is left.
PlaceProbe(t, buckets, q, n, probes, keys_per_bin) ==
    LET placed == PlaceRound(t, buckets, q, n, keys_per_bin)[Len(t.left)]
    IN  IF t.left = <<>> \/ ~t.ok THEN t
        ELSE [placed EXCEPT !.ok = ~(q + 1 >= probes \/ (q + 1) \div n >= n)]

\* All probes: probe0_num for every probe1_num.
Probes0(s, buckets, probe1_num, n, probes, keys_per_bin) ==
    LET probed[i \in 0..n] ==
            IF i = 0 THEN s
            ELSE PlaceProbe(probed[i - 1], buckets, (i - 1) + probe1_num * n, n, probes, keys_per_bin)
    IN  probed
PlaceSize(s, buckets, n, probes, keys_per_bin) ==
    LET probed[i \in 0..n] ==
            IF i = 0 THEN s
            ELSE LET t == probed[i - 1]
                 IN  IF t.left = <<>> THEN t
                     ELSE Probes0(t, buckets, i - 1, n, probes, keys_per_bin)[n]
    IN  probed

\* All buckets, the sizes from the number of keys downwards.
place_buckets2(s, buckets, m, n, probes, keys_per_bin) ==
    LET placed[i \in 0..m] ==
            IF i = 0 THEN s
            ELSE LET t == placed[i - 1]
                     sized == [t EXCEPT !.left = chd_ph_ordering(buckets, m + 1 - i)]
                 IN  IF t.ok THEN PlaceSize(sized, buckets, n, probes, keys_per_bin)[n] ELSE t
    IN  placed

\* disp is what earlier failed searches have left in disp_table.
chd_ph_searching(buckets, m, n, keys_per_bin, disp) ==
    place_buckets2([occup |-> [p \in 0..(n - 1) |-> 0], disp |-> disp, left |-> <<>>, ok |-> TRUE],
                   buckets, m, n, max_probes(m), keys_per_bin)[m]

chd_ph_new(hl, n, nbuckets, disp) ==
    [size |-> n,
     data |-> [hl |-> hl, n |-> n, nbuckets |-> nbuckets,
               cs |-> compressed_seq_generate(disp, nbuckets)]]

chd_ph_search(d, k) ==
    LET item == chd_ph_map_item(d.hl, k, d.n, d.nbuckets)
    IN  Position(item, compressed_seq_query(d.cs, item.g), d.n)

chd_ph_dump(d) ==
    hash_state_dump(d.hl) \o <<U32(Size(compressed_seq_dump(d.cs)))>>
    \o compressed_seq_dump(d.cs) \o <<U32(d.n), U32(d.nbuckets)>>

chd_ph_load(f) ==
    [hl |-> hash_state_load(f, 1), cs |-> compressed_seq_load(SubSeq(f, 4, Len(f)), 0),
     n |-> f[Len(f) - 1][2], nbuckets |-> f[Len(f)][2]]

\* n and nbuckets in the order of the file.
wrong_chd_ph_pack(d) ==
    hash_state_pack(d.hl) \o <<U32(d.nbuckets), U32(d.n)>> \o compressed_seq_dump(d.cs)
chd_ph_pack(d) ==
    hash_state_pack(d.hl) \o <<U32(d.n), U32(d.nbuckets)>> \o compressed_seq_dump(d.cs)

chd_ph_packed_size(d) ==
    4 + hash_state_packed_size + compressed_seq_packed_size(d.cs) + 3 * 4

\* p is a packed function from byte offset on.
chd_ph_search_packed(p, offset, k) ==
    LET ptr == offset + 4 + hash_state_packed_size
    IN  chd_ph_search([hl |-> At(p, offset + 4), n |-> At(p, ptr), nbuckets |-> At(p, ptr + 4),
                       cs |-> compressed_seq_load(p, ptr + 8)], k)

-----------------------------------------------------------------------------
\* cmph_pack puts the algorithm before the packed chd_ph function.
PackedPh(d) == <<U32("chd_ph")>> \o chd_ph_pack(d)

\* The bins whose bit in the occupancy table is not set.  With several keys
\* per bin the table has a byte for every bin, and is read as bits anyway.
EmptyBins(occup, n, keys_per_bin) ==
    InOrder({i \in 0..(n - 1) : IF keys_per_bin = 1 THEN occup[i] = 0
                                ELSE (occup[i \div 8] \div power2[i % 8]) % 2 = 0})

\* vals_table has n - m entries, zero where the loop wrote none.
vals_table(occup, m, n, keys_per_bin) ==
    LET empty == EmptyBins(occup, n, keys_per_bin)
    IN  [i \in 0..(n - m - 1) |-> IF i < Len(empty) THEN empty[i + 1] ELSE 0]

\* It has an entry, and room for what the loop writes.
ValsFit(occup, m, n, keys_per_bin) ==
    m < n /\ Len(EmptyBins(occup, n, keys_per_bin)) <= n - m

\* phf is the data of the chd_ph function.
chd_new(m, phf, occup, keys_per_bin) ==
    [size |-> m,
     data |-> [packed_chd_phf |-> PackedPh(phf),
               packed_chd_phf_size |-> chd_ph_packed_size(phf),
               packed_cr |-> compressed_rank_dump(
                   compressed_rank_generate(vals_table(occup, m, phf.n, keys_per_bin), phf.n - m))]]

\* The rank reads a table that has no entry.
RankOutside(d) == compressed_rank_load(d.packed_cr, 0).sel.ones = Outside

chd_search(d, k) ==
    LET bin_idx == chd_ph_search_packed(d.packed_chd_phf, 4, k)
    IN  bin_idx - compressed_rank_query(compressed_rank_load(d.packed_cr, 0), bin_idx)

\* A block of packed bytes; calloc and fwrite take packed_size bytes of it,
\* of which the fields may fill fewer.
Block(fields, size) == <<size, fields>>

chd_dump(d) ==
    <<U32(d.packed_chd_phf_size), Block(d.packed_chd_phf, d.packed_chd_phf_size),
      U32(Size(d.packed_cr)), Block(d.packed_cr, Size(d.packed_cr))>>
chd_load(f) ==
    [packed_chd_phf |-> f[2][2], packed_chd_phf_size |-> f[1][2], packed_cr |-> f[4][2]]

chd_pack(d) ==
    <<U32(Size(d.packed_cr)), Block(d.packed_cr, Size(d.packed_cr)),
      U32(d.packed_chd_phf_size), Block(d.packed_chd_phf, d.packed_chd_phf_size)>>
chd_packed_size(d) == 4 + 2 * 4 + Size(d.packed_cr) + d.packed_chd_phf_size

chd_search_packed(p, k) ==
    LET packed_cr_size == At(p, 0)
    IN  chd_search([packed_cr |-> At(p, 4),
                    packed_chd_phf |-> At(p, 4 + packed_cr_size + 4)], k)
=============================================================================
