--------------------------------- MODULE Brz ----------------------------------
(***************************************************************************)
(* The construction brz of CMPH (cmph/src/brz.c, buffer_manager.c,         *)
(* buffer_entry.c), for key sets that do not fit into memory.  A hash      *)
(* function distributes the keys over k buckets; a buffer of keys is       *)
(* flushed, sorted by bucket, to a temporary file whenever it is full; the *)
(* files are merged, and each bucket that has come together gets a         *)
(* function of its own (fch or bmz8), which is written to the file of the  *)
(* result at once.  So the function can be searched only when it has been  *)
(* dumped and loaded.                                                      *)
(*                                                                         *)
(* Files are sequences of keys, of which the sizes in bytes are kept: the  *)
(* merge reads them through buffers that may end in the middle of a key.   *)
(***************************************************************************)
EXTENDS Fch, Bmz8

CONSTANTS
    Sources,          \* name |-> [c, b, memory, keys, len, h0s, draws]
    Limit,            \* attempts: 20
    MAX_BUCKET_SIZE,  \* the largest value of a byte: 255
    NoKey             \* no key: the end of a file

VARIABLES
    source,      \* the configuration and its key source
    phase,       \* where the construction or the function's life is
    iterations,  \* attempts left
    h0,          \* the hash function of the buckets
    size,        \* bucket |-> its number of keys
    e,           \* keys partitioned, or merged, in this attempt
    buffer,      \* keys read and not yet flushed
    files,       \* the temporary files
    manager,     \* the buffers on the files, and the memory they gave back
    heads,       \* buffer_merge and buffer_h0: the first key of each file
    keys_vd,     \* keys of the bucket that is being collected
    mphf_fd,     \* the file of the result
    mphf,        \* the function, or the packed block
    answers      \* key |-> its value

vars == <<source, phase, iterations, h0, size, e, buffer, files, manager, heads, keys_vd,
          mphf_fd, mphf, answers>>
attempt == <<source, iterations, h0, size>>
merging == <<files, manager, heads, keys_vd>>
result  == <<mphf_fd, mphf, answers>>

Nothing == <<>>

-----------------------------------------------------------------------------
S    == Sources[source]
keys == S.keys
Keys == Range(keys)
m    == Len(keys)
k    == CeilDiv(m, S.b)
Buckets == 0..(k - 1)

\* cmph_new chooses the algorithm of the buckets by c.
algo == IF S.c[1] >= 2 * S.c[2] THEN "fch" ELSE "bmz8"
c == CASE algo = "bmz8" -> IF S.c[1] = 0 THEN <<1, 1>> ELSE S.c
       [] algo = "fch" -> fch_c(S.c)

Bucket(x) == h0[x] % k

\* A key is kept with the four bytes of its length.
Bytes(x) == 4 + S.len[x]
BytesUpTo(ks) ==
    LET bytes[i \in 0..Len(ks)] == IF i = 0 THEN 0 ELSE bytes[i - 1] + Bytes(ks[i])
    IN  bytes
BytesOf(ks) == BytesUpTo(ks)[Len(ks)]

\* The sums of the first values of f, whose domain starts with 0.
Sums(f, n) == LET sum[i \in 0..n] == IF i = 0 THEN 0 ELSE sum[i - 1] + f[i - 1] IN sum

\* The values of g of a bucket of m keys.
LabelCount(a, cc, keyCount) ==
    IF a = "fch" THEN fch_calc_b(cc, keyCount) ELSE CeilMul(cc, keyCount)

-----------------------------------------------------------------------------
\* Partitioning.
Draw ==
    /\ phase = "draw"
    /\ h0' \in S.h0s
    /\ e' = 0 /\ buffer' = <<>> /\ files' = <<>>
    /\ phase' = "partition"
    /\ UNCHANGED <<source, iterations, size, manager, heads, keys_vd, result>>

\* A failure is not counted.
wrong_AttemptFails ==
    /\ phase' = "draw"
    /\ UNCHANGED <<attempt, e, buffer, merging, result>>
\* The attempt has failed.  The sizes of the buckets stay, and so does what
\* is in the file of the result.
AttemptFails ==
    /\ iterations' = iterations - 1
    /\ phase' = IF iterations = 1 THEN "failed" ELSE "draw"
    /\ UNCHANGED <<source, h0, size, e, buffer, merging, result>>

Undefined ==
    /\ phase' = "undefined"
    /\ UNCHANGED <<attempt, e, buffer, merging, result>>

\* The keys come in no order.
wrong_Sorted(ks) == ks
\* The keys by bucket: a counting sort.
Sorted(ks) ==
    LET places == (DOMAIN ks) \X (DOMAIN ks)
        order == Ranked(DOMAIN ks, {p \in places :
                     \/ Bucket(ks[p[1]]) < Bucket(ks[p[2]])
                     \/ Bucket(ks[p[1]]) = Bucket(ks[p[2]]) /\ p[1] < p[2]})
    IN  [i \in DOMAIN order |-> ks[order[i]]]

\* The last key is counted past the byte.
wrong_BucketFull(i) == size[i] > MAX_BUCKET_SIZE
\* A bucket takes no more keys when its size, or its size times c, would
\* not fit a byte.
BucketFull(i) ==
    \/ size[i] = MAX_BUCKET_SIZE
    \/ /\ algo = "bmz8" /\ c[1] >= c[2]
       /\ ((c[1] * size[i]) \div c[2]) % (MAX_BUCKET_SIZE + 1) < size[i]

\* The next key, after a flush when it does not fit into the buffer; a key
\* that is larger than the buffer is written past its end.
Partition ==
    /\ phase = "partition" /\ e < m
    /\ LET x == keys[e + 1]
           flush == BytesOf(buffer) + Bytes(x) > S.memory
       IN  CASE Bytes(x) > S.memory -> Undefined
             [] Bytes(x) <= S.memory /\ BucketFull(Bucket(x)) -> AttemptFails
             [] OTHER ->
                  /\ files' = IF flush THEN Append(files, Sorted(buffer)) ELSE files
                  /\ buffer' = IF flush THEN <<x>> ELSE Append(buffer, x)
                  /\ size' = [size EXCEPT ![Bucket(x)] = @ + 1]
                  /\ e' = e + 1
                  /\ UNCHANGED <<source, phase, iterations, h0, manager, heads, keys_vd, result>>

-----------------------------------------------------------------------------
(***************************************************************************)
(* The buffers.  Buffer i holds nbytes bytes of file i, of which pos have  *)
(* been used; read bytes and next keys of the file have gone before.       *)
(***************************************************************************)
buffer_entry_new(capacity) ==
    [capacity |-> capacity, nbytes |-> capacity, pos |-> capacity, eof |-> FALSE,
     read |-> 0, next |-> 0]

\* The next n bytes of a file of so many bytes; when the buffer does not
\* hold them all it is loaded again, once.
Fetch(en, n, bytes) ==
    LET copied == en.nbytes - en.pos
        loaded == Min({en.capacity, bytes - en.read})
    IN  IF en.pos + n <= en.nbytes THEN [en EXCEPT !.pos = @ + n]
        ELSE [en EXCEPT !.nbytes = loaded, !.read = @ + loaded, !.pos = n - copied,
                        !.eof = @ \/ loaded # en.capacity]

\* The length of a key that lies across the end of the buffer is put
\* together past its variable (keylen + copied_bytes is an address of
\* words), a file that ends where the buffer does is read once more, and the
\* bytes of a long key are copied from past the buffer.
ReadGoesWrong(en, file) ==
    \/ en.pos \in (en.nbytes - 3)..(en.nbytes - 1)
    \/ en.next = Len(file)
    \/ LET x == file[en.next + 1]
           after == Fetch(Fetch(en, 4, BytesOf(file)), S.len[x], BytesOf(file))
       IN  after.pos > after.nbytes

\* The next key of a file and its buffer, which gets memory that another
\* one gave back when it came to the end of its file.
buffer_manager_read_key(man, fs, i) ==
    LET given == man.avail # <<>>
        en == [man.entries[i] EXCEPT !.capacity = IF given THEN @ + Last(man.avail) ELSE @]
        avail == IF given THEN Front(man.avail) ELSE <<>>
        x == fs[i][en.next + 1]
    IN  CASE en.eof /\ en.pos = en.nbytes ->
               [entries |-> [man.entries EXCEPT ![i] = en],
                avail |-> Append(avail, en.capacity), key |-> NoKey, ok |-> TRUE]
          [] ~(en.eof /\ en.pos = en.nbytes) /\ ReadGoesWrong(en, fs[i]) ->
               [entries |-> man.entries, avail |-> avail, key |-> NoKey, ok |-> FALSE]
          [] OTHER ->
               [entries |-> [man.entries EXCEPT ![i] =
                   [Fetch(Fetch(en, 4, BytesOf(fs[i])), S.len[x], BytesOf(fs[i]))
                       EXCEPT !.next = en.next + 1]],
                avail |-> avail, key |-> x, ok |-> TRUE]

\* Without the byte that lets a buffer see the end of a file.
wrong_manager_new(nentries) ==
    [entries |-> [i \in 1..nentries |-> buffer_entry_new(S.memory \div nentries)],
     avail |-> <<>>, key |-> NoKey, ok |-> TRUE]
buffer_manager_new(nentries) ==
    [entries |-> [i \in 1..nentries |-> buffer_entry_new((S.memory \div nentries) + 1)],
     avail |-> <<>>, key |-> NoKey, ok |-> TRUE]

\* The first keys of all the files, one after the other.
Opened(fs) ==
    LET opened[i \in 0..Len(fs)] ==
            IF i = 0 THEN [man |-> buffer_manager_new(Len(fs)), keys |-> <<>>]
            ELSE LET s == opened[i - 1]
                     man == buffer_manager_read_key(s.man, fs, i)
                 IN  IF s.man.ok THEN [man |-> man, keys |-> Append(s.keys, man.key)] ELSE s
    IN  opened

\* UINT_MAX: behind every bucket.
Exhausted == k
HeadOf(x) == [key |-> x, h0 |-> IF x = NoKey THEN Exhausted ELSE Bucket(x)]

\* What __cmph_dump and the beginning of a dump would write.
Header ==
    <<<<4, "brz">>, U32(m), Double(c), U32(algo), U32(k), Array(1, size)>>

\* The last flush, and the preparation of the merge, unless there are too
\* many files.
PartitionEnd ==
    /\ phase = "partition" /\ e = m
    /\ LET fs == Append(files, Sorted(buffer))
           opened == Opened(fs)[Len(fs)]
       IN  IF Len(fs) > 1024 THEN AttemptFails
           ELSE /\ files' = fs
                /\ phase' = IF opened.man.ok THEN "merge" ELSE "undefined"
                /\ manager' = opened.man
                /\ heads' = [i \in DOMAIN opened.keys |-> HeadOf(opened.keys[i])]
                /\ e' = 0 /\ buffer' = <<>> /\ keys_vd' = <<>>
                /\ mphf_fd' = mphf_fd \o Header
                /\ UNCHANGED <<attempt, mphf, answers>>

-----------------------------------------------------------------------------
\* The first file of all.
wrong_min_index(hs) == CHOOSE i \in DOMAIN hs : hs[i].h0 # Exhausted
\* The first of the files whose first key is in the smallest bucket.
brz_min_index(hs) ==
    CHOOSE i \in DOMAIN hs : \A j \in DOMAIN hs :
        hs[i].h0 < hs[j].h0 \/ (hs[i].h0 = hs[j].h0 /\ i <= j)

\* Keys of file i as long as they belong to bucket cur; the last one read
\* does not, or is NoKey.
ReadRun(man, i, cur) ==
    LET run[j \in 0..(Len(files[i]) + 1)] ==
            IF j = 0 THEN [man |-> man, got |-> <<>>, more |-> TRUE]
            ELSE LET s == run[j - 1]
                     next == buffer_manager_read_key(s.man, files, i)
                     more == next.key # NoKey /\ Bucket(next.key) = cur
                 IN  IF ~s.more THEN s
                     ELSE [man |-> next, more |-> more,
                           got |-> IF more THEN Append(s.got, next.key) ELSE s.got]
    IN  run

\* One round of the merge, in which run was read from file i; the bucket is
\* complete when it has its size.
Merged(i, run, ks) ==
    LET full == size[heads[i].h0]
    IN  IF ~run.man.ok \/ Len(ks) > full THEN Undefined
        ELSE /\ manager' = run.man
             /\ heads' = [heads EXCEPT ![i] = HeadOf(run.man.key)]
             /\ keys_vd' = ks
             /\ e' = e + Len(run.got) + 1
             /\ phase' = IF Len(ks) = full THEN "bucket"
                         ELSE IF e' < m THEN "merge" ELSE "built"
             /\ UNCHANGED <<attempt, buffer, files, result>>
Merge ==
    /\ phase = "merge"
    /\ LET i == brz_min_index(heads)
           run == ReadRun(manager, i, heads[i].h0)[Len(files[i]) + 1]
       IN  Merged(i, run, keys_vd \o run.got \o <<heads[i].key>>)

cur_bucket == Bucket(Last(keys_vd))

\* What becomes of the keys of a bucket with the hash functions of a draw:
\* its hash functions and labels, or Nothing.
FchFunction(h, split, search) ==
    IF split /\ search.ok
    THEN [h1 |-> h[1], h2 |-> h[2], g |-> [i \in DOMAIN search.g |-> search.g[i] % 256]]
    ELSE Nothing
Bmz8Function(h, simple, label) ==
    IF simple /\ ~label.restart THEN [h1 |-> h[1], h2 |-> h[2], g |-> label.g] ELSE Nothing
BucketFunction(ks, h) ==
    IF algo = "fch"
    THEN LET buckets == fch_mapping(ks, h[1], fch_calc_b(c, Len(ks)))
         IN  FchFunction(h, ~check_for_collisions_h2(buckets, h[2], Len(ks)),
                         fch_searching(buckets, [i \in 0..(Len(ks) - 1) |-> i], h[2], Len(ks)))
    ELSE LET n == bmz8_n(c, Len(ks))
             mapping == bmz8_gen_edges(ks, h, n)
         IN  Bmz8Function(h, mapping.ok, bmz8_label(mapping.graph, n, c, FALSE))

\* brz_copy_partial_fch_mphf and brz_copy_partial_bmz8_mphf.
Partial(f) == hash_state_dump(f.h1) \o hash_state_dump(f.h2) \o <<Array(1, f.g)>>

\* A bucket gets its function, or, when all draws may go on to fail, none:
\* then the attempt is over.
Generated(f) ==
    IF f = Nothing THEN AttemptFails
    ELSE /\ mphf_fd' = mphf_fd \o Partial(f)
         /\ keys_vd' = <<>>
         /\ phase' = IF e < m THEN "merge" ELSE "built"
         /\ UNCHANGED <<attempt, e, buffer, files, manager, heads, mphf, answers>>
Generate == phase = "bucket" /\ \E h \in S.draws : Generated(BucketFunction(keys_vd, h))

-----------------------------------------------------------------------------
\* A bucket starts where it ends.
wrong_Offsets == [i \in Buckets |-> Sums(size, k)[i + 1]]
Offsets == [i \in Buckets |-> Sums(size, k)[i]]

brz_dump == hash_state_dump(h0) \o <<U32(m), Array(4, Offsets)>>

brz_load(f) ==
    LET kk == f[5][2]
        end == 6 + 5 * kk
    IN  [c |-> f[3][2], algo |-> f[4][2], k |-> kk, size |-> f[6][2],
         h1 |-> [i \in 0..(kk - 1) |-> hash_state_load(f, 6 + 5 * i + 1)],
         h2 |-> [i \in 0..(kk - 1) |-> hash_state_load(f, 6 + 5 * i + 3)],
         g  |-> [i \in 0..(kk - 1) |-> f[6 + 5 * i + 5][2]],
         h0 |-> hash_state_load(f, end + 1), m |-> f[end + 3][2], offset |-> f[end + 4][2]]

\* A function is read for every bucket: with fewer or more in the file the
\* bytes are taken for something else.
Loadable(f) == Len(f) = 6 + 5 * f[5][2] + 4

\* brz_fch_search and brz_bmz8_search in bucket i with the hash functions
\* h1 and h2 and the labels g of that bucket.
SearchBucket(d, i, h1, h2, g, x) ==
    LET mm == d.size[i]
        n == LabelCount(d.algo, d.c, mm)
        ends == <<h1[x] % n, IF h1[x] % n # h2[x] % n THEN h2[x] % n
                             ELSE ((h2[x] % n) + 1) % n>>
        b == mixh10h11h12(n, fch_calc_p1(mm), fch_calc_p2(n), h1[x] % mm)
    IN  IF n = 0 \/ ~({b, ends[1], ends[2]} \subseteq DOMAIN g) THEN Garbage
        ELSE d.offset[i] + (IF d.algo = "fch" THEN (((h2[x] % mm) + g[b]) % mm) % 256
                            ELSE (g[ends[1]] + g[ends[2]]) % 256)

brz_search(d, x) ==
    LET i == d.h0[x] % d.k
    IN  SearchBucket(d, i, d.h1[i], d.h2[i], d.g[i], x)

\* Every bucket is put where the first one is.
wrong_Addresses(d) == [i \in 0..(d.k - 1) |-> 36 + 13 * d.k]
\* In the packed block the labels of a bucket are found by their address,
\* and c is cut to an integer.
Addresses(d) ==
    LET Labels == [i \in 0..(d.k - 1) |-> LabelCount(d.algo, d.c, d.size[i])]
    IN  [i \in 0..(d.k - 1) |-> 36 + 13 * d.k + 8 * i + Sums(Labels, d.k)[i]]

brz_pack(d) ==
    LET Pointers == [i \in 1..d.k |-> <<8, Addresses(d)[i - 1]>>]
        Function(i) == <<<<4, d.h1[i]>>, <<4, d.h2[i]>>, Array(1, d.g[i])>>
    IN  <<U32("brz"), U32(d.algo)>> \o hash_state_pack(d.h0)
        \o <<U32(d.k), <<8, d.c[1] \div d.c[2]>>, U32("jenkins"), U32("jenkins"),
             Array(1, d.size), Array(4, d.offset)>>
        \o Pointers \o FlattenSeq([i \in 1..d.k |-> Function(i - 1)])

brz_packed_size(d) ==
    2 * 4 + 3 * 4 + hash_state_packed_size + 4 + 8 + d.k + 4 * d.k + 8 * d.k
    + 2 * hash_state_packed_size * d.k
    + Sums([i \in 0..(d.k - 1) |-> LabelCount(d.algo, d.c, d.size[i])], d.k)[d.k]

brz_search_packed(p, x) ==
    LET kk == At(p, 16)
        i == At(p, 12)[x] % kk
        g_is == At(p, 36 + 5 * kk + 8 * i)
    IN  SearchBucket([algo |-> At(p, 4), c |-> <<At(p, 20), 1>>, size |-> At(p, 36),
                      offset |-> At(p, 36 + kk)],
                     i, At(p, g_is), At(p, g_is + 4), At(p, g_is + 8), x)

-----------------------------------------------------------------------------
Step(from, to) ==
    /\ phase = from /\ phase' = to
    /\ UNCHANGED <<attempt, e, buffer, merging>>

Dump == Step("built", "dumped") /\ mphf_fd' = mphf_fd \o brz_dump /\ UNCHANGED <<mphf, answers>>

Load ==
    /\ Step("dumped", IF Loadable(mphf_fd) THEN "loaded" ELSE "undefined")
    /\ mphf' = IF Loadable(mphf_fd) THEN brz_load(mphf_fd) ELSE mphf
    /\ answers' = IF Loadable(mphf_fd) THEN [x \in Keys |-> brz_search(mphf', x)] ELSE answers
    /\ UNCHANGED mphf_fd

Pack ==
    /\ Step("loaded", "packed")
    /\ mphf' = [block |-> brz_pack(mphf), packed_size |-> brz_packed_size(mphf)]
    /\ answers' = [x \in Keys |-> brz_search_packed(mphf'.block, x)]
    /\ UNCHANGED mphf_fd

Init ==
    /\ source \in DOMAIN Sources
    /\ phase = "draw" /\ iterations = Limit
    /\ h0 = Nothing /\ size = [i \in Buckets |-> 0]
    /\ e = 0 /\ buffer = <<>> /\ files = <<>>
    /\ manager = Nothing /\ heads = <<>> /\ keys_vd = <<>>
    /\ mphf_fd = <<>> /\ mphf = Nothing /\ answers = Nothing

\* Nothing more to do with a packed function, or without one.
Done == phase \in {"packed", "failed", "undefined"} /\ UNCHANGED vars

Next == Draw \/ Partition \/ PartitionEnd \/ Merge \/ Generate \/ Dump \/ Load \/ Pack \/ Done

Spec == Init /\ [][Next]_vars

-----------------------------------------------------------------------------
Phases == {"draw", "partition", "merge", "bucket", "built", "dumped", "loaded", "packed",
           "failed", "undefined"}

\* The first attempt is the one that counts: later ones start with the
\* sizes of the earlier ones (the hazard at brz.c:150).
FirstAttempt == iterations = Limit

\* Type invariant: sizes fit a byte, and until an attempt has failed they
\* count the keys read, of which none is lost between buffer and files.
TypeOK ==
    /\ phase \in Phases
    /\ size \in [Buckets -> 0..MAX_BUCKET_SIZE]
    /\ iterations \in 0..Limit
    /\ (iterations = 0) = (phase = "failed")
    /\ phase = "partition" =>
          /\ Len(buffer) + Sums([i \in 0..(Len(files) - 1) |-> Len(files[i + 1])],
                               Len(files))[Len(files)] = e
          /\ BytesOf(buffer) <= S.memory
          /\ FirstAttempt => Sums(size, k)[k] = e

\* When the function of a bucket is generated, the keys collected are those of
\* the bucket, each as often as the source holds it, and no key of another
\* one, whichever files they came from and however the buffers cut these (the
\* merge of brz_gen_mphf).
BucketsWhole ==
    (phase = "bucket" /\ FirstAttempt) =>
        \A x \in Keys :
            Cardinality({i \in DOMAIN keys_vd : keys_vd[i] = x})
              = Cardinality({i \in DOMAIN keys : keys[i] = x /\ Bucket(x) = cur_bucket})

\* The function is onto 0 .. m - 1 by the search and, when c is whole, by
\* the search of the packed block, which holds c cut to an integer (the
\* hazard at brz.c:752).
Whole == c[1] % c[2] = 0
Perfect ==
    (phase = "loaded" \/ (phase = "packed" /\ Whole)) => Range(answers) = 0..(m - 1)

\* Packing changes no value, but for that: the addresses that pack stores
\* lead the search to the labels of the right bucket.
AnswersKept == [][(phase = "loaded" /\ Whole) => (answers' = answers)]_vars

\* What is packed fits what brz_packed_size makes the caller allocate.
PackFits == phase = "packed" => Size(mphf.block) <= mphf.packed_size

\* Nothing is written past the packed block, and nothing undefined happens
\* as long as one temporary file is enough, no attempt fails, no bucket is
\* empty, and every key fits into memory: a single file never ends with its
\* buffer nor in a key.
DefinedElsewhere ==
    /\ PackFits
    /\ phase = "undefined" =>
        \/ Len(files) > 1
        \/ ~FirstAttempt
        \/ \E i \in Buckets : size[i] = 0
        \/ \E x \in Keys : Bytes(x) > S.memory

\* A construction comes to an end, whatever is drawn.
Measure ==
    iterations * (3 * m + 5) +
    (CASE phase = "draw" -> 3 * m + 4
       [] phase = "partition" -> 3 * m + 3 - e
       [] phase = "bucket" -> 2 * (m - e) + 2
       [] phase = "merge" -> 2 * (m - e) + 1
       [] OTHER -> 0)
Terminates ==
    [][(phase \in {"draw", "partition", "merge", "bucket"}) => (Measure' < Measure)]_vars
=============================================================================
