--------------------------------- MODULE Cmph ---------------------------------
(***************************************************************************)
(* The CMPH library (cmph/src/cmph.c): a configuration is set up by calls  *)
(* in any order, cmph_new draws hash functions until one of the            *)
(* constructions works or gives up, and the function it returns is written *)
(* to a file, destroyed, loaded, and packed into memory.  The constructions*)
(* are in modules of their own; brz, which works on files, is in Brz.      *)
(*                                                                         *)
(* What hash_state_new yields is not foreseeable: a draw is any member of  *)
(* the set the source of keys comes with.                                  *)
(***************************************************************************)
EXTENDS Chm, Bmz8, Fch, BdzPh, Chd

CONSTANTS
    Sources,   \* name |-> [algo, c, b, keys_per_bin, keys, draws]
    Limit      \* the numbers of attempts of the code are cut down to it

\* Every number of attempts is at least one.
ASSUME LimitAssumption == Limit \in Nat \ {0}

VARIABLES
    config,    \* cmph_config_t: algo, c and the data of the algorithm
    source,    \* the key source cmph_new reads
    phase,     \* where the construction or the function's life is
    draw,      \* the hash functions of this attempt, or NoDraw
    left,      \* attempts left, mappings left
    carry,     \* what an attempt leaves to the next one
    mphf,      \* the function: algo, size and data
    image,     \* the file, or the packed block
    answers    \* key |-> its value, by the last of the three searches

vars == <<config, source, phase, draw, left, carry, mphf, image, answers>>

NoDraw == <<>>
Nothing == <<>>
Algos == {"chm", "bmz", "bmz8", "fch", "bdz", "bdz_ph", "chd_ph", "chd"}
Capped(n) == IF n < Limit THEN n ELSE Limit

\* A source of the client has settings of the types of the setters, keys,
\* and the draws that its construction makes: pairs of hash functions, a
\* first and a second one with a permutation of the positions, or functions
\* that yield three numbers.
ASSUME SourceAssumption ==
    \A s \in DOMAIN Sources :
        LET S == Sources[s]
            HashFunction(h) == \A x \in Range(S.keys) : h[x] \in Nat
            Positions == 0..(Len(S.keys) - 1)
        IN  /\ S.algo \in Algos
            /\ S.c \in Nat \X (Nat \ {0})
            /\ S.b \in Nat /\ S.keys_per_bin \in Nat
            /\ S.keys \in Seq(Range(S.keys))
            /\ S.keys # <<>> => Len(S.keys) \in DOMAIN Log2
            /\ Len(S.keys) < Word
            /\ S.algo \in {"chm", "bmz", "bmz8"} =>
                  \A h \in S.draws : /\ h = [i \in 1..2 |-> h[i]]
                                     /\ HashFunction(h[1]) /\ HashFunction(h[2])
            /\ S.algo = "fch" =>
                  /\ \A h \in S.draws.h1 \cup S.draws.h2 : HashFunction(h)
                  /\ \A t \in S.draws.tables : /\ t \in [Positions -> Positions]
                                               /\ \A p \in Positions : \E y \in Positions : t[y] = p
            /\ S.algo \in {"bdz", "bdz_ph", "chd_ph", "chd"} =>
                  \A h \in S.draws : \A x \in Range(S.keys) : \A i \in 1..3 : h[x][i] \in Nat

\* The search for a prime number of bins comes to an end for every source.
ASSUME PrimesAssumption ==
    \A s \in DOMAIN Sources :
        LET S == Sources[s]
            n == OddBins(S.c, Len(S.keys), chd_ph_config_set_keys_per_bin(S.keys_per_bin))
        IN  S.algo \in {"chd_ph", "chd"} => \E p \in Candidates(n) : IsNextPrime(n, p)

-----------------------------------------------------------------------------
\* The data of a fresh configuration: the settings that an algorithm keeps.
config_new(algo) ==
    [b |-> CASE algo = "bdz" -> 7 [] algo \in {"chd_ph", "chd"} -> 4 [] OTHER -> 0,
     keys_per_bin |-> 1]

cmph_config_new == [algo |-> "chm", c |-> <<0, 1>>, data |-> config_new("chm")]

\* The old settings stay.
wrong_set_algo(conf, algo) == [conf EXCEPT !.algo = algo]
\* Choosing another algorithm throws its settings away; c stays.
cmph_config_set_algo(conf, algo) ==
    [conf EXCEPT !.algo = algo, !.data = IF algo = conf.algo THEN @ ELSE config_new(algo)]

\* The settings an algorithm does not have are ignored.
cmph_config_set_b(conf, b) ==
    [conf EXCEPT !.data.b = CASE conf.algo = "bdz" -> bdz_config_set_b(b)
                              [] conf.algo \in {"chd_ph", "chd"} -> chd_ph_config_set_b(b)
                              [] OTHER -> @]
cmph_config_set_keys_per_bin(conf, t) ==
    [conf EXCEPT !.data.keys_per_bin = IF conf.algo \in {"chd_ph", "chd"}
                                       THEN chd_ph_config_set_keys_per_bin(t) ELSE @]
cmph_config_set_graphsize(conf, c) == [conf EXCEPT !.c = c]

Configure ==
    /\ phase = "config"
    /\ \E s \in DOMAIN Sources :
          config' \in {cmph_config_set_algo(config, Sources[s].algo),
                       cmph_config_set_b(config, Sources[s].b),
                       cmph_config_set_keys_per_bin(config, Sources[s].keys_per_bin),
                       cmph_config_set_graphsize(config, Sources[s].c)}
    /\ UNCHANGED <<source, phase, draw, left, carry, mphf, image, answers>>

-----------------------------------------------------------------------------
keys  == Sources[source].keys
Draws == Sources[source].draws
Keys  == Range(keys)
m     == Len(keys)

\* Attempts before an algorithm gives up or maps again, and mappings.
Iterations(algo) ==
    CASE algo = "chm" -> <<chm_iterations, 1>>
      [] algo \in {"bmz", "bmz8"} -> <<bmz_iterations, bmz_iterations_map>>
      [] algo = "fch" -> <<searching_iterations, fch_iterations>>
      [] algo = "bdz" -> <<bdz_iterations, 1>>
      [] algo = "bdz_ph" -> <<bdz_ph_iterations, 1>>
      [] algo \in {"chd_ph", "chd"} -> <<mapping_iterations, chd_ph_iterations>>
tries == Capped(Iterations(config.algo)[1])

\* What is there before the first mapping: disp_table, restart_mapping.
NoCarry ==
    CASE config.algo \in {"chd_ph", "chd"} ->
            [g \in 0..(chd_ph_nbuckets(m, config.data.b) - 1) |-> 0]
      [] config.algo \in {"bmz", "bmz8"} -> FALSE
      [] OTHER -> Nothing

\* cmph_new with a configuration made for the source; bmz8 refuses more
\* than 255 keys.
cmph_new ==
    /\ phase = "config"
    /\ \E s \in DOMAIN Sources :
          /\ Sources[s].algo = config.algo
          /\ Sources[s].c = config.c
          /\ config = cmph_config_set_keys_per_bin(cmph_config_set_b(config, Sources[s].b),
                                                   Sources[s].keys_per_bin)
          /\ source' = s
    /\ UNCHANGED <<config, draw, mphf, image, answers>>
    /\ carry' = NoCarry'
    /\ left' = [tries |-> tries, rounds |-> Capped(Iterations(config.algo)[2])]
    /\ phase' = IF config.algo = "bmz8" /\ ~bmz8_accepts(m') THEN "failed" ELSE "mapping"

\* hash_state_new.
Draw ==
    /\ phase = "mapping" /\ config.algo # "fch"
    /\ draw' \in Draws
    /\ phase' = "drawn"
    /\ UNCHANGED <<config, source, left, carry, mphf, image, answers>>

\* An attempt ends: with a function, with another attempt, with another
\* mapping, with no function, or with undefined behaviour.
End(p, l, cry) ==
    /\ phase' = p /\ left' = l /\ carry' = cry
    /\ draw' = NoDraw
    /\ UNCHANGED <<config, source, image>>
WithoutFunction(p, l, cry) == End(p, l, cry) /\ UNCHANGED <<mphf, answers>>

Retry ==
    WithoutFunction(IF left.tries = 1 THEN "failed" ELSE "mapping",
                    [left EXCEPT !.tries = @ - 1], carry)
\* A mapping that restarts is not counted.
wrong_Remap(cry) == WithoutFunction("mapping", [left EXCEPT !.tries = tries], cry)
Remap(cry) ==
    WithoutFunction(IF left.rounds = 1 THEN "failed" ELSE "mapping",
                    [tries |-> tries, rounds |-> left.rounds - 1], cry)
Undefined == WithoutFunction("undefined", left, carry)

\* cmph_search, cmph_load, cmph_dump, cmph_pack, cmph_packed_size and
\* cmph_search_packed hand over to the algorithm of the function.
cmph_search(f, k) ==
    CASE f.algo = "chm"    -> chm_search(f.data, k)
      [] f.algo = "bmz"    -> bmz_search(f.data, k)
      [] f.algo = "bmz8"   -> bmz8_search(f.data, k)
      [] f.algo = "fch"    -> fch_search(f.data, k)
      [] f.algo = "bdz"    -> bdz_search(f.data, k)
      [] f.algo = "bdz_ph" -> bdz_ph_search(f.data, k)
      [] f.algo = "chd_ph" -> chd_ph_search(f.data, k)
      [] f.algo = "chd"    -> chd_search(f.data, k)

cmph_size(f) == f.size

\* The file starts with the name of the algorithm and the size.
cmph_dump(f) ==
    <<<<Len(f.algo) + 1, f.algo>>, U32(f.size)>> \o
    CASE f.algo = "chm"    -> chm_dump(f.data)
      [] f.algo = "bmz"    -> bmz_dump(f.data)
      [] f.algo = "bmz8"   -> bmz8_dump(f.data)
      [] f.algo = "fch"    -> fch_dump(f.data)
      [] f.algo = "bdz"    -> bdz_dump(f.data)
      [] f.algo = "bdz_ph" -> bdz_ph_dump(f.data)
      [] f.algo = "chd_ph" -> chd_ph_dump(f.data)
      [] f.algo = "chd"    -> chd_dump(f.data)

cmph_load(file) ==
    LET algo == file[1][2]
        rest == SubSeq(file, 3, Len(file))
    IN  [algo |-> algo, size |-> file[2][2],
         data |-> CASE algo = "chm"    -> chm_load(rest)
                    [] algo = "bmz"    -> bmz_load(rest)
                    [] algo = "bmz8"   -> bmz8_load(rest)
                    [] algo = "fch"    -> fch_load(rest)
                    [] algo = "bdz"    -> bdz_load(rest)
                    [] algo = "bdz_ph" -> bdz_ph_load(rest)
                    [] algo = "chd_ph" -> chd_ph_load(rest)
                    [] algo = "chd"    -> chd_load(rest)]

cmph_pack(f) ==
    <<U32(f.algo)>> \o
    CASE f.algo = "chm"    -> chm_pack(f.data)
      [] f.algo = "bmz"    -> bmz_pack(f.data)
      [] f.algo = "bmz8"   -> bmz8_pack(f.data)
      [] f.algo = "fch"    -> fch_pack(f.data)
      [] f.algo = "bdz"    -> bdz_pack(f.data)
      [] f.algo = "bdz_ph" -> bdz_ph_pack(f.data)
      [] f.algo = "chd_ph" -> chd_ph_pack(f.data)
      [] f.algo = "chd"    -> chd_pack(f.data)

cmph_packed_size(f) ==
    CASE f.algo = "chm"    -> chm_packed_size(f.data)
      [] f.algo = "bmz"    -> bmz_packed_size(f.data)
      [] f.algo = "bmz8"   -> bmz8_packed_size(f.data)
      [] f.algo = "fch"    -> fch_packed_size(f.data)
      [] f.algo = "bdz"    -> bdz_packed_size(f.data)
      [] f.algo = "bdz_ph" -> bdz_ph_packed_size(f.data)
      [] f.algo = "chd_ph" -> chd_ph_packed_size(f.data)
      [] f.algo = "chd"    -> chd_packed_size(f.data)

cmph_search_packed(packed, k) ==
    LET algo == packed[1][2]
        ptr == Tail(packed)
    IN  CASE algo = "chm"    -> chm_search_packed(ptr, k)
          [] algo = "bmz"    -> bmz_search_packed(ptr, k)
          [] algo = "bmz8"   -> bmz8_search_packed(ptr, k)
          [] algo = "fch"    -> fch_search_packed(ptr, k)
          [] algo = "bdz"    -> bdz_search_packed(ptr, k)
          [] algo = "bdz_ph" -> bdz_ph_search_packed(ptr, k)
          [] algo = "chd_ph" -> chd_ph_search_packed(ptr, 0, k)
          [] algo = "chd"    -> chd_search_packed(ptr, k)

-----------------------------------------------------------------------------
\* The attempt gives the function f, which has no name of its algorithm yet.
Build(f) ==
    LET named == [algo |-> config.algo, size |-> f.size, data |-> f.data]
    IN  /\ End("built", left, NoCarry)
        /\ mphf' = named
        /\ answers' = [k \in Keys |-> cmph_search(named, k)]

ChmAttempt ==
    /\ phase = "drawn" /\ config.algo = "chm"
    /\ LET n == chm_n(config.c, m)
           attempt == chm_gen_edges(keys, draw, n)
       IN  IF attempt.ok THEN Build(chm_new(keys, draw, n, attempt.graph)) ELSE Retry

\* What follows a labelling; restart_mapping is carried over to the next
\* mapping.
Labelled(n, label) ==
    CASE label.full -> Undefined
      [] ~label.full /\ label.restart -> Remap(TRUE)
      [] OTHER -> Build(IF config.algo = "bmz" THEN bmz_new(keys, draw, n, label.g)
                        ELSE bmz8_new(keys, draw, n, label.g))

BmzAttempt ==
    /\ phase = "drawn" /\ config.algo = "bmz"
    /\ LET n == bmz_n(config.c, m)
           attempt == bmz_gen_edges(keys, draw, n)
       IN  IF attempt.ok THEN Labelled(n, bmz_label(attempt.graph, n, config.c, carry)) ELSE Retry

\* Hashes are taken modulo n, and a byte cuts 256 vertices to 0.
Bmz8Attempt ==
    /\ phase = "drawn" /\ config.algo = "bmz8"
    /\ LET n == bmz8_n(config.c, m)
           attempt == bmz8_gen_edges(keys, draw, n)
       IN  CASE n = 0 -> Undefined
             [] n # 0 /\ attempt.ok -> Labelled(n, bmz8_label(attempt.graph, n, config.c, carry))
             [] OTHER -> Retry

BdzAttempt ==
    /\ phase = "drawn" /\ config.algo = "bdz"
    /\ LET r == bdz_r(config.c, m)
           attempt == bdz_mapping(keys, draw, r)
       IN  IF attempt.ok THEN Build(bdz_new(keys, draw, r, config.data.b, attempt)) ELSE Retry

BdzPhAttempt ==
    /\ phase = "drawn" /\ config.algo = "bdz_ph"
    /\ LET r == bdz_ph_r(config.c, m)
           attempt == bdz_ph_mapping(keys, draw, r)
       IN  IF attempt.ok THEN Build(bdz_ph_new(keys, draw, r, attempt)) ELSE Retry

\* What the search for displacements leads to: chd builds on the chd_ph
\* function phf and on the table of its bins.
ChdBuilt(n, occup, chd) ==
    IF ~ValsFit(occup, m, n, config.data.keys_per_bin) \/ RankOutside(chd.data)
    THEN Undefined ELSE Build(chd)
ChdSearched(n, search, phf) ==
    CASE ~search.ok -> Remap(search.disp)
      [] search.ok /\ config.algo = "chd_ph" -> Build(phf)
      [] OTHER -> ChdBuilt(n, search.occup,
                           chd_new(m, phf.data, search.occup, config.data.keys_per_bin))

ChdAttempt ==
    /\ phase = "drawn" /\ config.algo \in {"chd_ph", "chd"}
    /\ LET n == chd_ph_n(config.c, m, config.data.keys_per_bin)
           nbuckets == chd_ph_nbuckets(m, config.data.b)
           attempt == chd_ph_mapping(keys, draw, n, nbuckets)
           search == chd_ph_searching(attempt.buckets, m, n, config.data.keys_per_bin, carry)
       IN  IF attempt.ok THEN ChdSearched(n, search, chd_ph_new(draw, n, nbuckets, search.disp))
           ELSE Retry

\* The mapping of fch, and random_table as permut() leaves it.
FchMapping ==
    /\ phase = "mapping" /\ config.algo = "fch"
    /\ \E h1 \in Draws.h1, table \in Draws.tables :
          carry' = [h1 |-> h1, table |-> table, collisions |-> 0]
    /\ phase' = "searching"
    /\ UNCHANGED <<config, source, draw, left, mphf, image, answers>>

\* A second hash that splits every bucket is tried; the table stays as the
\* search permuted it.  The loop of fch_new has counted this mapping when it
\* looks whether any was left: a function found by the last one is thrown
\* away.
FchSearch ==
    /\ phase = "searching"
    /\ \E h2 \in Draws.h2 :
          LET b == fch_calc_b(fch_c(config.c), m)
              buckets == fch_mapping(keys, carry.h1, b)
              split == ~check_for_collisions_h2(buckets, h2, m)
              search == fch_searching(buckets, carry.table, h2, m)
              cry == [h1 |-> carry.h1,
                      table |-> IF split THEN search.table ELSE carry.table,
                      collisions |-> IF split THEN 0 ELSE carry.collisions + 1]
              l == [left EXCEPT !.tries = IF split THEN @ - 1 ELSE @]
          IN  CASE split /\ search.ok /\ left.rounds > 1 ->
                      Build(fch_new(keys, carry.h1, h2, fch_c(config.c), b, search.g))
                [] split /\ search.ok /\ left.rounds = 1 -> Remap(Nothing)
                [] ~(split /\ search.ok) ->
                      IF l.tries = 0 \/ cry.collisions = Capped(iteration_to_generate_h2)
                      THEN Remap(Nothing)
                      ELSE WithoutFunction("searching", l, cry)

\* The file is written and the function destroyed.
Dump ==
    /\ phase = "built"
    /\ image' = cmph_dump(mphf)
    /\ mphf' = Nothing
    /\ phase' = "dumped"
    /\ UNCHANGED <<config, source, draw, left, carry, answers>>

Load ==
    /\ phase = "dumped"
    /\ mphf' = cmph_load(image)
    /\ answers' = [k \in Keys |-> cmph_search(mphf', k)]
    /\ phase' = "loaded"
    /\ UNCHANGED <<config, source, draw, left, carry, image>>

Pack ==
    /\ phase = "loaded"
    /\ image' = cmph_pack(mphf)
    /\ answers' = [k \in Keys |-> cmph_search_packed(image', k)]
    /\ phase' = "packed"
    /\ UNCHANGED <<config, source, draw, left, carry, mphf>>

Init ==
    /\ config = cmph_config_new
    /\ source = "none"
    /\ phase = "config"
    /\ draw = NoDraw /\ left = Nothing /\ carry = Nothing
    /\ mphf = Nothing /\ image = Nothing /\ answers = Nothing

Construction ==
    \/ Draw \/ ChmAttempt \/ BmzAttempt \/ Bmz8Attempt \/ BdzAttempt \/ BdzPhAttempt
    \/ ChdAttempt \/ FchMapping \/ FchSearch

\* Nothing more to do with a packed function, or without one.
Done == phase \in {"packed", "failed", "undefined"} /\ UNCHANGED vars

Next == Configure \/ cmph_new \/ Construction \/ Dump \/ Load \/ Pack \/ Done

Spec == Init /\ [][Next]_vars

-----------------------------------------------------------------------------
Phases == {"config", "mapping", "drawn", "searching", "built", "dumped", "loaded", "packed",
           "failed", "undefined"}
Answering == phase \in {"built", "loaded", "packed"}

\* Type invariant: settings stay within the ranges that the setters and the
\* defaults promise in whatever order the calls come, and attempts are left
\* as long as another one is made.
TypeOK ==
    /\ phase \in Phases
    /\ config.algo \in Algos
    /\ config.data.b \in (CASE config.algo = "bdz" -> 3..10
                            [] config.algo \in {"chd_ph", "chd"} -> 1..14
                            [] OTHER -> {0})
    /\ config.data.keys_per_bin \in (IF config.algo \in {"chd_ph", "chd"} THEN 1..127 ELSE {1})
    /\ phase \in {"mapping", "drawn", "searching"} => left.tries >= 1 /\ left.rounds >= 1
    /\ Answering => DOMAIN answers = Keys

\* The keys bmz_search reads past the labels for: both hashes yield the
\* last vertex (the hazard at bmz.c:533).
Misread(k) ==
    /\ config.algo \in {"bmz", "bmz8"}
    /\ \A i \in 1..2 : mphf.data.hashes[i][k] % mphf.data.n = mphf.data.n - 1

Sound(ks) ==
    /\ config.algo \notin {"bdz_ph", "chd_ph"} => cmph_size(mphf) = m
    /\ \A k \in ks : answers[k] \in 0..(cmph_size(mphf) - 1)
    /\ \A k \in ks : Cardinality({j \in ks : answers[j] = answers[k]}) <= config.data.keys_per_bin

\* A function maps different keys to different numbers below its size (with
\* several keys per bin: at most so many to one), whatever cycles, restarts
\* and displacements went into it and by each of the three searches; so the
\* minimal ones are onto.  cmph_new, cmph_search and cmph_search_packed.
Perfect == Answering => Sound({k \in Keys : ~Misread(k)})

\* Writing, loading and packing a function never changes a value: dump and
\* load agree on the fields, pack and search_packed on the offsets.
AnswersKept == [][(phase \in {"dumped", "loaded"}) => (answers' = answers)]_vars

\* What pack writes fits what cmph_packed_size makes the caller allocate.
PackFits == phase = "packed" => Size(image) <= cmph_packed_size(mphf)

\* Reference: edges can be peeled off one by one at vertices of degree one
\* iff every set of edges has an end that no other end of its edges meets.
Peelable(E) ==
    \A S \in SUBSET DOMAIN E \ {{}} :
        \E e \in S : \E i \in DOMAIN E[e] :
            \A f \in S : \A j \in DOMAIN E[f] : E[f][j] = E[e][i] => f = e /\ j = i

\* An attempt of chm, bdz and bdz_ph is used exactly when its graph has no
\* cycle: peeling from a queue or along chains misses no edge and stops at
\* no acyclic rest (graph_is_cyclic, bdz_generate_queue).
AttemptsJudged ==
    [][/\ phase = "drawn" /\ config.algo = "chm" =>
              (phase' = "built") = Peelable([e \in DOMAIN keys |->
                                               chm_ends(draw, keys[e], chm_n(config.c, m))])
       /\ phase = "drawn" /\ config.algo \in {"bdz", "bdz_ph"} =>
              (phase' = "built") = Peelable([e \in DOMAIN keys |->
                                               bdz_vertices(draw, keys[e], bdz_r(config.c, m))])]_vars

\* Nothing is written past the packed block, and nothing undefined happens
\* but where the code is known to be wrong: the heuristic of bmz overfills
\* its queue (vqueue.c:29), bmz8 hashes modulo a number of vertices that a
\* byte has cut to 0 (bmz8.c:76), and chd reads its table of bins as bits
\* when there are several keys per bin, or reads an empty table when the
\* only empty bins are 0 and 1 (chd.c:126, select.c:128).
DefinedElsewhere ==
    /\ PackFits
    /\ phase = "undefined" =>
        \/ config.algo = "bmz" /\ bmz_heuristic(config.c)
        \/ config.algo = "bmz8" /\ bmz8_n(config.c, m) = 0
        \/ config.algo = "chd" /\ config.data.keys_per_bin > 1
        \/ config.algo = "chd" /\ chd_ph_n(config.c, m, 1) - m <= 2

\* A construction comes to an end, whatever is drawn and duplicate keys
\* included: every step of it uses up something there is a limited amount
\* of.  With no deadlock, this is termination.
Measure ==
    IF phase \notin {"mapping", "drawn", "searching"} THEN 0
    ELSE 1 + (Limit + 3) * (left.tries + (Limit + 1) * left.rounds)
         + (CASE phase = "mapping" -> Limit + 2
              [] phase = "drawn" -> Limit + 1
              [] phase = "searching" -> Limit - carry.collisions)
Terminates == [][(Measure > 0) => (Measure' < Measure)]_vars
=============================================================================
