------------------------------- MODULE MCCmph --------------------------------
(***************************************************************************)
(* The key sources of the runs of Cmph.  A hash function is given by the   *)
(* values it has on the keys; those of the first key are fixed to a few.   *)
(***************************************************************************)
EXTENDS Cmph

Three == <<"k1", "k2", "k3">>
Four  == <<"k1", "k2", "k3", "k4">>
Number(n) == [i \in 1..n |-> i]

\* Functions from the keys to values, the first key with one of few.
From(ks, values, few) ==
    {f \in [Range(ks) -> values] : f[ks[1]] \in few}

\* Pairs of hash functions, from functions to pairs of numbers.
Pairs(ks, values, few) ==
    {[i \in 1..2 |-> [k \in Range(ks) |-> f[k][i]]] : f \in From(ks, values, few)}

\* Two triangles that meet in vertex 0, and four edges more: the heuristic of
\* bmz has four vertices to queue and room for three.
Bowtie ==
    LET ends == <<<<0, 1>>, <<0, 2>>, <<0, 3>>, <<0, 4>>, <<1, 2>>, <<3, 4>>,
                <<5, 6>>, <<7, 8>>, <<9, 10>>, <<10, 11>>>>
    IN  [i \in 1..2 |-> [k \in 1..10 |-> ends[k][i]]]

\* A cycle of five that the heuristic can label.
Ring ==
    LET ends == <<<<0, 1>>, <<1, 2>>, <<2, 3>>, <<3, 4>>, <<4, 0>>, <<5, 6>>,
                <<7, 8>>, <<8, 9>>, <<0, 10>>, <<10, 11>>>>
    IN  [i \in 1..2 |-> [k \in 1..10 |-> ends[k][i]]]

\* Binary logarithms in thousandths.
MCLog2 == <<0, 1000, 1585, 2000, 2322, 2585, 2807, 3000, 3170, 3322>>

Source(algo, c, ks, draws) ==
    [algo |-> algo, c |-> c, b |-> 0, keys_per_bin |-> 1, keys |-> ks, draws |-> draws]

Bmz5 == {<<0, 1>>, <<1, 2>>, <<2, 3>>, <<0, 2>>, <<0, 3>>, <<1, 1>>, <<4, 4>>}
Triples == ({0, 1} \X {0, 1} \X {0, 1}) \cup {<<2, 2, 2>>}
Items == {0, 1} \X {0, 1} \X {0, 1}

\* Three or four keys for every construction; "twice": a key occurs twice;
\* "bins": two keys per bin; "one": a single key; "full": one or two empty
\* bins only.
MCSources ==
    [s \in {"chm", "chm twice", "bmz", "bmz dense", "bmz8", "bmz8 wraps", "fch", "fch twice",
            "bdz", "bdz_ph", "chd_ph", "chd_ph bins", "chd_ph eight", "chd", "chd bins", "chd one", "chd full"} |->
     CASE s = "chm" ->
            Source("chm", <<4, 3>>, Three,
                   Pairs(Three, (0..3) \X (0..3), {<<0, 0>>, <<0, 1>>, <<3, 3>>}))
       [] s = "chm twice" ->
            Source("chm", <<0, 1>>, <<"k1", "k2", "k1">>,
                   Pairs(Three, (0..6) \X {0, 3}, {<<0, 0>>, <<0, 3>>}))
       [] s = "bmz" -> Source("bmz", <<0, 1>>, Four, Pairs(Four, Bmz5, {<<0, 1>>, <<4, 4>>}))
       [] s = "bmz dense" -> Source("bmz", <<114, 100>>, Number(10), {Bowtie, Ring})
       [] s = "bmz8" -> Source("bmz8", <<0, 1>>, Four, Pairs(Four, Bmz5 \ {<<0, 2>>, <<1, 1>>}, {<<0, 1>>}))
       [] s = "bmz8 wraps" -> Source("bmz8", <<256, 1>>, Number(1), {[i \in 1..2 |-> <<0>>]})
       [] s = "fch" ->
            Source("fch", <<0, 1>>, Four,
                   [h1 |-> From(Four, {0, 1, 3}, {0}), tables |-> {[i \in 0..3 |-> 3 - i]},
                    h2 |-> From(Four, {0, 1, 2}, {0})])
       [] s = "fch twice" ->
            Source("fch", <<26, 10>>, <<"k1", "k2", "k1">>,
                   [h1 |-> From(Three, {0, 1}, {0}), tables |-> {[i \in 0..2 |-> i]},
                    h2 |-> From(Three, {0, 1}, {0})])
       [] s = "bdz" ->
            [Source("bdz", <<0, 1>>, Three, From(Three, Triples, {<<0, 0, 0>>, <<2, 2, 2>>}))
                EXCEPT !.b = 3]
       [] s = "bdz_ph" ->
            Source("bdz_ph", <<0, 1>>, Three, From(Three, Triples, {<<0, 0, 0>>, <<2, 2, 2>>}))
       [] s = "chd_ph" ->
            [Source("chd_ph", <<0, 1>>, Three, From(Three, Items, {<<0, 0, 0>>})) EXCEPT !.b = 2]
       [] s = "chd_ph bins" ->
            [Source("chd_ph", <<1, 2>>, Four, {[k \in Range(Four) |-> <<0, i, j>>] : i, j \in 0..1}
                                              \cup {[k1 |-> <<0, 0, 0>>, k2 |-> <<0, 0, 1>>,
                                                     k3 |-> <<0, 0, 2>>, k4 |-> <<1, 0, 0>>]})
                EXCEPT !.keys_per_bin = 2]
       [] s = "chd_ph eight" ->
            Source("chd_ph", <<99, 100>>, Number(8), {[i \in 1..8 |-> <<i % 2, i * i, i + 1>>]})
       [] s = "chd" ->
            [Source("chd", <<60, 100>>, Three,
                    From(Three, {x \in Items : x[2] = 0 \/ x[1] = 1}, {<<0, 0, 0>>})) EXCEPT !.b = 2]
       [] s = "chd bins" ->
            [Source("chd", <<1, 2>>, Three, {[k1 |-> <<0, 0, 0>>, k2 |-> <<0, 3, 1>>, k3 |-> <<0, 8, 0>>]})
                EXCEPT !.keys_per_bin = 2]
       [] s = "chd one" -> Source("chd", <<99, 100>>, Number(1), {[i \in 1..1 |-> <<0, 0, 0>>]})
       [] s = "chd full" ->
            Source("chd", <<99, 100>>, Number(10),
                   {[i \in 1..10 |-> <<0, i, 0>>], [i \in 1..10 |-> <<0, i - 1, 0>>]})]

BmzSources == [s \in {"bmz"} |-> MCSources[s]]
=============================================================================
