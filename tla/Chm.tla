--------------------------------- MODULE Chm ---------------------------------
(***************************************************************************)
(* The construction chm of CMPH (cmph/src/chm.c): draw graphs until one    *)
(* has no cycle, then label its vertices so that the labels of the two     *)
(* ends of edge e sum to e.                                                *)
(*                                                                         *)
(* keys is the sequence the key source reads, h the pair of hash functions *)
(* of an attempt.  Labels are unsigned words: arithmetic is modulo Word.   *)
(***************************************************************************)
EXTENDS CmphGraph

chm_iterations == 20

\* The number of vertices; c = <<0, 1>> asks for the default.
chm_n(c, m) == CeilMul(IF c[1] = 0 THEN <<209, 100>> ELSE c, m)

\* The two ends of the edge of a key.
chm_ends(h, k, n) ==
    LET h1 == h[1][k] % n
        h2 == h[2][k] % n
    IN  <<h1, IF h1 = h2 THEN (IF h2 + 1 >= n THEN 0 ELSE h2 + 1) ELSE h2>>

\* The graph of an attempt: ok says that it can be used.
chm_gen_edges(keys, h, n) ==
    LET G == [e \in DOMAIN keys |-> chm_ends(h, keys[e], n)]
    IN  [graph |-> G,
         ok    |-> /\ \A e \in DOMAIN G : G[e][1] # G[e][2]
                   /\ ~graph_is_cyclic(G, n)]

(***************************************************************************)
(* The assignment step.  Its state s: the labels g, the visited vertices,  *)
(* the stack of the calls of chm_traverse with the current vertex in front,*)
(* seen[v] of the neighbours of a vertex, and the next root.               *)
(***************************************************************************)
\* A vertex is visited: from now on its neighbours are looked at.
chm_traverse(s, v, label) ==
    [s EXCEPT !.g[v] = label, !.visited = @ \cup {v}, !.stack = <<v>> \o @]

\* The next neighbour of the current vertex v.
chm_neighbour(G, s, v) ==
    LET t == [s EXCEPT !.seen[v] = @ + 1]
        u == graph_neighbors(G, v)[t.seen[v]]
    IN  IF u \in s.visited THEN t
        ELSE chm_traverse(t, u, (graph_edge_id(G, v, u) + Word - s.g[v]) % Word)

\* Every component has a root, with label 0.
chm_step(G, n, s) ==
    CASE s.stack = <<>> /\ s.root = n -> s
      [] s.stack = <<>> /\ s.root < n ->
            LET t == [s EXCEPT !.root = @ + 1]
            IN  IF s.root \in s.visited THEN t ELSE chm_traverse(t, s.root, 0)
      [] s.stack # <<>> ->
            LET v == Head(s.stack)
            IN  IF s.seen[v] < Len(graph_neighbors(G, v)) THEN chm_neighbour(G, s, v)
                ELSE [s EXCEPT !.stack = Tail(@)]

chm_assign(G, n) ==
    LET round[i \in 0..Rounds(G, n)] ==
            IF i = 0 THEN [g |-> [v \in 0..(n - 1) |-> 0], visited |-> {}, stack |-> <<>>,
                           seen |-> [v \in 0..(n - 1) |-> 0], root |-> 0]
            ELSE chm_step(G, n, round[i - 1])
    IN  round

\* What chm_new returns once an attempt has produced the graph G.
chm_new(keys, h, n, G) ==
    [size |-> Len(keys),
     data |-> [hashes |-> h, n |-> n, m |-> Len(keys), g |-> chm_assign(G, n)[Rounds(G, n)].g]]

chm_search(d, k) ==
    LET e == chm_ends(d.hashes, k, d.n) IN ((d.g[e[1]] + d.g[e[2]]) % Word) % d.m

-----------------------------------------------------------------------------
chm_dump(d) ==
    <<U32(2)>> \o hash_state_dump(d.hashes[1]) \o hash_state_dump(d.hashes[2])
    \o <<U32(d.n), U32(d.m), Array(4, d.g)>>

chm_load(f) ==
    [hashes |-> [i \in 1..f[1][2] |-> hash_state_load(f, 2 * i)],
     n |-> f[6][2], m |-> f[7][2], g |-> f[8][2]]

chm_pack(d) ==
    hash_state_pack(d.hashes[1]) \o hash_state_pack(d.hashes[2])
    \o <<U32(d.n), U32(d.m), Array(4, d.g)>>

chm_packed_size(d) == 4 + 2 * hash_state_packed_size + 4 * 4 + 4 * d.n

chm_search_packed(p, k) ==
    LET h2_ptr == 4 + hash_state_packed_size
        g_ptr  == h2_ptr + 4 + hash_state_packed_size
        n == At(p, g_ptr)
        m == At(p, g_ptr + 4)
        g == At(p, g_ptr + 8)
        e == chm_ends(<<At(p, 4), At(p, h2_ptr + 4)>>, k, n)
    IN  ((g[e[1]] + g[e[2]]) % Word) % m
=============================================================================
