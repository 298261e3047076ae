-------------------------------- MODULE Bmz8 ---------------------------------
(***************************************************************************)
(* The construction bmz8 of CMPH (cmph/src/bmz8.c): bmz with bytes for     *)
(* the sizes and the labels, for at most 255 keys; the text is that of     *)
(* bmz.c but for the room of the queue.  brz builds one such               *)
(* function for every bucket.                                              *)
(***************************************************************************)
EXTENDS Bmz

Byte == 256

\* Number of keys and of vertices, cut to a byte.
bmz8_accepts(m) == m < Byte
bmz8_n(c, m) == bmz_n(c, m) % Byte
bmz8_gen_edges(keys, h, n) == bmz_gen_edges(keys, h, n)

\* Both traversals give their queue room for all the critical vertices.
bmz8_label(G, n, c, restart) ==
    LET crit == graph_obtain_critical_nodes(G, n)
    IN  LabelAll(G, n, crit, bmz_heuristic(c), Cardinality(crit), restart, Byte)

bmz8_new(keys, h, n, g) == bmz_new(keys, h, n, g)
bmz8_search(d, k) == SumOfLabels(d.g, SearchEnds(d.hashes, k, d.n), Byte)

\* Sizes and labels are single bytes in the file and in the packed block.
bmz8_dump(d) ==
    <<U8(2)>> \o hash_state_dump(d.hashes[1]) \o hash_state_dump(d.hashes[2])
    \o <<U8(d.n), U8(d.m), Array(1, d.g)>>

bmz8_load(f) ==
    [hashes |-> [i \in 1..f[1][2] |-> hash_state_load(f, 2 * i)],
     n |-> f[6][2], m |-> f[7][2], g |-> f[8][2]]

bmz8_pack(d) ==
    hash_state_pack(d.hashes[1]) \o hash_state_pack(d.hashes[2]) \o <<U8(d.n), Array(1, d.g)>>

bmz8_packed_size(d) == 4 + 2 * hash_state_packed_size + 2 * 4 + 1 + d.n

bmz8_search_packed(p, k) ==
    LET h2_ptr == 4 + hash_state_packed_size
        g_ptr  == h2_ptr + 4 + hash_state_packed_size
        n == At(p, g_ptr)
    IN  SumOfLabels(At(p, g_ptr + 1), SearchEnds(<<At(p, 4), At(p, h2_ptr + 4)>>, k, n), Byte)
=============================================================================
