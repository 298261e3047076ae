-------------------------------- MODULE BdzPh --------------------------------
(***************************************************************************)
(* The construction bdz_ph of CMPH (cmph/src/bdz_ph.c): bdz without the    *)
(* ranking, so that the value of a key is the vertex assigned to it and    *)
(* the function is perfect but not minimal.  Its mapping step is the text  *)
(* of bdz.c.  The labels start at 0 and end as base-three digits, five to  *)
(* a byte.                                                                 *)
(***************************************************************************)
EXTENDS Bdz

bdz_ph_iterations == 100

bdz_ph_r(c, m) == bdz_r(c, m)
bdz_ph_generate_queue(E) == bdz_generate_queue(E)

bdz_ph_mapping(keys, hl, r) ==
    LET E == [e \in DOMAIN keys |-> bdz_vertices(hl, keys[e], r)]
        queue == bdz_ph_generate_queue(E)
    IN  [edges |-> E, queue |-> queue, ok |-> Len(queue) = Len(E)]

bdz_ph_assigning(E, queue, n) ==
    Assigning(E, queue, [v \in 0..(n - 1) |-> 0], OrBits)[Len(queue)].g

pow3_table == <<1, 3, 9, 27, 81>>

\* Byte j holds the labels of vertices 5j .. 5j + 4.
bdz_ph_optimization(g, n) ==
    LET At5(j, i) == IF 5 * j + i < n THEN g[5 * j + i] * pow3_table[i + 1] ELSE 0
    IN  [j \in 0..(CeilDiv(n, 5) - 1) |->
            (At5(j, 0) + At5(j, 1) + At5(j, 2) + At5(j, 3) + At5(j, 4)) % 256]

bdz_ph_new(keys, hl, r, att) ==
    LET n == 3 * r
        g == bdz_ph_assigning(att.edges, att.queue, n)
    IN  [size |-> n,
         data |-> [hl |-> hl, m |-> Len(keys), n |-> n, r |-> r,
                   g |-> bdz_ph_optimization(g, n)]]

\* The label of a vertex, as lookup_table reads it out of its byte.
Digit(g, v) == (g[v \div 5] \div pow3_table[(v % 5) + 1]) % 3

bdz_ph_vertex(hl, r, g, k) ==
    LET v == bdz_vertices(hl, k, r)
    IN  v[((Digit(g, v[1]) + Digit(g, v[2]) + Digit(g, v[3])) % 3) + 1]

bdz_ph_search(d, k) == bdz_ph_vertex(d.hl, d.r, d.g, k)

bdz_ph_dump(d) ==
    hash_state_dump(d.hl) \o <<U32(d.n), U32(d.m), U32(d.r), Array(1, d.g)>>

bdz_ph_load(f) ==
    [hl |-> hash_state_load(f, 1), n |-> f[3][2], m |-> f[4][2], r |-> f[5][2], g |-> f[6][2]]

bdz_ph_pack(d) == hash_state_pack(d.hl) \o <<U32(d.r), Array(1, d.g)>>

bdz_ph_packed_size(d) == 4 + hash_state_packed_size + 2 * 4 + CeilDiv(d.n, 5)

bdz_ph_search_packed(p, k) ==
    LET r_ptr == 4 + hash_state_packed_size
    IN  bdz_ph_vertex(At(p, 4), At(p, r_ptr), At(p, r_ptr + 4), k)
=============================================================================
