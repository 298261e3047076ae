--------------------------------- MODULE Bdz ---------------------------------
(***************************************************************************)
(* The construction bdz of CMPH (cmph/src/bdz.c): every key is an edge     *)
(* between three vertices, one in each third of the vertices.  Edges are   *)
(* peeled off at vertices of degree one; in the reverse order, each edge   *)
(* is assigned one of its vertices, by two-bit labels, and the rank of     *)
(* that vertex among the assigned ones is the value of the key.            *)
(***************************************************************************)
EXTENDS CmphFormat, SequencesExt

UNASSIGNED == 3
bdz_iterations == 1000

bdz_r(c, m) ==
    LET d == IF c[1] = 0 THEN <<123, 100>> ELSE c
        r == CeilMul(<<d[1], 3 * d[2]>>, m)
    IN  IF r % 2 = 0 THEN r + 1 ELSE r

\* bdz_config_set_b falls back on 7 bits.
bdz_config_set_b(b) == IF b <= 2 \/ b > 10 THEN 7 ELSE b

\* The vertices of a key; the hash state yields three numbers.
bdz_vertices(hl, k, r) == [i \in 1..3 |-> (hl[k][i] % r) + (i - 1) * r]

VerticesOf(e) == {e[1], e[2], e[3]}

\* vert_degree and first_edge of vertex v when the edges live are left.
Degree(E, live, v) == Cardinality({e \in live : v \in VerticesOf(E[e])})
FirstEdge(E, live, v) ==
    CHOOSE e \in live : v \in VerticesOf(E[e]) /\ \A f \in live : v \in VerticesOf(E[f]) => f <= e

\* An edge that is queued already is not noticed.
wrong_Ready(E, live, queue, e) ==
    LET add(q, v) == IF Degree(E, live, v) = 1 THEN Append(q, FirstEdge(E, live, v)) ELSE q
    IN  add(add(add(queue, E[e][1]), E[e][2]), E[e][3])

\* The edges that vertices of edge e make ready, in the order of the vertices.
Ready(E, live, queue, e) ==
    LET add(q, v) == IF Degree(E, live, v) = 1 /\ ~Contains(q, FirstEdge(E, live, v))
                     THEN Append(q, FirstEdge(E, live, v)) ELSE q
    IN  add(add(add(queue, E[e][1]), E[e][2]), E[e][3])

\* The queue holds every marked edge; its first tail edges are removed.
RemoveTail(E, s) ==
    LET e == s.queue[s.tail + 1]
    IN  IF s.tail = Len(s.queue) THEN s
        ELSE [queue |-> Ready(E, s.live \ {e}, s.queue, e), tail |-> s.tail + 1,
              live |-> s.live \ {e}]

Peeled(E) ==
    LET single == {e \in DOMAIN E : \E v \in VerticesOf(E[e]) : Degree(E, DOMAIN E, v) = 1}
        peeled[i \in 0..Len(E)] ==
            IF i = 0 THEN [queue |-> InOrder(single), tail |-> 0, live |-> DOMAIN E]
            ELSE RemoveTail(E, peeled[i - 1])
    IN  peeled
bdz_generate_queue(E) == Peeled(E)[Len(E)].queue

\* An attempt: it can be used when every edge was peeled off.
bdz_mapping(keys, hl, r) ==
    LET E == [e \in DOMAIN keys |-> bdz_vertices(hl, keys[e], r)]
        queue == bdz_generate_queue(E)
    IN  [edges |-> E, queue |-> queue, ok |-> Len(queue) = Len(E)]

-----------------------------------------------------------------------------
\* SETVALUE1 clears bits of a two-bit value, SETVALUE0 sets bits.
AndBits[a, b \in 0..3] == 2 * ((a \div 2) * (b \div 2)) + (a % 2) * (b % 2)
OrBits[a, b \in 0..3] == a + b - AndBits[a, b]

\* One edge: the first of its vertices that is not marked makes the sum of
\* the three labels, modulo 3, its own position.
Assign(s, e, Set) ==
    LET free == {i \in 1..3 : e[i] \notin s.marked}
        p == IF 1 \in free THEN 1 ELSE IF 2 \in free THEN 2 ELSE 3
        others == VerticesOf(e) \ {e[p]}
        sum == s.g[e[1]] + s.g[e[2]] + s.g[e[3]] - s.g[e[p]]
    IN  [g |-> [s.g EXCEPT ![e[p]] = Set[@, (5 + p - sum) % 3]],
         marked |-> s.marked \cup VerticesOf(e)]

\* All edges, the last of the queue first; g is what the labels start with.
Assigning(E, queue, g, Set) ==
    LET assigned[i \in 0..Len(queue)] ==
            IF i = 0 THEN [g |-> g, marked |-> {}]
            ELSE Assign(assigned[i - 1], E[queue[Len(queue) + 1 - i]], Set)
    IN  assigned

\* Two-bit values are stored four to a byte; memset fills the last byte too.
assigning(E, queue, n) ==
    Assigning(E, queue, [v \in 0..(4 * CeilDiv(n, 4) - 1) |-> UNASSIGNED], AndBits)[Len(queue)].g

\* How many vertices of an interval are assigned (bdz_lookup_table, byte-wise).
Assigned(g, from, to) == Cardinality({v \in from..(to - 1) : g[v] # UNASSIGNED})

\* Entry i counts the assigned vertices before vertex i * k.
ranking(g, n, k) ==
    [i \in 0..(CeilDiv(n, k) - 1) |-> Assigned(g, 0, i * k)]

rank(b, ranktable, g, vertex) ==
    LET index == vertex \div power2[b]
    IN  ranktable[index] + Assigned(g, index * power2[b], vertex)

bdz_new(keys, hl, r, b, att) ==
    LET n == 3 * r
        g == assigning(att.edges, att.queue, n)
    IN  [size |-> Len(keys),
         data |-> [hl |-> hl, m |-> Len(keys), n |-> n, r |-> r, g |-> g, k |-> power2[b], b |-> b,
                   ranktablesize |-> CeilDiv(n, power2[b]), ranktable |-> ranking(g, n, power2[b])]]

\* The vertex assigned to a key.
AssignedVertex(hl, r, g, k) ==
    LET v == bdz_vertices(hl, k, r) IN v[((g[v[1]] + g[v[2]] + g[v[3]]) % 3) + 1]

bdz_search(d, k) == rank(d.b, d.ranktable, d.g, AssignedVertex(d.hl, d.r, d.g, k))

-----------------------------------------------------------------------------
\* g in memory: a quarter of a byte for every vertex, in whole bytes.
Quarters(g) == <<Cardinality(DOMAIN g) \div 4, g>>

bdz_dump(d) ==
    hash_state_dump(d.hl)
    \o <<U32(d.n), U32(d.m), U32(d.r), Quarters(d.g), U32(d.k), U8(d.b), U32(d.ranktablesize),
         Array(4, d.ranktable)>>

bdz_load(f) ==
    [hl |-> hash_state_load(f, 1), n |-> f[3][2], m |-> f[4][2], r |-> f[5][2], g |-> f[6][2],
     k |-> f[7][2], b |-> f[8][2], ranktablesize |-> f[9][2], ranktable |-> f[10][2]]

bdz_pack(d) ==
    hash_state_pack(d.hl)
    \o <<U32(d.r), U32(d.ranktablesize), Array(4, d.ranktable), U8(d.b), Quarters(d.g)>>

bdz_packed_size(d) ==
    4 + hash_state_packed_size + 3 * 4 + 4 * d.ranktablesize + 1 + CeilDiv(d.n, 4)

bdz_search_packed(p, k) ==
    LET r_ptr == 4 + hash_state_packed_size
        r == At(p, r_ptr)
        g_ptr == r_ptr + 8 + 4 * At(p, r_ptr + 4)
        g == At(p, g_ptr + 1)
    IN  rank(At(p, g_ptr), At(p, r_ptr + 8), g, AssignedVertex(At(p, 4), r, g, k))
=============================================================================
