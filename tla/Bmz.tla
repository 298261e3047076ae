--------------------------------- MODULE Bmz ---------------------------------
(***************************************************************************)
(* The construction bmz of CMPH (cmph/src/bmz.c): the graph may have       *)
(* cycles but no multiple edge.  The vertices of the 2-core are labelled   *)
(* breadth first so that no two edges get the same sum, the other vertices *)
(* depth first with the numbers left over.  When the 2-core cannot be      *)
(* labelled within 0 .. m - 1 the whole mapping starts again.              *)
(*                                                                         *)
(* bmz8.c is the same text for unsigned bytes: what depends on the size of *)
(* a label has it as the parameter word.                                   *)
(***************************************************************************)
EXTENDS CmphGraph

bmz_iterations == 100       \* attempts at a simple graph
bmz_iterations_map == 20    \* mappings

bmz_c(c) == IF c[1] = 0 THEN <<115, 100>> ELSE c
bmz_n(c, m) == CeilMul(bmz_c(c), m)
\* c <= 1.14: the labels skipped are kept and used again.
bmz_heuristic(c) == bmz_c(c)[1] * 100 <= 114 * bmz_c(c)[2]

bmz_ends(h, k, n) ==
    LET h1 == h[1][k] % n
        h2 == h[2][k] % n
    IN  <<h1, IF h1 = h2 THEN (IF h2 + 1 >= n THEN 0 ELSE h2 + 1) ELSE h2>>

bmz_gen_edges(keys, h, n) ==
    LET G == [e \in DOMAIN keys |-> bmz_ends(h, keys[e], n)]
    IN  [graph |-> G,
         ok    |-> \A e \in DOMAIN G :
                      /\ G[e][1] # G[e][2]
                      /\ ~graph_contains_edge(SubSeq(G, 1, e - 1), G[e][1], G[e][2])]

-----------------------------------------------------------------------------
(***************************************************************************)
(* Labelling the 2-core.  The state s of the traversal:                    *)
(*   g, visited, used   labels, visited vertices, sums taken               *)
(*   bigG, bigE         biggest_g_value, biggest_edge_value                *)
(*   pool               unused_g_values, of the heuristic only             *)
(*   restart            a sum reached m: map again                         *)
(*   full               the queue was full: the assertion of vqueue_insert *)
(*   queue              the queue behind the vertex it was last taken from *)
(*   seen, root         neighbours looked at, next root of a traversal     *)
(***************************************************************************)
\* The labels of the visited critical neighbours of u, in list order.
NeighbourLabels(G, s, crit, u) ==
    LET ns == graph_neighbors(G, u)
        l == Those(ns, {i \in DOMAIN ns : ns[i] \in crit \cap s.visited})
    IN  [i \in DOMAIN l |-> s.g[l[i]]]

\* The first of them that settles the fate of label x for u.
Verdict(labels, used, m, x) ==
    LET bad == {i \in DOMAIN labels : x + labels[i] >= m \/ x + labels[i] \in used}
    IN  IF bad = {} THEN "free"
        ELSE LET i == CHOOSE i \in bad : \A j \in bad : i <= j
             IN  IF x + labels[i] >= m THEN "restart" ELSE "collision"

BiggerOf(a, b) == IF a > b THEN a ELSE b

\* Label x is given to u: its edges to labelled critical vertices are used.
SetLabel(s, labels, u, x) ==
    LET sums == {x + labels[i] : i \in DOMAIN labels}
    IN  [s EXCEPT !.g[u] = x, !.visited = @ \cup {u}, !.used = @ \cup sums,
                  !.bigG = BiggerOf(@, x),
                  !.bigE = CHOOSE y \in sums \cup {@} : \A z \in sums \cup {@} : z <= y]

\* The lookahead for a label of u: the first one after the biggest that does
\* not collide.
Lookahead(s, labels, m) ==
    CHOOSE x \in (s.bigG + 1)..(s.bigG + m + 1) :
        /\ Verdict(labels, s.used, m, x) # "collision"
        /\ \A y \in (s.bigG + 1)..(x - 1) : Verdict(labels, s.used, m, y) = "collision"

bmz_traverse_critical_nodes(s, labels, m, u) ==
    LET x == Lookahead(s, labels, m)
    IN  IF Verdict(labels, s.used, m, x) = "free" THEN SetLabel(s, labels, u, x)
        ELSE [s EXCEPT !.bigG = x - 1, !.restart = TRUE]

\* The lookahead of the heuristic: first the pool in its order, then the
\* labels after the biggest, which go to the pool when they collide.
bmz_traverse_critical_nodes_heuristic(s, labels, m, u) ==
    LET fit == {i \in DOMAIN s.pool : Verdict(labels, s.used, m, s.pool[i]) # "collision"}
        i == CHOOSE i \in fit : \A j \in fit : i <= j
        skipped == [j \in 1..(Lookahead(s, labels, m) - s.bigG - 1) |-> s.bigG + j]
    IN  CASE fit = {} ->
                [bmz_traverse_critical_nodes(s, labels, m, u) EXCEPT !.pool = @ \o skipped]
          [] fit # {} /\ Verdict(labels, s.used, m, s.pool[i]) = "free" ->
                SetLabel([s EXCEPT !.pool = Front(ReplaceAt(@, i, Last(@)))], labels, u, s.pool[i])
          [] OTHER -> [s EXCEPT !.restart = TRUE]

\* Vertex u goes to the queue, which holds cap vertices besides the one in
\* front that was taken out.
Enqueued(s, u, cap) ==
    [s EXCEPT !.queue = Append(@, u), !.full = ~s.restart /\ Len(Tail(s.queue)) = cap]

\* The next neighbour u of vertex v, which is in front of the queue.
CriticalNeighbour(G, m, crit, s, v, heuristic, cap) ==
    LET a == [s EXCEPT !.seen[v] = @ + 1]
        u == graph_neighbors(G, v)[a.seen[v]]
    IN  CASE u \notin crit \ s.visited -> a
          [] u \in crit \ s.visited /\ heuristic ->
                Enqueued(bmz_traverse_critical_nodes_heuristic(a, NeighbourLabels(G, s, crit, u), m, u),
                         u, cap)
          [] OTHER ->
                Enqueued(bmz_traverse_critical_nodes(a, NeighbourLabels(G, s, crit, u), m, u), u, cap)

\* A traversal starts with the critical vertex v.
CriticalRoot(s, v) ==
    [s EXCEPT !.g[v] = CeilDiv(s.bigE, 2) - 1, !.visited = @ \cup {v}, !.pool = <<>>,
              !.queue = <<v>>]

\* All critical vertices, in order, until one asks for a restart.
CriticalStep(G, n, crit, s, heuristic, cap) ==
    CASE s.restart \/ s.full -> s
      [] ~(s.restart \/ s.full) /\ s.queue = <<>> ->
            LET t == [s EXCEPT !.root = @ + 1]
            IN  IF s.root = n THEN s
                ELSE IF s.root \in crit \ s.visited THEN CriticalRoot(t, s.root) ELSE t
      [] OTHER ->
            LET v == Head(s.queue)
            IN  IF s.seen[v] < Len(graph_neighbors(G, v))
                THEN CriticalNeighbour(G, Len(G), crit, s, v, heuristic, cap)
                ELSE [s EXCEPT !.queue = Tail(@)]

Unlabelled(n) ==
    [g |-> [v \in 0..(n - 1) |-> 0], visited |-> {}, used |-> {}, bigG |-> 0, bigE |-> 1,
     pool |-> <<>>, restart |-> FALSE, full |-> FALSE, queue |-> <<>>,
     seen |-> [v \in 0..(n - 1) |-> 0], root |-> 0]

CriticalRounds(G, n, crit, heuristic, cap) ==
    LET round[i \in 0..Rounds(G, n)] ==
            IF i = 0 THEN Unlabelled(n)
            ELSE CriticalStep(G, n, crit, round[i - 1], heuristic, cap)
    IN  round

-----------------------------------------------------------------------------
\* Sums of the 2-core are given out again.
wrong_next_unused_edge(used, m, i) == i

\* The smallest sum from i on that no edge of the 2-core has.
next_unused_edge(used, m, i) ==
    CHOOSE j \in i..(m - 1) : j \notin used /\ \A k \in i..(j - 1) : k \in used

(***************************************************************************)
(* The other vertices, depth first as in chm; next is the number that the  *)
(* search for an unused sum starts from.  First come the trees that hang   *)
(* from labelled vertices, edge by edge, then the components that have no  *)
(* cycle, each from a root with label 0: turn counts edges and vertices.   *)
(***************************************************************************)
bmz_traverse(s, v, label) ==
    [s EXCEPT !.g[v] = label, !.visited = @ \cup {v}, !.stack = <<v>> \o @]

OtherNeighbour(G, used, s, v, word) ==
    LET t == [s EXCEPT !.seen[v] = @ + 1]
        u == graph_neighbors(G, v)[t.seen[v]]
        e == next_unused_edge(used, Len(G), s.next)
    IN  IF u \in s.visited THEN t
        ELSE bmz_traverse([t EXCEPT !.next = e + 1], u, (e + word - s.g[v]) % word)

OtherRoot(G, s) ==
    LET t == [s EXCEPT !.turn = @ + 1]
        labelled == {G[t.turn][1], G[t.turn][2]} \cap s.visited
        v == CHOOSE v \in labelled : TRUE
        i == s.turn - Len(G)
    IN  IF s.turn < Len(G)
        THEN IF Cardinality(labelled) = 1 THEN bmz_traverse(t, v, s.g[v]) ELSE t
        ELSE IF i \in s.visited THEN t ELSE bmz_traverse(t, i, 0)

OtherStep(G, n, used, s, word) ==
    CASE s.stack = <<>> -> IF s.turn = Len(G) + n THEN s ELSE OtherRoot(G, s)
      [] s.stack # <<>> ->
            LET v == Head(s.stack)
            IN  IF s.seen[v] < Len(graph_neighbors(G, v)) THEN OtherNeighbour(G, used, s, v, word)
                ELSE [s EXCEPT !.stack = Tail(@)]

\* g and visited are what the traversal of the critical vertices has left.
bmz_traverse_non_critical_nodes(G, n, g, visited, used, word) ==
    LET round[i \in 0..(Len(G) + Rounds(G, n))] ==
            IF i = 0 THEN [g |-> g, visited |-> visited, stack |-> <<>>, next |-> 0,
                           seen |-> [v \in 0..(n - 1) |-> 0], turn |-> 0]
            ELSE OtherStep(G, n, used, round[i - 1], word)
    IN  round

-----------------------------------------------------------------------------
\* The body of the mapping loop once the graph is there.  restart is what
\* the previous mapping left in restart_mapping: only a critical vertex
\* assigns it again.
LabelRest(G, n, s, again, word) ==
    [restart |-> again, full |-> s.full,
     g |-> IF again \/ s.full THEN s.g
           ELSE bmz_traverse_non_critical_nodes(G, n, s.g, s.visited, s.used, word)
                    [Len(G) + Rounds(G, n)].g]
LabelAll(G, n, crit, heuristic, cap, restart, word) ==
    LET s == CriticalRounds(G, n, crit, heuristic, cap)[Rounds(G, n)]
    IN  LabelRest(G, n, s, IF crit = {} THEN restart ELSE s.restart, word)

\* The queue of the heuristic has room for half of the critical vertices.
bmz_label(G, n, c, restart) ==
    LET crit == graph_obtain_critical_nodes(G, n)
        h == bmz_heuristic(c)
    IN  LabelAll(G, n, crit, h,
                 IF h THEN Cardinality(crit) \div 2 + 1 ELSE Cardinality(crit) + 1,
                 restart, Word)

bmz_new(keys, h, n, g) ==
    [size |-> Len(keys), data |-> [hashes |-> h, n |-> n, m |-> Len(keys), g |-> g]]

\* The search moves the second end of a key with two equal ends to n before
\* it takes it back to 0: such a key reads g[n], past the end of the array.
SearchEnds(h, k, n) ==
    LET h1 == h[1][k] % n
        h2 == h[2][k] % n
    IN  <<h1, IF h1 = h2 THEN (IF h2 + 1 > n THEN 0 ELSE h2 + 1) ELSE h2>>

SumOfLabels(g, e, word) ==
    IF e[2] \in DOMAIN g THEN (g[e[1]] + g[e[2]]) % word ELSE Garbage

bmz_search(d, k) == SumOfLabels(d.g, SearchEnds(d.hashes, k, d.n), Word)

-----------------------------------------------------------------------------
bmz_dump(d) ==
    <<U32(2)>> \o hash_state_dump(d.hashes[1]) \o hash_state_dump(d.hashes[2])
    \o <<U32(d.n), U32(d.m), Array(4, d.g)>>

bmz_load(f) ==
    [hashes |-> [i \in 1..f[1][2] |-> hash_state_load(f, 2 * i)],
     n |-> f[6][2], m |-> f[7][2], g |-> f[8][2]]

bmz_pack(d) ==
    hash_state_pack(d.hashes[1]) \o hash_state_pack(d.hashes[2])
    \o <<U32(d.n), Array(4, d.g)>>

bmz_packed_size(d) == 4 + 2 * hash_state_packed_size + 3 * 4 + 4 * d.n

bmz_search_packed(p, k) ==
    LET h2_ptr == 4 + hash_state_packed_size
        g_ptr  == h2_ptr + 4 + hash_state_packed_size
        n == At(p, g_ptr)
    IN  SumOfLabels(At(p, g_ptr + 4), SearchEnds(<<At(p, 4), At(p, h2_ptr + 4)>>, k, n), Word)
=============================================================================
