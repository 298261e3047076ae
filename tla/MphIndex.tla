------------------------------- MODULE MphIndex -------------------------------
(***************************************************************************)
(* The index of the hash maps of cxxmph (cxxmph/mph_index, trigraph,       *)
(* mph_bits): the construction bdz, written anew in C++.  An index is a    *)
(* record of the fields a search reads; h gives the three numbers that     *)
(* hash128 makes of each key under the seed of the index.  Loops are       *)
(* recursive functions of the number of their rounds.                      *)
(***************************************************************************)
EXTENDS Integers, FiniteSets, SequencesExt

CONSTANTS
    NoHash,   \* the hashes of an index that was never built
    k_        \* one entry of the rank table for so many vertices: 2^b_

ASSUME IndexAssumption == k_ \in Nat \ {0}

kUnassigned == 3

Ceiling(a, b) == (a + b - 1) \div b

nextpoweroftwo(k) ==
    LET power[i \in 0..k] == IF i = 0 THEN 1 ELSE 2 * power[i - 1]
    IN  Min({p \in {power[i] : i \in 0..k} : p >= k})

\* The numbers of the elements of p that are true, in order.
Positions(p) ==
    LET T == {i \in DOMAIN p : p[i]}
    IN  [n \in 1..Cardinality(T) |-> CHOOSE i \in T : Cardinality(T \cap 1..i) = n]

\* A third of the vertices for m keys, when c_ is 1.23.
r_(m, square) ==
    LET r == Ceiling(123 * m, 300)
        odd == IF r % 2 = 0 THEN r + 1 ELSE r
    IN  IF square THEN nextpoweroftwo(odd) ELSE odd

EmptyIndex == [m |-> 0, n |-> 0, r |-> 1, h |-> NoHash, g |-> <<>>, ranktable |-> <<>>]

\* The edge of a key (perfect_square takes the same remainders by masks).
EdgeOf(h, k, r) == [i \in 1..3 |-> (h[k][i] % r) + (i - 1) * r]

-----------------------------------------------------------------------------
\* TriGraph: the degree of a vertex and the first of its edges, the newest,
\* when the edges live are left.
Touching(E, live, v) == {e \in live : \E i \in 1..3 : E[e][i] = v}
vertex_degree(E, live, v) == Cardinality(Touching(E, live, v))
first_edge(E, live, v) ==
    CHOOSE e \in Touching(E, live, v) : \A f \in Touching(E, live, v) : f <= e

\* The edge at one vertex of an edge that was removed: queued when it is the
\* last one there and was not queued before.
Queue(E, live, queue, v) ==
    IF vertex_degree(E, live, v) # 1 THEN queue
    ELSE LET e == first_edge(E, live, v) IN IF Contains(queue, e) THEN queue ELSE Append(queue, e)

\* The same for its three vertices, one after the other.
QueueAll(E, live, queue, e) ==
    Queue(E, live, Queue(E, live, Queue(E, live, queue, E[e][1]), E[e][2]), E[e][3])

\* One pass of the loop: the edge at the tail is removed.
RemoveTail(E, s) ==
    IF s.tail = Len(s.queue) THEN s
    ELSE LET e == s.queue[s.tail + 1]
             live == s.live \ {e}
         IN  [queue |-> QueueAll(E, live, s.queue, e), tail |-> s.tail + 1, live |-> live]

\* The edges that are in the queue when the loop begins.
Ready(E) ==
    Positions([e \in DOMAIN E |-> \E i \in 1..3 : vertex_degree(E, DOMAIN E, E[e][i]) = 1])

\* Edges leave the queue at most once each; the graph has no cycle when all did.
GenerateQueue(E) ==
    LET pass[i \in 0..Len(E)] ==
            IF i = 0 THEN [queue |-> Ready(E), tail |-> 0, live |-> DOMAIN E]
            ELSE RemoveTail(E, pass[i - 1])
    IN  pass[Len(E)].queue

Edges(keys, h, r) == [i \in DOMAIN keys |-> EdgeOf(h, keys[i], r)]

\* Does a seed that hashes the keys by h make a graph without a cycle?
Mapping(keys, h, square) ==
    Len(GenerateQueue(Edges(keys, h, r_(Len(keys), square)))) = Len(keys)

-----------------------------------------------------------------------------
\* The other vertices of the edge are left without a mark.
wrong_AssignEdge(s, e) ==
    LET p == IF e[1] \notin s.marked THEN 1 ELSE IF e[2] \notin s.marked THEN 2 ELSE 3
        sum == s.g[e[1]] + s.g[e[2]] + s.g[e[3]] - s.g[e[p]]
    IN  [g |-> [s.g EXCEPT ![e[p]] = (5 + p - sum) % 3], marked |-> s.marked \cup {e[p]}]

\* The first of the vertices of an edge that has no mark is the edge's: the
\* three labels then sum up to its position, modulo 3.
AssignEdge(s, e) ==
    LET p == IF e[1] \notin s.marked THEN 1 ELSE IF e[2] \notin s.marked THEN 2 ELSE 3
        sum == s.g[e[1]] + s.g[e[2]] + s.g[e[3]] - s.g[e[p]]
    IN  [g |-> [s.g EXCEPT ![e[p]] = (5 + p - sum) % 3], marked |-> s.marked \cup {e[1], e[2], e[3]}]

\* The labels fill whole bytes of four.
Unlabelled(n) ==
    [g |-> [v \in 0..(4 * Ceiling(n, 4) - 1) |-> kUnassigned], marked |-> {}]

\* The last edge removed is the first to be assigned.
Assigning(E, queue, n) ==
    LET pass[i \in 0..Len(queue)] ==
            IF i = 0 THEN Unlabelled(n)
            ELSE AssignEdge(pass[i - 1], E[queue[Len(queue) + 1 - i]])
    IN  pass[Len(queue)].g

AssignedIn(g, from, to) == Cardinality({v \in from..(to - 1) : g[v] # kUnassigned})

\* Entry i + 1 counts the assigned vertices below vertex i * k_.
Ranking(g, n) == [i \in 1..Ceiling(n, k_) |-> AssignedIn(g, 0, (i - 1) * k_)]

Rank(x, vertex) ==
    IF x.ranktable = <<>> THEN 0
    ELSE LET i == vertex \div k_
         IN  x.ranktable[i + 1] + AssignedIn(x.g, i * k_, vertex)

\* Reset, with a seed for which Mapping holds.
Reset(keys, h, square) ==
    LET r == r_(Len(keys), square)
        E == Edges(keys, h, r)
        g == Assigning(E, GenerateQueue(E), 3 * r)
    IN  [m |-> Len(keys), n |-> 3 * r, r |-> r, h |-> h, g |-> g, ranktable |-> Ranking(g, 3 * r)]

\* clear() frees the rank table and forgets nothing else.
IndexClear(x) == [x EXCEPT !.ranktable = <<>>]

perfect_hash(x, k) ==
    LET e == EdgeOf(x.h, k, x.r) IN e[((x.g[e[1]] + x.g[e[2]] + x.g[e[3]]) % 3) + 1]

minimal_perfect_hash(x, k) == Rank(x, perfect_hash(x, k))
=============================================================================
