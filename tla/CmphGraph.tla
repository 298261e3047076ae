------------------------------ MODULE CmphGraph ------------------------------
(***************************************************************************)
(* The random graph of the CMPH constructions chm, bmz and bmz8            *)
(* (cmph/src/graph.c).  Key number e of the source becomes edge e, an      *)
(* unordered pair of vertices; the code threads the edges of a vertex on   *)
(* a linked list whose head is the newest edge.                            *)
(*                                                                         *)
(* A graph is the sequence of its edges <<v1, v2>>; element e + 1 is the   *)
(* code's edge e.  The lists first/next are abstracted to what they yield: *)
(* the edges of a vertex, newest first.                                    *)
(***************************************************************************)
EXTENDS CmphFormat, SequencesExt

CONSTANT Word   \* one more than the largest unsigned integer, a label of a vertex

ASSUME WordAssumption == Word \in Nat \ {0}

graph_add_edge(G, v1, v2) == Append(G, <<v1, v2>>)

\* The edges of G, and the vertex an edge e of v leads to.
Edges(G) == DOMAIN G
Other(G, e, v) == IF G[e][1] = v THEN G[e][2] ELSE G[e][1]

\* The list first[v], next[...]: the edges of v, newest first.
EdgeList(G, v) == Reverse(InOrder({e \in Edges(G) : v \in {G[e][1], G[e][2]}}))

\* The values graph_next_neighbor returns, in the order it returns them.
graph_neighbors(G, v) == LET l == EdgeList(G, v) IN [i \in DOMAIN l |-> Other(G, l[i], v)]

\* The rounds of a traversal: a vertex is a root once and left once, and an
\* edge is looked at from both of its ends.
Rounds(G, n) == 2 * (n + Len(G))

graph_contains_edge(G, v1, v2) == \E e \in Edges(G) : {G[e][1], G[e][2]} = {v1, v2}

\* The identifier, from 0, of the newest edge between v1 and v2.
graph_edge_id(G, v1, v2) ==
    (CHOOSE e \in Edges(G) :
        /\ {G[e][1], G[e][2]} = {v1, v2}
        /\ \A f \in Edges(G) : {G[f][1], G[f][2]} = {v1, v2} => f <= e) - 1

-----------------------------------------------------------------------------
(***************************************************************************)
(* Peeling: edges of vertices of degree one are deleted.  cyclic_del_edge  *)
(* follows the chain that starts at v; the callers run it once for every   *)
(* vertex, in the order of the vertices.                                   *)
(***************************************************************************)
\* The edge find_degree1_edge reports at v: there must be exactly one that
\* is not deleted.
find_degree1_edge(G, v, deleted) ==
    {e \in Edges(G) \ deleted : v \in {G[e][1], G[e][2]}}

\* One edge of the chain that has come to vertex s.v.
NextOfChain(G, s) ==
    LET found == find_degree1_edge(G, s.v, s.deleted)
        e == CHOOSE e \in found : TRUE
    IN  IF Cardinality(found) # 1 THEN s
        ELSE [v |-> Other(G, e, s.v), deleted |-> s.deleted \cup {e}]

ChainFrom(G, v, deleted) ==
    LET chain[i \in 0..Len(G)] ==
            IF i = 0 THEN [v |-> v, deleted |-> deleted] ELSE NextOfChain(G, chain[i - 1])
    IN  chain
cyclic_del_edge(G, v, deleted) == ChainFrom(G, v, deleted)[Len(G)].deleted

\* What one pass over the vertices 0 .. n - 1 deletes.
Pass(G, n) ==
    LET pass[i \in 0..n] ==
            IF i = 0 THEN {}
            ELSE LET deleted == pass[i - 1]
                 IN  IF deleted = Edges(G) THEN deleted ELSE cyclic_del_edge(G, i - 1, deleted)
    IN  pass
DeletedUpTo(G, n) == Pass(G, n)[n]

graph_is_cyclic(G, n) == Edges(G) \ DeletedUpTo(G, n) # {}

\* The vertices of the edges that peeling leaves.
graph_obtain_critical_nodes(G, n) ==
    UNION {{G[e][1], G[e][2]} : e \in Edges(G) \ DeletedUpTo(G, n)}

-----------------------------------------------------------------------------
(***************************************************************************)
(* Reference definition: the 2-core of a graph is the largest set of edges *)
(* in which every vertex of an edge has degree at least two.               *)
(***************************************************************************)
TwoCore(G) ==
    UNION {S \in SUBSET Edges(G) :
              \A e \in S : \A v \in {G[e][1], G[e][2]} :
                  \E f \in S \ {e} : v \in {G[f][1], G[f][2]}}
=============================================================================
