----------------------------- MODULE MCMapEmbed -----------------------------
(* Instances of MapEmbed for TLC. *)
EXTENDS BucketSlots, TLC

\* The client inserts each pair once, so a key that it inserts twice has two
\* pairs.
CONSTANTS Once, Twice, Copy

MCKeys == Once \cup Twice
MCPairs == {<<q, q>> : q \in Once} \cup (Twice \X Copy)
MCKeyOf == [x \in MCPairs |-> x[1]]

MCCells11 == (0 :> 1) @@ (1 :> 1)
MCCells12 == (0 :> 1) @@ (1 :> 2)
MCCells211 == (0 :> 2) @@ (1 :> 1) @@ (2 :> 1)

\* Keys are interchangeable, since every hash function is tried, and so are the
\* copies of a key.
MCSymmetry == Permutations(Once) \cup Permutations(Twice) \cup Permutations(Copy)

\* Every assignment of cells, and of guides from G, to the keys.  One bucket
\* hash, that spreads the cells over the buckets that two extends give a page.
HashesWithGuides(G) ==
    LET cellsOf == {f \in [Layers -> 0 .. Max({cell_number[l] : l \in Layers}) - 1] :
                        \A l \in Layers : f[l] < cell_number[l]}
        cells == {[l \in Layers |-> [q \in Key |-> f[q][l]]] : f \in [Key -> cellsOf]}
        spread == [g \in Guides |-> [a \in Cell |-> a[1] + a[2]]]
    IN  [cell : cells, guide : [Key -> G], bucket : {spread}]

MCHashes == HashesWithGuides(Guides)

\* Guides that are equal or adjacent.
MCTwoGuides == HashesWithGuides({0, 1})
=============================================================================
