----------------------------- MODULE UnorderedMap -----------------------------
(***************************************************************************)
(* What a hash map promises, as the "drop-in replacement" of               *)
(* cxxmph/mph_map.h promises it: a function from the keys it holds to      *)
(* their data that no operation changes but for the key it is given.  A    *)
(* map may stop the program, and may become unreliable, that is answer     *)
(* wrongly, until an operation makes it reliable again; MphMap says when.  *)
(***************************************************************************)
CONSTANTS
    Key,
    Data

VARIABLES
    contents,  \* the data of every key the map holds
    reliable,
    stopped

mapVars == <<contents, reliable, stopped>>

Contents == UNION {[S -> Data] : S \in SUBSET Key}

Init == contents = <<>> /\ reliable = TRUE /\ stopped = FALSE

\* The contents with the data d for the key k.
With(k, d) == [j \in DOMAIN contents \cup {k} |-> IF j = k THEN d ELSE contents[j]]

Insert(k, d) == k \notin DOMAIN contents /\ contents' = With(k, d)

\* operator[] and an assignment to what it returns.
Assign(k, d) == contents' = With(k, d)

Erase(k) == contents' = [j \in DOMAIN contents \ {k} |-> contents[j]]

Clear == contents' = <<>>

Operation ==
    /\ reliable
    /\ \/ \E k \in Key, d \in Data : Insert(k, d) \/ Assign(k, d)
       \/ \E k \in Key : Erase(k)
       \/ Clear
       \/ UNCHANGED contents   \* find, and whatever reorganises the map

Next ==
    /\ ~stopped
    /\ contents' \in Contents
    /\ reliable' \in BOOLEAN
    /\ stopped' \in BOOLEAN
    /\ Operation \/ ~reliable

Spec == Init /\ [][Next]_mapVars
=============================================================================
